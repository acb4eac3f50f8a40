----------------------------- MODULE NodeHost_proofs -----------------------------
(***************************************************************************)
(* Proofs about both layers of the Node adapter.                           *)
(*                                                                         *)
(* First the transport (NodeLoop), for every set of requests and every     *)
(* number of processes: the two ends of the pipes agree on what lies       *)
(* between them, nobody is forgotten, and every request is settled once    *)
(* and with its own answer, whatever dies.  Then the bootstrap             *)
(* (NodeBootstrap), for every set of transports, runs, callers and         *)
(* subscriptions, and every number of candidates.                          *)
(***************************************************************************)
EXTENDS NodeHost, FiniteSetTheorems, SequenceTheorems, WellFoundedInduction, TLAPS

-----------------------------------------------------------------------------
(* What the pickings of NodeLoop (Without, Answers) do to a sequence.      *)

\* The Cardinality of the instance is that of the theorems.
LEMMA RankIs ==
  ASSUME NEW I, NEW i PROVE Loop!Rank(I, i) = Cardinality({j \in I : j <= i})
  BY DEF Loop!Rank, Loop!Cardinality, Cardinality

\* Likewise for what is picked.
LEMMA PickedIs ==
  ASSUME NEW s, NEW I
  PROVE  Loop!Picked(s, I) = [k \in 1..Cardinality(I) |-> s[CHOOSE i \in I : Loop!Rank(I, i) = k]]
  BY DEF Loop!Picked, Loop!Cardinality, Cardinality

\* Every index has a rank within the set.
LEMMA RankRange ==
  ASSUME NEW I \in SUBSET Int, IsFiniteSet(I), NEW i \in I
  PROVE  Loop!Rank(I, i) \in 1..Cardinality(I)
  <1> DEFINE B == {j \in I : j <= i}
  <1>1. B \in SUBSET I /\ i \in B
    OBVIOUS
  <1>2. IsFiniteSet(B) /\ Cardinality(B) <= Cardinality(I)
    BY <1>1, FS_Subset
  <1>3. Cardinality(B) \in Nat /\ Cardinality(I) \in Nat /\ Cardinality(B) # 0
    BY <1>1, <1>2, FS_CardinalityType, FS_EmptySet
  <1> QED BY <1>2, <1>3, RankIs

\* The ranks are in the order of the indices.
LEMMA RankGrows ==
  ASSUME NEW I \in SUBSET Int, IsFiniteSet(I), NEW i \in I, NEW j \in I, i < j
  PROVE  Loop!Rank(I, i) < Loop!Rank(I, j)
  <1> DEFINE B == {k \in I : k <= i}
             C == {k \in I : k <= j}
  <1> i \in Int /\ j \in Int
    OBVIOUS
  <1>0. ASSUME NEW k \in I, k <= i PROVE k <= j
    <2> k \in Int
      OBVIOUS
    <2> QED BY <1>0
  <1>1. C \in SUBSET I /\ B \in SUBSET C /\ j \in C /\ j \notin B
    <2>1. C \in SUBSET I /\ j \in C /\ j \notin B
      OBVIOUS
    <2>2. B \in SUBSET C
      BY <1>0
    <2> QED BY <2>1, <2>2
  <1>2. IsFiniteSet(C) /\ IsFiniteSet(B) /\ Cardinality(B) <= Cardinality(C) /\ Cardinality(B) # Cardinality(C)
    BY <1>1, FS_Subset
  <1>3. Cardinality(B) \in Nat /\ Cardinality(C) \in Nat
    BY <1>2, FS_CardinalityType
  <1> QED BY <1>2, <1>3, RankIs

\* Every rank is taken.
LEMMA RankOnto ==
  ASSUME NEW I \in SUBSET Int, IsFiniteSet(I), NEW k \in 1..Cardinality(I)
  PROVE  \E i \in I : Loop!Rank(I, i) = k
  <1> DEFINE f == [i \in I |-> Loop!Rank(I, i)]
             T == 1..Cardinality(I)
  <1>1. f \in [I -> T]
    BY RankRange
  <1>2. \A i, j \in I : f[i] = f[j] => i = j
    <2> SUFFICES ASSUME NEW i \in I, NEW j \in I, i < j \/ j < i PROVE f[i] # f[j]
      OBVIOUS
    <2>1. f[i] < f[j] \/ f[j] < f[i]
      BY RankGrows
    <2> QED BY <2>1, <1>1
  <1>3. Cardinality(I) \in Nat
    BY FS_CardinalityType
  <1>4. IsFiniteSet(T) /\ Cardinality(T) = Cardinality(I)
    BY <1>3, FS_Interval
  <1>5. f \in Injection(I, T)
    BY <1>1, <1>2 DEF Injection, IsInjective
  <1>6. f \in Surjection(I, T)
    BY <1>4, <1>5, FS_Injection
  <1> QED BY <1>6 DEF Surjection

\* So what is picked lies at its rank.
LEMMA PickedAt ==
  ASSUME NEW s, NEW I \in SUBSET Int, IsFiniteSet(I)
  PROVE  /\ DOMAIN Loop!Picked(s, I) = 1..Cardinality(I)
         /\ \A i \in I : Loop!Picked(s, I)[Loop!Rank(I, i)] = s[i]
         /\ \A k \in 1..Cardinality(I) :
              \E i \in I : Loop!Rank(I, i) = k /\ Loop!Picked(s, I)[k] = s[i]
  <1>1. DOMAIN Loop!Picked(s, I) = 1..Cardinality(I)
    BY PickedIs
  <1>2. ASSUME NEW i \in I PROVE Loop!Picked(s, I)[Loop!Rank(I, i)] = s[i]
    <2> DEFINE c == CHOOSE j \in I : Loop!Rank(I, j) = Loop!Rank(I, i)
    <2>1. c \in I /\ Loop!Rank(I, c) = Loop!Rank(I, i)
      OBVIOUS
    <2>2. c = i
      <3> HIDE DEF c
      <3>1. c \in Int /\ i \in Int /\ Loop!Rank(I, i) \in Int
        BY <2>1, RankRange
      <3>2. ~ (c < i) /\ ~ (i < c)
        BY <2>1, <3>1, RankGrows
      <3> QED BY <3>1, <3>2
    <2>3. Loop!Picked(s, I)[Loop!Rank(I, i)] = s[c]
      BY RankRange, PickedIs
    <2> QED BY <2>2, <2>3
  <1>3. ASSUME NEW k \in 1..Cardinality(I)
        PROVE  \E i \in I : Loop!Rank(I, i) = k /\ Loop!Picked(s, I)[k] = s[i]
    <2>1. PICK i \in I : Loop!Rank(I, i) = k
      BY RankOnto
    <2> QED BY <1>2, <2>1
  <1> QED BY <1>1, <1>2, <1>3

\* A sequence with the picked elements at their ranks is what is picked.
LEMMA PickedUnique ==
  ASSUME NEW S, NEW s, NEW I \in SUBSET Int, IsFiniteSet(I), NEW t \in Seq(S),
         Len(t) = Cardinality(I), \A i \in I : t[Loop!Rank(I, i)] = s[i]
  PROVE  Loop!Picked(s, I) = t
  <1>1. ASSUME NEW k \in 1..Cardinality(I) PROVE Loop!Picked(s, I)[k] = t[k]
    <2>1. PICK i \in I : Loop!Rank(I, i) = k /\ Loop!Picked(s, I)[k] = s[i]
      BY PickedAt
    <2> QED BY <2>1
  <1>2. t \in [1..Cardinality(I) -> S]
    BY LenProperties
  <1>3. Loop!Picked(s, I) = [k \in 1..Cardinality(I) |-> Loop!Picked(s, I)[k]]
    BY PickedIs
  <1>4. t = [k \in 1..Cardinality(I) |-> t[k]]
    BY <1>2
  <1> QED BY <1>1, <1>3, <1>4, Zenon

\* What is picked, as a set and in order.
LEMMA PickedSeq ==
  ASSUME NEW S, NEW s \in Seq(S), NEW I \in SUBSET (1..Len(s))
  PROVE  /\ Loop!Picked(s, I) \in Seq(S)
         /\ Len(Loop!Picked(s, I)) = Cardinality(I)
         /\ Loop!Elements(Loop!Picked(s, I)) = {s[i] : i \in I}
         /\ IsFiniteSet(I) /\ I \in SUBSET Int /\ Cardinality(I) \in Nat
  <1> DEFINE t == Loop!Picked(s, I)
  <1>1. /\ IsFiniteSet(I) /\ I \in SUBSET Int /\ Cardinality(I) \in Nat
        /\ \A i \in I : s[i] \in S
    <2>1. Len(s) \in Nat /\ IsFiniteSet(1..Len(s))
      BY FS_Interval
    <2>2. IsFiniteSet(I)
      BY <2>1, FS_Subset
    <2>3. Cardinality(I) \in Nat
      BY <2>2, FS_CardinalityType
    <2>4. I \in SUBSET Int /\ \A i \in I : s[i] \in S
      BY <2>1
    <2> QED BY <2>2, <2>3, <2>4
  <1>2. /\ DOMAIN t = 1..Cardinality(I)
        /\ \A i \in I : t[Loop!Rank(I, i)] = s[i]
        /\ \A k \in 1..Cardinality(I) : \E i \in I : t[k] = s[i]
    BY <1>1, PickedAt
  <1>3. t = [k \in 1..Cardinality(I) |-> s[CHOOSE i \in I : Loop!Rank(I, i) = k]]
    BY PickedIs
  <1> HIDE DEF t
  <1>4. t \in [1..Cardinality(I) -> S]
    BY <1>1, <1>2, <1>3
  <1>5. t \in Seq(S) /\ Len(t) = Cardinality(I)
    BY <1>1, <1>4
  <1>6. Loop!Elements(t) = {s[i] : i \in I}
    <2>1. ASSUME NEW i \in I PROVE Loop!Rank(I, i) \in 1..Len(t)
      BY <1>1, <1>5, RankRange
    <2> QED BY <1>2, <1>5, <2>1 DEF Loop!Elements
  <1> QED BY <1>1, <1>5, <1>6 DEF t

\* Picking the whole of t gives t.
LEMMA PickedAll ==
  ASSUME NEW S, NEW s \in Seq(S), NEW t \in Seq(S), NEW I \in SUBSET Int, I = 1..Len(t),
         \A i \in I : t[i] = s[i]
  PROVE  Loop!Picked(s, I) = t
  <1>1. Len(t) \in Nat
    OBVIOUS
  <1>2. \A n \in Nat : IsFiniteSet(1..n) /\ Cardinality(1..n) = n
    BY FS_Interval
  <1>3. IsFiniteSet(I) /\ Cardinality(I) = Len(t)
    BY <1>1, <1>2
  <1>4. ASSUME NEW i \in I PROVE Loop!Rank(I, i) = i
    <2>1. {j \in I : j <= i} = 1..i /\ i \in Nat
      BY <1>1
    <2> QED BY <1>2, <2>1, RankIs
  <1> QED BY <1>3, <1>4, PickedUnique

\* One more element at the end is picked or not.
LEMMA PickedAppend ==
  ASSUME NEW S, NEW s \in Seq(S), NEW e \in S, NEW I \in SUBSET (1..Len(s))
  PROVE  /\ Loop!Picked(Append(s, e), I) = Loop!Picked(s, I)
         /\ Loop!Picked(Append(s, e), I \cup {Len(s) + 1}) = Append(Loop!Picked(s, I), e)
  <1> DEFINE t == Loop!Picked(s, I)
             n == Len(s) + 1
             J == I \cup {n}
             u == Append(t, e)
  <1>1. /\ t \in Seq(S) /\ Len(t) = Cardinality(I)
        /\ IsFiniteSet(I) /\ I \in SUBSET Int /\ Cardinality(I) \in Nat
    BY PickedSeq
  <1>2. Len(s) \in Nat /\ n \in Int /\ n \notin I /\ J \in SUBSET Int /\ \A i \in I : i \in Int /\ i < n
    <2>1. Len(s) \in Nat /\ n \in Int
      OBVIOUS
    <2>2. \A i \in I : i \in Int /\ i < n
      BY <2>1
    <2> HIDE DEF n
    <2> QED BY <2>1, <2>2
  <1>3. IsFiniteSet(J) /\ Cardinality(J) = Cardinality(I) + 1
    BY <1>1, <1>2, FS_AddElement
  <1>4. \A i \in I : t[Loop!Rank(I, i)] = s[i] /\ Loop!Rank(I, i) \in 1..Len(t)
    BY <1>1, PickedAt, RankRange
  <1>5. \A i \in I : Append(s, e)[i] = s[i]
    OBVIOUS
  <1>6. Loop!Picked(Append(s, e), I) = t
    <2> HIDE DEF t
    <2>1. \A i \in I : t[Loop!Rank(I, i)] = Append(s, e)[i]
      BY <1>4, <1>5
    <2> QED BY <1>1, <2>1, PickedUnique
  <1> HIDE DEF t
  <1>7. ASSUME NEW i \in I PROVE Loop!Rank(J, i) = Loop!Rank(I, i)
    <2>1. {j \in J : j <= i} = {j \in I : j <= i}
      BY <1>2
    <2> QED BY <2>1, RankIs
  <1>8. Loop!Rank(J, n) = Len(t) + 1
    <2>1. {j \in J : j <= n} = J
      BY <1>2
    <2> QED BY <1>1, <1>3, <2>1, RankIs
  <1>9. /\ u \in Seq(S) /\ Len(u) = Cardinality(J)
        /\ \A i \in J : u[Loop!Rank(J, i)] = Append(s, e)[i]
    <2>1. u \in Seq(S) /\ Len(u) = Cardinality(J)
      BY <1>1, <1>3
    <2>2. u[Loop!Rank(J, n)] = Append(s, e)[n]
      BY <1>1, <1>8
    <2>3. ASSUME NEW i \in I PROVE u[Loop!Rank(J, i)] = Append(s, e)[i]
      <3>1. u[Loop!Rank(I, i)] = t[Loop!Rank(I, i)]
        BY <1>1, <1>4
      <3> QED BY <1>4, <1>5, <1>7, <3>1
    <2> QED BY <2>1, <2>2, <2>3
  <1>10. Loop!Picked(Append(s, e), J) = u
    <2> HIDE DEF u, J
    <2> QED BY <1>2, <1>3, <1>9, PickedUnique
  <1> QED BY <1>6, <1>10 DEF t

\* Likewise for the element at the head.
LEMMA PickedTail ==
  ASSUME NEW S, NEW s \in Seq(S), s # << >>, NEW I \in SUBSET (2..Len(s))
  PROVE  LET t == Loop!Picked(Tail(s), {i - 1 : i \in I})
         IN  /\ Loop!Picked(s, I) = t
             /\ Loop!Picked(s, {1} \cup I) = <<Head(s)>> \o t
  <1> DEFINE J == {i - 1 : i \in I}
             t == Loop!Picked(Tail(s), J)
             K == {1} \cup I
             u == <<Head(s)>> \o t
  <1>1. /\ Tail(s) \in Seq(S) /\ Len(s) \in Nat /\ Len(Tail(s)) = Len(s) - 1 /\ Head(s) = s[1]
        /\ Head(s) \in S /\ \A i \in 1..Len(Tail(s)) : Tail(s)[i] = s[i + 1]
    OBVIOUS
  <1>2. J \in SUBSET (1..Len(Tail(s)))
    BY <1>1
  <1>3. /\ t \in Seq(S) /\ Len(t) = Cardinality(J)
        /\ IsFiniteSet(J) /\ J \in SUBSET Int /\ Cardinality(J) \in Nat
    <2> HIDE DEF J
    <2> QED BY <1>1, <1>2, PickedSeq
  <1>4. ASSUME NEW A \in SUBSET Int, IsFiniteSet(A)
        PROVE  IsFiniteSet({a + 1 : a \in A}) /\ Cardinality({a + 1 : a \in A}) = Cardinality(A)
    <2> DEFINE B == {a + 1 : a \in A}
               f == [a \in A |-> a + 1]
    <2>1. f \in Bijection(A, B)
      BY DEF Bijection, Injection, Surjection, IsInjective
    <2> QED BY <1>4, <2>1, FS_Bijection DEF ExistsBijection
  <1>5. I = {j + 1 : j \in J} /\ I \in SUBSET Int /\ 1 \notin I /\ \A i \in I : i > 1
    <2>1. \A i \in I : i \in Int /\ i > 1 /\ i = (i - 1) + 1 /\ i - 1 \in J
      BY <1>1
    <2>2. \A j \in J : \E i \in I : j = i - 1
      OBVIOUS
    <2>3. \A j \in J : j + 1 \in I
      BY <2>1, <2>2
    <2>4. I = {j + 1 : j \in J}
      <3> HIDE DEF J
      <3> QED BY <2>1, <2>3
    <2> QED BY <2>1, <2>4
  <1>6. IsFiniteSet(I) /\ Cardinality(I) = Cardinality(J)
    BY <1>3, <1>4, <1>5
  <1>7. ASSUME NEW i \in I PROVE Loop!Rank(I, i) = Loop!Rank(J, i - 1) /\ i - 1 \in J /\ s[i] = Tail(s)[i - 1]
    <2> DEFINE A == {j \in J : j <= i - 1}
    <2>1. A \in SUBSET Int /\ A \in SUBSET J /\ i \in Int
      BY <1>3, <1>5
    <2>2. IsFiniteSet(A)
      BY <1>3, <2>1, FS_Subset
    <2>3. {j \in I : j <= i} = {a + 1 : a \in A}
      <3>1. ASSUME NEW j \in I, j <= i PROVE j - 1 \in A /\ j = (j - 1) + 1
        BY <2>1, <3>1
      <3>2. ASSUME NEW a \in A PROVE a + 1 \in I /\ a + 1 <= i
        BY <1>5, <2>1
      <3> QED BY <3>1, <3>2
    <2>4. Loop!Rank(I, i) = Loop!Rank(J, i - 1)
      <3> HIDE DEF J
      <3> QED BY <1>4, <2>1, <2>2, <2>3, RankIs
    <2>5. i - 1 \in J /\ s[i] = Tail(s)[i - 1]
      <3>1. i - 1 \in J /\ i - 1 \in 1..Len(Tail(s)) /\ i = (i - 1) + 1
        BY <1>2
      <3> QED BY <1>1, <3>1
    <2> QED BY <2>4, <2>5
  <1>8. \A j \in J : t[Loop!Rank(J, j)] = Tail(s)[j] /\ Loop!Rank(J, j) \in 1..Len(t)
    BY <1>3, PickedAt, RankRange
  <1>9. Loop!Picked(s, I) = t
    <2> HIDE DEF J, t
    <2>1. \A i \in I : t[Loop!Rank(I, i)] = s[i]
      BY <1>7, <1>8
    <2> QED BY <1>3, <1>5, <1>6, <2>1, PickedUnique
  <1>10. IsFiniteSet(K) /\ K \in SUBSET Int /\ Cardinality(K) = Cardinality(I) + 1
    BY <1>5, <1>6, FS_AddElement
  <1>11. ASSUME NEW i \in I PROVE Loop!Rank(K, i) = Loop!Rank(I, i) + 1
    <2> DEFINE A == {j \in I : j <= i}
    <2>1. {j \in K : j <= i} = A \cup {1} /\ 1 \notin A /\ A \in SUBSET I
      BY <1>5
    <2>2. IsFiniteSet(A)
      BY <1>6, <2>1, FS_Subset
    <2> QED BY <2>1, <2>2, RankIs, FS_AddElement
  <1>12. Loop!Rank(K, 1) = 1
    <2>1. {j \in K : j <= 1} = {1}
      BY <1>5
    <2> QED BY <2>1, RankIs, FS_Singleton
  <1>13. /\ u \in Seq(S) /\ Len(u) = Cardinality(K)
         /\ \A i \in K : u[Loop!Rank(K, i)] = s[i]
    <2> HIDE DEF J, t
    <2>1. u \in Seq(S) /\ Len(u) = Cardinality(K)
      BY <1>1, <1>3, <1>6, <1>10
    <2>2. u[1] = Head(s) /\ \A k \in 1..Len(t) : u[k + 1] = t[k]
      BY <1>1, <1>3
    <2>3. u[Loop!Rank(K, 1)] = s[1]
      BY <1>1, <1>12, <2>2
    <2>4. ASSUME NEW i \in I PROVE u[Loop!Rank(K, i)] = s[i]
      <3>1. Loop!Rank(J, i - 1) \in 1..Len(t) /\ t[Loop!Rank(J, i - 1)] = s[i]
        BY <1>7, <1>8
      <3>2. Loop!Rank(K, i) = Loop!Rank(J, i - 1) + 1
        BY <1>7, <1>11
      <3> QED BY <2>2, <3>1, <3>2
    <2> QED BY <2>1, <2>3, <2>4
  <1>14. Loop!Picked(s, K) = u
    <2> HIDE DEF u, K
    <2> QED BY <1>10, <1>13, PickedUnique
  <1> QED BY <1>9, <1>14

-----------------------------------------------------------------------------
(* The inductive invariant of the transport.                               *)

Hi == Loop!Line(Hello)

\* The request of the handshake is on its way, and alone.
HelloIn(p) ==
  \/ queued[p] = <<Hi>> /\ stdin[p] = << >>
  \/ queued[p] = << >> /\ stdin[p] = <<Hi>>

AnyRequest == Requests \cup {Hello, NoRequest}
AnswersOf(s) == Loop!RequestsOf(Loop!Answers(s))
Sent(p) == Loop!Elements(queued[p]) \cup Loop!Elements(stdin[p])
Distinct(s) == \A i, j \in 1..Len(s) : s[i] = s[j] => i = j

\* What lies between the ends is in the format the runtime reads; until the runtime has
\* answered the handshake nothing else is on its way.
PipesInv(p) ==
  /\ status[p] = "unborn" =>
       queued[p] = << >> /\ stdin[p] = << >> /\ stdout[p] = << >> /\ speaks[p] = "lines"
  /\ \A m \in Sent(p) :
       /\ m.format = IF speaks[p] = "frames" THEN "binary" ELSE "ndjson"
       /\ m.request = Hello => HelloIn(p)
  /\ \A x \in Loop!Elements(stdout[p]) :
       /\ HelloIn(p) => x.kind \in {"push", "junk"}
       /\ x.request = Hello <=> x.kind \in {"binary", "plain", "refused"}
       /\ x.kind = "answer" => x.request \in Requests
       /\ x.kind = "binary" => speaks[p] = "frames"
       /\ x.kind \in {"plain", "refused"} => speaks[p] = "lines"
  /\ HelloIn(p) => speaks[p] # "frames"
  /\ speaks[p] = "switching" /\ status[p] = "running" => stdin[p] = <<Hi>>
  /\ ~codecs => speaks[p] = "lines" /\ ~HelloIn(p)

Ahead(a, bq) == Len(a) <= Len(bq) /\ \A k \in 1..Len(a) : bq[k] = a[k]

\* The waiters are those whose answers come, in this order.
Coming(p) ==
  IF status[p] = "exited" THEN Ahead(AnswersOf(stdout[p]), binQueue)
  ELSE binQueue = AnswersOf(stdout[p]) \o Loop!RequestsOf(stdin[p]) \o Loop!RequestsOf(queued[p])

\* What the transport believes of its process.
ChildInv(p) ==
  /\ status[p] # "unborn"
  /\ mode = "binary" => handshake = "ready" /\ Coming(p)
  /\ handshake = "pending" =>
       /\ \A m \in Sent(p) : m.request = Hello
       /\ \A x \in Loop!Elements(stdout[p]) : x.kind # "answer"
  /\ handshake = "ready" => ~HelloIn(p) /\ speaks[p] = IF mode = "binary" THEN "frames" ELSE "lines"

ProcInv(p) ==
  /\ PipesInv(p)
  /\ child = p => ChildInv(p)
  /\ status[p] = "running" /\ child # p => killed[p]

\* What the transport believes of itself: a promise is in one place, and answers once.
ClientInv ==
  /\ ~codecs => handshake = "none" /\ mode = "ndjson"
  /\ handshake = "pending" <=> Hello \in pending
  /\ mode = "ndjson" => binQueue = << >>
  /\ Loop!NoneForgotten
  /\ Distinct(waiting) /\ Distinct(binQueue)
  /\ \A r \in Requests : fate[r] \in {"idle", "waiting"} => answer[r] = NoRequest

LoopInv == Loop!TypeOK /\ ClientInv /\ \A p \in Loop!Procs : ProcInv(p)

\* What a sequence holds.
LEMMA ElementsAre ==
  ASSUME NEW S, NEW s \in Seq(S)
  PROVE  /\ Loop!Elements(s) \subseteq S
         /\ s = << >> <=> Loop!Elements(s) = {}
         /\ \A i \in 1..Len(s) : s[i] \in Loop!Elements(s)
  <1>1. s # << >> => 1 \in 1..Len(s)
    BY EmptySeq
  <1>2. Len(<< >>) = 0
    OBVIOUS
  <1>3. \A i \in 1..Len(s) : s[i] \in S
    OBVIOUS
  <1>4. \A i \in 1..Len(s) : s[i] \in Loop!Elements(s)
    BY DEF Loop!Elements
  <1>5. s = << >> => Loop!Elements(s) = {}
    BY <1>2 DEF Loop!Elements
  <1>6. s # << >> => Loop!Elements(s) # {}
    BY <1>1, <1>4
  <1>7. Loop!Elements(s) \subseteq S
    BY <1>3 DEF Loop!Elements
  <1> QED BY <1>4, <1>5, <1>6, <1>7

\* What it holds with one more element.
LEMMA ElementsAppend ==
  ASSUME NEW S, NEW s \in Seq(S), NEW e \in S
  PROVE  /\ Append(s, e) \in Seq(S) /\ Append(s, e) # << >>
         /\ Loop!Elements(Append(s, e)) = Loop!Elements(s) \cup {e}
         /\ e \notin Loop!Elements(s) /\ Distinct(s) => Distinct(Append(s, e))
  <1> DEFINE t == Append(s, e)
  <1>1. /\ t \in Seq(S) /\ Len(t) = Len(s) + 1 /\ Len(s) \in Nat
        /\ t[Len(s) + 1] = e /\ \A i \in 1..Len(s) : t[i] = s[i]
    OBVIOUS
  <1> HIDE DEF t
  <1>2. Loop!Elements(t) = Loop!Elements(s) \cup {e}
    <2>1. \A i \in 1..Len(t) : i \in 1..Len(s) \/ i = Len(s) + 1
      BY <1>1
    <2>2. \A i \in 1..Len(s) : i \in 1..Len(t)
      BY <1>1
    <2>3. Len(s) + 1 \in 1..Len(t)
      BY <1>1
    <2> QED BY <1>1, <2>1, <2>2, <2>3 DEF Loop!Elements
  <1>3. e \notin Loop!Elements(s) /\ Distinct(s) => Distinct(t)
    BY <1>1 DEF Loop!Elements, Distinct
  <1>4. t # << >>
    BY <1>1
  <1> QED BY <1>1, <1>2, <1>3, <1>4 DEF t

\* What it holds without its head.
LEMMA ElementsTail ==
  ASSUME NEW S, NEW s \in Seq(S), s # << >>
  PROVE  /\ Tail(s) \in Seq(S) /\ Head(s) \in Loop!Elements(s)
         /\ Loop!Elements(Tail(s)) \subseteq Loop!Elements(s)
         /\ Loop!Elements(s) = Loop!Elements(Tail(s)) \cup {Head(s)}
         /\ Distinct(s) => Distinct(Tail(s)) /\ Head(s) \notin Loop!Elements(Tail(s))
  <1> DEFINE t == Tail(s)
  <1>1. /\ t \in Seq(S) /\ Len(s) = Len(t) + 1 /\ Len(t) \in Nat
        /\ s[1] = Head(s) /\ \A i \in 1..Len(t) : t[i] = s[i + 1]
    OBVIOUS
  <1> HIDE DEF t
  <1>2. 1 \in 1..Len(s) /\ \A i \in 1..Len(t) : i + 1 \in 1..Len(s) /\ i + 1 # 1
    BY <1>1
  <1>3. \A i \in 1..Len(s) : i = 1 \/ (i - 1 \in 1..Len(t) /\ i = (i - 1) + 1)
    BY <1>1
  <1>4. Loop!Elements(s) = Loop!Elements(t) \cup {Head(s)}
    <2>1. ASSUME NEW i \in 1..Len(s) PROVE s[i] \in Loop!Elements(t) \cup {Head(s)}
      <3>1. i # 1 => s[i] = t[i - 1] /\ i - 1 \in 1..Len(t)
        BY <1>1, <1>3
      <3> QED BY <1>1, <3>1 DEF Loop!Elements
    <2>2. ASSUME NEW i \in 1..Len(t) PROVE t[i] \in Loop!Elements(s)
      BY <1>1, <1>2 DEF Loop!Elements
    <2>3. Head(s) \in Loop!Elements(s)
      BY <1>1, <1>2 DEF Loop!Elements
    <2> QED BY <2>1, <2>2, <2>3 DEF Loop!Elements
  <1>5. ASSUME Distinct(s) PROVE Distinct(t) /\ Head(s) \notin Loop!Elements(t)
    <2>1. Distinct(t)
      <3> SUFFICES ASSUME NEW i \in 1..Len(t), NEW j \in 1..Len(t), t[i] = t[j] PROVE i = j
        BY DEF Distinct
      <3>1. i + 1 = j + 1
        BY <1>1, <1>2, <1>5 DEF Distinct
      <3> QED BY <3>1
    <2>2. ASSUME NEW i \in 1..Len(t) PROVE t[i] # Head(s)
      BY <1>1, <1>2, <1>5 DEF Distinct
    <2> QED BY <2>1, <2>2 DEF Loop!Elements
  <1> QED BY <1>1, <1>4, <1>5 DEF t

\* What two of them hold together.
LEMMA ElementsConcat ==
  ASSUME NEW S, NEW s \in Seq(S), NEW t \in Seq(S)
  PROVE  Loop!Elements(s \o t) = Loop!Elements(s) \cup Loop!Elements(t)
  <1> DEFINE u == s \o t
  <1>1. /\ Len(u) = Len(s) + Len(t) /\ Len(s) \in Nat /\ Len(t) \in Nat
        /\ \A i \in 1..Len(s) : u[i] = s[i]
        /\ \A i \in 1..Len(t) : u[Len(s) + i] = t[i]
    OBVIOUS
  <1> HIDE DEF u
  <1>2. \A i \in 1..Len(u) : i \in 1..Len(s) \/ (i - Len(s) \in 1..Len(t) /\ i = Len(s) + (i - Len(s)))
    BY <1>1
  <1>3. (\A i \in 1..Len(s) : i \in 1..Len(u)) /\ (\A i \in 1..Len(t) : Len(s) + i \in 1..Len(u))
    BY <1>1
  <1>4. Loop!Elements(u) = Loop!Elements(s) \cup Loop!Elements(t)
    <2>1. ASSUME NEW i \in 1..Len(u) PROVE u[i] \in Loop!Elements(s) \cup Loop!Elements(t)
      <3>1. CASE i \in 1..Len(s)
        BY <1>1, <3>1 DEF Loop!Elements
      <3>2. CASE i - Len(s) \in 1..Len(t) /\ i = Len(s) + (i - Len(s))
        <4>1. u[i] = t[i - Len(s)]
          BY <1>1, <3>2
        <4> QED BY <3>2, <4>1 DEF Loop!Elements
      <3> QED BY <1>2, <3>1, <3>2
    <2>2. \A i \in 1..Len(s) : s[i] \in Loop!Elements(u)
      BY <1>1, <1>3 DEF Loop!Elements
    <2>3. \A i \in 1..Len(t) : t[i] \in Loop!Elements(u)
      BY <1>1, <1>3 DEF Loop!Elements
    <2> QED BY <2>1, <2>2, <2>3 DEF Loop!Elements
  <1> QED BY <1>4 DEF u

\* The shortest sequences.
LEMMA ElementsOne ==
  ASSUME NEW e
  PROVE  Loop!Elements(<<e>>) = {e} /\ Loop!Elements(<< >>) = {}
  BY DEF Loop!Elements

-----------------------------------------------------------------------------
(* The requests on their way, as sequences.                                *)

\* The answers in an output.
LEMMA AnswersType ==
  ASSUME NEW s \in Seq(Loop!Outputs)
  PROVE  /\ Loop!Answers(s) \in Seq(Loop!Outputs)
         /\ AnswersOf(s) \in Seq(AnyRequest)
         /\ (\A o \in Loop!Elements(s) : o.kind # "answer") => AnswersOf(s) = << >>
  <1> DEFINE I == {i \in 1..Len(s) : s[i].kind = "answer"}
             t == Loop!Picked(s, I)
  <1>1. Loop!Answers(s) = t
    BY DEF Loop!Answers
  <1>2. I \in SUBSET (1..Len(s))
    OBVIOUS
  <1>3. t \in Seq(Loop!Outputs) /\ Loop!Elements(t) = {s[i] : i \in I}
    <2> HIDE DEF I
    <2> QED BY <1>2, PickedSeq
  <1>4. Loop!RequestsOf(t) \in Seq(AnyRequest)
    <2> HIDE DEF t
    <2>1. \A i \in 1..Len(t) : t[i] \in Loop!Outputs
      BY <1>3
    <2>2. \A i \in 1..Len(t) : t[i].request \in AnyRequest
      BY <2>1 DEF Loop!Outputs, AnyRequest
    <2> QED BY <1>3, <2>2 DEF Loop!RequestsOf
  <1>5. ASSUME \A o \in Loop!Elements(s) : o.kind # "answer" PROVE Loop!RequestsOf(t) = << >>
    <2>1. I = {}
      BY <1>5 DEF Loop!Elements
    <2>2. t = << >>
      <3> HIDE DEF I, t
      <3>1. Loop!Elements(t) = {}
        BY <1>3, <2>1
      <3> QED BY <1>3, <3>1, ElementsAre
    <2> HIDE DEF t
    <2> QED BY <2>2 DEF Loop!RequestsOf
  <1> HIDE DEF t
  <1> QED BY <1>1, <1>3, <1>4, <1>5 DEF AnswersOf

\* The requests of a sequence with one more element.
LEMMA RequestsAppend ==
  ASSUME NEW S, NEW s \in Seq(S), NEW e \in S, \A x \in S : x.request \in AnyRequest
  PROVE  /\ Loop!RequestsOf(Append(s, e)) = Append(Loop!RequestsOf(s), e.request)
         /\ Loop!RequestsOf(s) \in Seq(AnyRequest)
         /\ Loop!RequestsOf(<< >>) = << >>
         /\ Len(Loop!RequestsOf(s)) = Len(s)
         /\ \A i \in 1..Len(s) : Loop!RequestsOf(s)[i] = s[i].request
  <1> DEFINE t == Append(s, e)
             q == Loop!RequestsOf(s)
  <1>1. /\ t \in Seq(S) /\ Len(t) = Len(s) + 1 /\ Len(s) \in Nat
        /\ t[Len(s) + 1] = e /\ \A i \in 1..Len(s) : t[i] = s[i]
    OBVIOUS
  <1>2. q \in Seq(AnyRequest) /\ Len(q) = Len(s) /\ \A i \in 1..Len(s) : q[i] = s[i].request
    <2>1. \A i \in 1..Len(s) : s[i].request \in AnyRequest
      OBVIOUS
    <2> QED BY <2>1 DEF Loop!RequestsOf
  <1> HIDE DEF q, t
  <1>3. Loop!RequestsOf(t) = Append(q, e.request)
    <2> DEFINE r == Append(q, e.request)
               u == Loop!RequestsOf(t)
    <2>1. /\ r \in Seq(AnyRequest) /\ Len(r) = Len(s) + 1 /\ r[Len(s) + 1] = e.request
          /\ \A i \in 1..Len(s) : r[i] = s[i].request
      BY <1>1, <1>2
    <2>2. u \in Seq(AnyRequest) /\ Len(u) = Len(t) /\ \A i \in 1..Len(t) : u[i] = t[i].request
      <3>1. \A i \in 1..Len(t) : t[i].request \in AnyRequest
        BY <1>1
      <3> QED BY <1>1, <3>1 DEF Loop!RequestsOf
    <2> HIDE DEF r, u
    <2>3. \A i \in 1..Len(r) : u[i] = r[i]
      BY <1>1, <2>1, <2>2
    <2>4. u = r
      BY <1>1, <2>1, <2>2, <2>3, SeqEqual
    <2> QED BY <2>4 DEF r, u
  <1>4. Loop!RequestsOf(<< >>) = << >>
    BY DEF Loop!RequestsOf
  <1> QED BY <1>2, <1>3, <1>4 DEF q, t

\* The request at the head comes first.
LEMMA RequestsHead ==
  ASSUME NEW S, NEW s \in Seq(S), s # << >>, \A x \in S : x.request \in AnyRequest
  PROVE  Loop!RequestsOf(s) = <<Head(s).request>> \o Loop!RequestsOf(Tail(s))
  <1> DEFINE t == Tail(s)
             q == Loop!RequestsOf(s)
             r == Loop!RequestsOf(t)
             u == <<Head(s).request>> \o r
  <1>1. /\ t \in Seq(S) /\ Len(s) = Len(t) + 1 /\ Len(t) \in Nat
        /\ s[1] = Head(s) /\ Head(s) \in S /\ \A i \in 1..Len(t) : t[i] = s[i + 1]
    OBVIOUS
  <1>2. q \in Seq(AnyRequest) /\ Len(q) = Len(s) /\ \A i \in 1..Len(s) : q[i] = s[i].request
    <2> HIDE DEF t
    <2>1. \A i \in 1..Len(s) : s[i].request \in AnyRequest
      OBVIOUS
    <2> QED BY <2>1 DEF Loop!RequestsOf
  <1>3. r \in Seq(AnyRequest) /\ Len(r) = Len(t) /\ \A i \in 1..Len(t) : r[i] = t[i].request
    <2> HIDE DEF t
    <2>1. \A i \in 1..Len(t) : t[i].request \in AnyRequest
      BY <1>1
    <2> QED BY <1>1, <2>1 DEF Loop!RequestsOf
  <1> HIDE DEF q, r, t
  <1>4. u \in Seq(AnyRequest) /\ Len(u) = Len(t) + 1 /\ u[1] = Head(s).request /\ \A i \in 1..Len(t) : u[i + 1] = r[i]
    BY <1>1, <1>3
  <1> HIDE DEF u
  <1>5. ASSUME NEW i \in 1..Len(s) PROVE q[i] = u[i]
    <2>1. CASE i = 1
      BY <1>1, <1>2, <1>4, <2>1
    <2>2. CASE i # 1
      <3>1. i - 1 \in 1..Len(t) /\ i = (i - 1) + 1
        BY <1>1, <2>2
      <3>2. u[i] = r[i - 1] /\ r[i - 1] = t[i - 1].request /\ t[i - 1] = s[i]
        BY <1>1, <1>3, <1>4, <3>1
      <3> QED BY <1>2, <3>2
    <2> QED BY <2>1, <2>2
  <1>6. q = u
    BY <1>1, <1>2, <1>4, <1>5, SeqEqual
  <1> QED BY <1>6 DEF q, r, t, u

\* Whatever is on its way belongs to a request, or to nobody.
LEMMA OutputsHaveRequests ==
  /\ \A o \in Loop!Outputs : o.request \in AnyRequest
  /\ \A m \in Loop!Messages : m.request \in AnyRequest
  BY DEF Loop!Outputs, Loop!Messages, AnyRequest

\* The runtime writes one more output.
LEMMA AnswersAppend ==
  ASSUME NEW s \in Seq(Loop!Outputs), NEW o \in Loop!Outputs
  PROVE  AnswersOf(Append(s, o)) =
           IF o.kind = "answer" THEN Append(AnswersOf(s), o.request) ELSE AnswersOf(s)
  <1> DEFINE I == {i \in 1..Len(s) : s[i].kind = "answer"}
             t == Append(s, o)
             J == {i \in 1..Len(t) : t[i].kind = "answer"}
  <1>1. /\ Len(t) = Len(s) + 1 /\ Len(s) \in Nat
        /\ t[Len(s) + 1] = o /\ \A i \in 1..Len(s) : t[i] = s[i]
    OBVIOUS
  <1>2. J = IF o.kind = "answer" THEN I \cup {Len(s) + 1} ELSE I
    <2> HIDE DEF t
    <2>1. \A i \in 1..Len(t) : i \in 1..Len(s) \/ i = Len(s) + 1
      BY <1>1
    <2>2. (\A i \in 1..Len(s) : i \in 1..Len(t)) /\ Len(s) + 1 \in 1..Len(t)
      BY <1>1
    <2> QED BY <1>1, <2>1, <2>2
  <1>3. I \in SUBSET (1..Len(s))
    OBVIOUS
  <1>4. Loop!Picked(t, J) = IF o.kind = "answer" THEN Append(Loop!Picked(s, I), o) ELSE Loop!Picked(s, I)
    <2> HIDE DEF I, J
    <2>1. Loop!Picked(t, I) = Loop!Picked(s, I)
      BY <1>3, PickedAppend
    <2>2. Loop!Picked(t, I \cup {Len(s) + 1}) = Append(Loop!Picked(s, I), o)
      BY <1>3, PickedAppend
    <2> HIDE DEF t
    <2> QED BY <1>2, <2>1, <2>2
  <1>5. Loop!Answers(s) = Loop!Picked(s, I) /\ Loop!Answers(t) = Loop!Picked(t, J)
    BY DEF Loop!Answers
  <1> HIDE DEF I, J, t
  <1>6. Loop!Answers(t) = IF o.kind = "answer" THEN Append(Loop!Answers(s), o) ELSE Loop!Answers(s)
    BY <1>4, <1>5
  <1>7. Loop!Answers(s) \in Seq(Loop!Outputs)
    BY AnswersType
  <1>8. Loop!RequestsOf(Append(Loop!Answers(s), o)) = Append(Loop!RequestsOf(Loop!Answers(s)), o.request)
    BY <1>7, OutputsHaveRequests, RequestsAppend
  <1> QED BY <1>6, <1>8 DEF AnswersOf, t

\* The transport takes the output at the head.
LEMMA AnswersHead ==
  ASSUME NEW s \in Seq(Loop!Outputs), s # << >>
  PROVE  AnswersOf(s) = IF Head(s).kind = "answer"
                        THEN <<Head(s).request>> \o AnswersOf(Tail(s)) ELSE AnswersOf(Tail(s))
  <1> DEFINE t == Tail(s)
             I == {i \in 2..Len(s) : s[i].kind = "answer"}
             J == {i \in 1..Len(s) : s[i].kind = "answer"}
             K == {i \in 1..Len(t) : t[i].kind = "answer"}
  <1>1. /\ t \in Seq(Loop!Outputs) /\ Len(s) = Len(t) + 1 /\ Len(t) \in Nat
        /\ s[1] = Head(s) /\ Head(s) \in Loop!Outputs /\ \A i \in 1..Len(t) : t[i] = s[i + 1]
    OBVIOUS
  <1> HIDE DEF t
  <1>2. J = IF Head(s).kind = "answer" THEN {1} \cup I ELSE I
    BY <1>1
  <1>3. K = {i - 1 : i \in I}
    <2>1. ASSUME NEW k \in K PROVE k + 1 \in I /\ k = (k + 1) - 1
      BY <1>1
    <2>2. ASSUME NEW i \in I PROVE i - 1 \in K
      <3>1. i - 1 \in 1..Len(t) /\ i = (i - 1) + 1
        BY <1>1
      <3> QED BY <1>1, <3>1
    <2> HIDE DEF I, K
    <2> QED BY <2>1, <2>2
  <1>4. I \in SUBSET (2..Len(s))
    OBVIOUS
  <1>5. Loop!Picked(s, J) = IF Head(s).kind = "answer" THEN <<Head(s)>> \o Loop!Picked(t, K) ELSE Loop!Picked(t, K)
    <2> HIDE DEF I, J, K
    <2> QED BY <1>2, <1>3, <1>4, PickedTail DEF t
  <1>6. Loop!Answers(s) = Loop!Picked(s, J) /\ Loop!Answers(t) = Loop!Picked(t, K)
    BY DEF Loop!Answers
  <1> HIDE DEF I, J, K
  <1> DEFINE a == Loop!Answers(t)
             b == <<Head(s)>> \o a
  <1>7. a \in Seq(Loop!Outputs)
    BY <1>1, AnswersType
  <1>8. Loop!Answers(s) = IF Head(s).kind = "answer" THEN b ELSE a
    BY <1>5, <1>6
  <1>9. Loop!RequestsOf(b) = <<Head(s).request>> \o Loop!RequestsOf(a)
    <2> HIDE DEF a
    <2>1. b \in Seq(Loop!Outputs) /\ b # << >> /\ Head(b) = Head(s) /\ Tail(b) = a
      BY <1>1, <1>7
    <2> HIDE DEF b
    <2> QED BY <2>1, OutputsHaveRequests, RequestsHead
  <1> QED BY <1>8, <1>9 DEF AnswersOf, t

\* Frames keep the order of the invokes they are written for.
LEMMA RequestsOfFrames ==
  ASSUME NEW w \in Seq(Requests)
  PROVE  /\ Loop!FramesOf(w) \in Seq(Loop!Messages)
         /\ Loop!RequestsOf(Loop!FramesOf(w)) = w
         /\ \A m \in Loop!Elements(Loop!FramesOf(w)) : m.format = "binary" /\ m.request \in Requests
         /\ Loop!LinesOf(w) \in Seq(Loop!Messages)
         /\ \A m \in Loop!Elements(Loop!LinesOf(w)) : m.format = "ndjson" /\ m.request \in Requests
  <1> DEFINE f == Loop!FramesOf(w)
             g == Loop!LinesOf(w)
  <1>1. Len(w) \in Nat /\ \A i \in 1..Len(w) : w[i] \in Requests
    OBVIOUS
  <1>2. \A r \in Requests : Loop!Frame(r) \in Loop!Messages /\ Loop!Line(r) \in Loop!Messages
    BY DEF Loop!Frame, Loop!Line, Loop!Messages
  <1>3. \A r \in Requests : /\ Loop!Frame(r).request = r /\ Loop!Frame(r).format = "binary"
                           /\ Loop!Line(r).request = r /\ Loop!Line(r).format = "ndjson"
    BY DEF Loop!Frame, Loop!Line
  <1>4. f \in Seq(Loop!Messages) /\ Len(f) = Len(w) /\ \A i \in 1..Len(w) : f[i] = Loop!Frame(w[i])
    <2>1. \A i \in 1..Len(w) : Loop!Frame(w[i]) \in Loop!Messages
      BY <1>2, <1>1
    <2> QED BY <1>1, <2>1 DEF Loop!FramesOf
  <1>5. g \in Seq(Loop!Messages) /\ Len(g) = Len(w) /\ \A i \in 1..Len(w) : g[i] = Loop!Line(w[i])
    <2>1. \A i \in 1..Len(w) : Loop!Line(w[i]) \in Loop!Messages
      BY <1>2, <1>1
    <2> QED BY <1>1, <2>1 DEF Loop!LinesOf
  <1> HIDE DEF f, g
  <1>6. Loop!RequestsOf(f) = w
    <2>1. Loop!RequestsOf(f) = [i \in 1..Len(w) |-> w[i]]
      <3>1. \A i \in 1..Len(w) : f[i].request = w[i]
        BY <1>1, <1>4, <1>3
      <3>2. Loop!RequestsOf(f) = [i \in 1..Len(f) |-> f[i].request]
        BY DEF Loop!RequestsOf
      <3> QED BY <1>4, <3>1, <3>2, Zenon
    <2> QED BY <1>1, <2>1
  <1>7. \A m \in Loop!Elements(f) : m.format = "binary" /\ m.request \in Requests
    BY <1>1, <1>4, <1>3 DEF Loop!Elements
  <1>8. \A m \in Loop!Elements(g) : m.format = "ndjson" /\ m.request \in Requests
    BY <1>1, <1>5, <1>3 DEF Loop!Elements
  <1> QED BY <1>4, <1>5, <1>6, <1>7, <1>8 DEF f, g

\* What is lost is taken out, and the rest keeps its order.
LEMMA WithoutType ==
  ASSUME NEW S, NEW s \in Seq(S), NEW L
  PROVE  /\ Loop!Without(s, L) \in Seq(S)
         /\ Loop!Elements(Loop!Without(s, L)) = Loop!Elements(s) \ L
         /\ Distinct(s) => Distinct(Loop!Without(s, L))
  <1> DEFINE I == {i \in 1..Len(s) : s[i] \notin L}
             t == Loop!Picked(s, I)
  <1>1. I \in SUBSET (1..Len(s)) /\ {s[i] : i \in I} = Loop!Elements(s) \ L
    BY DEF Loop!Elements
  <1> HIDE DEF I
  <1>2. /\ t \in Seq(S) /\ Len(t) = Cardinality(I) /\ Loop!Elements(t) = {s[i] : i \in I}
        /\ IsFiniteSet(I) /\ I \in SUBSET Int /\ Cardinality(I) \in Nat
    BY <1>1, PickedSeq
  <1>3. \A k \in 1..Cardinality(I) : \E i \in I : Loop!Rank(I, i) = k /\ t[k] = s[i]
    BY <1>2, PickedAt
  <1> HIDE DEF t
  <1>4. Distinct(s) => Distinct(t)
    <2> SUFFICES ASSUME Distinct(s), NEW j \in 1..Len(t), NEW k \in 1..Len(t), t[j] = t[k] PROVE j = k
      BY DEF Distinct
    <2>1. PICK i \in I : Loop!Rank(I, i) = j /\ t[j] = s[i]
      BY <1>2, <1>3
    <2>2. PICK l \in I : Loop!Rank(I, l) = k /\ t[k] = s[l]
      BY <1>2, <1>3
    <2>3. i = l
      BY <1>1, <2>1, <2>2 DEF Distinct
    <2> QED BY <2>1, <2>2, <2>3
  <1> QED BY <1>1, <1>2, <1>4 DEF t, I, Loop!Without

\* Without what was queued last, the rest is left.
LEMMA WithoutSuffix ==
  ASSUME NEW S, NEW u \in Seq(S), NEW v \in Seq(S), Distinct(u \o v)
  PROVE  Loop!Without(u \o v, Loop!Elements(v)) = u
  <1> DEFINE s == u \o v
             I == {i \in 1..Len(s) : s[i] \notin Loop!Elements(v)}
  <1>1. /\ s \in Seq(S) /\ Len(s) = Len(u) + Len(v) /\ Len(u) \in Nat /\ Len(v) \in Nat
        /\ \A i \in 1..Len(u) : s[i] = u[i]
        /\ \A i \in 1..Len(v) : s[Len(u) + i] = v[i]
    OBVIOUS
  <1> HIDE DEF s
  <1>2. ASSUME NEW i \in 1..Len(u) PROVE i \in I
    <2>1. i \in 1..Len(s)
      BY <1>1
    <2>2. ASSUME NEW j \in 1..Len(v) PROVE s[i] # v[j]
      <3>1. Len(u) + j \in 1..Len(s) /\ Len(u) + j # i
        BY <1>1
      <3> QED BY <1>1, <2>1, <3>1 DEF Distinct, s
    <2> QED BY <2>1, <2>2 DEF Loop!Elements
  <1>3. ASSUME NEW i \in 1..Len(s), i \notin 1..Len(u) PROVE i \notin I
    <2>1. i - Len(u) \in 1..Len(v) /\ i = Len(u) + (i - Len(u))
      BY <1>1, <1>3
    <2>2. s[i] = v[i - Len(u)]
      BY <1>1, <2>1
    <2> QED BY <2>1, <2>2 DEF Loop!Elements
  <1>4. I = 1..Len(u) /\ I \in SUBSET Int
    BY <1>1, <1>2, <1>3
  <1>5. Loop!Picked(s, I) = u
    <2> HIDE DEF I
    <2>1. \A i \in I : u[i] = s[i]
      BY <1>1, <1>4
    <2> QED BY <1>1, <1>4, <2>1, PickedAll
  <1> QED BY <1>5 DEF Loop!Without, s

-----------------------------------------------------------------------------
(* What a step may leave between the ends.                                 *)

\* The request of the handshake is the only thing on its way.
LEMMA HelloLine ==
  /\ Hi \in Loop!Messages /\ Hi.request = Hello /\ Hi.format = "ndjson"
  /\ \A p : HelloIn(p) => Sent(p) = {Hi}
  <1>1. Hi \in Loop!Messages /\ Hi.request = Hello /\ Hi.format = "ndjson"
    BY DEF Hi, Loop!Line, Loop!Messages
  <1>2. Loop!Elements(<<Hi>>) = {Hi} /\ Loop!Elements(<< >>) = {}
    BY ElementsOne
  <1> QED BY <1>1, <1>2 DEF HelloIn, Sent

\* What a step of either end leaves between them, short of the handshake.
LEMMA PipesKept ==
  ASSUME NEW p \in Loop!Procs, PipesInv(p), status[p] # "unborn", status'[p] # "unborn",
         status'[p] = "running" => status[p] = "running",
         speaks'[p] = speaks[p], codecs' = codecs,
         \A m \in Sent(p)' :
           \/ m \in Sent(p)
           \/ /\ m.request \in Requests /\ ~HelloIn(p)
              /\ m.format = IF speaks[p] = "frames" THEN "binary" ELSE "ndjson",
         \A x \in Loop!Elements(stdout'[p]) :
           \/ x \in Loop!Elements(stdout[p])
           \/ x.kind = "answer" /\ x.request \in Requests /\ ~HelloIn(p)
           \/ x.kind \in {"push", "junk"} /\ x.request = NoRequest,
         HelloIn(p) => HelloIn(p)' \/ (queued'[p] = << >> /\ stdin'[p] = << >>),
         speaks[p] = "switching" /\ status'[p] = "running" => stdin'[p] = <<Hi>> \/ stdin'[p] = stdin[p]
  PROVE  PipesInv(p)' /\ (HelloIn(p)' => HelloIn(p))
  <1>1. ASSUME HelloIn(p)' PROVE HelloIn(p)
    <2>1. Hi \in Sent(p)'
      BY <1>1, ElementsOne DEF HelloIn, Sent
    <2>2. Hi \in Sent(p)
      BY <2>1, HelloLine, RequestsAssumption
    <2> QED BY <2>2, HelloLine DEF PipesInv
  <1>2. ASSUME NEW m \in Sent(p)'
        PROVE  /\ m.format = IF speaks[p] = "frames" THEN "binary" ELSE "ndjson"
               /\ m.request = Hello => HelloIn(p)'
    <2>1. CASE m \in Sent(p)
      <3>1. ASSUME m.request = Hello PROVE HelloIn(p)'
        <4>1. HelloIn(p)
          BY <2>1, <3>1 DEF PipesInv
        <4>2. ~(queued'[p] = << >> /\ stdin'[p] = << >>)
          BY ElementsOne DEF Sent
        <4> QED BY <4>1, <4>2
      <3> QED BY <2>1, <3>1 DEF PipesInv
    <2>2. CASE m \notin Sent(p)
      BY <2>2, RequestsAssumption
    <2> QED BY <2>1, <2>2
  <1>3. ASSUME NEW x \in Loop!Elements(stdout'[p])
        PROVE  /\ HelloIn(p)' => x.kind \in {"push", "junk"}
               /\ x.request = Hello <=> x.kind \in {"binary", "plain", "refused"}
               /\ x.kind = "answer" => x.request \in Requests
               /\ x.kind = "binary" => speaks[p] = "frames"
               /\ x.kind \in {"plain", "refused"} => speaks[p] = "lines"
    <2>1. CASE x \in Loop!Elements(stdout[p])
      BY <1>1, <2>1 DEF PipesInv
    <2>2. CASE x \notin Loop!Elements(stdout[p])
      BY <1>1, <2>2, RequestsAssumption
    <2> QED BY <2>1, <2>2
  <1>4. HelloIn(p)' => speaks[p] # "frames"
    BY <1>1 DEF PipesInv
  <1>5. speaks[p] = "switching" /\ status'[p] = "running" => stdin'[p] = <<Hi>>
    BY DEF PipesInv
  <1>6. ~codecs => speaks[p] = "lines" /\ ~HelloIn(p)'
    BY <1>1 DEF PipesInv
  <1> QED BY <1>1, <1>2, <1>3, <1>4, <1>5, <1>6 DEF PipesInv

\* What the transport believes, while the other end works.
LEMMA ChildKept ==
  ASSUME NEW p \in Loop!Procs, ChildInv(p), status'[p] # "unborn",
         UNCHANGED <<handshake, mode, binQueue>>,
         handshake = "pending" =>
           /\ Sent(p)' \subseteq Sent(p)
           /\ \A x \in Loop!Elements(stdout'[p]) : x \in Loop!Elements(stdout[p]) \/ x.kind # "answer",
         HelloIn(p)' => HelloIn(p),
         handshake = "ready" => speaks'[p] = speaks[p],
         mode = "binary" /\ Coming(p) => Coming(p)'
  PROVE  ChildInv(p)'
  <1>1. mode = "binary" => handshake = "ready" /\ Coming(p)'
    BY DEF ChildInv
  <1>2. ASSUME handshake = "pending"
        PROVE  /\ \A m \in Sent(p)' : m.request = Hello
               /\ \A x \in Loop!Elements(stdout'[p]) : x.kind # "answer"
    BY <1>2 DEF ChildInv
  <1>3. handshake = "ready" =>
          ~HelloIn(p)' /\ speaks'[p] = IF mode = "binary" THEN "frames" ELSE "lines"
    BY DEF ChildInv
  <1> QED BY <1>1, <1>2, <1>3 DEF ChildInv

\* What is flushed keeps its place in what comes.
LEMMA FlushMoves ==
  ASSUME NEW a \in Seq(AnyRequest), NEW b \in Seq(AnyRequest), NEW c \in Seq(AnyRequest),
         NEW e \in AnyRequest
  PROVE  (a \o Append(b, e)) \o c = (a \o b) \o (<<e>> \o c)
  <1> DEFINE u == (a \o Append(b, e)) \o c
             v == (a \o b) \o (<<e>> \o c)
  <1>1. u \in Seq(AnyRequest) /\ v \in Seq(AnyRequest) /\ Len(u) = Len(v) /\ Len(u) \in Nat
    OBVIOUS
  <1>2. \A k \in 1..Len(u) : u[k] = v[k]
    OBVIOUS
  <1> HIDE DEF u, v
  <1>3. u = v
    BY <1>1, <1>2, SeqEqual
  <1> QED BY <1>3 DEF u, v

\* So does what is answered.
LEMMA AnswerMoves ==
  ASSUME NEW a \in Seq(AnyRequest), NEW b \in Seq(AnyRequest), NEW c \in Seq(AnyRequest),
         NEW e \in AnyRequest
  PROVE  (Append(a, e) \o b) \o c = (a \o (<<e>> \o b)) \o c
  <1> DEFINE u == Append(a, e) \o b
             v == a \o (<<e>> \o b)
  <1>1. u \in Seq(AnyRequest) /\ v \in Seq(AnyRequest) /\ Len(u) = Len(v) /\ Len(u) \in Nat
    OBVIOUS
  <1>2. \A k \in 1..Len(u) : u[k] = v[k]
    OBVIOUS
  <1> HIDE DEF u, v
  <1>3. u = v
    BY <1>1, <1>2, SeqEqual
  <1> QED BY <1>3 DEF u, v

\* What is first in a part is first in the whole.
LEMMA HeadFirst ==
  ASSUME NEW a \in Seq(AnyRequest), NEW b \in Seq(AnyRequest), NEW e \in AnyRequest
  PROVE  (<<e>> \o a) \o b = <<e>> \o (a \o b)
  <1> DEFINE u == (<<e>> \o a) \o b
             v == <<e>> \o (a \o b)
  <1>1. u \in Seq(AnyRequest) /\ v \in Seq(AnyRequest) /\ Len(u) = Len(v) /\ Len(u) \in Nat
    OBVIOUS
  <1>2. \A k \in 1..Len(u) : u[k] = v[k]
    OBVIOUS
  <1> HIDE DEF u, v
  <1>3. u = v
    BY <1>1, <1>2, SeqEqual
  <1> QED BY <1>3 DEF u, v

\* Without it, the rest is left.
LEMMA HeadGone ==
  ASSUME NEW a \in Seq(AnyRequest), NEW b \in Seq(AnyRequest), NEW e \in AnyRequest
  PROVE  Tail(<<e>> \o (a \o b)) = a \o b
  <1> DEFINE w == a \o b
             u == Tail(<<e>> \o w)
  <1>1. w \in Seq(AnyRequest)
    OBVIOUS
  <1> HIDE DEF w
  <1>2. u \in Seq(AnyRequest) /\ Len(u) = Len(w) /\ \A k \in 1..Len(u) : u[k] = w[k]
    BY <1>1
  <1> HIDE DEF u
  <1>3. u = w
    BY <1>1, <1>2, SeqEqual
  <1> QED BY <1>3 DEF u, w

\* What is last in a part is last in the whole.
LEMMA LastLast ==
  ASSUME NEW a \in Seq(AnyRequest), NEW b \in Seq(AnyRequest), NEW e \in AnyRequest
  PROVE  Append(a \o b, e) = a \o Append(b, e)
  <1> DEFINE u == Append(a \o b, e)
             v == a \o Append(b, e)
  <1>1. u \in Seq(AnyRequest) /\ v \in Seq(AnyRequest) /\ Len(u) = Len(v) /\ Len(u) \in Nat
    OBVIOUS
  <1>2. \A k \in 1..Len(u) : u[k] = v[k]
    OBVIOUS
  <1> HIDE DEF u, v
  <1>3. u = v
    BY <1>1, <1>2, SeqEqual
  <1> QED BY <1>3 DEF u, v

-----------------------------------------------------------------------------
(* Steps of one process.                                                   *)

Pipes(p) == <<status[p], speaks[p], queued[p], stdin[p], stdout[p]>>

\* No process but p changes, and nobody is forgiven.
OnlyAt(p) ==
  \A x \in Loop!Procs \ {p} : Pipes(x)' = Pipes(x) /\ (killed[x] => killed'[x])

\* A process that a step does not touch.
LEMMA Frame ==
  ASSUME NEW x \in Loop!Procs, ProcInv(x), codecs' = codecs,
         Pipes(x)' = Pipes(x), killed[x] => killed'[x],
         \/ child # x /\ child' # x
         \/ UNCHANGED <<child, handshake, mode, binQueue>>
  PROVE  ProcInv(x)'
  <1>1. /\ status'[x] = status[x] /\ speaks'[x] = speaks[x] /\ queued'[x] = queued[x]
        /\ stdin'[x] = stdin[x] /\ stdout'[x] = stdout[x] /\ (killed[x] => killed'[x])
    BY DEF Pipes
  <1>2. PipesInv(x)'
    BY <1>1 DEF ProcInv, PipesInv, HelloIn, Sent
  <1>3. CASE child # x /\ child' # x
    BY <1>1, <1>2, <1>3 DEF ProcInv
  <1>4. CASE UNCHANGED <<child, handshake, mode, binQueue>>
    <2>1. ChildInv(x) => ChildInv(x)'
      BY <1>1, <1>4 DEF ChildInv, HelloIn, Sent, Coming
    <2> QED BY <1>1, <1>2, <1>4, <2>1 DEF ProcInv
  <1> QED BY <1>3, <1>4

\* A step of one process, of which the transport notices nothing yet.
LEMMA AtOneProc ==
  ASSUME LoopInv, NEW p \in Loop!Procs, UNCHANGED <<codecs, disposed, Loop!clientVars>>,
         Loop!TypeOK', OnlyAt(p), PipesInv(p)', child = p => ChildInv(p)',
         status'[p] = "running" => status[p] = "running", killed[p] => killed'[p]
  PROVE  LoopInv'
  <1>1. Loop!TypeOK /\ ProcInv(p) /\ ClientInv /\ \A x \in Loop!Procs : ProcInv(x)
    BY DEF LoopInv
  <1>2. /\ UNCHANGED <<child, handshake, mode, binQueue, waiting, pending, fate, answer>>
    BY DEF Loop!clientVars
  <1>3. ClientInv'
    BY <1>1, <1>2 DEF ClientInv, Loop!NoneForgotten, Loop!InFlight
  <1>4. ASSUME NEW x \in Loop!Procs \ {p} PROVE ProcInv(x)'
    BY <1>1, <1>2, <1>4, Frame DEF OnlyAt
  <1>5. ProcInv(p)'
    BY <1>1, <1>2 DEF ProcInv
  <1>6. \A x \in Loop!Procs : ProcInv(x)'
    BY <1>4, <1>5
  <1> QED BY <1>3, <1>6 DEF LoopInv, Loop!Procs

\* What is known of process p before a step.
LEMMA ProcFacts ==
  ASSUME LoopInv, NEW p \in Loop!Procs
  PROVE  /\ Loop!TypeOK /\ PipesInv(p) /\ (child = p => ChildInv(p))
         /\ queued[p] \in Seq(Loop!Messages) /\ stdin[p] \in Seq(Loop!Messages)
         /\ stdout[p] \in Seq(Loop!Outputs)
         /\ binQueue \in Seq(Requests) /\ waiting \in Seq(Requests)
         /\ AnswersOf(stdout[p]) \in Seq(AnyRequest)
         /\ Loop!RequestsOf(stdin[p]) \in Seq(AnyRequest)
         /\ Loop!RequestsOf(queued[p]) \in Seq(AnyRequest)
  <1>1. Loop!TypeOK /\ ProcInv(p)
    BY DEF LoopInv
  <1>2. /\ queued[p] \in Seq(Loop!Messages) /\ stdin[p] \in Seq(Loop!Messages)
        /\ stdout[p] \in Seq(Loop!Outputs)
    BY <1>1 DEF Loop!TypeOK
  <1>3. AnswersOf(stdout[p]) \in Seq(AnyRequest)
    BY <1>2, AnswersType
  <1>4. ASSUME NEW s \in Seq(Loop!Messages) PROVE Loop!RequestsOf(s) \in Seq(AnyRequest)
    BY HelloLine, OutputsHaveRequests, RequestsAppend
  <1> QED BY <1>1, <1>2, <1>3, <1>4 DEF Loop!TypeOK, ProcInv

-----------------------------------------------------------------------------
(* The operating system and the program of the runtime.                    *)

\* Data of a process that is given up.
LEMMA InvDataIgnored ==
  ASSUME LoopInv, NEW p \in Loop!Procs, Loop!DataIgnored(p) PROVE LoopInv'
  <1>1. /\ child # p /\ status[p] # "unborn" /\ stdout[p] # << >>
        /\ stdout' = [stdout EXCEPT ![p] = Tail(stdout[p])]
        /\ UNCHANGED <<codecs, disposed, Loop!clientVars, status, killed, speaks, queued, stdin>>
    BY DEF Loop!DataIgnored, Loop!Take
  <1>2. /\ Tail(stdout[p]) \in Seq(Loop!Outputs)
        /\ Loop!Elements(Tail(stdout[p])) \subseteq Loop!Elements(stdout[p])
    BY <1>1, ProcFacts, ElementsTail
  <1>3. /\ Loop!TypeOK' /\ OnlyAt(p)
        /\ stdout'[p] = Tail(stdout[p]) /\ Sent(p)' = Sent(p) /\ (HelloIn(p)' <=> HelloIn(p))
    BY <1>1, <1>2, ProcFacts DEF Loop!TypeOK, Loop!clientVars, OnlyAt, Pipes, Sent, HelloIn
  <1>4. PipesInv(p)'
    BY <1>1, <1>2, <1>3, ProcFacts, PipesKept
  <1> QED BY <1>1, <1>3, <1>4, AtOneProc

\* A crash.
LEMMA InvDie ==
  ASSUME LoopInv, NEW p \in Loop!Procs, Loop!Die(p) PROVE LoopInv'
  <1>1. /\ status[p] = "running" /\ status' = [status EXCEPT ![p] = "dead"]
        /\ UNCHANGED <<codecs, disposed, Loop!clientVars, killed, speaks, queued, stdin, stdout>>
    BY DEF Loop!Die, Loop!pipes
  <1>2. /\ Loop!TypeOK' /\ OnlyAt(p)
        /\ status'[p] = "dead" /\ Sent(p)' = Sent(p) /\ (HelloIn(p)' <=> HelloIn(p))
    BY <1>1, ProcFacts DEF Loop!TypeOK, Loop!Statuses, Loop!clientVars, OnlyAt, Pipes, Sent, HelloIn
  <1>3. PipesInv(p)'
    BY <1>1, <1>2, ProcFacts, PipesKept
  <1>4. child = p => ChildInv(p)'
    BY <1>1, <1>2, ProcFacts DEF ChildInv, Coming, Loop!clientVars
  <1> QED BY <1>1, <1>2, <1>3, <1>4, AtOneProc

\* A push frame or a line of text.
LEMMA InvNoise ==
  ASSUME LoopInv, NEW p \in Loop!Procs, Loop!Noise(p) PROVE LoopInv'
  <1> DEFINE x == Loop!Out(IF speaks[p] = "lines" THEN "junk" ELSE "push", NoRequest)
             o == Append(stdout[p], x)
  <1>1. /\ status[p] = "running" /\ stdout' = [stdout EXCEPT ![p] = o]
        /\ UNCHANGED <<codecs, disposed, Loop!clientVars, status, killed, speaks, queued, stdin>>
    BY DEF Loop!Noise, Loop!Writes
  <1>2. x \in Loop!Outputs /\ x.kind \in {"push", "junk"} /\ x.request = NoRequest
    BY DEF Loop!Out, Loop!Outputs
  <1> HIDE DEF x
  <1>3. /\ o \in Seq(Loop!Outputs) /\ Loop!Elements(o) = Loop!Elements(stdout[p]) \cup {x}
        /\ AnswersOf(o) = AnswersOf(stdout[p])
    BY <1>2, ProcFacts, ElementsAppend, AnswersAppend
  <1> HIDE DEF o
  <1>4. /\ Loop!TypeOK' /\ OnlyAt(p)
        /\ stdout'[p] = o /\ Sent(p)' = Sent(p) /\ (HelloIn(p)' <=> HelloIn(p))
    BY <1>1, <1>3, ProcFacts DEF Loop!TypeOK, Loop!clientVars, OnlyAt, Pipes, Sent, HelloIn
  <1>5. PipesInv(p)'
    BY <1>1, <1>2, <1>3, <1>4, ProcFacts, PipesKept
  <1>6. child = p => ChildInv(p)'
    <2>1. Coming(p) => Coming(p)'
      BY <1>1, <1>3, <1>4 DEF Coming, Loop!clientVars
    <2> QED BY <1>1, <1>2, <1>3, <1>4, <2>1, ProcFacts, ChildKept DEF Loop!clientVars
  <1> QED BY <1>1, <1>4, <1>5, <1>6, AtOneProc

\* What node has buffered goes to the process.
LEMMA InvFlush ==
  ASSUME LoopInv, NEW p \in Loop!Procs, Loop!Flush(p) PROVE LoopInv'
  <1> DEFINE m == Head(queued[p])
             q == Tail(queued[p])
             i == Append(stdin[p], m)
  <1>1. /\ status[p] = "running" /\ queued[p] # << >>
        /\ stdin' = [stdin EXCEPT ![p] = i] /\ queued' = [queued EXCEPT ![p] = q]
        /\ UNCHANGED <<codecs, disposed, Loop!clientVars, status, killed, speaks, stdout>>
    BY DEF Loop!Flush
  <1>2. /\ m \in Loop!Messages /\ q \in Seq(Loop!Messages)
        /\ Loop!Elements(queued[p]) = Loop!Elements(q) \cup {m}
    BY <1>1, ProcFacts, ElementsTail
  <1>3. Loop!RequestsOf(queued[p]) = <<m.request>> \o Loop!RequestsOf(q)
    BY <1>1, ProcFacts, OutputsHaveRequests, RequestsHead
  <1>4. HelloIn(p) => q = << >> /\ i = <<Hi>>
    <2>1. ASSUME HelloIn(p) PROVE queued[p] = <<Hi>> /\ stdin[p] = << >>
      BY <1>1, <2>1 DEF HelloIn
    <2>2. Tail(<<Hi>>) = << >> /\ Append(<< >>, Head(<<Hi>>)) = <<Hi>>
      OBVIOUS
    <2> QED BY <2>1, <2>2
  <1> HIDE DEF m, q
  <1>5. /\ i \in Seq(Loop!Messages)
        /\ Loop!Elements(i) = Loop!Elements(stdin[p]) \cup {m}
        /\ Loop!RequestsOf(i) = Append(Loop!RequestsOf(stdin[p]), m.request)
    BY <1>2, ProcFacts, OutputsHaveRequests, ElementsAppend, RequestsAppend
  <1> HIDE DEF i
  <1>6. /\ Loop!TypeOK' /\ OnlyAt(p)
        /\ stdin'[p] = i /\ queued'[p] = q /\ Sent(p)' = Sent(p) /\ (HelloIn(p) => HelloIn(p)')
    BY <1>1, <1>2, <1>4, <1>5, ProcFacts DEF Loop!TypeOK, Loop!clientVars, OnlyAt, Pipes, Sent, HelloIn
  <1>7. speaks[p] = "switching" => FALSE
    <2> SUFFICES ASSUME speaks[p] = "switching" PROVE FALSE
      OBVIOUS
    <2>1. stdin[p] = <<Hi>>
      BY <1>1, ProcFacts DEF PipesInv
    <2>2. Hi \in Sent(p) /\ stdin[p] # << >>
      BY <2>1, ElementsOne DEF Sent
    <2>3. HelloIn(p)
      BY <2>2, ProcFacts, HelloLine DEF PipesInv
    <2> QED BY <1>1, <2>2, <2>3 DEF HelloIn
  <1>8. PipesInv(p)' /\ (HelloIn(p)' => HelloIn(p))
    BY <1>1, <1>6, <1>7, ProcFacts, PipesKept
  <1>9. child = p => ChildInv(p)'
    <2>1. (AnswersOf(stdout[p]) \o Loop!RequestsOf(i)) \o Loop!RequestsOf(q)
            = (AnswersOf(stdout[p]) \o Loop!RequestsOf(stdin[p])) \o Loop!RequestsOf(queued[p])
      <3>1. Loop!RequestsOf(q) \in Seq(AnyRequest) /\ m.request \in AnyRequest
        BY <1>2, OutputsHaveRequests, RequestsAppend
      <3> DEFINE a == AnswersOf(stdout[p])
                 b == Loop!RequestsOf(stdin[p])
                 c == Loop!RequestsOf(q)
                 e == m.request
      <3>2. a \in Seq(AnyRequest) /\ b \in Seq(AnyRequest) /\ c \in Seq(AnyRequest) /\ e \in AnyRequest
        BY <3>1, ProcFacts
      <3> HIDE DEF a, b, c, e
      <3>3. (a \o Append(b, e)) \o c = (a \o b) \o (<<e>> \o c)
        BY <3>2, FlushMoves
      <3> QED BY <1>3, <1>5, <3>3 DEF a, b, c, e
    <2>2. Coming(p) => Coming(p)'
      BY <1>1, <1>6, <2>1 DEF Coming, Loop!clientVars
    <2> QED BY <1>1, <1>6, <1>8, <2>2, ProcFacts, ChildKept DEF Loop!clientVars
  <1> QED BY <1>1, <1>6, <1>8, <1>9, AtOneProc

-----------------------------------------------------------------------------
(* The runtime reads and answers.                                          *)

\* The runtime reads the line or frame at the head.
LEMMA ReadFacts ==
  ASSUME LoopInv, NEW p \in Loop!Procs, NEW f, Loop!Reads(p, f)
  PROVE  LET m == Head(stdin[p])
             i == Tail(stdin[p])
         IN /\ status[p] = "running" /\ m \in Loop!Messages /\ m \in Sent(p) /\ m.format = f
            /\ i \in Seq(Loop!Messages) /\ stdin' = [stdin EXCEPT ![p] = i]
            /\ Loop!Elements(i) \subseteq Loop!Elements(stdin[p])
            /\ Loop!RequestsOf(stdin[p]) = <<m.request>> \o Loop!RequestsOf(i)
            /\ HelloIn(p) => queued[p] = << >> /\ i = << >> /\ m = Hi
            /\ m.request = Hello => HelloIn(p)
  <1> DEFINE m == Head(stdin[p])
             i == Tail(stdin[p])
  <1>1. /\ status[p] = "running" /\ stdin[p] # << >> /\ m.format = f
        /\ stdin' = [stdin EXCEPT ![p] = i]
    BY DEF Loop!Reads
  <1>2. /\ m \in Loop!Messages /\ i \in Seq(Loop!Messages) /\ m \in Loop!Elements(stdin[p])
        /\ Loop!Elements(i) \subseteq Loop!Elements(stdin[p])
    BY <1>1, ProcFacts, ElementsTail
  <1>3. Loop!RequestsOf(stdin[p]) = <<m.request>> \o Loop!RequestsOf(i)
    BY <1>1, ProcFacts, OutputsHaveRequests, RequestsHead
  <1>4. HelloIn(p) => queued[p] = << >> /\ i = << >> /\ m = Hi
    <2>1. Tail(<<Hi>>) = << >> /\ Head(<<Hi>>) = Hi
      OBVIOUS
    <2> QED BY <1>1, <2>1 DEF HelloIn
  <1>5. m \in Sent(p)
    BY <1>2 DEF Sent
  <1>6. m.request = Hello => HelloIn(p)
    BY <1>5, ProcFacts DEF PipesInv
  <1> QED BY <1>1, <1>2, <1>3, <1>4, <1>5, <1>6

\* It answers a request.
LEMMA InvAnswer ==
  ASSUME LoopInv, NEW p \in Loop!Procs, Loop!Answer(p) PROVE LoopInv'
  <1> DEFINE m == Head(stdin[p])
             i == Tail(stdin[p])
             x == Loop!Out("answer", m.request)
             o == Append(stdout[p], x)
  <1>1. PICK f : Loop!Reads(p, f)
    BY DEF Loop!Answer
  <1>2. /\ m.request # Hello /\ stdout' = [stdout EXCEPT ![p] = o]
        /\ UNCHANGED <<codecs, disposed, Loop!clientVars, status, killed, speaks, queued>>
    BY DEF Loop!Answer, Loop!Writes
  <1>3. /\ status[p] = "running" /\ m \in Loop!Messages /\ m \in Sent(p)
        /\ i \in Seq(Loop!Messages) /\ stdin' = [stdin EXCEPT ![p] = i]
        /\ Loop!Elements(i) \subseteq Loop!Elements(stdin[p])
        /\ Loop!RequestsOf(stdin[p]) = <<m.request>> \o Loop!RequestsOf(i)
        /\ ~HelloIn(p)
    BY <1>1, <1>2, ReadFacts, HelloLine
  <1>4. /\ x \in Loop!Outputs /\ x.kind = "answer" /\ x.request = m.request
        /\ m.request \in Requests
    BY <1>2, <1>3 DEF Loop!Out, Loop!Outputs, Loop!Messages
  <1> HIDE DEF m, i, x
  <1>5. /\ o \in Seq(Loop!Outputs) /\ Loop!Elements(o) = Loop!Elements(stdout[p]) \cup {x}
        /\ AnswersOf(o) = Append(AnswersOf(stdout[p]), m.request)
    BY <1>4, ProcFacts, ElementsAppend, AnswersAppend
  <1> HIDE DEF o
  <1>6. /\ Loop!TypeOK' /\ OnlyAt(p)
        /\ stdout'[p] = o /\ stdin'[p] = i /\ queued'[p] = queued[p] /\ Sent(p)' \subseteq Sent(p)
    BY <1>2, <1>3, <1>5, ProcFacts DEF Loop!TypeOK, Loop!clientVars, OnlyAt, Pipes, Sent
  <1>7. speaks[p] # "switching"
    <2>1. stdin[p] # <<Hi>>
      <3>1. Hi \in Loop!Elements(<<Hi>>) /\ Hi.request = Hello
        BY ElementsOne, HelloLine
      <3> QED BY <1>3, <3>1, ProcFacts DEF PipesInv, Sent
    <2> QED BY <1>3, <2>1, ProcFacts DEF PipesInv
  <1>8. PipesInv(p)' /\ ~HelloIn(p)'
    BY <1>2, <1>3, <1>4, <1>5, <1>6, <1>7, ProcFacts, PipesKept
  <1>9. child = p => ChildInv(p)'
    <2>1. handshake # "pending" \/ child # p
      BY <1>2, <1>3, ProcFacts DEF ChildInv
    <2>2. (AnswersOf(o) \o Loop!RequestsOf(i)) \o Loop!RequestsOf(queued[p])
            = (AnswersOf(stdout[p]) \o Loop!RequestsOf(stdin[p])) \o Loop!RequestsOf(queued[p])
      <3> DEFINE a == AnswersOf(stdout[p])
                 b == Loop!RequestsOf(i)
                 c == Loop!RequestsOf(queued[p])
                 e == m.request
      <3>1. a \in Seq(AnyRequest) /\ b \in Seq(AnyRequest) /\ c \in Seq(AnyRequest) /\ e \in AnyRequest
        BY <1>3, ProcFacts, OutputsHaveRequests, RequestsAppend
      <3> HIDE DEF a, b, c, e
      <3>2. (Append(a, e) \o b) \o c = (a \o (<<e>> \o b)) \o c
        BY <3>1, AnswerMoves
      <3> QED BY <1>3, <1>5, <3>2 DEF a, b, c, e
    <2>3. Coming(p) => Coming(p)'
      BY <1>2, <1>3, <1>6, <2>2 DEF Coming, Loop!clientVars
    <2> QED BY <1>2, <1>3, <1>6, <1>8, <2>1, <2>3, ProcFacts, ChildKept DEF Loop!clientVars
  <1> QED BY <1>2, <1>6, <1>8, <1>9, AtOneProc

\* It begins to answer the handshake.
LEMMA InvBeginHello ==
  ASSUME LoopInv, NEW p \in Loop!Procs, Loop!BeginHello(p) PROVE LoopInv'
  <1>1. /\ status[p] = "running" /\ speaks[p] = "lines" /\ stdin[p] # << >> /\ Head(stdin[p]) = Hi
        /\ speaks' = [speaks EXCEPT ![p] = "switching"]
        /\ UNCHANGED <<codecs, disposed, Loop!clientVars, status, killed, queued, stdin, stdout>>
    BY DEF Loop!BeginHello, Loop!pipes, Hi
  <1>2. /\ Loop!TypeOK' /\ OnlyAt(p) /\ speaks'[p] = "switching" /\ Sent(p)' = Sent(p)
        /\ (HelloIn(p)' <=> HelloIn(p))
    BY <1>1, ProcFacts DEF Loop!TypeOK, Loop!clientVars, OnlyAt, Pipes, Sent, HelloIn
  <1>3. HelloIn(p) /\ stdin[p] = <<Hi>>
    <2>1. Hi \in Sent(p)
      BY <1>1, ProcFacts, ElementsTail DEF Sent
    <2>2. HelloIn(p)
      BY <2>1, ProcFacts, HelloLine DEF PipesInv
    <2> QED BY <1>1, <2>2 DEF HelloIn
  <1>4. codecs
    BY <1>3, ProcFacts DEF PipesInv
  <1>5. PipesInv(p)'
    BY <1>1, <1>2, <1>3, <1>4, ProcFacts DEF PipesInv
  <1>6. child = p => ChildInv(p)'
    BY <1>1, <1>2, <1>3, ProcFacts DEF ChildInv, Coming, Loop!clientVars
  <1> QED BY <1>1, <1>2, <1>5, <1>6, AtOneProc

\* It has answered the handshake.
LEMMA InvAnswerHello ==
  ASSUME LoopInv, NEW p \in Loop!Procs, Loop!AnswerHello(p) \/ Loop!AnswerHelloOld(p)
  PROVE  LoopInv'
  <1> DEFINE i == Tail(stdin[p])
  <1>1. PICK kind \in {"binary", "plain", "refused"} :
          /\ Loop!Reads(p, "ndjson") /\ stdout' = [stdout EXCEPT ![p] = Append(@, Loop!Out(kind, Hello))]
          /\ \/ kind = "binary" /\ speaks[p] = "switching" /\ speaks' = [speaks EXCEPT ![p] = "frames"]
             \/ /\ kind # "binary" /\ speaks[p] = "lines" /\ speaks' = speaks
                /\ Head(stdin[p]).request = Hello
          /\ UNCHANGED <<codecs, disposed, Loop!clientVars, status, killed, queued>>
    BY DEF Loop!AnswerHello, Loop!AnswerHelloOld, Loop!Writes
  <1> DEFINE x == Loop!Out(kind, Hello)
             o == Append(stdout[p], x)
  <1>2. /\ status[p] = "running" /\ i \in Seq(Loop!Messages) /\ stdin' = [stdin EXCEPT ![p] = i]
        /\ HelloIn(p) => queued[p] = << >> /\ i = << >>
        /\ Head(stdin[p]).request = Hello => HelloIn(p)
        /\ Head(stdin[p]) \in Sent(p)
    BY <1>1, ReadFacts
  <1>3. HelloIn(p)
    <2>1. CASE speaks[p] = "switching"
      <3>1. stdin[p] = <<Hi>>
        BY <1>2, <2>1, ProcFacts DEF PipesInv
      <3>2. Hi \in Sent(p)
        BY <3>1, ElementsOne DEF Sent
      <3> QED BY <3>2, ProcFacts, HelloLine DEF PipesInv
    <2>2. CASE speaks[p] # "switching"
      BY <1>1, <1>2, <2>2
    <2> QED BY <2>1, <2>2
  <1>4. x \in Loop!Outputs /\ x.kind = kind /\ x.request = Hello
    BY DEF Loop!Out, Loop!Outputs
  <1> HIDE DEF i, x
  <1>5. o \in Seq(Loop!Outputs) /\ Loop!Elements(o) = Loop!Elements(stdout[p]) \cup {x}
    BY <1>4, ProcFacts, ElementsAppend
  <1> HIDE DEF o
  <1>6. /\ Loop!TypeOK' /\ OnlyAt(p)
        /\ stdout'[p] = o /\ stdin'[p] = << >> /\ queued'[p] = << >>
        /\ speaks'[p] = IF kind = "binary" THEN "frames" ELSE "lines"
    BY <1>1, <1>2, <1>3, <1>5, ProcFacts DEF Loop!TypeOK, Loop!clientVars, OnlyAt, Pipes, x, o
  <1>7. Sent(p)' = {} /\ ~HelloIn(p)'
    BY <1>6, ElementsOne DEF Sent, HelloIn
  <1>8. PipesInv(p)'
    <2>1. codecs
      BY <1>3, ProcFacts DEF PipesInv
    <2>2. \A y \in Loop!Elements(stdout[p]) :
            y.kind \in {"push", "junk"} /\ y.request # Hello
      BY <1>3, ProcFacts DEF PipesInv
    <2> QED BY <1>1, <1>2, <1>4, <1>5, <1>6, <1>7, <2>1, <2>2 DEF PipesInv
  <1>9. child = p => ChildInv(p)'
    <2>1. child = p => handshake # "ready" /\ mode # "binary"
      BY <1>3, ProcFacts DEF ChildInv
    <2> QED BY <1>1, <1>2, <1>4, <1>5, <1>6, <1>7, <2>1, ProcFacts DEF ChildInv, Loop!clientVars
  <1> QED BY <1>1, <1>2, <1>6, <1>8, <1>9, AtOneProc

-----------------------------------------------------------------------------
(* The ends of processes.                                                  *)

\* No process is a name of its own.
LEMMA NoProcIs == Loop!NoProc \notin Loop!Procs
  BY MaxProcsAssumption DEF Loop!NoProc, Loop!Procs

ClientTypes ==
  /\ codecs \in BOOLEAN /\ disposed \in BOOLEAN
  /\ child \in Loop!Procs \cup {Loop!NoProc}
  /\ mode \in {"ndjson", "binary"}
  /\ handshake \in {"none", "pending", "ready", "failed"}
  /\ waiting \in Seq(Requests) /\ binQueue \in Seq(Requests)
  /\ pending \subseteq Requests \cup {Hello}
  /\ fate \in [Requests -> {"idle", "waiting", "answered", "failed"}]
  /\ answer \in [Requests -> Requests \cup {Hello, NoRequest}]

PipeTypes ==
  /\ status \in [Loop!Procs -> Loop!Statuses]
  /\ killed \in [Loop!Procs -> BOOLEAN]
  /\ speaks \in [Loop!Procs -> {"lines", "switching", "frames"}]
  /\ queued \in [Loop!Procs -> Seq(Loop!Messages)] /\ stdin \in [Loop!Procs -> Seq(Loop!Messages)]
  /\ stdout \in [Loop!Procs -> Seq(Loop!Outputs)]

\* The type invariant in two parts, that of the transport and that of its processes.
LEMMA TypesAre ==
  /\ Loop!TypeOK <=> ClientTypes /\ PipeTypes
  /\ Loop!TypeOK' <=> ClientTypes' /\ PipeTypes'
  BY DEF Loop!TypeOK, ClientTypes, PipeTypes

\* A push frame in front of the handshake's answer.
LEMMA InvPushBeforeHello ==
  ASSUME LoopInv, NEW p \in Loop!Procs, Loop!PushBeforeHello(p) PROVE LoopInv'
  <1> DEFINE t == Tail(stdout[p])
             o == IF Len(stdout[p]) = 1 \/ stdout[p][2].kind = "push" THEN t ELSE Tail(t)
  <1>1. /\ child = p /\ mode = "ndjson" /\ stdout[p] # << >>
        /\ stdout' = [stdout EXCEPT ![p] = o]
        /\ UNCHANGED <<codecs, disposed, Loop!clientVars, status, killed, speaks, queued, stdin>>
    BY DEF Loop!PushBeforeHello
  <1>2. o \in Seq(Loop!Outputs) /\ Loop!Elements(o) \subseteq Loop!Elements(stdout[p])
    <2>1. t \in Seq(Loop!Outputs) /\ Loop!Elements(t) \subseteq Loop!Elements(stdout[p])
      BY <1>1, ProcFacts, ElementsTail
    <2>2. CASE Len(stdout[p]) = 1 \/ stdout[p][2].kind = "push"
      BY <2>1, <2>2
    <2>3. CASE ~(Len(stdout[p]) = 1 \/ stdout[p][2].kind = "push")
      <3>1. t # << >>
        <4>1. \A s \in Seq(Loop!Outputs) : s # << >> /\ Len(s) # 1 => Len(Tail(s)) # 0
          OBVIOUS
        <4>2. stdout[p] \in Seq(Loop!Outputs)
          BY ProcFacts
        <4>3. stdout[p] # << >> /\ Len(stdout[p]) # 1
          BY <1>1, <2>3
        <4>4. Len(t) # 0
          BY <4>1, <4>2, <4>3
        <4> HIDE DEF t
        <4> QED BY <4>4
      <3> HIDE DEF t
      <3>2. Tail(t) \in Seq(Loop!Outputs) /\ Loop!Elements(Tail(t)) \subseteq Loop!Elements(t)
        BY <2>1, <3>1, ElementsTail
      <3> QED BY <2>1, <2>3, <3>2
    <2> QED BY <2>2, <2>3
  <1> HIDE DEF o
  <1>3. /\ Loop!TypeOK' /\ OnlyAt(p)
        /\ stdout'[p] = o /\ Sent(p)' = Sent(p) /\ (HelloIn(p)' <=> HelloIn(p))
    BY <1>1, <1>2, ProcFacts DEF Loop!TypeOK, Loop!clientVars, OnlyAt, Pipes, Sent, HelloIn
  <1>4. status[p] # "unborn"
    BY <1>1, ProcFacts DEF ChildInv
  <1>5. PipesInv(p)'
    BY <1>1, <1>2, <1>3, <1>4, ProcFacts, PipesKept
  <1>6. ChildInv(p)'
    BY <1>1, <1>2, <1>3, <1>4, ProcFacts, ChildKept DEF Loop!clientVars
  <1> QED BY <1>1, <1>3, <1>5, <1>6, AtOneProc

\* What the end of a process, in its parts, does to its pipes.
LEMMA EndPipes ==
  ASSUME LoopInv, NEW p \in Loop!Procs, Loop!Events(p)
  PROVE  /\ PipeTypes' /\ OnlyAt(p) /\ PipesInv(p)' /\ UNCHANGED <<codecs, disposed>>
         /\ status[p] # "unborn" /\ status'[p] # "running" /\ (killed[p] => killed'[p])
  <1> USE ProcFacts, TypesAre DEF PipeTypes, OnlyAt, Pipes, Loop!pipes, Loop!Statuses
  <1>1. CASE Loop!SpawnError(p) \/ Loop!Close(p)
    <2>1. /\ status[p] \notin {"unborn", "running"} /\ status' = [status EXCEPT ![p] = "closed"]
          /\ UNCHANGED <<codecs, disposed, killed, speaks, queued, stdin, stdout>>
      BY <1>1 DEF Loop!SpawnError, Loop!Close
    <2>2. /\ PipeTypes' /\ OnlyAt(p) /\ status'[p] = "closed" /\ Sent(p)' = Sent(p)
          /\ (HelloIn(p)' <=> HelloIn(p))
      BY <2>1 DEF Sent, HelloIn
    <2>3. PipesInv(p)'
      BY <2>1, <2>2, PipesKept
    <2> QED BY <2>1, <2>2, <2>3
  <1>2. CASE Loop!WriteError(p)
    <2>1. /\ status[p] = "dead" /\ queued[p] # << >> /\ queued' = [queued EXCEPT ![p] = << >>]
          /\ killed' = [killed EXCEPT ![p] = TRUE]
          /\ UNCHANGED <<codecs, disposed, status, speaks, stdin, stdout>>
      BY <1>2 DEF Loop!WriteError
    <2>2. /\ PipeTypes' /\ OnlyAt(p) /\ queued'[p] = << >> /\ stdin'[p] = stdin[p]
          /\ stdout'[p] = stdout[p] /\ speaks'[p] = speaks[p] /\ status'[p] = "dead" /\ killed'[p]
      BY <2>1
    <2>3. Sent(p)' \subseteq Sent(p) /\ (HelloIn(p) => stdin[p] = << >>)
      BY <2>1, <2>2, ElementsOne DEF Sent, HelloIn
    <2>4. PipesInv(p)'
      BY <2>1, <2>2, <2>3, PipesKept
    <2> QED BY <2>1, <2>2, <2>4
  <1>3. CASE Loop!Exit(p)
    <2>1. /\ status[p] = "dead" /\ queued' = [queued EXCEPT ![p] = << >>]
          /\ stdin' = [stdin EXCEPT ![p] = << >>] /\ status' = [status EXCEPT ![p] = "exited"]
          /\ UNCHANGED <<codecs, disposed, killed, speaks, stdout>>
      BY <1>3 DEF Loop!Exit
    <2>2. /\ PipeTypes' /\ OnlyAt(p) /\ queued'[p] = << >> /\ stdin'[p] = << >>
          /\ stdout'[p] = stdout[p] /\ speaks'[p] = speaks[p] /\ status'[p] = "exited"
      BY <2>1
    <2>3. Sent(p)' = {}
      BY <2>2, ElementsOne DEF Sent
    <2>4. PipesInv(p)'
      BY <2>1, <2>2, <2>3, PipesKept
    <2> QED BY <2>1, <2>2, <2>4
  <1> QED BY <1>1, <1>2, <1>3 DEF Loop!Events

\* The end of a process that the transport has given up already.
LEMMA InvStrangerEnds ==
  ASSUME LoopInv, NEW p \in Loop!Procs, child # p, Loop!Events(p) PROVE LoopInv'
  <1>1. /\ PipeTypes' /\ OnlyAt(p) /\ PipesInv(p)' /\ UNCHANGED <<codecs, disposed>>
        /\ status'[p] # "running" /\ (killed[p] => killed'[p])
    BY EndPipes
  <1>2. UNCHANGED Loop!clientVars
    BY DEF Loop!Events, Loop!SpawnError, Loop!WriteError, Loop!Exit, Loop!Close, Loop!Fail
  <1>3. Loop!TypeOK'
    BY <1>1, <1>2, ProcFacts, TypesAre DEF ClientTypes, Loop!clientVars
  <1> QED BY <1>1, <1>2, <1>3, AtOneProc

\* The transport gives its process up, and everybody with it.
LEMMA LoseKeeps ==
  ASSUME LoopInv, child' = Loop!NoProc, codecs' = codecs, disposed' \in BOOLEAN,
         mode' \in {"ndjson", mode}, handshake' # "pending",
         handshake' \in {"none", "failed", handshake},
         codecs \/ handshake' \in {"none", handshake},
         pending' = {}, binQueue' = << >>, waiting' = << >>, answer' = answer,
         Loop!Settle(Loop!InFlight, "failed")
  PROVE  ClientTypes' /\ ClientInv'
  <1>1. Loop!TypeOK /\ ClientTypes /\ ClientInv
    BY TypesAre DEF LoopInv
  <1>2. ClientTypes'
    BY <1>1 DEF ClientTypes, Loop!Settle
  <1>3. Loop!InFlight' = {}
    BY ElementsOne DEF Loop!InFlight
  <1>4. \A r \in Requests : fate'[r] = IF r \in Loop!InFlight THEN "failed" ELSE fate[r]
    BY DEF Loop!Settle
  <1>5. Loop!NoneForgotten'
    BY <1>1, <1>3, <1>4, ElementsOne DEF ClientInv, Loop!NoneForgotten
  <1>6. Distinct(waiting)' /\ Distinct(binQueue)'
    BY DEF Distinct
  <1>7. ClientInv'
    BY <1>1, <1>4, <1>5, <1>6 DEF ClientInv
  <1> QED BY <1>2, <1>7

\* After the process is given up, its pipes are all that matters.
LEMMA InvLost ==
  ASSUME LoopInv, NEW p \in Loop!Procs, child \in {p, Loop!NoProc}, child' = Loop!NoProc,
         codecs' = codecs, Loop!TypeOK', ClientInv', OnlyAt(p), PipesInv(p)',
         status'[p] = "running" => killed'[p]
  PROVE  LoopInv'
  <1>1. \A x \in Loop!Procs : ProcInv(x)
    BY DEF LoopInv
  <1>2. ASSUME NEW x \in Loop!Procs \ {p} PROVE ProcInv(x)'
    BY <1>1, <1>2, NoProcIs, Frame DEF OnlyAt
  <1>3. ProcInv(p)'
    BY NoProcIs DEF ProcInv
  <1>4. \A x \in Loop!Procs : ProcInv(x)'
    BY <1>2, <1>3
  <1> QED BY <1>4 DEF LoopInv, Loop!Procs

\* The transport's own process fails to start, refuses a write or closes.
LEMMA InvOwnEnds ==
  ASSUME LoopInv, NEW p \in Loop!Procs, child = p,
         Loop!SpawnError(p) \/ Loop!WriteError(p) \/ Loop!Close(p)
  PROVE  LoopInv'
  <1>1. /\ PipeTypes' /\ OnlyAt(p) /\ PipesInv(p)' /\ UNCHANGED <<codecs, disposed>>
        /\ status'[p] # "running"
    BY EndPipes DEF Loop!Events
  <1>2. Loop!Lose
    BY DEF Loop!SpawnError, Loop!WriteError, Loop!Close, Loop!Fail
  <1>3. ClientTypes' /\ ClientInv'
    BY <1>1, <1>2, LoseKeeps, ProcFacts DEF Loop!Lose, Loop!TypeOK
  <1>4. Loop!TypeOK'
    BY <1>1, <1>3, TypesAre
  <1> QED BY <1>1, <1>2, <1>3, <1>4, InvLost DEF Loop!Lose

\* A line that is no answer ends the process.
LEMMA InvMalformedLine ==
  ASSUME LoopInv, NEW p \in Loop!Procs, Loop!MalformedLine(p) PROVE LoopInv'
  <1>1. /\ child = p /\ status[p] # "unborn" /\ stdout[p] # << >>
        /\ stdout' = [stdout EXCEPT ![p] = Tail(stdout[p])] /\ killed' = [killed EXCEPT ![p] = TRUE]
        /\ Loop!Lose
        /\ UNCHANGED <<codecs, disposed, status, speaks, queued, stdin>>
    BY DEF Loop!MalformedLine, Loop!Take
  <1>2. /\ Tail(stdout[p]) \in Seq(Loop!Outputs)
        /\ Loop!Elements(Tail(stdout[p])) \subseteq Loop!Elements(stdout[p])
    BY <1>1, ProcFacts, ElementsTail
  <1>3. ClientTypes' /\ ClientInv'
    BY <1>1, LoseKeeps, ProcFacts DEF Loop!Lose, Loop!TypeOK
  <1>4. /\ PipeTypes' /\ OnlyAt(p) /\ killed'[p]
        /\ stdout'[p] = Tail(stdout[p]) /\ Sent(p)' = Sent(p) /\ (HelloIn(p)' <=> HelloIn(p))
    BY <1>1, <1>2, ProcFacts, TypesAre DEF PipeTypes, OnlyAt, Pipes, Sent, HelloIn
  <1>5. PipesInv(p)'
    BY <1>1, <1>2, <1>4, ProcFacts, PipesKept
  <1>6. Loop!TypeOK'
    BY <1>3, <1>4, TypesAre
  <1> QED BY <1>1, <1>3, <1>4, <1>5, <1>6, InvLost DEF Loop!Lose

\* dispose().
LEMMA InvTransportDisposed ==
  ASSUME LoopInv, Loop!Dispose PROVE LoopInv'
  <1>1. /\ child' = Loop!NoProc /\ disposed' = TRUE
        /\ handshake' = IF handshake = "pending" THEN "failed" ELSE handshake
        /\ pending' = {} /\ binQueue' = << >> /\ waiting' = << >> /\ answer' = answer /\ mode' = mode
        /\ Loop!Settle(Loop!InFlight, "failed")
        /\ killed' = IF Loop!Usable THEN [killed EXCEPT ![child] = TRUE] ELSE killed
        /\ UNCHANGED <<codecs, status, speaks, queued, stdin, stdout>>
    BY DEF Loop!Dispose, Loop!pipes
  <1>2. Loop!TypeOK /\ ClientInv
    BY DEF LoopInv
  <1>3. ClientTypes' /\ ClientInv'
    <2>1. codecs \/ handshake' = handshake
      BY <1>1, <1>2 DEF ClientInv
    <2> QED BY <1>1, <1>2, <2>1, LoseKeeps DEF Loop!TypeOK
  <1>4. PICK p \in Loop!Procs : child \in {p, Loop!NoProc}
    <2>1. 1 \in Loop!Procs
      BY MaxProcsAssumption DEF Loop!Procs
    <2> QED BY <1>2, <2>1 DEF Loop!TypeOK
  <1>5. PipeTypes' /\ OnlyAt(p) /\ (killed[p] => killed'[p])
    BY <1>1, <1>2, <1>4, TypesAre DEF PipeTypes, OnlyAt, Pipes, Loop!Usable
  <1>6. PipesInv(p)'
    BY <1>1, ProcFacts DEF PipesInv, Sent, HelloIn
  <1>7. status'[p] = "running" => killed'[p]
    <2> SUFFICES ASSUME status[p] = "running" PROVE killed'[p]
      BY <1>1
    <2>1. ProcInv(p)
      BY DEF LoopInv
    <2>2. CASE child = p
      BY <1>1, <1>2, <2>2, NoProcIs DEF Loop!Usable, Loop!TypeOK
    <2>3. CASE child # p
      BY <1>5, <2>1, <2>3 DEF ProcInv
    <2> QED BY <2>2, <2>3
  <1>8. Loop!TypeOK'
    BY <1>3, <1>5, TypesAre
  <1> QED BY <1>1, <1>3, <1>4, <1>5, <1>6, <1>7, <1>8, InvLost

-----------------------------------------------------------------------------
(* The transport alone.                                                    *)

\* There is a process to spawn.
LEMMA NextBornIs ==
  ASSUME Loop!Unborn # {} PROVE Loop!NextBorn \in Loop!Procs /\ status[Loop!NextBorn] = "unborn"
  <1>1. Loop!Unborn \subseteq Nat
    BY MaxProcsAssumption DEF Loop!Unborn, Loop!Procs
  <1> DEFINE R == {ss \in Nat \X Nat : ss[1] < ss[2]}
  <1>2. IsWellFoundedOn(R, Nat)
    BY NatLessThanWellFounded DEF OpToRel
  <1>3. PICK p \in Loop!Unborn : \A q \in Loop!Unborn : p <= q
    <2>1. \E p \in Loop!Unborn : \A q \in Loop!Unborn : ~ (<<q, p>> \in R)
      <3> HIDE DEF R
      <3> QED BY <1>1, <1>2, WFMin, Zenon
    <2>2. \A p, q \in Nat : ~ (<<q, p>> \in R) => p <= q
      OBVIOUS
    <2> HIDE DEF R
    <2> QED BY <1>1, <2>1, <2>2
  <1>4. Loop!NextBorn \in Loop!Unborn
    BY <1>3 DEF Loop!NextBorn
  <1> QED BY <1>4 DEF Loop!Unborn

\* A step of the client that sends nothing.
LEMMA InvQuiet ==
  ASSUME LoopInv, Loop!TypeOK', ClientInv', UNCHANGED <<codecs, child, status, killed, speaks, Loop!pipes>>,
         \/ child = Loop!NoProc
         \/ UNCHANGED <<handshake, mode, binQueue>>
  PROVE  LoopInv'
  <1> SUFFICES ASSUME NEW x \in Loop!Procs PROVE ProcInv(x)'
    BY DEF LoopInv, Loop!Procs
  <1>1. ProcInv(x)
    BY DEF LoopInv
  <1>2. Pipes(x)' = Pipes(x)
    BY DEF Pipes, Loop!pipes
  <1> QED BY <1>1, <1>2, NoProcIs, Frame

\* A step of the client and its process.
LEMMA InvOwn ==
  ASSUME LoopInv, NEW p \in Loop!Procs, child \in {p, Loop!NoProc}, child' = p,
         codecs' = codecs, Loop!TypeOK', ClientInv', OnlyAt(p), PipesInv(p)', ChildInv(p)'
  PROVE  LoopInv'
  <1>1. \A x \in Loop!Procs : ProcInv(x)
    BY DEF LoopInv
  <1>2. ASSUME NEW x \in Loop!Procs \ {p} PROVE ProcInv(x)'
    BY <1>1, <1>2, NoProcIs, Frame DEF OnlyAt
  <1>3. ProcInv(p)'
    BY DEF ProcInv
  <1>4. \A x \in Loop!Procs : ProcInv(x)'
    BY <1>2, <1>3
  <1> QED BY <1>4 DEF LoopInv, Loop!Procs

\* What is known of the transport before a step.
LEMMA ClientFacts ==
  ASSUME LoopInv
  PROVE  /\ Loop!TypeOK /\ ClientInv /\ ClientTypes /\ PipeTypes
         /\ \A r \in Requests : r # Hello /\ r # NoRequest
         /\ \A r \in Requests : fate[r] = "waiting" <=>
              r \in pending \/ r \in Loop!Elements(binQueue) \/ r \in Loop!Elements(waiting)
         /\ Loop!Elements(<< >>) = {}
         /\ Distinct(<< >>) /\ \A r : Distinct(<<r>>) /\ Loop!Elements(<<r>>) = {r}
  <1>1. Loop!TypeOK /\ ClientInv /\ ClientTypes /\ PipeTypes
    BY TypesAre DEF LoopInv
  <1>2. \A r \in Requests : r # Hello /\ r # NoRequest
    BY RequestsAssumption
  <1>3. Distinct(<< >>) /\ \A r : Distinct(<<r>>)
    BY DEF Distinct
  <1> QED BY <1>1, <1>2, <1>3, ElementsOne DEF ClientInv, Loop!NoneForgotten, Loop!InFlight

\* An invoke that is refused.
LEMMA InvInvokeRefused ==
  ASSUME LoopInv, NEW r \in Requests, Loop!InvokeRefused(r) \/ Loop!InvokeWithoutStdio(r)
  PROVE  LoopInv'
  <1>1. /\ fate[r] = "idle" /\ fate' = [x \in Requests |-> IF x = r THEN "failed" ELSE fate[x]]
        /\ \/ UNCHANGED <<mode, handshake>>
           \/ child = Loop!NoProc /\ mode' = "ndjson" /\ handshake' = "none"
        /\ UNCHANGED <<codecs, disposed, child, waiting, pending, binQueue, answer, status,
                       killed, speaks, Loop!pipes>>
    BY DEF Loop!InvokeRefused, Loop!InvokeWithoutStdio, Loop!Settle
  <1>2. ClientTypes' /\ PipeTypes'
    BY <1>1, ClientFacts DEF ClientTypes, PipeTypes, Loop!pipes
  <1>3. Loop!InFlight' = Loop!InFlight
    BY <1>1 DEF Loop!InFlight
  <1>4. ClientInv'
    BY <1>1, <1>3, ClientFacts DEF ClientInv, Loop!NoneForgotten, ClientTypes
  <1> QED BY <1>1, <1>2, <1>4, TypesAre, InvQuiet

\* An invoke behind the handshake.
LEMMA InvInvokeWaits ==
  ASSUME LoopInv, NEW r \in Requests, Loop!InvokeWaits(r) PROVE LoopInv'
  <1>1. /\ fate[r] = "idle" /\ Loop!Usable /\ handshake = "pending"
        /\ waiting' = Append(waiting, r)
        /\ fate' = [x \in Requests |-> IF x = r THEN "waiting" ELSE fate[x]]
        /\ UNCHANGED <<codecs, disposed, child, mode, handshake, pending, binQueue, answer, status,
                       killed, speaks, Loop!pipes>>
    BY DEF Loop!InvokeWaits, Loop!Settle
  <1>2. r \notin pending /\ r \notin Loop!Elements(binQueue) /\ r \notin Loop!Elements(waiting)
    BY <1>1, ClientFacts
  <1>3. /\ waiting' \in Seq(Requests) /\ Loop!Elements(waiting)' = Loop!Elements(waiting) \cup {r}
        /\ Distinct(waiting)'
    BY <1>1, <1>2, ClientFacts, ElementsAppend DEF ClientTypes, ClientInv
  <1>4. ClientTypes' /\ PipeTypes'
    BY <1>1, <1>3, ClientFacts DEF ClientTypes, PipeTypes, Loop!pipes
  <1>5. Loop!InFlight' = Loop!InFlight \cup {r}
    BY <1>1, <1>3 DEF Loop!InFlight
  <1>6. ClientInv'
    <2>1. Loop!NoneForgotten'
      BY <1>1, <1>2, <1>3, <1>5, ClientFacts DEF ClientInv, Loop!NoneForgotten, ClientTypes, Loop!Usable
    <2> QED BY <1>1, <1>3, <2>1, ClientFacts DEF ClientInv, ClientTypes
  <1> QED BY <1>1, <1>4, <1>6, TypesAre, InvQuiet

-----------------------------------------------------------------------------
(* The transport writes.                                                   *)

\* A line or a frame of an invoke is written to the process.
LEMMA SendPipes ==
  ASSUME LoopInv, NEW p \in Loop!Procs, NEW m \in Loop!Messages, m.request \in Requests,
         status[p] # "unborn", ~HelloIn(p),
         m.format = IF speaks[p] = "frames" THEN "binary" ELSE "ndjson",
         queued' = [queued EXCEPT ![p] = Append(@, m)],
         UNCHANGED <<codecs, status, killed, speaks, stdin, stdout>>
  PROVE  /\ PipeTypes' /\ OnlyAt(p) /\ PipesInv(p)' /\ ~HelloIn(p)'
         /\ Loop!RequestsOf(queued'[p]) = Append(Loop!RequestsOf(queued[p]), m.request)
  <1> DEFINE q == Append(queued[p], m)
  <1>1. /\ q \in Seq(Loop!Messages) /\ Loop!Elements(q) = Loop!Elements(queued[p]) \cup {m}
        /\ Loop!RequestsOf(q) = Append(Loop!RequestsOf(queued[p]), m.request)
    BY ProcFacts, OutputsHaveRequests, ElementsAppend, RequestsAppend
  <1> HIDE DEF q
  <1>2. /\ PipeTypes' /\ OnlyAt(p) /\ queued'[p] = q /\ Sent(p)' = Sent(p) \cup {m}
    BY <1>1, ClientFacts DEF PipeTypes, OnlyAt, Pipes, Sent, q
  <1>3. PipesInv(p)' /\ ~HelloIn(p)'
    BY <1>2, ProcFacts, PipesKept
  <1> QED BY <1>1, <1>2, <1>3

\* An invoke in NDJSON.
LEMMA InvInvokeLine ==
  ASSUME LoopInv, NEW r \in Requests, Loop!InvokeLine(r) PROVE LoopInv'
  <1>1. /\ fate[r] = "idle" /\ child # Loop!NoProc
        /\ codecs => handshake = "ready" /\ mode = "ndjson"
        /\ pending' = pending \cup {r} /\ queued' = [queued EXCEPT ![child] = Append(@, Loop!Line(r))]
        /\ fate' = [x \in Requests |-> IF x = r THEN "waiting" ELSE fate[x]]
        /\ UNCHANGED <<codecs, disposed, child, mode, handshake, waiting, binQueue, answer,
                       status, killed, speaks, stdin, stdout>>
    BY DEF Loop!InvokeLine, Loop!Settle, Loop!Usable
  <1>2. PICK p \in Loop!Procs : child = p
    BY <1>1, ClientFacts DEF ClientTypes
  <1>3. /\ status[p] # "unborn" /\ ~HelloIn(p) /\ speaks[p] = "lines" /\ mode = "ndjson"
        /\ handshake # "pending"
    <2>1. CASE codecs
      BY <1>1, <1>2, <2>1, ProcFacts DEF ChildInv
    <2>2. CASE ~codecs
      BY <1>2, <2>2, ProcFacts, ClientFacts DEF ChildInv, PipesInv, ClientInv
    <2> QED BY <2>1, <2>2
  <1>4. Loop!Line(r) \in Loop!Messages /\ Loop!Line(r).request = r /\ Loop!Line(r).format = "ndjson"
    BY DEF Loop!Line, Loop!Messages
  <1>5. PipeTypes' /\ OnlyAt(p) /\ PipesInv(p)' /\ ~HelloIn(p)'
    BY <1>1, <1>2, <1>3, <1>4, SendPipes
  <1>6. ClientTypes'
    BY <1>1, ClientFacts DEF ClientTypes
  <1>7. ClientInv'
    <2>1. r \notin pending /\ r \notin Loop!Elements(binQueue) /\ r \notin Loop!Elements(waiting)
      BY <1>1, ClientFacts
    <2>2. Loop!InFlight' = Loop!InFlight \cup {r}
      BY <1>1, ClientFacts DEF Loop!InFlight
    <2>3. Loop!NoneForgotten'
      BY <1>1, <2>1, <2>2, ClientFacts DEF ClientInv, Loop!NoneForgotten, ClientTypes
    <2> QED BY <1>1, <2>3, ClientFacts DEF ClientInv, ClientTypes
  <1>8. ChildInv(p)'
    BY <1>1, <1>3, <1>5, <1>2, ProcFacts DEF ChildInv
  <1> QED BY <1>1, <1>2, <1>5, <1>6, <1>7, <1>8, TypesAre, InvOwn

\* An invoke in binary.
LEMMA InvInvokeFrame ==
  ASSUME LoopInv, NEW r \in Requests, Loop!InvokeFrame(r) PROVE LoopInv'
  <1>1. /\ fate[r] = "idle" /\ child # Loop!NoProc /\ status[child] # "exited"
        /\ handshake = "ready" /\ mode = "binary"
        /\ binQueue' = Append(binQueue, r) /\ queued' = [queued EXCEPT ![child] = Append(@, Loop!Frame(r))]
        /\ fate' = [x \in Requests |-> IF x = r THEN "waiting" ELSE fate[x]]
        /\ UNCHANGED <<codecs, disposed, child, mode, handshake, waiting, pending, answer,
                       status, killed, speaks, stdin, stdout>>
    BY DEF Loop!InvokeFrame, Loop!Settle, Loop!Usable
  <1>2. PICK p \in Loop!Procs : child = p
    BY <1>1, ClientFacts DEF ClientTypes
  <1>3. status[p] # "unborn" /\ ~HelloIn(p) /\ speaks[p] = "frames" /\ Coming(p)
    BY <1>1, <1>2, ProcFacts DEF ChildInv
  <1>4. Loop!Frame(r) \in Loop!Messages /\ Loop!Frame(r).request = r /\ Loop!Frame(r).format = "binary"
    BY DEF Loop!Frame, Loop!Messages
  <1>5. /\ PipeTypes' /\ OnlyAt(p) /\ PipesInv(p)' /\ ~HelloIn(p)'
        /\ Loop!RequestsOf(queued'[p]) = Append(Loop!RequestsOf(queued[p]), r)
    BY <1>1, <1>2, <1>3, <1>4, SendPipes
  <1>6. r \notin pending /\ r \notin Loop!Elements(binQueue) /\ r \notin Loop!Elements(waiting)
    BY <1>1, ClientFacts
  <1>7. /\ binQueue' \in Seq(Requests) /\ Loop!Elements(binQueue)' = Loop!Elements(binQueue) \cup {r}
        /\ Distinct(binQueue)'
    BY <1>1, <1>6, ClientFacts, ElementsAppend DEF ClientTypes, ClientInv
  <1>8. ClientTypes'
    BY <1>1, <1>7, ClientFacts DEF ClientTypes
  <1>9. ClientInv'
    <2>1. Loop!InFlight' = Loop!InFlight \cup {r}
      BY <1>1, <1>7 DEF Loop!InFlight
    <2>2. Loop!NoneForgotten'
      BY <1>1, <1>6, <1>7, <2>1, ClientFacts DEF ClientInv, Loop!NoneForgotten, ClientTypes
    <2> QED BY <1>1, <1>7, <2>2, ClientFacts DEF ClientInv, ClientTypes
  <1>10. Coming(p)'
    <2> DEFINE a == AnswersOf(stdout[p]) \o Loop!RequestsOf(stdin[p])
               b == Loop!RequestsOf(queued[p])
    <2>1. a \in Seq(AnyRequest) /\ b \in Seq(AnyRequest) /\ r \in AnyRequest
      BY ProcFacts DEF AnyRequest
    <2>2. binQueue = a \o b
      BY <1>1, <1>2, <1>3 DEF Coming
    <2> HIDE DEF a, b
    <2>3. Append(a \o b, r) = a \o Append(b, r)
      BY <2>1, LastLast
    <2> QED BY <1>1, <1>2, <1>5, <2>2, <2>3 DEF Coming, a, b
  <1>11. ChildInv(p)'
    BY <1>1, <1>2, <1>3, <1>5, <1>10 DEF ChildInv
  <1> QED BY <1>1, <1>2, <1>5, <1>8, <1>9, <1>11, TypesAre, InvOwn

\* The first line to a new process: that of the handshake or of an invoke.
LEMMA SpawnKeeps ==
  ASSUME LoopInv, NEW first \in Requests \cup {Hello}, NEW after \in Seq(Requests),
         Loop!Spawn(first, after), first = Hello => codecs, first # Hello => ~codecs /\ after = << >>,
         \/ UNCHANGED fate /\ first = Hello /\ after = << >>
         \/ \E r \in Requests : /\ fate[r] = "idle"
                                /\ fate' = [x \in Requests |-> IF x = r THEN "waiting" ELSE fate[x]]
                                /\ first = r \/ (first = Hello /\ after = <<r>>)
  PROVE  LoopInv'
  <1> DEFINE q == <<Loop!Line(first)>>
  <1>2. PICK p \in Loop!Procs : p = Loop!NextBorn /\ status[p] = "unborn"
    BY NextBornIs DEF Loop!Spawn
  <1>1. PICK outcome \in {"running", "failed"} :
        /\ child = Loop!NoProc /\ child' = p /\ status' = [status EXCEPT ![p] = outcome]
        /\ mode' = "ndjson" /\ handshake' = IF first = Hello THEN "pending" ELSE "none"
        /\ pending' = pending \cup {first} /\ waiting' = after
        /\ queued' = [queued EXCEPT ![p] = q]
        /\ UNCHANGED <<codecs, disposed, binQueue, answer, killed, speaks, stdin, stdout>>
    BY <1>2 DEF Loop!Spawn
  <1>3. stdin[p] = << >> /\ stdout[p] = << >> /\ speaks[p] = "lines"
    BY <1>2, ProcFacts DEF PipesInv
  <1>4. pending = {} /\ binQueue = << >> /\ waiting = << >>
    BY <1>1, ClientFacts DEF ClientInv, Loop!NoneForgotten
  <1>5. q \in Seq(Loop!Messages) /\ Loop!Elements(q) = {Loop!Line(first)}
    <2>1. Loop!Line(first) \in Loop!Messages
      BY DEF Loop!Line, Loop!Messages
    <2> QED BY <2>1, ElementsOne
  <1>6. /\ Loop!Line(first).request = first /\ Loop!Line(first).format = "ndjson"
        /\ first = Hello <=> q = <<Hi>>
    BY DEF Loop!Line, Hi
  <1> HIDE DEF q
  <1>7. /\ PipeTypes' /\ OnlyAt(p) /\ queued'[p] = q /\ Sent(p)' = {Loop!Line(first)}
        /\ status'[p] = outcome /\ stdin'[p] = << >> /\ stdout'[p] = << >> /\ speaks'[p] = "lines"
    BY <1>1, <1>2, <1>3, <1>5, ClientFacts DEF PipeTypes, OnlyAt, Pipes, Loop!Statuses, Sent
  <1>8. HelloIn(p)' <=> first = Hello
    BY <1>5, <1>6, <1>7, ElementsOne DEF HelloIn
  <1>9. PipesInv(p)'
    BY <1>1, <1>6, <1>7, <1>8, ElementsOne DEF PipesInv
  <1>10. ChildInv(p)'
    BY <1>1, <1>6, <1>7, <1>8, ElementsOne DEF ChildInv
  <1>11. ClientTypes'
    BY <1>1, <1>2, ClientFacts DEF ClientTypes
  <1>12. ClientInv'
    <2>1. Loop!InFlight = {} /\ \A r \in Requests : fate[r] # "waiting"
      BY <1>4, ClientFacts DEF Loop!InFlight
    <2>2. CASE UNCHANGED fate /\ first = Hello /\ after = << >>
      <3>1. Loop!InFlight' = {}
        BY <1>1, <1>4, <2>2, ElementsOne DEF Loop!InFlight
      <3>2. Loop!NoneForgotten'
        BY <1>1, <1>2, <1>4, <2>1, <2>2, <3>1, NoProcIs, ElementsOne DEF Loop!NoneForgotten
      <3> QED BY <1>1, <1>4, <2>2, <3>2, ClientFacts DEF ClientInv
    <2>3. ASSUME NEW r \in Requests, fate[r] = "idle",
                 fate' = [x \in Requests |-> IF x = r THEN "waiting" ELSE fate[x]],
                 first = r \/ (first = Hello /\ after = <<r>>)
          PROVE  ClientInv'
      <3>1. Loop!InFlight' = {r}
        BY <1>1, <1>4, <2>3, ClientFacts DEF Loop!InFlight
      <3>2. Loop!NoneForgotten'
        BY <1>1, <1>2, <1>4, <2>1, <2>3, <3>1, NoProcIs, ClientFacts DEF Loop!NoneForgotten
      <3> QED BY <1>1, <1>4, <2>3, <3>2, ClientFacts DEF ClientInv, ClientTypes
    <2> QED BY <2>2, <2>3
  <1> QED BY <1>1, <1>2, <1>7, <1>9, <1>10, <1>11, <1>12, TypesAre, InvOwn

\* ready() or an invoke that spawns.
LEMMA InvSpawns ==
  ASSUME LoopInv, Loop!Ready \/ \E r \in Requests : Loop!InvokeSpawns(r)
  PROVE  LoopInv'
  <1>1. CASE Loop!Ready
    <2>1. << >> \in Seq(Requests)
      OBVIOUS
    <2> QED BY <1>1, <2>1, SpawnKeeps DEF Loop!Ready
  <1>2. ASSUME NEW r \in Requests, Loop!InvokeSpawns(r) PROVE LoopInv'
    <2>1. /\ fate[r] = "idle" /\ fate' = [x \in Requests |-> IF x = r THEN "waiting" ELSE fate[x]]
          /\ IF codecs THEN Loop!Spawn(Hello, <<r>>) ELSE Loop!Spawn(r, << >>)
      BY <1>2 DEF Loop!InvokeSpawns, Loop!Settle
    <2>2. <<r>> \in Seq(Requests) /\ << >> \in Seq(Requests) /\ r # Hello
      BY ClientFacts
    <2>3. CASE codecs
      BY <2>1, <2>2, <2>3, SpawnKeeps
    <2>4. CASE ~codecs
      BY <2>1, <2>2, <2>4, SpawnKeeps
    <2> QED BY <2>3, <2>4
  <1> QED BY <1>1, <1>2

-----------------------------------------------------------------------------
(* The transport reads an answer.                                          *)

\* Whoever is settled leaves what is in flight, and only who is answered gets an answer.
LEMMA SettleKeeps ==
  ASSUME LoopInv, NEW S, NEW how \in {"answered", "failed"}, Loop!Settle(S, how),
         S \cap Requests \subseteq Loop!InFlight, Loop!InFlight' = Loop!InFlight \ S,
         \A r \in Requests \ S : answer'[r] = answer[r]
  PROVE  /\ fate' \in [Requests -> {"idle", "waiting", "answered", "failed"}]
         /\ \A r \in Requests : fate'[r] = "waiting" <=> r \in Loop!InFlight'
         /\ \A r \in Requests : fate'[r] \in {"idle", "waiting"} => answer'[r] = NoRequest
  <1>1. fate' = [r \in Requests |-> IF r \in S THEN how ELSE fate[r]]
    BY DEF Loop!Settle
  <1>2. fate' \in [Requests -> {"idle", "waiting", "answered", "failed"}]
    BY <1>1, ClientFacts DEF ClientTypes
  <1>3. \A r \in Requests : fate[r] = "waiting" <=> r \in Loop!InFlight
    BY ClientFacts DEF ClientInv, Loop!NoneForgotten
  <1>4. \A r \in Requests : fate'[r] = "waiting" <=> r \in Loop!InFlight'
    BY <1>1, <1>3
  <1>5. \A r \in Requests : fate'[r] \in {"idle", "waiting"} => answer'[r] = NoRequest
    BY <1>1, ClientFacts DEF ClientInv
  <1> QED BY <1>2, <1>4, <1>5

\* One output of the child has been taken.
LEMMA TakePipes ==
  ASSUME LoopInv, NEW p \in Loop!Procs, Loop!Take(p),
         UNCHANGED <<codecs, status, killed, speaks, queued, stdin>>
  PROVE  /\ PipeTypes' /\ OnlyAt(p) /\ PipesInv(p)' /\ status[p] # "unborn"
         /\ stdout'[p] = Tail(stdout[p]) /\ stdout[p] # << >>
         /\ Sent(p)' = Sent(p) /\ (HelloIn(p)' => HelloIn(p))
         /\ Head(stdout[p]) \in Loop!Elements(stdout[p]) /\ Head(stdout[p]) \in Loop!Outputs
         /\ Loop!Elements(stdout'[p]) \subseteq Loop!Elements(stdout[p])
         /\ AnswersOf(stdout[p]) = IF Head(stdout[p]).kind = "answer"
                                   THEN <<Head(stdout[p]).request>> \o AnswersOf(stdout'[p])
                                   ELSE AnswersOf(stdout'[p])
  <1>1. /\ status[p] # "unborn" /\ stdout[p] # << >>
        /\ stdout' = [stdout EXCEPT ![p] = Tail(stdout[p])]
    BY DEF Loop!Take
  <1>2. /\ Tail(stdout[p]) \in Seq(Loop!Outputs)
        /\ Loop!Elements(Tail(stdout[p])) \subseteq Loop!Elements(stdout[p])
        /\ Head(stdout[p]) \in Loop!Elements(stdout[p])
    BY <1>1, ProcFacts, ElementsTail
  <1>3. Head(stdout[p]) \in Loop!Outputs
    BY <1>1, <1>2, ProcFacts, ElementsAre
  <1>4. AnswersOf(stdout[p]) = IF Head(stdout[p]).kind = "answer"
                               THEN <<Head(stdout[p]).request>> \o AnswersOf(Tail(stdout[p]))
                               ELSE AnswersOf(Tail(stdout[p]))
    BY <1>1, ProcFacts, AnswersHead
  <1>5. /\ PipeTypes' /\ OnlyAt(p)
        /\ stdout'[p] = Tail(stdout[p]) /\ Sent(p)' = Sent(p) /\ (HelloIn(p)' <=> HelloIn(p))
    BY <1>1, <1>2, ClientFacts DEF PipeTypes, OnlyAt, Pipes, Sent, HelloIn
  <1>6. PipesInv(p)'
    BY <1>1, <1>2, <1>5, ProcFacts, PipesKept
  <1> QED BY <1>1, <1>2, <1>3, <1>4, <1>5, <1>6

\* An answer with an id.
LEMMA InvAnswerLine ==
  ASSUME LoopInv, NEW p \in Loop!Procs, Loop!AnswerLine(p) PROVE LoopInv'
  <1> DEFINE r == Head(stdout[p]).request
  <1>1. /\ child = p /\ mode = "ndjson" /\ Loop!Take(p) /\ Head(stdout[p]).kind = "answer"
        /\ pending' = pending \ {r} /\ Loop!Settle({r} \cap pending, "answered")
        /\ answer' = IF r \in pending THEN [answer EXCEPT ![r] = r] ELSE answer
        /\ UNCHANGED <<codecs, disposed, child, mode, handshake, waiting, binQueue,
                       status, killed, speaks, queued, stdin>>
    BY DEF Loop!AnswerLine
  <1>2. /\ PipeTypes' /\ OnlyAt(p) /\ PipesInv(p)' /\ status[p] # "unborn"
        /\ Sent(p)' = Sent(p) /\ (HelloIn(p)' => HelloIn(p))
        /\ Head(stdout[p]) \in Loop!Elements(stdout[p])
        /\ Loop!Elements(stdout'[p]) \subseteq Loop!Elements(stdout[p])
    BY <1>1, TakePipes
  <1>3. r \in Requests
    BY <1>1, <1>2, ProcFacts DEF PipesInv
  <1> HIDE DEF r
  <1>4. Loop!InFlight' = Loop!InFlight \ ({r} \cap pending)
    BY <1>1, ClientFacts DEF Loop!InFlight, ClientInv, Loop!NoneForgotten
  <1>5. ({r} \cap pending) \cap Requests \subseteq Loop!InFlight
    BY <1>3, ClientFacts DEF Loop!InFlight
  <1>6. answer' \in [Requests -> Requests \cup {Hello, NoRequest}] /\ \A x \in Requests \ ({r} \cap pending) : answer'[x] = answer[x]
    BY <1>1, <1>3, ClientFacts DEF ClientTypes
  <1>7. /\ fate' \in [Requests -> {"idle", "waiting", "answered", "failed"}]
        /\ \A x \in Requests : fate'[x] = "waiting" <=> x \in Loop!InFlight'
        /\ \A x \in Requests : fate'[x] \in {"idle", "waiting"} => answer'[x] = NoRequest
    BY <1>1, <1>4, <1>5, <1>6, SettleKeeps
  <1>8. ClientTypes'
    BY <1>1, <1>6, <1>7, ClientFacts DEF ClientTypes
  <1>9. ClientInv'
    BY <1>1, <1>3, <1>7, ClientFacts DEF ClientInv, Loop!NoneForgotten
  <1>10. ChildInv(p)'
    BY <1>1, <1>2, ProcFacts, ChildKept
  <1> QED BY <1>1, <1>2, <1>8, <1>9, <1>10, TypesAre, InvOwn

\* The answer at the head is that of the first waiter.
LEMMA FirstComes ==
  ASSUME NEW a \in Seq(AnyRequest), NEW b \in Seq(AnyRequest), NEW bq \in Seq(Requests), NEW e \in AnyRequest,
         bq = (<<e>> \o a) \o b
  PROVE  bq # << >> /\ Head(bq) = e /\ Tail(bq) = a \o b
  <1>1. bq = <<e>> \o (a \o b)
    BY HeadFirst
  <1>2. Tail(bq) = a \o b
    BY <1>1, HeadGone
  <1>3. a \o b \in Seq(AnyRequest)
    OBVIOUS
  <1> DEFINE w == a \o b
  <1> HIDE DEF w
  <1>4. bq = <<e>> \o w /\ w \in Seq(AnyRequest)
    BY <1>1, <1>3 DEF w
  <1>5. Len(bq) # 0 /\ Head(bq) = e
    BY <1>4
  <1>6. bq # << >>
    BY <1>5
  <1> QED BY <1>2, <1>5, <1>6

\* So it is when the process has exited.
LEMMA FirstAhead ==
  ASSUME NEW a \in Seq(AnyRequest), NEW bq \in Seq(Requests), NEW e \in AnyRequest,
         Ahead(<<e>> \o a, bq)
  PROVE  bq # << >> /\ Head(bq) = e /\ Ahead(a, Tail(bq))
  <1> DEFINE u == <<e>> \o a
  <1>1. /\ u \in Seq(AnyRequest) /\ Len(u) = Len(a) + 1 /\ Len(a) \in Nat /\ u[1] = e
        /\ \A k \in 1..Len(a) : u[k + 1] = a[k]
    OBVIOUS
  <1> HIDE DEF u
  <1>2. Len(u) <= Len(bq) /\ (\A k \in 1..Len(u) : bq[k] = u[k]) /\ Len(bq) \in Nat
    BY DEF Ahead, u
  <1>3. Len(bq) >= 1 /\ bq[1] = e
    BY <1>1, <1>2
  <1>4. bq # << >> /\ Head(bq) = bq[1] /\ Len(Tail(bq)) = Len(bq) - 1
        /\ \A k \in 1..(Len(bq) - 1) : Tail(bq)[k] = bq[k + 1]
    BY <1>3
  <1>5. Len(a) <= Len(Tail(bq))
    BY <1>1, <1>2, <1>4
  <1>6. ASSUME NEW k \in 1..Len(a) PROVE Tail(bq)[k] = a[k]
    <2>1. k \in 1..(Len(bq) - 1) /\ k + 1 \in 1..Len(u)
      BY <1>1, <1>2
    <2> QED BY <1>1, <1>2, <1>4, <2>1
  <1> QED BY <1>3, <1>4, <1>5, <1>6 DEF Ahead

\* A response without an id belongs to the waiter it is given to.
LEMMA DataFrameMatches ==
  ASSUME LoopInv, NEW p \in Loop!Procs, Loop!DataFrame(p)
  PROVE  /\ Coming(p)'
         /\ Head(stdout[p]).kind = "answer" => binQueue # << >> /\ Head(binQueue) = Head(stdout[p]).request
  <1> DEFINE x == Head(stdout[p])
             o == stdout'[p]
             i == Loop!RequestsOf(stdin[p])
             q == Loop!RequestsOf(queued[p])
  <1>1. /\ child = p /\ mode = "binary" /\ Loop!Take(p)
        /\ binQueue' = IF x.kind = "answer" /\ binQueue # << >> THEN Tail(binQueue) ELSE binQueue
        /\ UNCHANGED <<codecs, status, killed, speaks, queued, stdin>>
    BY DEF Loop!DataFrame
  <1>2. /\ PipeTypes' /\ x \in Loop!Outputs
        /\ AnswersOf(stdout[p]) = IF x.kind = "answer" THEN <<x.request>> \o AnswersOf(o) ELSE AnswersOf(o)
    BY <1>1, TakePipes
  <1>3. Coming(p)
    BY <1>1, ProcFacts DEF ChildInv
  <1>4. /\ AnswersOf(o) \in Seq(AnyRequest) /\ i \in Seq(AnyRequest) /\ q \in Seq(AnyRequest)
        /\ binQueue \in Seq(Requests) /\ x.request \in AnyRequest
    BY <1>2, ProcFacts, AnswersType, OutputsHaveRequests DEF PipeTypes
  <1>5. UNCHANGED <<status[p], i, q>>
    BY <1>1
  <1> HIDE DEF x
  <1>6. CASE x.kind # "answer"
    BY <1>1, <1>2, <1>3, <1>5, <1>6 DEF Coming, x
  <1>7. CASE x.kind = "answer" /\ status[p] = "exited"
    <2> DEFINE a == AnswersOf(o)
               e == x.request
    <2>1. a \in Seq(AnyRequest) /\ e \in AnyRequest /\ Ahead(<<e>> \o a, binQueue)
      BY <1>2, <1>3, <1>4, <1>7 DEF Coming
    <2> HIDE DEF a, e
    <2>2. binQueue # << >> /\ Head(binQueue) = e /\ Ahead(a, Tail(binQueue))
      BY <1>4, <2>1, FirstAhead
    <2> QED BY <1>1, <1>5, <1>7, <2>2 DEF Coming, a, e, x
  <1>8. CASE x.kind = "answer" /\ status[p] # "exited"
    <2> DEFINE a == AnswersOf(o)
               e == x.request
    <2>1. a \in Seq(AnyRequest) /\ e \in AnyRequest /\ binQueue = ((<<e>> \o a) \o i) \o q
      BY <1>2, <1>3, <1>4, <1>8 DEF Coming
    <2> HIDE DEF a, e, i, q
    <2>2. (<<e>> \o a) \o i = <<e>> \o (a \o i)
      BY <1>4, <2>1, HeadFirst
    <2> DEFINE w == a \o i
    <2>3. w \in Seq(AnyRequest) /\ binQueue = (<<e>> \o w) \o q
      BY <1>4, <2>1, <2>2
    <2> HIDE DEF w
    <2>4. binQueue # << >> /\ Head(binQueue) = e /\ Tail(binQueue) = w \o q
      <3> DEFINE bq == binQueue
      <3>1. bq \in Seq(Requests) /\ q \in Seq(AnyRequest) /\ e \in AnyRequest /\ bq = (<<e>> \o w) \o q
        BY <1>4, <2>1, <2>3
      <3> HIDE DEF bq
      <3>2. bq # << >> /\ Head(bq) = e /\ Tail(bq) = w \o q
        BY <2>3, <3>1, FirstComes
      <3> QED BY <3>2 DEF bq
    <2> QED BY <1>1, <1>5, <1>8, <2>4 DEF Coming, a, e, x, w, i, q
  <1> QED BY <1>6, <1>7, <1>8 DEF x

\* A frame.
LEMMA InvDataFrame ==
  ASSUME LoopInv, NEW p \in Loop!Procs, Loop!DataFrame(p) PROVE LoopInv'
  <1> DEFINE r == Head(stdout[p]).request
             S == IF Head(stdout[p]).kind = "answer" THEN {r} ELSE {}
  <1>1. /\ child = p /\ mode = "binary" /\ Loop!Take(p)
        /\ IF Head(stdout[p]).kind = "answer" /\ binQueue # << >>
           THEN /\ binQueue' = Tail(binQueue) /\ Loop!Settle({Head(binQueue)}, "answered")
                /\ answer' = [answer EXCEPT ![Head(binQueue)] = r]
           ELSE UNCHANGED <<binQueue, fate, answer>>
        /\ UNCHANGED <<codecs, disposed, child, mode, handshake, waiting, pending,
                       status, killed, speaks, queued, stdin>>
    BY DEF Loop!DataFrame
  <1>2. /\ PipeTypes' /\ OnlyAt(p) /\ PipesInv(p)' /\ status[p] # "unborn"
        /\ Sent(p)' = Sent(p) /\ (HelloIn(p)' => HelloIn(p))
        /\ Head(stdout[p]) \in Loop!Elements(stdout[p])
        /\ Loop!Elements(stdout'[p]) \subseteq Loop!Elements(stdout[p])
    BY <1>1, TakePipes
  <1>3. /\ Coming(p)' /\ handshake = "ready"
        /\ Head(stdout[p]).kind = "answer" => binQueue # << >> /\ Head(binQueue) = r
    BY <1>1, DataFrameMatches, ProcFacts DEF ChildInv
  <1>4. ChildInv(p)'
    BY <1>1, <1>2, <1>3, ProcFacts DEF ChildInv
  <1>5. CASE Head(stdout[p]).kind # "answer"
    <2>1. UNCHANGED <<binQueue, fate, answer>>
      BY <1>1, <1>5
    <2>2. ClientTypes' /\ ClientInv'
      BY <1>1, <2>1, ClientFacts DEF ClientTypes, ClientInv, Loop!NoneForgotten, Loop!InFlight
    <2> QED BY <1>1, <1>2, <1>4, <2>2, TypesAre, InvOwn
  <1>6. CASE Head(stdout[p]).kind = "answer"
    <2>1. /\ binQueue' = Tail(binQueue) /\ Loop!Settle({r}, "answered")
          /\ answer' = [answer EXCEPT ![r] = r] /\ binQueue # << >> /\ Head(binQueue) = r
      BY <1>1, <1>3, <1>6
    <2> HIDE DEF r
    <2>2. /\ binQueue' \in Seq(Requests) /\ Distinct(binQueue)'
          /\ Loop!Elements(binQueue) = Loop!Elements(binQueue)' \cup {r}
          /\ r \notin Loop!Elements(binQueue)' /\ r \in Loop!Elements(binQueue)
      BY <2>1, ClientFacts, ElementsTail DEF ClientTypes, ClientInv
    <2>3. r \in Requests /\ r \notin pending /\ r \notin Loop!Elements(waiting)
      BY <2>2, ClientFacts, ElementsAre DEF ClientTypes, ClientInv, Loop!NoneForgotten
    <2>4. Loop!InFlight' = Loop!InFlight \ {r} /\ r \in Loop!InFlight
      BY <1>1, <2>2, <2>3 DEF Loop!InFlight
    <2>5. answer' \in [Requests -> Requests \cup {Hello, NoRequest}] /\ \A x \in Requests \ {r} : answer'[x] = answer[x]
      BY <2>1, <2>3, ClientFacts DEF ClientTypes
    <2>6. /\ fate' \in [Requests -> {"idle", "waiting", "answered", "failed"}]
          /\ \A x \in Requests : fate'[x] = "waiting" <=> x \in Loop!InFlight'
          /\ \A x \in Requests : fate'[x] \in {"idle", "waiting"} => answer'[x] = NoRequest
      BY <2>1, <2>4, <2>5, SettleKeeps
    <2>7. ClientTypes'
      BY <1>1, <2>2, <2>5, <2>6, ClientFacts DEF ClientTypes
    <2>8. Loop!NoneForgotten'
      BY <1>1, <2>2, <2>6, NoProcIs, ClientFacts DEF ClientInv, Loop!NoneForgotten
    <2>9. ClientInv'
      BY <1>1, <2>2, <2>6, <2>8, ClientFacts DEF ClientInv
    <2> QED BY <1>1, <1>2, <1>4, <2>7, <2>9, TypesAre, InvOwn
  <1> QED BY <1>5, <1>6

-----------------------------------------------------------------------------
(* The handshake is answered.                                              *)

\* When the handshake is answered nothing else is between the ends.
LEMMA HelloFacts ==
  ASSUME LoopInv, NEW p \in Loop!Procs, NEW kind \in {"binary", "plain", "refused"},
         Loop!HelloAnswer(p, kind)
  PROVE  /\ child = p /\ mode = "ndjson" /\ handshake = "pending" /\ Hello \in pending /\ codecs
         /\ Loop!Take(p) /\ waiting' = << >>
         /\ queued[p] = << >> /\ stdin[p] = << >> /\ binQueue = << >> /\ ~HelloIn(p)
         /\ speaks[p] = IF kind = "binary" THEN "frames" ELSE "lines"
         /\ AnswersOf(Tail(stdout[p])) = << >> /\ status[p] # "unborn"
         /\ \A x \in Loop!Elements(Tail(stdout[p])) : x \in Loop!Elements(stdout[p]) /\ x.kind # "answer"
  <1>1. /\ child = p /\ mode = "ndjson" /\ Loop!Take(p) /\ waiting' = << >> /\ Hello \in pending
        /\ stdout[p] # << >> /\ Head(stdout[p]) = Loop!Out(kind, Hello)
    BY DEF Loop!HelloAnswer, Loop!Take
  <1>2. /\ Tail(stdout[p]) \in Seq(Loop!Outputs)
        /\ Loop!Elements(Tail(stdout[p])) \subseteq Loop!Elements(stdout[p])
        /\ Loop!Out(kind, Hello) \in Loop!Elements(stdout[p])
    BY <1>1, ProcFacts, ElementsTail
  <1>3. Loop!Out(kind, Hello).kind = kind /\ Loop!Out(kind, Hello).request = Hello
    BY DEF Loop!Out
  <1>4. ~HelloIn(p) /\ speaks[p] = IF kind = "binary" THEN "frames" ELSE "lines"
    BY <1>2, <1>3, ProcFacts DEF PipesInv
  <1>5. handshake = "pending" /\ codecs /\ binQueue = << >>
    BY <1>1, ClientFacts DEF ClientInv
  <1>6. Sent(p) = {} /\ \A x \in Loop!Elements(stdout[p]) : x.kind # "answer"
    BY <1>1, <1>4, <1>5, ProcFacts DEF ChildInv, PipesInv
  <1>7. queued[p] = << >> /\ stdin[p] = << >>
    BY <1>6, ProcFacts, ElementsAre DEF Sent
  <1>8. AnswersOf(Tail(stdout[p])) = << >>
    BY <1>2, <1>6, AnswersType
  <1>9. status[p] # "unborn"
    BY <1>1, ProcFacts DEF ChildInv
  <1> QED BY <1>1, <1>2, <1>4, <1>5, <1>6, <1>7, <1>8, <1>9

\* The answer is taken, and what waited for it is written.
LEMMA HelloPipes ==
  ASSUME LoopInv, NEW p \in Loop!Procs, NEW kind \in {"binary", "plain", "refused"},
         Loop!HelloAnswer(p, kind), NEW f \in Seq(Loop!Messages),
         \A m \in Loop!Elements(f) :
           m.request \in Requests /\ m.format = IF kind = "binary" THEN "binary" ELSE "ndjson",
         queued' = [queued EXCEPT ![p] = f],
         UNCHANGED <<codecs, status, killed, speaks, stdin>>
  PROVE  /\ PipeTypes' /\ OnlyAt(p) /\ PipesInv(p)' /\ ~HelloIn(p)'
         /\ queued'[p] = f /\ stdin'[p] = << >> /\ stdout'[p] = Tail(stdout[p]) /\ status'[p] = status[p]
         /\ speaks'[p] = speaks[p]
  <1>1. /\ Loop!Take(p) /\ queued[p] = << >> /\ stdin[p] = << >> /\ ~HelloIn(p) /\ status[p] # "unborn"
        /\ speaks[p] = IF kind = "binary" THEN "frames" ELSE "lines"
        /\ \A x \in Loop!Elements(Tail(stdout[p])) : x \in Loop!Elements(stdout[p])
    BY HelloFacts
  <1>2. stdout' = [stdout EXCEPT ![p] = Tail(stdout[p])] /\ Tail(stdout[p]) \in Seq(Loop!Outputs)
    BY <1>1, ProcFacts, ElementsTail DEF Loop!Take
  <1>3. /\ PipeTypes' /\ OnlyAt(p) /\ queued'[p] = f /\ stdin'[p] = << >>
        /\ stdout'[p] = Tail(stdout[p]) /\ status'[p] = status[p] /\ speaks'[p] = speaks[p]
    BY <1>1, <1>2, ClientFacts DEF PipeTypes, OnlyAt, Pipes
  <1>4. Sent(p)' = Loop!Elements(f)
    BY <1>3, ElementsOne DEF Sent
  <1>5. PipesInv(p)' /\ ~HelloIn(p)'
    BY <1>1, <1>3, <1>4, ProcFacts, PipesKept
  <1> QED BY <1>3, <1>5

\* The handshake is over, and S are rejected: whoever awaited it is in a table or settled.
LEMMA HelloClient ==
  ASSUME LoopInv, child # Loop!NoProc, Hello \in pending, binQueue = << >>,
         NEW S, S \subseteq Loop!Elements(waiting), NEW lines, NEW frames \in Seq(Requests),
         Distinct(frames), lines \in SUBSET Requests, lines \cap Loop!Elements(frames) = {},
         lines \cup Loop!Elements(frames) = Loop!Elements(waiting) \ S,
         Loop!Settle(S, "failed"), waiting' = << >>, pending' = (pending \ {Hello}) \cup lines,
         binQueue' = frames, handshake' \in {"ready", "failed"}, codecs,
         mode' \in {"ndjson", "binary"}, mode' = "ndjson" => frames = << >>,
         UNCHANGED <<codecs, disposed, child, answer>>
  PROVE  ClientTypes' /\ ClientInv'
  <1>1. Loop!Elements(waiting) \subseteq Requests
    BY ClientFacts, ElementsAre DEF ClientTypes
  <1>2. Loop!InFlight' = Loop!InFlight \ S
    BY <1>1, ClientFacts DEF Loop!InFlight, ClientInv, Loop!NoneForgotten
  <1>3. S \cap Requests \subseteq Loop!InFlight
    BY DEF Loop!InFlight
  <1>4. /\ fate' \in [Requests -> {"idle", "waiting", "answered", "failed"}]
        /\ \A r \in Requests : fate'[r] = "waiting" <=> r \in Loop!InFlight'
        /\ \A r \in Requests : fate'[r] \in {"idle", "waiting"} => answer'[r] = NoRequest
    BY <1>2, <1>3, SettleKeeps
  <1>5. ClientTypes'
    BY <1>1, <1>4, ClientFacts DEF ClientTypes
  <1>6. Loop!NoneForgotten'
    BY <1>1, <1>4, ClientFacts DEF ClientInv, Loop!NoneForgotten
  <1>7. Hello \notin pending'
    BY ClientFacts
  <1>8. ClientInv'
    BY <1>4, <1>6, <1>7, ClientFacts DEF ClientInv
  <1> QED BY <1>5, <1>8

\* The runtime speaks binary.
LEMMA InvHelloBinary ==
  ASSUME LoopInv, NEW p \in Loop!Procs, Loop!HelloBinary(p) PROVE LoopInv'
  <1>1. /\ Loop!HelloAnswer(p, "binary") /\ mode' = "binary" /\ handshake' = "ready"
        /\ pending' = pending \ {Hello}
        /\ UNCHANGED <<codecs, disposed, child, answer, status, killed, speaks, stdin>>
    BY DEF Loop!HelloBinary
  <1>2. /\ child = p /\ Hello \in pending /\ codecs /\ waiting' = << >>
        /\ queued[p] = << >> /\ stdin[p] = << >> /\ binQueue = << >> /\ status[p] # "unborn"
        /\ speaks[p] = "frames" /\ AnswersOf(Tail(stdout[p])) = << >>
        /\ waiting \in Seq(Requests) /\ Distinct(waiting)
    BY <1>1, HelloFacts, ClientFacts DEF ClientTypes, ClientInv
  <1>3. PICK w \in Seq(Requests), S \in SUBSET Loop!Elements(waiting) :
          /\ queued' = [queued EXCEPT ![p] = Loop!FramesOf(w)]
          /\ binQueue' = w /\ Distinct(w) /\ Loop!Elements(w) = Loop!Elements(waiting) \ S
          /\ Loop!Settle(S, "failed")
          /\ w = << >> \/ status[p] # "exited"
    <2>1. CASE Loop!Usable
      <3>1. /\ binQueue' = << >> \o waiting /\ queued' = [queued EXCEPT ![p] = << >> \o Loop!FramesOf(waiting)]
            /\ fate' = fate
        BY <1>2, <2>1 DEF Loop!HelloBinary
      <3>2. << >> \o waiting = waiting /\ << >> \o Loop!FramesOf(waiting) = Loop!FramesOf(waiting)
        <4>1. Loop!FramesOf(waiting) \in Seq(Loop!Messages)
          BY <1>2, RequestsOfFrames
        <4> QED BY <1>2, <4>1
      <3>3. Loop!Settle({}, "failed")
        BY <3>1, ClientFacts DEF Loop!Settle, ClientTypes
      <3> QED BY <1>2, <2>1, <3>1, <3>2, <3>3 DEF Loop!Usable
    <2>2. CASE ~Loop!Usable
      <3>1. Loop!Settle(Loop!Elements(waiting), "failed") /\ binQueue' = << >> /\ queued' = queued
        BY <1>2, <2>2 DEF Loop!HelloBinary
      <3>2. Loop!FramesOf(<< >>) = << >> /\ << >> \in Seq(Requests)
        BY DEF Loop!FramesOf
      <3>3. queued' = [queued EXCEPT ![p] = << >>]
        BY <1>2, <3>1, ClientFacts DEF PipeTypes
      <3> QED BY <3>1, <3>2, <3>3, ClientFacts
    <2> QED BY <2>1, <2>2
  <1>4. /\ Loop!FramesOf(w) \in Seq(Loop!Messages) /\ Loop!RequestsOf(Loop!FramesOf(w)) = w
        /\ \A m \in Loop!Elements(Loop!FramesOf(w)) : m.format = "binary" /\ m.request \in Requests
    BY RequestsOfFrames
  <1>5. /\ PipeTypes' /\ OnlyAt(p) /\ PipesInv(p)' /\ ~HelloIn(p)'
        /\ queued'[p] = Loop!FramesOf(w) /\ stdin'[p] = << >> /\ stdout'[p] = Tail(stdout[p])
        /\ status'[p] = status[p] /\ speaks'[p] = "frames"
    BY <1>1, <1>2, <1>3, <1>4, HelloPipes
  <1>6. ClientTypes' /\ ClientInv'
    <2>1. {} \in SUBSET Requests /\ pending' = (pending \ {Hello}) \cup {} /\ child # Loop!NoProc
      BY <1>1, <1>2, NoProcIs
    <2> QED BY <1>1, <1>2, <1>3, <2>1, HelloClient
  <1>7. Coming(p)'
    <2>1. Loop!RequestsOf(<< >>) = << >> /\ << >> \o << >> = << >> /\ << >> \o w = w /\ Len(<< >>) = 0
      BY DEF Loop!RequestsOf
    <2> QED BY <1>2, <1>3, <1>4, <1>5, <2>1 DEF Coming, Ahead
  <1>8. ChildInv(p)'
    BY <1>1, <1>2, <1>5, <1>7 DEF ChildInv
  <1> QED BY <1>1, <1>2, <1>5, <1>6, <1>8, TypesAre, InvOwn

\* It does not, or refuses.
LEMMA InvHelloPlain ==
  ASSUME LoopInv, NEW p \in Loop!Procs, Loop!HelloPlain(p) \/ Loop!HelloRefused(p) PROVE LoopInv'
  <1>1. PICK kind \in {"plain", "refused"} :
        /\ Loop!HelloAnswer(p, kind) /\ handshake' \in {"ready", "failed"} /\ mode' = mode
        /\ UNCHANGED <<codecs, disposed, child, binQueue, answer, status, killed, speaks, stdin>>
    BY DEF Loop!HelloPlain, Loop!HelloRefused
  <1>2. /\ child = p /\ Hello \in pending /\ codecs /\ waiting' = << >> /\ mode = "ndjson"
        /\ queued[p] = << >> /\ stdin[p] = << >> /\ binQueue = << >> /\ status[p] # "unborn"
        /\ speaks[p] = "lines" /\ waiting \in Seq(Requests)
    BY <1>1, HelloFacts, ClientFacts DEF ClientTypes, ClientInv
  <1>3. PICK w \in Seq(Requests), S \in SUBSET Loop!Elements(waiting) :
          /\ queued' = [queued EXCEPT ![p] = Loop!LinesOf(w)]
          /\ pending' = (pending \ {Hello}) \cup Loop!Elements(w)
          /\ Loop!Elements(w) = Loop!Elements(waiting) \ S
          /\ Loop!Settle(S, "failed")
    <2> DEFINE lines == Loop!Without(waiting, ChannelRequests)
    <2>1. /\ Loop!LinesOf(<< >>) = << >> /\ << >> \in Seq(Requests) /\ Loop!Elements(<< >>) = {}
          /\ [queued EXCEPT ![p] = << >>] = queued
      BY <1>2, ClientFacts DEF Loop!LinesOf, PipeTypes
    <2>2. CASE Loop!HelloPlain(p) /\ Loop!Usable
      <3>1. lines \in Seq(Requests) /\ Loop!Elements(lines) = Loop!Elements(waiting) \ ChannelRequests
        BY <1>2, WithoutType
      <3>2. /\ pending' = (pending \ {Hello}) \cup Loop!Elements(lines)
            /\ queued' = [queued EXCEPT ![p] = << >> \o Loop!LinesOf(lines)]
            /\ Loop!Settle(Loop!Elements(waiting) \cap ChannelRequests, "failed")
        BY <1>2, <2>2 DEF Loop!HelloPlain
      <3> HIDE DEF lines
      <3>3. << >> \o Loop!LinesOf(lines) = Loop!LinesOf(lines)
        <4>1. Loop!LinesOf(lines) \in Seq(Loop!Messages)
          BY <3>1, RequestsOfFrames
        <4> QED BY <4>1
      <3>4. Loop!Elements(lines) = Loop!Elements(waiting) \ (Loop!Elements(waiting) \cap ChannelRequests)
        BY <3>1
      <3> QED BY <3>1, <3>2, <3>3, <3>4
    <2>3. CASE Loop!HelloRefused(p) \/ (Loop!HelloPlain(p) /\ ~Loop!Usable)
      <3>1. /\ pending' = pending \ {Hello} /\ queued' = queued
            /\ Loop!Settle(Loop!Elements(waiting), "failed")
        BY <2>3 DEF Loop!HelloPlain, Loop!HelloRefused
      <3> QED BY <2>1, <3>1
    <2> QED BY <2>2, <2>3
  <1>4. /\ Loop!LinesOf(w) \in Seq(Loop!Messages)
        /\ \A m \in Loop!Elements(Loop!LinesOf(w)) : m.format = "ndjson" /\ m.request \in Requests
    BY RequestsOfFrames
  <1>5. /\ PipeTypes' /\ OnlyAt(p) /\ PipesInv(p)' /\ ~HelloIn(p)'
        /\ status'[p] = status[p] /\ speaks'[p] = "lines"
    <2> DEFINE f == Loop!LinesOf(w)
    <2>1. /\ f \in Seq(Loop!Messages) /\ queued' = [queued EXCEPT ![p] = f]
          /\ \A m \in Loop!Elements(f) :
               m.request \in Requests /\ m.format = IF kind = "binary" THEN "binary" ELSE "ndjson"
      BY <1>3, <1>4
    <2> HIDE DEF f
    <2>2. /\ PipeTypes' /\ OnlyAt(p) /\ PipesInv(p)' /\ ~HelloIn(p)'
          /\ status'[p] = status[p] /\ speaks'[p] = speaks[p]
      BY <1>1, <2>1, HelloPipes
    <2> QED BY <1>2, <2>2
  <1>6. ClientTypes' /\ ClientInv'
    <2>1. << >> \in Seq(Requests) /\ Distinct(<< >>) /\ Loop!Elements(<< >>) = {} /\ child # Loop!NoProc
      BY <1>2, NoProcIs, ClientFacts
    <2>2. Loop!Elements(w) \in SUBSET Requests
      BY ElementsAre
    <2> QED BY <1>1, <1>2, <1>3, <2>1, <2>2, HelloClient
  <1>7. ChildInv(p)'
    BY <1>1, <1>2, <1>5 DEF ChildInv
  <1> QED BY <1>1, <1>2, <1>5, <1>6, <1>7, TypesAre, InvOwn

-----------------------------------------------------------------------------
(* The process exits with the transport's lines unwritten.                 *)

\* The requests of the lines that node never wrote.
LEMMA LostAre ==
  ASSUME LoopInv, NEW p \in Loop!Procs
  PROVE  /\ {queued[p][i].request : i \in 1..Len(queued[p])} = Loop!Elements(Loop!RequestsOf(queued[p]))
         /\ Hello \in Loop!Elements(Loop!RequestsOf(queued[p])) =>
              HelloIn(p) /\ Loop!Elements(Loop!RequestsOf(queued[p])) = {Hello}
         /\ \A r \in Loop!Elements(Loop!RequestsOf(queued[p])) : \E m \in Sent(p) : m.request = r
  <1> DEFINE s == queued[p]
             q == Loop!RequestsOf(s)
  <1>1. s \in Seq(Loop!Messages)
    BY ProcFacts
  <1>2. Len(q) = Len(s) /\ \A i \in 1..Len(s) : q[i] = s[i].request
    <2> HIDE DEF s
    <2>1. Len(s) \in Nat
      BY <1>1
    <2> QED BY <2>1 DEF Loop!RequestsOf
  <1> HIDE DEF s, q
  <1>3. {s[i].request : i \in 1..Len(s)} = Loop!Elements(q)
    BY <1>2 DEF Loop!Elements
  <1>4. \A r \in Loop!Elements(q) : \E m \in Sent(p) : m.request = r
    BY <1>2 DEF Loop!Elements, Sent, s
  <1>5. ASSUME Hello \in Loop!Elements(q) PROVE HelloIn(p) /\ Loop!Elements(q) = {Hello}
    <2>1. HelloIn(p)
      BY <1>4, <1>5, ProcFacts DEF PipesInv
    <2>2. Sent(p) = {Hi} /\ Hi.request = Hello
      BY <2>1, HelloLine
    <2> QED BY <1>4, <1>5, <2>1, <2>2
  <1> QED BY <1>3, <1>4, <1>5 DEF s, q

\* The waiters whose frames were never written are taken out; those whose answers come stay.
LEMMA PrefixAhead ==
  ASSUME NEW a \in Seq(AnyRequest), NEW i \in Seq(AnyRequest), NEW q \in Seq(AnyRequest), Distinct((a \o i) \o q)
  PROVE  Ahead(a, Loop!Without((a \o i) \o q, Loop!Elements(q)))
  <1>1. a \o i \in Seq(AnyRequest)
    OBVIOUS
  <1>2. Loop!Without((a \o i) \o q, Loop!Elements(q)) = a \o i
    BY <1>1, WithoutSuffix
  <1>3. Len(a) <= Len(a \o i) /\ \A k \in 1..Len(a) : (a \o i)[k] = a[k]
    OBVIOUS
  <1> QED BY <1>2, <1>3 DEF Ahead

\* 'exit' of the transport's own process.
LEMMA InvOwnExit ==
  ASSUME LoopInv, NEW p \in Loop!Procs, child = p, Loop!Exit(p) PROVE LoopInv'
  <1>1. PICK lost : lost = Loop!Elements(Loop!RequestsOf(queued[p]))
    OBVIOUS
  <1>2. /\ status[p] = "dead" /\ queued' = [queued EXCEPT ![p] = << >>]
        /\ stdin' = [stdin EXCEPT ![p] = << >>] /\ status' = [status EXCEPT ![p] = "exited"]
        /\ Loop!Unwritten(lost)
        /\ UNCHANGED <<codecs, disposed, child, mode, answer, killed, speaks, stdout>>
    BY <1>1, LostAre DEF Loop!Exit
  <1>3. /\ PipeTypes' /\ OnlyAt(p) /\ PipesInv(p)'
    BY EndPipes DEF Loop!Events
  <1>4. /\ queued'[p] = << >> /\ stdin'[p] = << >> /\ status'[p] = "exited" /\ stdout'[p] = stdout[p]
        /\ speaks'[p] = speaks[p]
    BY <1>2, ClientFacts DEF PipeTypes
  <1>5. Sent(p)' = {} /\ ~HelloIn(p)'
    BY <1>4, ElementsOne DEF Sent, HelloIn
  <1>6. ChildInv(p) /\ PipesInv(p)
    BY ProcFacts
  <1>7. CASE Hello \in lost
    <2>1. /\ pending' = pending \ {Hello} /\ handshake' = "failed" /\ waiting' = << >>
          /\ binQueue' = Loop!Without(binQueue, lost)
          /\ Loop!Settle((lost \cup Loop!Elements(waiting)) \cap Loop!InFlight, "failed")
          /\ lost = {Hello} /\ HelloIn(p)
      BY <1>1, <1>2, <1>7, LostAre DEF Loop!Unwritten
    <2>2. mode = "ndjson" /\ codecs /\ binQueue = << >>
      BY <1>6, <2>1, ClientFacts DEF ChildInv, PipesInv, ClientTypes, ClientInv
    <2>3. binQueue' = << >>
      <3>1. Loop!Without(<< >>, lost) \in Seq(Requests) /\ Loop!Elements(Loop!Without(<< >>, lost)) = Loop!Elements(<< >>) \ lost
        <4>1. << >> \in Seq(Requests)
          OBVIOUS
        <4> QED BY <4>1, WithoutType
      <3>2. Loop!Elements(Loop!Without(<< >>, lost)) = {}
        BY <3>1, ClientFacts
      <3> HIDE DEF Loop!Without
      <3>3. Loop!Without(<< >>, lost) = << >>
        BY <3>1, <3>2, ElementsAre
      <3> QED BY <2>1, <2>2, <3>3
    <2>4. /\ Loop!InFlight' = Loop!InFlight \ ((lost \cup Loop!Elements(waiting)) \cap Loop!InFlight)
      <3>1. Loop!InFlight = (pending \ {Hello}) \cup Loop!Elements(waiting)
        BY <2>2, ClientFacts DEF Loop!InFlight
      <3>2. Loop!InFlight' = pending \ {Hello}
        BY <2>1, <2>3, ClientFacts DEF Loop!InFlight
      <3>3. Loop!Elements(waiting) \cap pending = {}
        BY ClientFacts DEF ClientInv, Loop!NoneForgotten
      <3> QED BY <2>1, <3>1, <3>2, <3>3
    <2>5. /\ fate' \in [Requests -> {"idle", "waiting", "answered", "failed"}]
          /\ \A r \in Requests : fate'[r] = "waiting" <=> r \in Loop!InFlight'
          /\ \A r \in Requests : fate'[r] \in {"idle", "waiting"} => answer'[r] = NoRequest
      <3>1. ((lost \cup Loop!Elements(waiting)) \cap Loop!InFlight) \cap Requests \subseteq Loop!InFlight
        OBVIOUS
      <3>2. \A r \in Requests \ ((lost \cup Loop!Elements(waiting)) \cap Loop!InFlight) : answer'[r] = answer[r]
        BY <1>2
      <3> QED BY <2>1, <2>4, <3>1, <3>2, SettleKeeps
    <2>6. ClientTypes'
      BY <1>2, <2>1, <2>3, <2>5, ClientFacts DEF ClientTypes
    <2>7. Loop!NoneForgotten'
      BY <1>2, <2>1, <2>3, <2>5, NoProcIs, ClientFacts DEF ClientInv, Loop!NoneForgotten
    <2>8. ClientInv'
      BY <1>2, <2>1, <2>2, <2>3, <2>5, <2>7, ClientFacts DEF ClientInv
    <2>9. ChildInv(p)'
      BY <1>2, <1>4, <1>5, <2>1, <2>2 DEF ChildInv
    <2> QED BY <1>2, <1>3, <2>6, <2>8, <2>9, TypesAre, InvOwn
  <1>8. CASE Hello \notin lost
    <2>1. /\ pending' = pending \ lost /\ handshake' = handshake /\ waiting' = waiting
          /\ binQueue' = Loop!Without(binQueue, lost)
          /\ Loop!Settle(lost \cap Loop!InFlight, "failed")
      BY <1>2, <1>8 DEF Loop!Unwritten
    <2>2. /\ binQueue' \in Seq(Requests) /\ Distinct(binQueue)'
          /\ Loop!Elements(binQueue)' = Loop!Elements(binQueue) \ lost
      <3>1. binQueue \in Seq(Requests) /\ Distinct(binQueue)
        BY ClientFacts DEF ClientTypes, ClientInv
      <3>2. /\ Loop!Without(binQueue, lost) \in Seq(Requests) /\ Distinct(Loop!Without(binQueue, lost))
            /\ Loop!Elements(Loop!Without(binQueue, lost)) = Loop!Elements(binQueue) \ lost
        BY <3>1, WithoutType
      <3> QED BY <2>1, <3>2
    <2>3. Loop!Elements(waiting) \cap lost = {}
      <3>1. waiting # << >> => lost = {}
        <4>1. waiting # << >> => handshake = "pending"
          BY ClientFacts DEF ClientInv, Loop!NoneForgotten
        <4>2. handshake = "pending" => \A r \in lost : r = Hello
          BY <1>1, <1>6, LostAre DEF ChildInv
        <4> QED BY <1>8, <4>1, <4>2
      <3> QED BY <3>1, ClientFacts
    <2>4. Loop!InFlight' = Loop!InFlight \ (lost \cap Loop!InFlight)
      BY <2>1, <2>2, <2>3 DEF Loop!InFlight
    <2>5. /\ fate' \in [Requests -> {"idle", "waiting", "answered", "failed"}]
          /\ \A r \in Requests : fate'[r] = "waiting" <=> r \in Loop!InFlight'
          /\ \A r \in Requests : fate'[r] \in {"idle", "waiting"} => answer'[r] = NoRequest
      <3>1. (lost \cap Loop!InFlight) \cap Requests \subseteq Loop!InFlight
        OBVIOUS
      <3>2. \A r \in Requests \ (lost \cap Loop!InFlight) : answer'[r] = answer[r]
        BY <1>2
      <3> QED BY <2>1, <2>4, <3>1, <3>2, SettleKeeps
    <2>6. ClientTypes'
      BY <1>2, <2>1, <2>2, <2>5, ClientFacts DEF ClientTypes
    <2>7. Loop!NoneForgotten'
      BY <1>2, <1>8, <2>1, <2>2, <2>5, NoProcIs, ClientFacts DEF ClientInv, Loop!NoneForgotten
    <2>8. mode = "ndjson" => binQueue' = << >>
      BY <2>2, ClientFacts, ElementsAre DEF ClientInv
    <2>9. ClientInv'
      BY <1>2, <1>8, <2>1, <2>2, <2>5, <2>7, <2>8, ClientFacts DEF ClientInv
    <2>10. mode = "binary" => Coming(p)'
      <3> SUFFICES ASSUME mode = "binary" PROVE Coming(p)'
        OBVIOUS
      <3> DEFINE a == AnswersOf(stdout[p])
                 i == Loop!RequestsOf(stdin[p])
                 q == Loop!RequestsOf(queued[p])
      <3>1. binQueue = (a \o i) \o q /\ Distinct(binQueue)
        BY <1>2, <1>6, ClientFacts DEF ChildInv, Coming, ClientInv
      <3>2. a \in Seq(AnyRequest) /\ i \in Seq(AnyRequest) /\ q \in Seq(AnyRequest)
        BY ProcFacts
      <3>3. binQueue' = Loop!Without((a \o i) \o q, Loop!Elements(q))
        BY <1>1, <2>1, <3>1
      <3> HIDE DEF a, i, q
      <3>4. Ahead(a, binQueue')
        BY <3>1, <3>2, <3>3, PrefixAhead
      <3> QED BY <1>4, <3>4 DEF Coming, a
    <2>11. ChildInv(p)'
      BY <1>2, <1>4, <1>5, <1>6, <2>1, <2>10 DEF ChildInv
    <2> QED BY <1>2, <1>3, <2>6, <2>9, <2>11, TypesAre, InvOwn
  <1> QED BY <1>7, <1>8

-----------------------------------------------------------------------------
(* The invariant holds for ever.                                           *)

\* The transport is created.
LEMMA LoopInvInit ==
  ASSUME NodeInit PROVE LoopInv
  <1>1. Loop!Init
    BY DEF NodeInit
  <1> USE <1>1 DEF Loop!Init
  <1>2. PICK first \in {"running", "failed"} :
          status = [p \in Loop!Procs |-> IF codecs /\ p = 1 THEN first ELSE "unborn"]
    OBVIOUS
  <1>3. Hi \in Loop!Messages /\ Loop!Elements(<<Hi>>) = {Hi} /\ Loop!Elements(<< >>) = {} /\ << >> \in Seq(Requests)
        /\ Distinct(<< >>) /\ Hi.request = Hello /\ Hi.format = "ndjson"
    BY HelloLine, ElementsOne DEF Distinct
  <1>4. Loop!NoProc \notin Loop!Procs /\ 1 \in Loop!Procs
    BY NoProcIs, MaxProcsAssumption DEF Loop!Procs
  <1>5. ClientTypes
    BY <1>3, <1>4 DEF ClientTypes
  <1>6. PipeTypes
    <2>1. << >> \in Seq(Loop!Messages) /\ << >> \in Seq(Loop!Outputs) /\ <<Hi>> \in Seq(Loop!Messages)
      BY <1>3
    <2>2. queued \in [Loop!Procs -> Seq(Loop!Messages)]
      BY <2>1 DEF Hi
    <2>3. stdin \in [Loop!Procs -> Seq(Loop!Messages)] /\ stdout \in [Loop!Procs -> Seq(Loop!Outputs)]
      BY <2>1
    <2> QED BY <1>2, <2>2, <2>3 DEF PipeTypes, Loop!Statuses
  <1>7. ClientInv
    <2>1. \A r \in Requests : r # Hello
      BY RequestsAssumption
    <2>2. Loop!NoneForgotten
      BY <1>3, <1>4, <2>1 DEF Loop!NoneForgotten, Loop!InFlight
    <2> QED BY <1>3, <2>2 DEF ClientInv
  <1>8. ASSUME NEW p \in Loop!Procs PROVE ProcInv(p)
    <2>1. stdin[p] = << >> /\ stdout[p] = << >> /\ speaks[p] = "lines"
          /\ queued[p] = IF codecs /\ p = 1 THEN <<Hi>> ELSE << >>
      BY <1>2 DEF Hi
    <2>2. Sent(p) = IF codecs /\ p = 1 THEN {Hi} ELSE {}
      BY <1>3, <2>1 DEF Sent
    <2>3. HelloIn(p) <=> codecs /\ p = 1
      BY <2>1 DEF HelloIn
    <2>4. status[p] = "unborn" <=> ~(codecs /\ p = 1)
      BY <1>2
    <2>5. PipesInv(p)
      BY <1>3, <2>1, <2>2, <2>3, <2>4 DEF PipesInv
    <2>6. child = p <=> codecs /\ p = 1
      BY <1>4
    <2>7. child = p => ChildInv(p)
      BY <1>3, <2>1, <2>2, <2>4, <2>6 DEF ChildInv
    <2> QED BY <2>4, <2>5, <2>6, <2>7 DEF ProcInv
  <1> QED BY <1>5, <1>6, <1>7, <1>8, TypesAre DEF LoopInv

\* Every step of the transport, a process or a pipe.
LEMMA LoopInvNext ==
  ASSUME LoopInv, Loop!Next PROVE LoopInv'
  <1>1. CASE \E r \in Requests : Loop!Invoke(r)
    <2>1. PICK r \in Requests : Loop!Invoke(r)
      BY <1>1
    <2> QED BY <2>1, InvInvokeRefused, InvInvokeLine, InvInvokeFrame, InvInvokeWaits, InvSpawns DEF Loop!Invoke
  <1>2. CASE Loop!Ready
    BY <1>2, InvSpawns
  <1>3. CASE Loop!Dispose
    BY <1>3, InvTransportDisposed
  <1>4. ASSUME NEW p \in Loop!Procs, Loop!Data(p) PROVE LoopInv'
    BY <1>4, InvDataIgnored, InvAnswerLine, InvDataFrame, InvMalformedLine, InvPushBeforeHello,
       InvHelloBinary, InvHelloPlain DEF Loop!Data
  <1>5. ASSUME NEW p \in Loop!Procs, Loop!Events(p) PROVE LoopInv'
    BY <1>5, InvStrangerEnds, InvOwnEnds, InvOwnExit DEF Loop!Events
  <1>6. ASSUME NEW p \in Loop!Procs, Loop!Runtime(p) PROVE LoopInv'
    BY <1>6, InvAnswer, InvBeginHello, InvAnswerHello DEF Loop!Runtime
  <1>7. ASSUME NEW p \in Loop!Procs, Loop!Flush(p) \/ Loop!Noise(p) \/ Loop!Die(p) PROVE LoopInv'
    BY <1>7, InvFlush, InvNoise, InvDie
  <1> QED BY <1>1, <1>2, <1>3, <1>4, <1>5, <1>6, <1>7 DEF Loop!Next

\* No step of theirs.
LEMMA LoopInvStutter ==
  ASSUME LoopInv, UNCHANGED loopVars PROVE LoopInv'
  <1>1. UNCHANGED <<codecs, child, disposed, mode, handshake, waiting, pending, binQueue, fate, answer,
              status, killed, speaks, queued, stdin, stdout>>
    BY DEF loopVars
  <1>2. Loop!TypeOK'
    BY <1>1 DEF LoopInv, Loop!TypeOK
  <1>3. ClientInv'
    BY <1>1 DEF LoopInv, ClientInv, Loop!NoneForgotten, Loop!InFlight
  <1> QED BY <1>1, <1>2, <1>3, InvQuiet DEF Loop!pipes

\* The waiters agree with what comes, in the words of NodeLoop.
LEMMA AlignedFollows ==
  ASSUME LoopInv PROVE Loop!Aligned
  <1> SUFFICES ASSUME child # Loop!NoProc, mode = "binary"
               PROVE  LET answers == AnswersOf(stdout[child])
                          coming == answers \o Loop!RequestsOf(stdin[child]) \o Loop!RequestsOf(queued[child])
                      IN IF status[child] = "exited"
                         THEN Len(answers) <= Len(binQueue) /\ SubSeq(binQueue, 1, Len(answers)) = answers
                         ELSE binQueue = coming
    BY DEF Loop!Aligned, AnswersOf
  <1>1. child \in Loop!Procs
    BY ClientFacts DEF ClientTypes
  <1>2. Coming(child) /\ AnswersOf(stdout[child]) \in Seq(AnyRequest) /\ binQueue \in Seq(Requests)
    BY <1>1, ProcFacts DEF ChildInv
  <1>3. CASE status[child] # "exited"
    BY <1>2, <1>3 DEF Coming
  <1>4. CASE status[child] = "exited"
    <2>1. \A a \in Seq(AnyRequest), b \in Seq(Requests) : Ahead(a, b) => Len(a) <= Len(b) /\ SubSeq(b, 1, Len(a)) = a
      <3> SUFFICES ASSUME NEW a \in Seq(AnyRequest), NEW b \in Seq(Requests), Ahead(a, b)
                   PROVE  Len(a) <= Len(b) /\ SubSeq(b, 1, Len(a)) = a
        OBVIOUS
      <3> DEFINE s == SubSeq(b, 1, Len(a))
      <3>1. Len(a) <= Len(b) /\ \A k \in 1..Len(a) : b[k] = a[k]
        BY DEF Ahead
      <3>2. s \in Seq(Requests) /\ Len(s) = Len(a) /\ \A k \in 1..Len(a) : s[k] = b[k]
        BY <3>1
      <3> HIDE DEF s
      <3>3. s = a
        BY <3>1, <3>2, SeqEqual
      <3> QED BY <3>1, <3>3 DEF s
    <2> QED BY <1>2, <1>4, <2>1 DEF Coming
  <1> QED BY <1>3, <1>4

\* The invariant is more than what is promised.
LEMMA SoundFollows ==
  ASSUME LoopInv PROVE TransportSound
  <1>1. Loop!NeverGarbled
    <2> SUFFICES ASSUME NEW p \in Loop!Procs, stdin[p] # << >>
                 PROVE  Head(stdin[p]).format = IF speaks[p] = "frames" THEN "binary" ELSE "ndjson"
      BY DEF Loop!NeverGarbled
    <2>1. Head(stdin[p]) \in Loop!Elements(stdin[p])
      BY ProcFacts, ElementsTail
    <2> QED BY <2>1, ProcFacts DEF PipesInv, Sent
  <1>2. Loop!OrphansAreKilled
    BY DEF Loop!OrphansAreKilled, LoopInv, ProcInv
  <1>3. Loop!TypeOK /\ Loop!NoneForgotten
    BY DEF LoopInv, ClientInv
  <1> QED BY <1>1, <1>2, <1>3, AlignedFollows
      DEF TransportSound, Loop!TransportSound, Loop!NothingForgotten, Loop!StreamsAgree

\* The invariant, of every behaviour of the adapter.
THEOREM LoopInvariance == NodeSpec => []LoopInv
  <1>1. NodeInit => LoopInv
    BY LoopInvInit
  <1>2. LoopInv /\ [(AtBootstrap /\ Next) \/ (AtLoop /\ Loop!Next)]_all => LoopInv'
    <2> SUFFICES ASSUME LoopInv, [(AtBootstrap /\ Next) \/ (AtLoop /\ Loop!Next)]_all PROVE LoopInv'
      OBVIOUS
    <2>1. CASE AtBootstrap
      BY <2>1, LoopInvStutter DEF AtBootstrap
    <2>2. CASE Loop!Next
      BY <2>2, LoopInvNext
    <2>3. CASE UNCHANGED all
      BY <2>3, LoopInvStutter DEF all
    <2> QED BY <2>1, <2>2, <2>3
  <1> QED BY <1>1, <1>2, PTL DEF NodeSpec

\* Both ends of the pipes agree on what lies between them through crashes, respawns and
\* the change of format, and nobody who waits is forgotten (node-loop.ts ensureProcess, fail,
\* dispose; node-binary-session.ts dispatchFrame).
THEOREM TransportIsSound == NodeSpec => []TransportSound
  BY LoopInvariance, SoundFollows, PTL

-----------------------------------------------------------------------------
(* Every step is a step of RequestReply.                                   *)

\* One move of one request, in the transport's words.
Moves(r) ==
  \/ fate'[r] = fate[r] /\ answer'[r] = answer[r]
  \/ fate[r] = "idle" /\ fate'[r] = "waiting" /\ answer'[r] = NoRequest
  \/ fate[r] = "waiting" /\ fate'[r] = "answered" /\ answer'[r] = r
  \/ fate[r] \in {"idle", "waiting"} /\ fate'[r] = "failed" /\ answer'[r] = NoRequest

\* Requests that are sent, or settled without an answer.
LEMMA SettledMoves ==
  ASSUME LoopInv, NEW S, answer' = answer,
         \/ Loop!Settle(S, "failed") /\ \A r \in S \cap Requests : fate[r] = "idle" \/ r \in Loop!InFlight
         \/ Loop!Settle(S, "waiting") /\ \A r \in S \cap Requests : fate[r] = "idle"
  PROVE  \A r \in Requests : Moves(r)
  <1> SUFFICES ASSUME NEW r \in Requests PROVE Moves(r)
    OBVIOUS
  <1>1. /\ fate[r] \in {"idle", "waiting"} => answer[r] = NoRequest
        /\ r \in Loop!InFlight => fate[r] = "waiting"
    BY ClientFacts DEF ClientInv, Loop!NoneForgotten
  <1>2. fate'[r] \in {fate[r], "failed", "waiting"}
    BY DEF Loop!Settle
  <1> QED BY <1>1, <1>2 DEF Moves, Loop!Settle

\* An invoke.
LEMMA InvokeMoves ==
  ASSUME LoopInv, NEW x \in Requests, Loop!Invoke(x) PROVE \A r \in Requests : Moves(r)
  <1>1. CASE Loop!InvokeRefused(x) \/ Loop!InvokeWithoutStdio(x)
    <2>1. Loop!Settle({x}, "failed") /\ fate[x] = "idle" /\ answer' = answer
      BY <1>1 DEF Loop!InvokeRefused, Loop!InvokeWithoutStdio
    <2> QED BY <2>1, SettledMoves
  <1>2. CASE Loop!InvokeLine(x) \/ Loop!InvokeFrame(x) \/ Loop!InvokeWaits(x) \/ Loop!InvokeSpawns(x)
    <2>1. Loop!Settle({x}, "waiting") /\ fate[x] = "idle" /\ answer' = answer
      BY <1>2 DEF Loop!InvokeLine, Loop!InvokeFrame, Loop!InvokeWaits, Loop!InvokeSpawns, Loop!Spawn
    <2> QED BY <2>1, SettledMoves
  <1> QED BY <1>1, <1>2 DEF Loop!Invoke

\* Everything that gives up requests at the end of a process.
LEMMA EndMoves ==
  ASSUME LoopInv, Loop!Dispose \/ \E p \in Loop!Procs : Loop!Events(p) \/ Loop!MalformedLine(p)
  PROVE \A r \in Requests : Moves(r)
  <1>1. CASE UNCHANGED Loop!clientVars
    BY <1>1 DEF Moves, Loop!clientVars
  <1>2. CASE Loop!Dispose \/ Loop!Lose
    <2>1. Loop!Settle(Loop!InFlight, "failed") /\ answer' = answer
      BY <1>2 DEF Loop!Dispose, Loop!Lose
    <2> QED BY <2>1, SettledMoves
  <1>3. ASSUME NEW lost, Loop!Unwritten(lost), answer' = answer PROVE \A r \in Requests : Moves(r)
    <2>1. PICK S : Loop!Settle(S, "failed") /\ S \subseteq Loop!InFlight
      BY <1>3 DEF Loop!Unwritten
    <2> QED BY <1>3, <2>1, SettledMoves
  <1> QED BY <1>1, <1>2, <1>3 DEF Loop!Events, Loop!SpawnError, Loop!WriteError, Loop!Exit, Loop!Close, Loop!Fail, Loop!MalformedLine

\* The handshake, which rejects what waited for it or writes it.
LEMMA HelloMoves ==
  ASSUME LoopInv, NEW p \in Loop!Procs, Loop!HelloBinary(p) \/ Loop!HelloPlain(p) \/ Loop!HelloRefused(p)
  PROVE  \A r \in Requests : Moves(r)
  <1>1. answer' = answer /\ (UNCHANGED fate \/ \E S \in SUBSET Loop!Elements(waiting) : Loop!Settle(S, "failed"))
    <2>1. Loop!Elements(waiting) \cap ChannelRequests \in SUBSET Loop!Elements(waiting)
      OBVIOUS
    <2> QED BY <2>1 DEF Loop!HelloBinary, Loop!HelloPlain, Loop!HelloRefused
  <1>2. CASE UNCHANGED fate
    BY <1>1, <1>2 DEF Moves
  <1>3. ASSUME NEW S \in SUBSET Loop!Elements(waiting), Loop!Settle(S, "failed") PROVE \A r \in Requests : Moves(r)
    <2>1. S \subseteq Loop!InFlight
      BY DEF Loop!InFlight
    <2> QED BY <1>1, <1>3, <2>1, SettledMoves
  <1> QED BY <1>1, <1>2, <1>3

\* An answer.
LEMMA AnswerMovesOne ==
  ASSUME LoopInv, NEW p \in Loop!Procs, Loop!AnswerLine(p) \/ Loop!DataFrame(p)
  PROVE  \A r \in Requests : Moves(r)
  <1> SUFFICES ASSUME NEW r \in Requests PROVE Moves(r)
    OBVIOUS
  <1> DEFINE x == Head(stdout[p]).request
  <1>1. /\ r \in pending \/ r \in Loop!Elements(binQueue) => fate[r] = "waiting"
        /\ answer \in [Requests -> Requests \cup {Hello, NoRequest}]
    BY ClientFacts DEF ClientTypes
  <1>2. CASE Loop!AnswerLine(p)
    <2>1. /\ Loop!Settle({x} \cap pending, "answered")
          /\ answer' = IF x \in pending THEN [answer EXCEPT ![x] = x] ELSE answer
      BY <1>2 DEF Loop!AnswerLine
    <2> HIDE DEF x
    <2>2. CASE r = x /\ x \in pending
      BY <1>1, <2>1, <2>2 DEF Moves, Loop!Settle
    <2>3. CASE ~(r = x /\ x \in pending)
      BY <1>1, <2>1, <2>3 DEF Moves, Loop!Settle
    <2> QED BY <2>2, <2>3
  <1>3. CASE Loop!DataFrame(p)
    <2>1. CASE UNCHANGED <<fate, answer>>
      BY <2>1 DEF Moves
    <2>2. CASE ~UNCHANGED <<fate, answer>>
      <3>1. /\ binQueue # << >> /\ Head(binQueue) = x /\ Loop!Settle({Head(binQueue)}, "answered")
            /\ answer' = [answer EXCEPT ![Head(binQueue)] = x]
        BY <1>3, <2>2, DataFrameMatches DEF Loop!DataFrame
      <3> HIDE DEF x
      <3>2. x \in Loop!Elements(binQueue)
        BY <3>1, ProcFacts, ElementsTail
      <3>3. CASE r = x
        BY <1>1, <3>1, <3>2, <3>3 DEF Moves, Loop!Settle
      <3>4. CASE r # x
        BY <1>1, <3>1, <3>4 DEF Moves, Loop!Settle
      <3> QED BY <3>3, <3>4
    <2> QED BY <2>1, <2>2
  <1> QED BY <1>2, <1>3

\* Every step.
LEMMA NextMoves ==
  ASSUME LoopInv, Loop!Next PROVE \A r \in Requests : Moves(r)
  <1>1. CASE UNCHANGED <<fate, answer>>
    BY <1>1 DEF Moves
  <1>2. CASE \E r \in Requests : Loop!Invoke(r)
    BY <1>2, InvokeMoves
  <1>3. CASE Loop!Ready
    BY <1>1, <1>3 DEF Loop!Ready, Loop!Spawn
  <1>4. CASE Loop!Dispose
    BY <1>4, EndMoves
  <1>5. ASSUME NEW p \in Loop!Procs, Loop!Data(p) PROVE \A r \in Requests : Moves(r)
    <2>1. CASE Loop!DataIgnored(p) \/ Loop!PushBeforeHello(p)
      BY <1>1, <2>1 DEF Loop!DataIgnored, Loop!PushBeforeHello, Loop!clientVars
    <2> QED BY <1>5, <2>1, AnswerMovesOne, EndMoves, HelloMoves DEF Loop!Data
  <1>6. ASSUME NEW p \in Loop!Procs, Loop!Events(p) PROVE \A r \in Requests : Moves(r)
    BY <1>6, EndMoves
  <1>7. ASSUME NEW p \in Loop!Procs, Loop!Runtime(p) \/ Loop!Flush(p) \/ Loop!Noise(p) \/ Loop!Die(p)
        PROVE  UNCHANGED <<fate, answer>>
    BY <1>7 DEF Loop!Runtime, Loop!Answer, Loop!BeginHello, Loop!AnswerHello, Loop!AnswerHelloOld,
       Loop!Flush, Loop!Noise, Loop!Die, Loop!clientVars
  <1> QED BY <1>1, <1>2, <1>3, <1>4, <1>5, <1>6, <1>7 DEF Loop!Next

\* The moves are those of RequestReply.
LEMMA MovesAreReplies ==
  ASSUME LoopInv, LoopInv', \A r \in Requests : Moves(r) PROVE Loop!Reply!Next
  <1>1. fate' \in [Requests -> {"idle", "waiting", "answered", "failed"}] /\ answer' \in [Requests -> Requests \cup {Hello, NoRequest}]
    BY DEF LoopInv, Loop!TypeOK
  <1>2. fate \in [Requests -> {"idle", "waiting", "answered", "failed"}] /\ answer \in [Requests -> Requests \cup {Hello, NoRequest}]
    BY DEF LoopInv, Loop!TypeOK
  <1>3. answer' = [r \in Requests |-> answer'[r]]
    BY <1>1
  <1>4. ASSUME NEW r \in Requests PROVE Loop!Reply!Keep(r) \/ Loop!Reply!Issue(r) \/ Loop!Reply!Answer(r) \/ Loop!Reply!Fail(r)
    BY <1>1, <1>2 DEF Moves, Loop!Reply!Keep, Loop!Reply!Issue, Loop!Reply!Answer, Loop!Reply!Fail
  <1> QED BY <1>3, <1>4 DEF Loop!Reply!Next

\* Every invoke is settled once, by the answer a runtime gave to this very request or by an
\* error, in the order of the pipes alone (node-binary-session.ts dispatchFrame, node-loop.ts).
THEOREM TransportImplementsRequestReply == NodeSpec => ImplementsRequestReply
  <1>1. NodeInit => Loop!Reply!Init
    BY DEF NodeInit, Loop!Init, Loop!Reply!Init
  <1>2. LoopInv /\ LoopInv' /\ [(AtBootstrap /\ Next) \/ (AtLoop /\ Loop!Next)]_all
          => [Loop!Reply!Next]_(Loop!Reply!vars)
    <2> SUFFICES ASSUME LoopInv, LoopInv', [(AtBootstrap /\ Next) \/ (AtLoop /\ Loop!Next)]_all
                 PROVE  [Loop!Reply!Next]_(Loop!Reply!vars)
      OBVIOUS
    <2>1. CASE UNCHANGED loopVars
      BY <2>1 DEF loopVars, Loop!Reply!vars
    <2>2. CASE Loop!Next
      BY <2>2, NextMoves, MovesAreReplies
    <2> QED BY <2>1, <2>2 DEF AtBootstrap, AtLoop, all
  <1> QED BY <1>1, <1>2, LoopInvariance, PTL
          DEF NodeSpec, ImplementsRequestReply, Loop!ImplementsRequestReply, Loop!Reply!Spec

-----------------------------------------------------------------------------
(* The bootstrap.                                                          *)

USE DEF slotVars, runVars, readVars, eventVars

Checked == {"contract", "events"}   \* a run in these has its transport

(* The conjuncts of the inductive invariant besides the checked invariants. *)

Ended == state = "disposed" => holder # "self"

\* The slot knows the run that is under way as long as it belongs to us.
Flights ==
  /\ flight # NoRun => InFlight(flight)
  /\ IsCurrent => \A n \in Runs : InFlight(n) => flight = n

\* A bootstrap that is ready has its transport, and nothing is under way.
Quiet ==
  /\ state = "ready" => owned # NoTransport /\ \A n \in Runs : ~InFlight(n)
  /\ reloadPc = "draining" => state \in {"ready", "disposed"}

\* A transport that is owned belongs to the run under way or to the engine.
Owners ==
  /\ \A n \in Runs : runPc[n] \in Checked =>
       runTransport[n] \in Transports /\ (state # "disposed" => owned = runTransport[n])
  /\ owned # NoTransport => state = "ready" \/ \E n \in Runs : runPc[n] \in Checked

Safe == TransportsAreOwned /\ OneRunAtATime /\ EngineIsLive /\ EventsFollow

IInv == TypeOK /\ Ended /\ Flights /\ Quiet /\ Owners /\ Safe

USE DEF IInv, Safe, IsCurrent, InFlight, Checked

LEMMA Names ==
  NoRun \notin Runs /\ NoTransport \notin Transports /\ Reload \notin Readers
  BY BootstrapAssumption

LEMMA InvInit == Init => IInv
  <1> SUFFICES ASSUME Init PROVE IInv
    OBVIOUS
  <1>1. TypeOK
    BY BootstrapAssumption DEF Init, TypeOK
  <1>2. Ended /\ Flights /\ Quiet /\ Owners
    BY DEF Init, Ended, Flights, Quiet, Owners
  <1>3. Safe
    BY DEF Init, TransportsAreOwned, OneRunAtATime, EngineIsLive, EventsFollow
  <1> QED BY <1>1, <1>2, <1>3

(***************************************************************************)
(* The start of a run, from wherever it comes: nothing is under way, and   *)
(* nothing is owned.                                                       *)
(***************************************************************************)
LEMMA InvStart ==
  ASSUME IInv, NEW n \in Runs, Start(n), holder = "self", flight = NoRun, engine = NoTransport,
         UNCHANGED <<custom, persistent, holder, engine, state, owned, runTransport,
                     tries, transport>>,
         readerPc' \in [Readers -> {"idle", "waiting", "ready", "failed"}],
         awaits' \in [Readers \cup {Reload} -> Runs \cup {NoRun}],
         reloadPc' \in {"idle", "readying", "draining", "restarting"},
         reloadPc' = "draining" => reloadPc = "draining",
         subscribed' \subseteq Subscriptions,
         UNCHANGED attached
  PROVE  IInv'
  <1>1. state = "initializing" /\ \A m \in Runs : ~InFlight(m)
    BY Names DEF TypeOK, Ended, Flights, EngineIsLive
  <1>2. owned = NoTransport
    BY <1>1 DEF Owners
  <1>3. runPc' = [runPc EXCEPT ![n] = "starting"] /\ flight' = n
    BY DEF Start
  <1>4. TypeOK'
    BY <1>3 DEF TypeOK
  <1>5. Ended' /\ Flights' /\ Quiet'
    BY <1>1, <1>3 DEF TypeOK, Ended, Flights, Quiet
  <1>6. Owners' /\ TransportsAreOwned' /\ OneRunAtATime'
    BY <1>1, <1>2, <1>3 DEF TypeOK, Owners, TransportsAreOwned, OneRunAtATime
  <1>7. EngineIsLive' /\ EventsFollow'
    BY <1>1, <1>3 DEF EngineIsLive, EventsFollow
  <1> QED BY <1>4, <1>5, <1>6, <1>7

\* Only readers, reload and subscriptions that are not attached change.
LEMMA InvCallers ==
  ASSUME IInv,
         UNCHANGED <<custom, persistent, slotVars, state, owned, runVars, transport, attached>>,
         readerPc' \in [Readers -> {"idle", "waiting", "ready", "failed"}],
         awaits' \in [Readers \cup {Reload} -> Runs \cup {NoRun}],
         reloadPc' \in {"idle", "readying", "draining", "restarting"},
         reloadPc' = "draining" => reloadPc = "draining" \/ state = "ready",
         subscribed' \subseteq Subscriptions,
         subscribed' = subscribed \/ state # "ready"
  PROVE  IInv'
  <1>1. TypeOK'
    BY DEF TypeOK
  <1>2. Ended' /\ Flights' /\ Quiet' /\ Owners'
    BY DEF Ended, Flights, Quiet, Owners
  <1>3. TransportsAreOwned' /\ OneRunAtATime' /\ EngineIsLive'
    BY DEF TransportsAreOwned, OneRunAtATime, EngineIsLive
  <1>4. EventsFollow'
    BY DEF EventsFollow
  <1> QED BY <1>1, <1>2, <1>3, <1>4

LEMMA InvUse == ASSUME IInv, Use PROVE IInv'
  <1>1. PICK n \in Runs : Start(n)
    BY DEF Use
  <1> QED BY <1>1, InvStart DEF Use, Installed, TypeOK

LEMMA InvReady ==
  ASSUME IInv, NEW c \in Readers, ReadyFails(c) \/ ReadyAtOnce(c) \/ ReadyWaits(c)
  PROVE  IInv'
  <1>1. CASE ReadyFails(c)
    BY <1>1, InvCallers DEF ReadyFails, TypeOK
  <1>2. CASE ReadyAtOnce(c)
    <2>1. state' = state
      BY <1>2 DEF ReadyAtOnce, Active, Installed, EngineIsLive
    <2> QED BY <1>2, <2>1, InvCallers DEF ReadyAtOnce, TypeOK
  <1>3. CASE ReadyWaits(c)
    <2>1. readerPc' \in [Readers -> {"idle", "waiting", "ready", "failed"}]
      BY <1>3 DEF ReadyWaits, TypeOK
    <2>2. CASE flight # NoRun
      <3>1. awaits' \in [Readers \cup {Reload} -> Runs \cup {NoRun}]
        BY <1>3, <2>2 DEF ReadyWaits, Await, TypeOK
      <3> QED BY <1>3, <2>1, <2>2, <3>1, InvCallers DEF ReadyWaits, Await, TypeOK
    <2>3. CASE flight = NoRun
      <3>1. PICK n \in Runs : Start(n) /\ awaits' = [awaits EXCEPT ![c] = n]
        BY <1>3, <2>3 DEF ReadyWaits, Await
      <3>2. awaits' \in [Readers \cup {Reload} -> Runs \cup {NoRun}]
        BY <3>1 DEF TypeOK
      <3> QED BY <1>3, <2>1, <2>3, <3>1, <3>2, InvStart DEF ReadyWaits, Active, Installed, TypeOK
    <2> QED BY <2>2, <2>3
  <1> QED BY <1>1, <1>2, <1>3

LEMMA InvSubscribe ==
  ASSUME IInv, NEW s \in Subscriptions, Subscribe(s) PROVE IInv'
  <1>1. subscribed' = subscribed \cup {s} /\ subscribed' \subseteq Subscriptions
    BY DEF Subscribe, TypeOK
  <1>2. CASE owned # NoTransport /\ state = "ready"
    <2>1. AttachTo(owned, {s}) /\ UNCHANGED <<flight, runPc>>
      BY <1>2 DEF Subscribe
    <2>2. TypeOK'
      BY <1>1, <2>1 DEF TypeOK, Subscribe, AttachTo
    <2>3. EventsFollow'
      BY <1>1, <1>2, <2>1 DEF TypeOK, Subscribe, AttachTo, EventsFollow
    <2>4. Ended' /\ Flights' /\ Quiet' /\ Owners'
      BY <2>1 DEF Subscribe, Ended, Flights, Quiet, Owners
    <2>5. TransportsAreOwned' /\ OneRunAtATime' /\ EngineIsLive'
      BY <2>1 DEF Subscribe, TransportsAreOwned, OneRunAtATime, EngineIsLive
    <2> QED BY <2>2, <2>3, <2>4, <2>5
  <1>3. CASE ~(owned # NoTransport /\ state = "ready")
    <2>1. UNCHANGED attached /\ state # "ready"
      BY <1>3 DEF Subscribe, Quiet
    <2>2. CASE Installed \/ flight # NoRun
      BY <1>1, <1>3, <2>1, <2>2, InvCallers DEF Subscribe, TypeOK
    <2>3. CASE ~(Installed \/ flight # NoRun)
      <3>1. PICK n \in Runs : Start(n)
        BY <1>3, <2>3 DEF Subscribe
      <3> QED BY <1>1, <2>1, <2>3, <3>1, InvStart DEF Subscribe, Active, Installed, TypeOK
    <2> QED BY <2>2, <2>3
  <1> QED BY <1>2, <1>3

LEMMA InvUnsubscribe ==
  ASSUME IInv, NEW s \in Subscriptions, Unsubscribe(s) PROVE IInv'
  <1>1. TypeOK'
    BY DEF TypeOK, Unsubscribe
  <1>2. EventsFollow'
    BY DEF TypeOK, Unsubscribe, EventsFollow
  <1>3. Ended' /\ Flights' /\ Quiet' /\ Owners'
    BY DEF Unsubscribe, Ended, Flights, Quiet, Owners
  <1>4. TransportsAreOwned' /\ OneRunAtATime' /\ EngineIsLive'
    BY DEF Unsubscribe, TransportsAreOwned, OneRunAtATime, EngineIsLive
  <1> QED BY <1>1, <1>2, <1>3, <1>4

(***************************************************************************)
(* The steps of a run.                                                     *)
(***************************************************************************)
LEMMA ResumeType ==
  ASSUME TypeOK, NEW n \in Runs, NEW how \in {"ready", "failed"}, Resume(n, how)
  PROVE  /\ readerPc' \in [Readers -> {"idle", "waiting", "ready", "failed"}]
         /\ awaits' \in [Readers \cup {Reload} -> Runs \cup {NoRun}]
         /\ reloadPc' \in {"idle", "readying", "draining", "restarting"}
         /\ reloadPc' = "draining" => reloadPc = "draining" \/ how = "ready"
  BY DEF TypeOK, Resume

\* What a run knows while it is under way.
LEMMA Under ==
  ASSUME IInv, NEW n \in Runs, InFlight(n)
  PROVE  /\ state # "ready"
         /\ \A m \in Runs : InFlight(m) => m = n
         /\ runPc[n] \in {"starting", "creating"} => owned = NoTransport
         /\ \A s \in Subscriptions : attached[s] = NoTransport
  BY DEF TypeOK, Quiet, OneRunAtATime, Owners, EventsFollow

\* A run is rejected when nothing is owned any more.
LEMMA InvReject ==
  ASSUME IInv, NEW n \in Runs, InFlight(n), Reject(n),
         tries' \in [Runs -> 0..MaxTries],
         owned' = NoTransport,
         transport' \in [Transports -> {"open", "closed"}],
         \A t \in Transports : transport'[t] = "closed",
         attached' = [s \in Subscriptions |-> NoTransport]
  PROVE  IInv'
  <1>1. /\ runPc' = [runPc EXCEPT ![n] = "idle"] /\ state' = state
        /\ flight' = (IF flight = n THEN NoRun ELSE flight)
        /\ UNCHANGED <<custom, persistent, holder, engine, runTransport, subscribed>>
    BY DEF Reject
  <1>2. /\ readerPc' \in [Readers -> {"idle", "waiting", "ready", "failed"}]
        /\ awaits' \in [Readers \cup {Reload} -> Runs \cup {NoRun}]
        /\ reloadPc' \in {"idle", "readying", "draining", "restarting"}
        /\ reloadPc' = "draining" => reloadPc = "draining"
    BY ResumeType DEF Reject
  <1>3. state # "ready" /\ \A m \in Runs : ~InFlight(m)'
    BY <1>1, Under DEF TypeOK
  <1>4. flight' = NoRun
    BY <1>1, Under DEF TypeOK, Flights
  <1>5. holder = "self" => engine = NoTransport
    BY <1>3 DEF EngineIsLive
  <1>6. TypeOK'
    BY <1>1, <1>2, <1>4 DEF TypeOK
  <1>7. Ended' /\ Flights' /\ Quiet' /\ Owners'
    BY <1>1, <1>2, <1>3, <1>4 DEF TypeOK, Ended, Flights, Quiet, Owners
  <1>8. TransportsAreOwned' /\ OneRunAtATime'
    BY <1>3 DEF TransportsAreOwned, OneRunAtATime
  <1>9. EngineIsLive' /\ EventsFollow'
    BY <1>1, <1>3, <1>5 DEF EngineIsLive, EventsFollow
  <1> QED BY <1>6, <1>7, <1>8, <1>9

LEMMA InvBegin == ASSUME IInv, NEW n \in Runs, Begin(n) PROVE IInv'
  <1>1. runPc' = [runPc EXCEPT ![n] = "creating"] /\ runPc[n] = "starting"
    BY DEF Begin
  <1>2. TypeOK'
    BY <1>1 DEF TypeOK, Begin
  <1>3. Ended' /\ Flights' /\ Quiet' /\ Owners'
    BY <1>1 DEF TypeOK, Begin, Ended, Flights, Quiet, Owners
  <1>4. TransportsAreOwned' /\ OneRunAtATime'
    BY <1>1 DEF TypeOK, Begin, TransportsAreOwned, OneRunAtATime
  <1>5. EngineIsLive' /\ EventsFollow'
    BY DEF Begin, EngineIsLive, EventsFollow
  <1> QED BY <1>2, <1>3, <1>4, <1>5

LEMMA InvOpenFails == ASSUME IInv, NEW n \in Runs, OpenFails(n) PROVE IInv'
  <1>1. InFlight(n) /\ runPc[n] \in {"starting", "creating"} /\ Reject(n)
        /\ UNCHANGED <<transport, tries, owned, attached>>
    BY DEF OpenFails
  <1>2. owned' = NoTransport /\ \A s \in Subscriptions : attached[s] = NoTransport
    BY <1>1, Under
  <1>3. \A t \in Transports : transport'[t] = "closed"
    BY <1>1, <1>2, Names DEF TypeOK, TransportsAreOwned
  <1>4. attached' = [s \in Subscriptions |-> NoTransport]
    BY <1>1, <1>2 DEF TypeOK
  <1> QED BY <1>1, <1>2, <1>3, <1>4, InvReject DEF TypeOK

LEMMA InvOpenedLate ==
  ASSUME IInv, NEW n \in Runs, NEW t \in Transports, OpenedLate(n, t) PROVE IInv'
  <1>1. InFlight(n) /\ runPc[n] = "creating" /\ Reject(n)
        /\ UNCHANGED <<tries, owned>> /\ transport' = transport
        /\ attached' = [s \in Subscriptions |-> NoTransport]
    BY DEF OpenedLate, CloseEvents, TypeOK
  <1>2. owned' = NoTransport
    BY <1>1, Under
  <1>3. \A u \in Transports : transport'[u] = "closed"
    BY <1>1, <1>2, Names DEF TypeOK, TransportsAreOwned
  <1> QED BY <1>1, <1>2, <1>3, InvReject DEF TypeOK

LEMMA InvAdoptFails == ASSUME IInv, NEW n \in Runs, AdoptFails(n) PROVE IInv'
  <1>1. InFlight(n) /\ runPc[n] \in Checked /\ Reject(n) /\ CloseOf(n) /\ tries' = tries
    BY DEF AdoptFails
  <1>2. runTransport[n] \in Transports /\ (state # "disposed" => owned = runTransport[n])
    BY <1>1 DEF Owners
  <1>3. state = "disposed" => owned = NoTransport
    BY DEF TransportsAreOwned
  <1>4. owned' = NoTransport
    BY <1>1, <1>2, <1>3 DEF CloseOf
  <1>5. transport' = [transport EXCEPT ![runTransport[n]] = "closed"]
        /\ attached' = [s \in Subscriptions |-> NoTransport]
    BY <1>1 DEF CloseOf, CloseEvents
  <1>6. \A t \in Transports : transport'[t] = "closed"
    BY <1>2, <1>3, <1>5, Names DEF TypeOK, TransportsAreOwned
  <1>7. transport' \in [Transports -> {"open", "closed"}]
    BY <1>5 DEF TypeOK
  <1> QED BY <1>1, <1>4, <1>5, <1>6, <1>7, InvReject DEF TypeOK

LEMMA InvOpened ==
  ASSUME IInv, NEW n \in Runs, NEW t \in Transports, Opened(n, t) PROVE IInv'
  <1>1. /\ InFlight(n) /\ owned = NoTransport /\ state = "initializing"
        /\ \A m \in Runs : InFlight(m) => m = n
    BY Under DEF Opened, Active, TypeOK
  <1>2. /\ runPc' = [runPc EXCEPT ![n] = "contract"]
        /\ runTransport' = [runTransport EXCEPT ![n] = t]
        /\ transport' = [transport EXCEPT ![t] = "open"]
        /\ tries' = [tries EXCEPT ![n] = 1] /\ owned' = t
        /\ UNCHANGED <<custom, persistent, slotVars, state, readVars, reloadPc, eventVars>>
    BY DEF Opened
  <1>3. TypeOK'
    <2>1. tries' \in [Runs -> 0..MaxTries]
      BY <1>2, BootstrapAssumption DEF TypeOK
    <2> QED BY <1>2, <2>1 DEF TypeOK
  <1>4. Ended' /\ Flights' /\ Quiet'
    BY <1>1, <1>2 DEF TypeOK, Ended, Flights, Quiet
  <1>5. Owners'
    BY <1>1, <1>2 DEF TypeOK, Owners
  <1>6. TransportsAreOwned' /\ OneRunAtATime'
    BY <1>1, <1>2, Names DEF TypeOK, TransportsAreOwned, OneRunAtATime
  <1>7. EngineIsLive' /\ EventsFollow'
    BY <1>1, <1>2 DEF EngineIsLive, EventsFollow
  <1> QED BY <1>3, <1>4, <1>5, <1>6, <1>7

LEMMA InvAdopted ==
  ASSUME IInv, NEW n \in Runs, runPc[n] \in Checked, Active, Adopted(n) PROVE IInv'
  <1>1. /\ InFlight(n) /\ state = "initializing"
        /\ \A m \in Runs : InFlight(m) => m = n
        /\ \A s \in Subscriptions : attached[s] = NoTransport
    BY Under DEF Active, TypeOK
  <1>2. flight = n /\ owned = runTransport[n] /\ owned \in Transports /\ holder = "self"
    BY <1>1 DEF Active, Flights, Owners
  <1>3. /\ runPc' = [runPc EXCEPT ![n] = "idle"] /\ state' = "ready"
        /\ engine' = owned /\ flight' = NoRun
        /\ Resume(n, "ready") /\ AttachTo(owned, subscribed)
        /\ UNCHANGED <<custom, persistent, holder, owned, runTransport, tries,
                       transport, subscribed>>
    BY <1>2 DEF Adopted
  <1>4. TypeOK'
    <2>1. attached' \in [Subscriptions -> Transports \cup {NoTransport}]
      BY <1>2, <1>3 DEF TypeOK, AttachTo
    <2> QED BY <1>2, <1>3, <2>1, ResumeType DEF TypeOK
  <1>5. \A m \in Runs : ~InFlight(m)'
    BY <1>1, <1>3 DEF TypeOK
  <1>6. Ended' /\ Flights' /\ Quiet' /\ Owners'
    BY <1>2, <1>3, <1>5, Names DEF TypeOK, Ended, Flights, Quiet, Owners
  <1>7. TransportsAreOwned' /\ OneRunAtATime'
    BY <1>3, <1>5 DEF TransportsAreOwned, OneRunAtATime
  <1>8. EngineIsLive'
    BY <1>2, <1>3, Names DEF TransportsAreOwned, EngineIsLive
  <1>9. EventsFollow'
    BY <1>1, <1>3 DEF AttachTo, EventsFollow, TypeOK
  <1> QED BY <1>4, <1>6, <1>7, <1>8, <1>9

LEMMA InvContractHolds == ASSUME IInv, NEW n \in Runs, ContractHolds(n) PROVE IInv'
  <1>1. CASE persistent
    <2>1. /\ runPc' = [runPc EXCEPT ![n] = "events"] /\ runPc[n] = "contract"
          /\ UNCHANGED <<slotVars, state, owned, runTransport, tries, transport,
                         readVars, reloadPc, eventVars, custom, persistent>>
      BY <1>1 DEF ContractHolds
    <2>2. TypeOK'
      BY <2>1 DEF TypeOK
    <2>3. Ended' /\ Flights' /\ Quiet'
      BY <2>1 DEF TypeOK, Ended, Flights, Quiet
    <2>4. Owners'
      BY <2>1 DEF TypeOK, Owners
    <2>5. TransportsAreOwned' /\ OneRunAtATime'
      BY <2>1 DEF TypeOK, TransportsAreOwned, OneRunAtATime
    <2>6. EngineIsLive' /\ EventsFollow'
      BY <2>1 DEF EngineIsLive, EventsFollow
    <2> QED BY <2>2, <2>3, <2>4, <2>5, <2>6
  <1>2. CASE ~persistent
    BY <1>2, InvAdopted DEF ContractHolds
  <1> QED BY <1>1, <1>2

LEMMA InvNextCandidate == ASSUME IInv, NEW n \in Runs, NextCandidate(n) PROVE IInv'
  <1>1. /\ InFlight(n) /\ state = "initializing"
        /\ runPc[n] = "contract"
        /\ \A m \in Runs : InFlight(m) => m = n
    BY Under DEF NextCandidate, Active, TypeOK
  <1>2. PICK t \in Transports :
          /\ transport[t] = "closed"
          /\ runTransport' = [runTransport EXCEPT ![n] = t]
          /\ transport' = [transport EXCEPT ![runTransport[n]] = "closed", ![t] = "open"]
          /\ owned' = t
    BY DEF NextCandidate
  <1>3. /\ tries' = [tries EXCEPT ![n] = @ + 1] /\ tries[n] < MaxTries
        /\ attached' = [s \in Subscriptions |-> NoTransport]
        /\ UNCHANGED <<custom, persistent, slotVars, state, runPc, readVars, reloadPc,
                       subscribed>>
    BY DEF NextCandidate, CloseEvents
  <1>4. owned = runTransport[n] /\ owned \in Transports /\ transport[owned] = "open"
    BY <1>1, Names DEF Owners, TransportsAreOwned
  <1>5. TypeOK'
    <2>1. tries' \in [Runs -> 0..MaxTries]
      BY <1>3, BootstrapAssumption DEF TypeOK
    <2>2. transport' \in [Transports -> {"open", "closed"}]
      BY <1>2 DEF TypeOK
    <2> QED BY <1>2, <1>3, <2>1, <2>2 DEF TypeOK
  <1>6. Ended' /\ Flights' /\ Quiet'
    BY <1>1, <1>3 DEF Ended, Flights, Quiet
  <1>7. Owners'
    BY <1>1, <1>2, <1>3 DEF TypeOK, Owners
  <1>8. TransportsAreOwned' /\ OneRunAtATime'
    BY <1>1, <1>2, <1>3, <1>4 DEF TypeOK, TransportsAreOwned, OneRunAtATime
  <1>9. EngineIsLive' /\ EventsFollow'
    BY <1>1, <1>3 DEF EngineIsLive, EventsFollow
  <1> QED BY <1>5, <1>6, <1>7, <1>8, <1>9

LEMMA InvRun == ASSUME IInv, NEW n \in Runs, Run(n) PROVE IInv'
  <1>1. CASE EventsHold(n)
    BY <1>1, InvAdopted DEF EventsHold
  <1> QED BY <1>1, InvBegin, InvOpenFails, InvContractHolds, InvNextCandidate, InvAdoptFails,
             InvOpened, InvOpenedLate DEF Run

(***************************************************************************)
(* dispose, reload, replacement.                                           *)
(***************************************************************************)
\* After it nothing is open and nothing listens.
LEMMA CloseOwnedClears ==
  ASSUME IInv, CloseOwned
  PROVE  /\ owned' = NoTransport
         /\ transport' \in [Transports -> {"open", "closed"}]
         /\ \A t \in Transports : transport'[t] = "closed"
         /\ attached' = [s \in Subscriptions |-> NoTransport]
  <1>1. CASE owned = NoTransport
    <2>1. \A s \in Subscriptions : attached[s] = NoTransport
      BY <1>1 DEF EventsFollow
    <2>2. attached' = attached /\ transport' = transport /\ owned' = NoTransport
      BY <1>1 DEF CloseOwned
    <2> QED BY <1>1, <2>1, <2>2, Names DEF TypeOK, TransportsAreOwned
  <1>2. CASE owned # NoTransport
    BY <1>2 DEF CloseOwned, CloseEvents, TypeOK, TransportsAreOwned
  <1> QED BY <1>1, <1>2

LEMMA InvDispose == ASSUME IInv, Dispose PROVE IInv'
  <1>1. /\ state' = "disposed" /\ holder' # "self" /\ subscribed' = {}
        /\ UNCHANGED <<custom, persistent, runVars, readVars, reloadPc>>
        /\ CloseOwned
        /\ flight' = NoRun \/ flight' = flight
        /\ engine' = NoTransport \/ engine' = engine
        /\ holder' = "nobody" \/ holder' = holder
    BY DEF Dispose
  <1>2. TypeOK'
    BY <1>1, CloseOwnedClears DEF TypeOK
  <1>3. Ended' /\ Flights' /\ Quiet' /\ Owners'
    BY <1>1, CloseOwnedClears DEF TypeOK, Ended, Flights, Quiet, Owners
  <1>4. TransportsAreOwned' /\ OneRunAtATime'
    BY <1>1, CloseOwnedClears DEF TransportsAreOwned, OneRunAtATime
  <1>5. EngineIsLive' /\ EventsFollow'
    BY <1>1, CloseOwnedClears DEF EngineIsLive, EventsFollow
  <1> QED BY <1>2, <1>3, <1>4, <1>5

LEMMA InvReloadStarts == ASSUME IInv, ReloadStarts PROVE IInv'
  <1>1. CASE state = "ready"
    BY <1>1, InvCallers DEF ReloadStarts, TypeOK
  <1>2. CASE state # "ready" /\ flight # NoRun
    <2>1. awaits' \in [Readers \cup {Reload} -> Runs \cup {NoRun}] /\ reloadPc' = "readying"
      BY <1>2 DEF ReloadStarts, Await, TypeOK
    <2> QED BY <1>2, <2>1, InvCallers DEF ReloadStarts, Await, TypeOK
  <1>3. CASE state # "ready" /\ flight = NoRun
    <2>1. PICK n \in Runs : Start(n) /\ awaits' = [awaits EXCEPT ![Reload] = n]
      BY <1>3 DEF ReloadStarts, Await
    <2>2. awaits' \in [Readers \cup {Reload} -> Runs \cup {NoRun}] /\ reloadPc' = "readying"
      BY <1>3, <2>1 DEF ReloadStarts, TypeOK
    <2>3. engine = NoTransport /\ holder = "self"
      BY <1>3 DEF ReloadStarts, Active, EngineIsLive
    <2> QED BY <1>3, <2>1, <2>2, <2>3, InvStart DEF ReloadStarts, TypeOK
  <1> QED BY <1>1, <1>2, <1>3

LEMMA InvReloadFails == ASSUME IInv, ReloadFails PROVE IInv'
  BY InvCallers DEF ReloadFails, TypeOK

LEMMA InvReloadRestarts == ASSUME IInv, ReloadRestarts PROVE IInv'
  <1>1. state = "ready" /\ \A m \in Runs : ~InFlight(m)
    BY DEF ReloadRestarts, Active, Quiet
  <1>2. PICK n \in Runs :
          /\ Start(n) /\ holder' = "self" /\ engine' = NoTransport
          /\ state' = "initializing" /\ CloseOwned /\ reloadPc' = "restarting"
          /\ awaits' = [awaits EXCEPT ![Reload] = n]
          /\ UNCHANGED <<custom, persistent, runTransport, tries, readerPc, subscribed>>
    BY DEF ReloadRestarts, Restart
  <1>3. runPc' = [runPc EXCEPT ![n] = "starting"] /\ flight' = n
    BY <1>2 DEF Start
  <1>4. TypeOK'
    BY <1>2, <1>3, CloseOwnedClears DEF TypeOK
  <1>5. Ended' /\ Flights' /\ Quiet' /\ Owners'
    BY <1>1, <1>2, <1>3, CloseOwnedClears DEF TypeOK, Ended, Flights, Quiet, Owners
  <1>6. TransportsAreOwned' /\ OneRunAtATime'
    BY <1>1, <1>2, <1>3, CloseOwnedClears DEF TypeOK, TransportsAreOwned, OneRunAtATime
  <1>7. EngineIsLive' /\ EventsFollow'
    BY <1>2, CloseOwnedClears DEF EngineIsLive, EventsFollow
  <1> QED BY <1>4, <1>5, <1>6, <1>7

LEMMA InvReplaced == ASSUME IInv, Replaced PROVE IInv'
  <1>1. TypeOK'
    BY DEF TypeOK, Replaced
  <1>2. Ended' /\ Flights' /\ Quiet' /\ Owners'
    BY DEF Replaced, Ended, Flights, Quiet, Owners
  <1>3. TransportsAreOwned' /\ OneRunAtATime' /\ EngineIsLive' /\ EventsFollow'
    BY DEF Replaced, TransportsAreOwned, OneRunAtATime, EngineIsLive, EventsFollow
  <1> QED BY <1>1, <1>2, <1>3

LEMMA InvNext == IInv /\ [Next]_vars => IInv'
  <1> SUFFICES ASSUME IInv, [Next]_vars PROVE IInv'
    OBVIOUS
  <1>1. CASE UNCHANGED vars
    <2>1. TypeOK' /\ Ended' /\ Flights' /\ Quiet' /\ Owners'
      BY <1>1 DEF vars, TypeOK, Ended, Flights, Quiet, Owners
    <2>2. Safe'
      BY <1>1 DEF vars, TransportsAreOwned, OneRunAtATime, EngineIsLive, EventsFollow
    <2> QED BY <2>1, <2>2
  <1>2. CASE Use \/ Dispose \/ ReloadStarts \/ ReloadFails \/ ReloadRestarts \/ Replaced
    BY <1>2, InvUse, InvDispose, InvReloadStarts, InvReloadFails, InvReloadRestarts, InvReplaced
  <1>3. ASSUME NEW c \in Readers, ReadyFails(c) \/ ReadyAtOnce(c) \/ ReadyWaits(c)
        PROVE  IInv'
    BY <1>3, InvReady
  <1>4. ASSUME NEW s \in Subscriptions, Subscribe(s) \/ Unsubscribe(s) PROVE IInv'
    BY <1>4, InvSubscribe, InvUnsubscribe
  <1>5. ASSUME NEW n \in Runs, Run(n) PROVE IInv'
    BY <1>5, InvRun
  <1> QED BY <1>1, <1>2, <1>3, <1>4, <1>5 DEF Next

(***************************************************************************)
(* The theorems.                                                           *)
(***************************************************************************)

\* The inductive invariant holds.
THEOREM Invariance == Spec => []IInv
  <1> QED BY InvInit, InvNext, PTL DEF Spec

\* Every variable keeps its type.
THEOREM TypeCorrect == Spec => []TypeOK
  <1>1. IInv => TypeOK
    OBVIOUS
  <1> QED BY Invariance, <1>1, PTL

\* No transport is left open without an owner that will close it.
THEOREM NoTransportLeaks == Spec => []TransportsAreOwned
  <1>1. IInv => TransportsAreOwned
    OBVIOUS
  <1> QED BY Invariance, <1>1, PTL

\* Runs do not overlap.
THEOREM RunsDoNotOverlap == Spec => []OneRunAtATime
  <1>1. IInv => OneRunAtATime
    OBVIOUS
  <1> QED BY Invariance, <1>1, PTL

\* The engine in the slot leads to the open transport.
THEOREM InstalledEngineLives == Spec => []EngineIsLive
  <1>1. IInv => EngineIsLive
    OBVIOUS
  <1> QED BY Invariance, <1>1, PTL

\* Subscriptions listen to the verified transport, and to no other.
THEOREM SubscriptionsFollow == Spec => []EventsFollow
  <1>1. IInv => EventsFollow
    OBVIOUS
  <1> QED BY Invariance, <1>1, PTL

\* A disposed or replaced bootstrap stays so, whatever it was waiting for.
THEOREM EndIsFinal == Spec => NeverReclaims
  <1>1. IInv /\ IInv' /\ [Next]_vars
        => [/\ holder' = "self" => holder = "self" /\ state' # "disposed"
            /\ state = "disposed" => state' = "disposed"]_vars
    <2> SUFFICES ASSUME IInv, IInv', Next
                 PROVE  /\ holder' = "self" => holder = "self" /\ state' # "disposed"
                        /\ state = "disposed" => state' = "disposed"
      OBVIOUS
    <2>1. holder' = "self" => state' # "disposed"
      BY DEF Ended
    <2>2. ASSUME NEW n \in Runs, Run(n)
          PROVE  holder' = holder /\ (state = "disposed" => state' = "disposed")
      BY <2>2 DEF Run, Begin, OpenFails, ContractHolds, EventsHold, NextCandidate, AdoptFails,
                  Opened, OpenedLate, Reject, Adopted, Active
    <2>3. CASE Use \/ Dispose \/ ReloadStarts \/ ReloadFails \/ ReloadRestarts \/ Replaced
      BY <2>3 DEF Use, Dispose, ReloadStarts, ReloadFails, ReloadRestarts, Restart, Replaced,
                  Active, Ended
    <2>4. ASSUME NEW c \in Readers, ReadyFails(c) \/ ReadyAtOnce(c) \/ ReadyWaits(c)
          PROVE  holder' = holder /\ (state = "disposed" => state' = "disposed")
      BY <2>4 DEF ReadyFails, ReadyAtOnce, ReadyWaits, Active
    <2>5. ASSUME NEW s \in Subscriptions, Subscribe(s) \/ Unsubscribe(s)
          PROVE  holder' = holder /\ state' = state
      BY <2>5 DEF Subscribe, Unsubscribe
    <2> QED BY <2>1, <2>2, <2>3, <2>4, <2>5 DEF Next
  <1> QED BY Invariance, <1>1, PTL DEF Spec, NeverReclaims

(* Calls and events go through the transport that is owned now. *)
THEOREM NothingIsStale == Spec => []NothingStale
  <1>1. EngineIsLive /\ EventsFollow => NothingStale
    BY DEF NothingStale
  <1> QED BY <1>1, InstalledEngineLives, SubscriptionsFollow, PTL
==============================================================================
