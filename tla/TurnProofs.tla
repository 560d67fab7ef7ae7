----------------------------- MODULE TurnProofs -----------------------------
(***************************************************************************)
(* Proofs about the agent's turn and what its tools run: ProviderTurn,     *)
(* ProcessHandle and MutationQueue.                                        *)
(***************************************************************************)
EXTENDS MutationQueue, ProcessHandle, ProviderTurn, SequenceTheorems,
        FiniteSetTheorems, TLAPS

Recursion == INSTANCE RecursionProofs

-----------------------------------------------------------------------------
(* The calls without a result. *)

\* When none has a result, all are missing, and when all have one, none is.
LEMMA MissingIs ==
  ASSUME NEW S, NEW p \in Seq(S), NEW seen
  PROVE  /\ (\A i \in 1 .. Len(p) : p[i] \in seen) => Missing(p, seen) = << >>
         /\ (\A i \in 1 .. Len(p) : p[i] \notin seen) => Missing(p, seen) = p
PROOF
<1> DEFINE N == Len(p)
           Next1(n, y) == IF p[n] \in seen THEN y ELSE Append(y, p[n])
           step == [q \in (1 .. N) \X Seq(S) |-> Next1(q[1], q[2])]
           Eqn(f) == f = [n \in 0 .. N |->
                            IF n = 0 THEN << >>
                            ELSE IF p[n] \in seen THEN f[n - 1]
                            ELSE Append(f[n - 1], p[n])]
           Part(n, y) == /\ (\A i \in 1 .. N : p[i] \in seen) => y = << >>
                         /\ (\A i \in 1 .. N : p[i] \notin seen) => y = SubSeq(p, 1, n)
           X == [n \in 0 .. N |-> {y \in Seq(S) : Part(n, y)}]
           upTo == CHOOSE f : Eqn(f)
<1>1. N \in Nat /\ \A i \in 1 .. N : p[i] \in S
  OBVIOUS
<1>2. << >> \in X[0]
  <2>1. SubSeq(p, 1, 0) = << >> /\ << >> \in Seq(S)
    OBVIOUS
  <2> QED  BY <1>1, <2>1
<1>3. ASSUME NEW n \in 1 .. N, NEW y \in X[n - 1]
      PROVE  y \in Seq(S) /\ Next1(n, y) \in X[n]
  <2>1. n \in 0 .. N /\ n - 1 \in 0 .. N
    BY <1>1
  <2>2. y \in Seq(S) /\ Part(n - 1, y)
    BY <1>3, <2>1
  <2>3. Next1(n, y) \in Seq(S)
    BY <1>1, <2>2
  <2>4. SubSeq(p, 1, n) = Append(SubSeq(p, 1, n - 1), p[n])
    BY <1>1
  <2>5. Part(n, Next1(n, y))
    BY <1>1, <2>2, <2>4
  <2> QED  BY <2>1, <2>3, <2>5
<1>4. PICK g : Recursion!IteratesOn(g, N, << >>, step)
  <2> HIDE DEF step, N
  <2> QED  BY <1>1, Recursion!IterationExists
<1>5. ASSUME NEW n \in 1 .. N, g[n - 1] \in X[n - 1]
      PROVE  g[n] = Next1(n, g[n - 1])
  <2>1. n \in 0 .. N /\ n # 0
    BY <1>1
  <2>2. g[n] = step[<<n, g[n - 1]>>]
    <3> HIDE DEF step, N
    <3> QED  BY <1>4, <2>1 DEF Recursion!IteratesOn
  <2>3. g[n - 1] \in Seq(S)
    <3> HIDE DEF X, N
    <3> QED  BY <1>3, <1>5
  <2> QED  BY <2>2, <2>3
<1>6. \A n \in 0 .. N : g[n] \in X[n]
  <2>1. g[0] \in X[0]
    <3> HIDE DEF X
    <3> QED  BY <1>1, <1>2, <1>4 DEF Recursion!IteratesOn
  <2> HIDE DEF X, N
  <2> QED  BY <1>1, <1>3, <1>5, <2>1, Recursion!Induct, ZenonT(60)
<1>7. Eqn(g)
  <2>1. ASSUME NEW n \in 0 .. N, n # 0
        PROVE  step[<<n, g[n - 1]>>] = Next1(n, g[n - 1])
    <3>1. n - 1 \in 0 .. N /\ n \in 1 .. N
      BY <1>1, <2>1
    <3> QED  BY <1>6, <3>1
  <2> QED  BY <1>4, <2>1 DEF Recursion!IteratesOn
<1>8. Eqn(upTo)
  <2> HIDE DEF Eqn
  <2> QED  BY <1>7
<1>9. \A n \in 0 .. N : upTo[n] \in X[n]
  <2>1. upTo[0] = << >> /\ \A n \in 1 .. N : upTo[n] = Next1(n, upTo[n - 1])
    <3>1. /\ 0 \in 0 .. N
          /\ \A n \in 1 .. N : n \in 0 .. N /\ n # 0
      BY <1>1
    <3> HIDE DEF upTo, N
    <3> QED  BY <1>8, <3>1
  <2> HIDE DEF X, N, upTo
  <2> QED  BY <1>1, <1>2, <1>3, <2>1, Recursion!Induct, ZenonT(60)
<1>10. Missing(p, seen) = upTo[N]
  BY DEF Missing
<1>11. upTo[N] \in X[N] /\ N \in 0 .. N
  <2>1. N \in 0 .. N
    BY <1>1
  <2> HIDE DEF X, N, upTo
  <2> QED  BY <1>9, <2>1
<1>12. SubSeq(p, 1, N) = p
  BY SubSeqFull
<1> HIDE DEF upTo
<1> QED  BY <1>10, <1>11, <1>12

-----------------------------------------------------------------------------
(* What a transcript looks like. *)

MessagesOver(c) ==
  [role : Users \cup {"assistant", "result"}, ref : Nat, calls : Seq(1 .. c),
   stop : {"none", "stop", "aborted", "error"}, whole : BOOLEAN]

\* An answer that may have been dispatched.
Complete(m) == m.role = "assistant" /\ m.stop = "stop"

\* The results of the calls of l[k] come right after it, in the order of the calls.
GroupAt(l, k) ==
  /\ k + Len(l[k].calls) <= Len(l)
  /\ \A j \in 1 .. Len(l[k].calls) : l[k + j].role = "result" /\ l[k + j].ref = l[k].calls[j]

\* Every result stands in such a group.
Grouped(l) ==
  \A i \in 1 .. Len(l) : l[i].role = "result" =>
    \E k \in 1 .. i - 1 : Complete(l[k]) /\ i <= k + Len(l[k].calls) /\ GroupAt(l, k)

\* No call was made twice, and only answers make calls.
CallsOnce(l) ==
  /\ \A i, j \in 1 .. Len(l) : \A a \in 1 .. Len(l[i].calls), b \in 1 .. Len(l[j].calls) :
       l[i].calls[a] = l[j].calls[b] => i = j /\ a = b
  /\ \A i \in 1 .. Len(l) : l[i].role # "assistant" => l[i].calls = << >>

LogOK(l, c) == l \in Seq(MessagesOver(c)) /\ Grouped(l) /\ CallsOnce(l)

LEMMA MessageFields ==
  ASSUME NEW c \in Nat, NEW l \in Seq(MessagesOver(c)), NEW i \in 1 .. Len(l)
  PROVE  /\ l[i].role \in Users \cup {"assistant", "result"} /\ l[i].ref \in Nat
         /\ l[i].calls \in Seq(1 .. c) /\ Len(l[i].calls) \in Nat
         /\ l[i].stop \in {"none", "stop", "aborted", "error"} /\ l[i].whole \in BOOLEAN
         /\ l[i] \in MessagesOver(c)
PROOF
<1>1. l[i] \in MessagesOver(c)
  OBVIOUS
<1>2. l[i].calls \in Seq(1 .. c)
  BY <1>1 DEF MessagesOver
<1>3. Len(l[i].calls) \in Nat
  BY <1>2
<1> QED
  BY <1>1, <1>2, <1>3 DEF MessagesOver

\* The group of a result is that of the answer that made its call.
LEMMA OneGroup ==
  ASSUME NEW c \in Nat, NEW l, LogOK(l, c), NEW i \in 1 .. Len(l), NEW a \in 1 .. Len(l[i].calls),
         NEW j \in 1 .. Len(l), l[j].role = "result", l[j].ref = l[i].calls[a]
  PROVE  Complete(l[i]) /\ GroupAt(l, i) /\ j = i + a
PROOF
<1>1. PICK k \in 1 .. j - 1 : Complete(l[k]) /\ j <= k + Len(l[k].calls) /\ GroupAt(l, k)
  BY DEF LogOK, Grouped
<1>2. l \in Seq(MessagesOver(c)) /\ Len(l) \in Nat
  BY DEF LogOK
<1>3. k \in 1 .. Len(l) /\ j - k \in 1 .. Len(l[k].calls) /\ j = k + (j - k)
  <2> DEFINE long == Len(l[k].calls)
  <2>1. k \in 1 .. Len(l) /\ j \in Nat /\ k \in Nat /\ k <= j - 1
    BY <1>1, <1>2, SMTT(60)
  <2>2. long \in Nat
    BY <1>2, <2>1, MessageFields
  <2>3. j <= k + long
    BY <1>1
  <2> HIDE DEF long
  <2>4. j - k \in 1 .. long /\ j = k + (j - k)
    BY <2>1, <2>2, <2>3
  <2> QED
    BY <2>1, <2>4 DEF long
<1>4. l[j].ref = l[k].calls[j - k]
  BY <1>1, <1>3 DEF GroupAt
<1>5. i = k /\ a = j - k
  <2> DEFINE b == j - k
  <2>1. b \in 1 .. Len(l[k].calls) /\ l[i].calls[a] = l[k].calls[b]
    BY <1>3, <1>4
  <2> HIDE DEF b
  <2>2. \A x, y \in 1 .. Len(l) : \A d \in 1 .. Len(l[x].calls), e \in 1 .. Len(l[y].calls) :
          l[x].calls[d] = l[y].calls[e] => x = y /\ d = e
    BY DEF LogOK, CallsOnce
  <2>3. \A d \in 1 .. Len(l[i].calls), e \in 1 .. Len(l[k].calls) :
          l[i].calls[d] = l[k].calls[e] => i = k /\ d = e
    BY <1>3, <2>2
  <2>4. i = k /\ a = b
    BY <2>1, <2>3, SMTT(60)
  <2> QED
    BY <2>4 DEF b
<1> QED
  BY <1>1, <1>3, <1>5

LEMMA GroupsRecorded == ASSUME called \in Nat, LogOK(log, called) PROVE RecordedTogether
PROOF
<1>1. log \in Seq(MessagesOver(called)) /\ DOMAIN log = 1 .. Len(log) /\ Len(log) \in Nat
  BY DEF LogOK
<1> SUFFICES ASSUME NEW i \in DOMAIN log, log[i].role = "assistant"
             PROVE  LET ids == log[i].calls
                        of  == {j \in DOMAIN log : log[j].role = "result" /\ log[j].ref \in ToSet(ids)}
                    IN \/ of = {}
                       \/ /\ log[i].stop = "stop"
                          /\ of = i + 1 .. i + Len(ids)
                          /\ \A k \in DOMAIN ids : log[i + k].ref = ids[k]
  BY DEF RecordedTogether
<1> DEFINE ids == log[i].calls
           of  == {j \in DOMAIN log : log[j].role = "result" /\ log[j].ref \in ToSet(ids)}
<1>2. ids \in Seq(1 .. called) /\ DOMAIN ids = 1 .. Len(ids) /\ Len(ids) \in Nat
  BY <1>1, MessageFields, SMTT(60)
<1>3. \A x : x \in ToSet(ids) <=> \E a \in 1 .. Len(ids) : x = ids[a]
  BY <1>2 DEF ToSet
<1>4. ASSUME NEW j \in of
      PROVE  \E a \in 1 .. Len(ids) : Complete(log[i]) /\ GroupAt(log, i) /\ j = i + a
  <2>1. j \in 1 .. Len(log) /\ log[j].role = "result"
    BY <1>1
  <2>2. PICK a \in 1 .. Len(ids) : log[j].ref = ids[a]
    BY <1>3, <1>4
  <2> QED
    BY <1>1, <2>1, <2>2, OneGroup, SMTT(60)
<1>5. CASE of # {}
  <2>1. Complete(log[i]) /\ GroupAt(log, i)
    BY <1>4, <1>5
  <2>2. ASSUME NEW a \in 1 .. Len(ids) PROVE i + a \in of /\ log[i + a].ref = ids[a]
    <3>1. log[i + a].role = "result" /\ log[i + a].ref = ids[a] /\ i + Len(ids) <= Len(log)
      BY <2>1 DEF GroupAt
    <3>2. i + a \in DOMAIN log
      BY <1>1, <1>2, <3>1, SMTT(60)
    <3> QED
      BY <1>3, <3>1, <3>2
  <2>3. of \subseteq i + 1 .. i + Len(ids)
    <3>1. ASSUME NEW j \in of PROVE j \in i + 1 .. i + Len(ids)
      <4>1. PICK a \in 1 .. Len(ids) : j = i + a
        BY <1>4
      <4> HIDE DEF of, ids
      <4> QED
        BY <1>1, <1>2, <4>1, SMTT(60)
    <3> QED
      BY <3>1
  <2>4. i + 1 .. i + Len(ids) \subseteq of
    <3>1. ASSUME NEW j \in i + 1 .. i + Len(ids) PROVE j \in of
      <4>1. j - i \in 1 .. Len(ids) /\ j = i + (j - i)
        <5> HIDE DEF ids
        <5> QED
          BY <1>1, <1>2, SMTT(60)
      <4> HIDE DEF of
      <4> QED
        BY <2>2, <4>1
    <3> QED
      BY <3>1
  <2>5. of = i + 1 .. i + Len(ids)
    <3> HIDE DEF of, ids
    <3> QED
      BY <2>3, <2>4
  <2>6. log[i].stop = "stop" /\ \A k \in DOMAIN ids : log[i + k].ref = ids[k]
    BY <1>2, <2>1, <2>2 DEF Complete
  <2> QED
    BY <2>5, <2>6
<1> QED
  BY <1>5

-----------------------------------------------------------------------------
(* The transcript grows at its end. *)

\* The points of two sequences, one after the other.
LEMMA ConcatPoints ==
  ASSUME NEW S, NEW s \in Seq(S), NEW t \in Seq(S)
  PROVE  /\ s \o t \in Seq(S) /\ Len(s \o t) = Len(s) + Len(t) /\ Len(s) \in Nat /\ Len(t) \in Nat
         /\ \A i \in 1 .. Len(s) : (s \o t)[i] = s[i]
         /\ \A i \in 1 .. Len(t) : (s \o t)[Len(s) + i] = t[i]
         /\ \A i \in 1 .. Len(s \o t) : \/ i \in 1 .. Len(s)
                                        \/ i - Len(s) \in 1 .. Len(t) /\ (s \o t)[i] = t[i - Len(s)]
PROOF
<1>1. s \o t \in Seq(S) /\ Len(s \o t) = Len(s) + Len(t) /\ Len(s) \in Nat /\ Len(t) \in Nat
  OBVIOUS
<1>2. \A i \in 1 .. Len(s) : (s \o t)[i] = s[i]
  OBVIOUS
<1>3. \A i \in 1 .. Len(t) : (s \o t)[Len(s) + i] = t[i]
  OBVIOUS
<1>4. ASSUME NEW i \in 1 .. Len(s \o t), i \notin 1 .. Len(s)
      PROVE  i - Len(s) \in 1 .. Len(t) /\ (s \o t)[i] = t[i - Len(s)]
  <2>1. i - Len(s) \in 1 .. Len(t) /\ i = Len(s) + (i - Len(s))
    BY <1>1, <1>4
  <2> QED
    BY <1>3, <2>1
<1> QED
  BY <1>1, <1>2, <1>3, <1>4

Joined(s, t) ==
  /\ Len(s \o t) = Len(s) + Len(t) /\ Len(s) \in Nat /\ Len(t) \in Nat
  /\ \A i \in 1 .. Len(s) : (s \o t)[i] = s[i]
  /\ \A i \in 1 .. Len(t) : (s \o t)[Len(s) + i] = t[i]
  /\ \A i \in 1 .. Len(s \o t) : \/ i \in 1 .. Len(s)
                                 \/ i - Len(s) \in 1 .. Len(t) /\ (s \o t)[i] = t[i - Len(s)]

LEMMA ConcatJoined ==
  ASSUME NEW S, NEW s \in Seq(S), NEW t \in Seq(S)
  PROVE  Joined(s, t)
PROOF
  BY ConcatPoints DEF Joined

LEMMA MessagesMore ==
  ASSUME NEW c \in Nat, NEW d \in Nat, c <= d
  PROVE  MessagesOver(c) \subseteq MessagesOver(d)
PROOF
<1>1. 1 .. c \subseteq 1 .. d
  OBVIOUS
<1>2. Seq(1 .. c) \subseteq Seq(1 .. d)
  BY <1>1
<1> QED
  BY <1>2 DEF MessagesOver

\* l2 begins with l.
Grows(l, l2) == Len(l) <= Len(l2) /\ \A i \in 1 .. Len(l) : l2[i] = l[i]

LEMMA GroupKept ==
  ASSUME NEW c \in Nat, NEW l \in Seq(MessagesOver(c)), NEW l2, Len(l2) \in Nat, Grows(l, l2),
         NEW k \in 1 .. Len(l), GroupAt(l, k)
  PROVE  GroupAt(l2, k)
PROOF
<1>1. Len(l) \in Nat /\ Len(l[k].calls) \in Nat /\ l2[k] = l[k]
  BY MessageFields DEF Grows
<1>2. \A j \in 1 .. Len(l[k].calls) : k + j \in 1 .. Len(l)
  BY <1>1 DEF GroupAt
<1>3. ASSUME NEW j \in 1 .. Len(l[k].calls)
      PROVE  l2[k + j].role = "result" /\ l2[k + j].ref = l[k].calls[j]
  <2>1. l2[k + j] = l[k + j]
    BY <1>2 DEF Grows
  <2> QED
    BY <2>1 DEF GroupAt
<1>4. k + Len(l[k].calls) <= Len(l2)
  BY <1>1 DEF GroupAt, Grows
<1> QED
  BY <1>1, <1>3, <1>4 DEF GroupAt

\* Messages by the user and by extensions.
FromUsers(u) == \A i \in 1 .. Len(u) : u[i].role \in Users /\ u[i].calls = << >>

\* More messages, of which none makes a call and each result stands in a group.
LEMMA CallFree ==
  ASSUME NEW c \in Nat, NEW l \in Seq(MessagesOver(c)), CallsOnce(l), NEW u \in Seq(MessagesOver(c)),
         \A i \in 1 .. Len(u) : u[i].calls = << >>
  PROVE  l \o u \in Seq(MessagesOver(c)) /\ Grows(l, l \o u) /\ CallsOnce(l \o u)
PROOF
<1> DEFINE m == l \o u
<1>2. /\ m \in Seq(MessagesOver(c)) /\ Len(m) = Len(l) + Len(u) /\ Len(l) \in Nat /\ Len(u) \in Nat
      /\ \A i \in 1 .. Len(l) : m[i] = l[i]
      /\ \A i \in 1 .. Len(m) : \/ i \in 1 .. Len(l)
                                \/ i - Len(l) \in 1 .. Len(u) /\ m[i] = u[i - Len(l)]
  BY ConcatPoints
<1> HIDE DEF m
<1>3. Grows(l, m)
  BY <1>2 DEF Grows
<1>4. \A i \in 1 .. Len(m) : i \notin 1 .. Len(l) => m[i].calls = << >>
  BY <1>2
<1>5. Len(<< >>) = 0
  OBVIOUS
<1>6. CallsOnce(m)
  <2>1. ASSUME NEW i \in 1 .. Len(m), NEW j \in 1 .. Len(m),
               NEW a \in 1 .. Len(m[i].calls), NEW b \in 1 .. Len(m[j].calls),
               m[i].calls[a] = m[j].calls[b]
        PROVE  i = j /\ a = b
    <3>1. i \in 1 .. Len(l) /\ j \in 1 .. Len(l)
      BY <1>4, <1>5, <2>1, SMTT(60)
    <3>2. m[i] = l[i] /\ m[j] = l[j]
      BY <1>2, <3>1
    <3>3. /\ a \in 1 .. Len(l[i].calls) /\ b \in 1 .. Len(l[j].calls)
          /\ l[i].calls[a] = l[j].calls[b]
      BY <2>1, <3>2
    <3> QED
      BY <3>1, <3>3, SMTT(60) DEF CallsOnce
  <2>2. ASSUME NEW i \in 1 .. Len(m), m[i].role # "assistant" PROVE m[i].calls = << >>
    BY <1>2, <1>4, <2>2, SMTT(60) DEF CallsOnce
  <2> QED
    BY <2>1, <2>2 DEF CallsOnce
<1> QED
  BY <1>2, <1>3, <1>6 DEF m

LEMMA UsersAppended ==
  ASSUME NEW c \in Nat, NEW l, LogOK(l, c), NEW u \in Seq(MessagesOver(c)), FromUsers(u)
  PROVE  LogOK(l \o u, c)
PROOF
<1> DEFINE m == l \o u
<1>1. l \in Seq(MessagesOver(c))
  BY DEF LogOK
<1>2. m \in Seq(MessagesOver(c)) /\ Grows(l, m) /\ CallsOnce(m)
  BY CallFree DEF FromUsers, LogOK
<1>3. /\ Len(m) \in Nat
      /\ \A i \in 1 .. Len(m) : \/ i \in 1 .. Len(l)
                                \/ i - Len(l) \in 1 .. Len(u) /\ m[i] = u[i - Len(l)]
  BY <1>1, ConcatPoints
<1> HIDE DEF m
<1>4. ASSUME NEW i \in 1 .. Len(m), m[i].role = "result"
      PROVE  \E k \in 1 .. i - 1 : Complete(m[k]) /\ i <= k + Len(m[k].calls) /\ GroupAt(m, k)
  <2>1. i \in 1 .. Len(l) /\ Len(l) \in Nat
    BY <1>1, <1>3, <1>4, SMTT(60) DEF FromUsers, Users
  <2>2. l[i].role = "result"
    BY <1>2, <1>4, <2>1 DEF Grows
  <2>3. PICK k \in 1 .. i - 1 : Complete(l[k]) /\ i <= k + Len(l[k].calls) /\ GroupAt(l, k)
    BY <2>1, <2>2 DEF LogOK, Grouped
  <2>4. k \in 1 .. Len(l)
    BY <2>1
  <2>5. m[k] = l[k] /\ GroupAt(m, k)
    BY <1>1, <1>2, <1>3, <2>3, <2>4, GroupKept DEF Grows
  <2> QED
    BY <2>3, <2>5
<1> QED
  BY <1>2, <1>4 DEF LogOK, Grouped, m

\* An answer whose calls are new.
LEMMA AnswerOnce ==
  ASSUME NEW c \in Nat, NEW d \in Nat, c <= d, NEW l \in Seq(MessagesOver(c)), CallsOnce(l), NEW x \in MessagesOver(d),
         x.role = "assistant",
         \A a \in 1 .. Len(x.calls) : x.calls[a] = c + a
  PROVE  /\ Append(l, x) \in Seq(MessagesOver(d)) /\ CallsOnce(Append(l, x))
         /\ Grows(l, Append(l, x)) /\ Len(Append(l, x)) = Len(l) + 1 /\ Append(l, x)[Len(l) + 1] = x
PROOF
<1> DEFINE m == Append(l, x)
<1>1. l \in Seq(MessagesOver(d)) /\ l \in Seq(MessagesOver(c))
  BY MessagesMore
<1>2. /\ m \in Seq(MessagesOver(d)) /\ Len(m) = Len(l) + 1 /\ Len(l) \in Nat
      /\ m[Len(l) + 1] = x /\ \A i \in 1 .. Len(l) : m[i] = l[i]
  BY <1>1
<1> HIDE DEF m
<1>3. Grows(l, m) /\ \A i \in 1 .. Len(m) : i \in 1 .. Len(l) \/ i = Len(l) + 1
  BY <1>2 DEF Grows
<1>4. \A i \in 1 .. Len(l), a \in Nat : a \in 1 .. Len(l[i].calls) => l[i].calls[a] <= c
  <2>1. ASSUME NEW i \in 1 .. Len(l), NEW a \in 1 .. Len(l[i].calls) PROVE l[i].calls[a] <= c
    <3>1. l[i].calls \in Seq(1 .. c)
      BY <1>1, MessageFields
    <3>2. l[i].calls[a] \in 1 .. c
      BY <3>1, SMTT(60)
    <3> QED
      BY <3>2
  <2> QED
    BY <2>1
<1>5. ASSUME NEW i \in 1 .. Len(m), NEW j \in 1 .. Len(m),
             NEW a \in 1 .. Len(m[i].calls), NEW b \in 1 .. Len(m[j].calls),
             m[i].calls[a] = m[j].calls[b]
      PROVE  i = j /\ a = b
  <2>1. a \in Nat /\ b \in Nat /\ a >= 1 /\ b >= 1
    OBVIOUS
  <2>2. CASE i \in 1 .. Len(l) /\ j \in 1 .. Len(l)
    <3>1. m[i] = l[i] /\ m[j] = l[j]
      BY <1>2, <2>2
    <3>2. /\ a \in 1 .. Len(l[i].calls) /\ b \in 1 .. Len(l[j].calls)
          /\ l[i].calls[a] = l[j].calls[b]
      BY <1>5, <3>1
    <3> QED
      BY <2>2, <3>2, SMTT(60) DEF CallsOnce
  <2>3. CASE i = Len(l) + 1 /\ j = Len(l) + 1
    <3>1. x.calls[a] = c + a /\ x.calls[b] = c + b /\ x.calls[a] = x.calls[b]
      BY <1>2, <1>5, <2>3
    <3> QED
      BY <2>1, <2>3, <3>1
  <2>4. CASE i \in 1 .. Len(l) /\ j = Len(l) + 1
    <3>1. l[i].calls[a] <= c /\ l[i].calls[a] = c + b
      BY <1>2, <1>4, <1>5, <2>1, <2>4
    <3> QED
      BY <2>1, <3>1
  <2>5. CASE i = Len(l) + 1 /\ j \in 1 .. Len(l)
    <3>1. l[j].calls[b] <= c /\ l[j].calls[b] = c + a
      BY <1>2, <1>4, <1>5, <2>1, <2>5
    <3> QED
      BY <2>1, <3>1
  <2> QED
    BY <1>3, <2>2, <2>3, <2>4, <2>5
<1>6. ASSUME NEW i \in 1 .. Len(m), m[i].role # "assistant" PROVE m[i].calls = << >>
  BY <1>2, <1>3, <1>6, SMTT(60) DEF CallsOnce
<1>8. CallsOnce(m)
  BY <1>5, <1>6 DEF CallsOnce
<1> QED
  BY <1>2, <1>3, <1>8 DEF m

LEMMA AnswerAppended ==
  ASSUME NEW c \in Nat, NEW d \in Nat, c <= d, NEW l, LogOK(l, c), NEW x \in MessagesOver(d),
         x.role = "assistant",
         \A a \in 1 .. Len(x.calls) : x.calls[a] = c + a
  PROVE  LogOK(Append(l, x), d)
PROOF
<1> DEFINE m == Append(l, x)
<1>1. l \in Seq(MessagesOver(c)) /\ CallsOnce(l)
  BY DEF LogOK
<1>2. /\ m \in Seq(MessagesOver(d)) /\ CallsOnce(m) /\ Grows(l, m)
      /\ Len(m) = Len(l) + 1 /\ m[Len(l) + 1] = x /\ Len(l) \in Nat
  BY <1>1, AnswerOnce, SMTT(60)
<1> HIDE DEF m
<1>3. \A i \in 1 .. Len(m) : i \in 1 .. Len(l) \/ i = Len(l) + 1
  BY <1>2
<1>4. ASSUME NEW i \in 1 .. Len(m), m[i].role = "result"
      PROVE  \E k \in 1 .. i - 1 : Complete(m[k]) /\ i <= k + Len(m[k].calls) /\ GroupAt(m, k)
  <2>1. i \in 1 .. Len(l) /\ l[i].role = "result"
    BY <1>2, <1>3, <1>4 DEF Grows
  <2>2. PICK k \in 1 .. i - 1 : Complete(l[k]) /\ i <= k + Len(l[k].calls) /\ GroupAt(l, k)
    BY <2>1 DEF LogOK, Grouped
  <2>3. k \in 1 .. Len(l) /\ Len(m) \in Nat
    BY <1>2, <2>1
  <2>4. m[k] = l[k] /\ GroupAt(m, k)
    BY <1>1, <1>2, <2>2, <2>3, GroupKept DEF Grows
  <2> QED
    BY <2>2, <2>4
<1> QED
  BY <1>2, <1>4 DEF LogOK, Grouped, m

\* The results of the answer that is last.
LEMMA ResultsAppended ==
  ASSUME NEW c \in Nat, NEW l, LogOK(l, c), l # << >>, Complete(l[Len(l)]),
         NEW u \in Seq(MessagesOver(c)), Len(u) = Len(l[Len(l)].calls),
         \A j \in 1 .. Len(u) : /\ u[j].role = "result" /\ u[j].calls = << >>
                                /\ u[j].ref = l[Len(l)].calls[j]
  PROVE  LogOK(l \o u, c)
PROOF
<1> DEFINE m == l \o u
           h == Len(l)
<1>0. l \in Seq(MessagesOver(c))
  BY DEF LogOK
<1>p. /\ Len(m) = Len(l) + Len(u) /\ Len(l) \in Nat /\ Len(u) \in Nat
      /\ \A i \in 1 .. Len(l) : m[i] = l[i]
      /\ \A i \in 1 .. Len(u) : m[Len(l) + i] = u[i]
      /\ \A i \in 1 .. Len(m) : \/ i \in 1 .. Len(l)
                                \/ i - Len(l) \in 1 .. Len(u) /\ m[i] = u[i - Len(l)]
  <2>1. Joined(l, u)
    BY <1>0, ConcatJoined
  <2> QED
    BY <2>1 DEF Joined
<1>1. l \in Seq(MessagesOver(c)) /\ h \in Nat /\ h \in 1 .. Len(l)
  BY <1>0
<1>2. m \in Seq(MessagesOver(c)) /\ Grows(l, m) /\ CallsOnce(m)
  BY CallFree DEF LogOK
<1> HIDE DEF m
<1>3. /\ Len(m) = h + Len(u) /\ Len(u) \in Nat /\ Len(m) \in Nat
      /\ \A i \in 1 .. Len(l) : m[i] = l[i]
      /\ \A i \in 1 .. Len(u) : m[h + i] = u[i]
      /\ \A i \in 1 .. Len(m) : \/ i \in 1 .. Len(l)
                                \/ i - h \in 1 .. Len(u) /\ m[i] = u[i - h]
  BY <1>p
<1>4. GroupAt(m, h) /\ Complete(m[h]) /\ m[h] = l[h]
  BY <1>1, <1>3, SMTT(60) DEF GroupAt
<1>5. ASSUME NEW i \in 1 .. Len(m), m[i].role = "result"
      PROVE  \E k \in 1 .. i - 1 : Complete(m[k]) /\ i <= k + Len(m[k].calls) /\ GroupAt(m, k)
  <2>1. CASE i \in 1 .. Len(l)
    <3>1. PICK k \in 1 .. i - 1 : Complete(l[k]) /\ i <= k + Len(l[k].calls) /\ GroupAt(l, k)
      BY <1>3, <1>5, <2>1 DEF LogOK, Grouped
    <3>2. k \in 1 .. Len(l) /\ Len(m) \in Nat
      BY <1>1, <1>3, <2>1
    <3>3. m[k] = l[k] /\ GroupAt(m, k)
      BY <1>1, <1>2, <1>3, <3>1, <3>2, GroupKept
    <3> QED
      BY <3>1, <3>3
  <2>2. CASE i - h \in 1 .. Len(u)
    <3>1. h \in 1 .. i - 1 /\ i <= h + Len(u)
      BY <1>1, <1>3, <2>2
    <3> QED
      BY <1>4, <3>1
  <2> QED
    BY <1>3, <1>5, <2>1, <2>2
<1> QED
  BY <1>2, <1>5 DEF LogOK, Grouped, m

-----------------------------------------------------------------------------
(* Extensions may part an answer from its results only while tools run. *)

Quiet == "tools" \notin InjectIn

\* A transcript, whether extensions are quiet or not.
LogIs(l, c) ==
  l \in Seq(MessagesOver(c)) /\ CallsOnce(l) /\ (Quiet => Grouped(l))

LEMMA UsersIn ==
  ASSUME NEW c \in Nat, NEW l, LogIs(l, c), NEW u \in Seq(MessagesOver(c)), FromUsers(u)
  PROVE  LogIs(l \o u, c)
PROOF
<1>1. l \o u \in Seq(MessagesOver(c)) /\ CallsOnce(l \o u)
  BY CallFree DEF FromUsers, LogIs
<1>2. ASSUME Quiet PROVE Grouped(l \o u)
  <2>1. LogOK(l, c)
    BY <1>2 DEF LogIs, LogOK
  <2> QED
    BY <2>1, UsersAppended DEF LogOK
<1> QED
  BY <1>1, <1>2 DEF LogIs

LEMMA AnswerIn ==
  ASSUME NEW c \in Nat, NEW d \in Nat, c <= d, NEW l, LogIs(l, c), NEW x \in MessagesOver(d),
         x.role = "assistant",
         \A a \in 1 .. Len(x.calls) : x.calls[a] = c + a
  PROVE  LogIs(Append(l, x), d)
PROOF
<1>1. Append(l, x) \in Seq(MessagesOver(d)) /\ CallsOnce(Append(l, x))
  BY AnswerOnce DEF LogIs
<1>2. ASSUME Quiet PROVE Grouped(Append(l, x))
  <2>1. LogOK(l, c)
    BY <1>2 DEF LogIs, LogOK
  <2> QED
    BY <2>1, AnswerAppended DEF LogOK
<1> QED
  BY <1>1, <1>2 DEF LogIs

LEMMA ResultsIn ==
  ASSUME NEW c \in Nat, NEW l, LogIs(l, c), NEW u \in Seq(MessagesOver(c)),
         \A j \in 1 .. Len(u) : u[j].role = "result" /\ u[j].calls = << >>,
         Quiet => /\ l # << >> /\ Complete(l[Len(l)]) /\ Len(u) = Len(l[Len(l)].calls)
                  /\ \A j \in 1 .. Len(u) : u[j].ref = l[Len(l)].calls[j]
  PROVE  LogIs(l \o u, c)
PROOF
<1>1. l \o u \in Seq(MessagesOver(c)) /\ CallsOnce(l \o u)
  BY CallFree DEF LogIs
<1>2. ASSUME Quiet PROVE Grouped(l \o u)
  <2>1. LogOK(l, c)
    BY <1>2 DEF LogIs, LogOK
  <2> QED
    BY <1>2, <2>1, ResultsAppended DEF LogOK
<1> QED
  BY <1>1, <1>2 DEF LogIs

-----------------------------------------------------------------------------
(* What a request replays. *)

ReplayStates(c) ==
  [out : Seq(MessagesOver(c)), pending : Seq(1 .. c), seen : SUBSET Nat, known : SUBSET Nat]

LEMMA ReplayedFields ==
  ASSUME NEW o, NEW p, NEW s, NEW k
  PROVE  /\ Replayed(o, p, s, k).out = o /\ Replayed(o, p, s, k).pending = p
         /\ Replayed(o, p, s, k).seen = s /\ Replayed(o, p, s, k).known = k
PROOF
  BY DEF Replayed

LEMMA ReplayedType ==
  ASSUME NEW c \in Nat, NEW o \in Seq(MessagesOver(c)), NEW p \in Seq(1 .. c),
         NEW s \in SUBSET Nat, NEW k \in SUBSET Nat
  PROVE  Replayed(o, p, s, k) \in ReplayStates(c)
PROOF
  BY DEF Replayed, ReplayStates

LEMMA ReplayStateFields ==
  ASSUME NEW c \in Nat, NEW r \in ReplayStates(c)
  PROVE  /\ r.out \in Seq(MessagesOver(c)) /\ r.pending \in Seq(1 .. c)
         /\ r.seen \in SUBSET Nat /\ r.known \in SUBSET Nat
         /\ Len(r.out) \in Nat /\ Len(r.pending) \in Nat
PROOF
<1>1. /\ r.out \in Seq(MessagesOver(c)) /\ r.pending \in Seq(1 .. c)
      /\ r.seen \in SUBSET Nat /\ r.known \in SUBSET Nat
  BY DEF ReplayStates
<1> QED
  BY <1>1

\* Every result belongs to an answer that is shown before it.
Owned(out) ==
  \A j \in 1 .. Len(out) : out[j].role = "result" =>
    \E i \in 1 .. j - 1 : out[i].role = "assistant" /\ j <= i + Len(out[i].calls)

\* Every call is answered.
Answered(out) ==
  Owned(out) /\ \A i \in 1 .. Len(out) : out[i].role = "assistant" => GroupAt(out, i)

\* The last answer is at h, has its first k results, and all others have theirs.
Settled(out, pending, seen, k) ==
  LET h == Len(out) - k IN
  /\ k \in 0 .. Len(pending)
  /\ pending # << >> => /\ h \in 1 .. Len(out)
                        /\ out[h].role = "assistant" /\ out[h].calls = pending
  /\ \A j \in 1 .. k : out[h + j].role = "result" /\ out[h + j].ref = pending[j]
  /\ seen = {pending[j] : j \in 1 .. k}
  /\ \A i \in 1 .. Len(out) : out[i].role = "assistant" =>
       GroupAt(out, i) \/ (i = h /\ pending # << >>)
  /\ Owned(out)

\* The first n messages were replayed: the last answer is the one whose group
\* the n-th message is in, and the calls of every answer are known.
Along(l, n, pending, known, k) ==
  /\ k = 0 \/ k = Len(pending) \/ (n > 0 /\ l[n].role = "result")
  /\ n > 0 /\ Complete(l[n]) => pending = l[n].calls /\ k = 0
  /\ n > 0 /\ l[n].role = "result" =>
       /\ k \in 1 .. n - 1 /\ Complete(l[n - k]) /\ GroupAt(l, n - k)
       /\ l[n - k].calls = pending /\ l[n].ref = pending[k]
  /\ \A i \in 1 .. n : Complete(l[i]) => ToSet(l[i].calls) \subseteq known

\* Before a message that is not a result, and at the end, no group is open.
LEMMA NoneOpen ==
  ASSUME NEW c \in Nat, NEW l, LogOK(l, c), NEW n \in 0 .. Len(l), NEW out, NEW p, NEW s, NEW kn,
         NEW k, Len(p) \in Nat, Settled(out, p, s, k), Along(l, n, p, kn, k),
         n = Len(l) \/ l[n + 1].role # "result"
  PROVE  k = 0 \/ k = Len(p)
PROOF
<1> SUFFICES ASSUME k # 0, k # Len(p) PROVE FALSE
  OBVIOUS
<1>1. Len(l) \in Nat /\ k \in 0 .. Len(p)
  BY DEF LogOK, Settled
<1>2. n > 0 /\ l[n].role = "result"
  BY DEF Along
<1>3. k \in 1 .. n - 1 /\ GroupAt(l, n - k) /\ l[n - k].calls = p
  BY <1>2 DEF Along
<1> DEFINE h == n - k
<1>4. h \in Nat /\ n = h + k
  <2>1. n \in Nat /\ k \in Nat /\ k <= n
    <3>1. n \in Nat
      BY <1>1
    <3> QED
      BY <1>1, <1>3, <3>1
  <2> QED
    BY <2>1
<1>5. h + Len(p) <= Len(l) /\ \A j \in 1 .. Len(p) : l[h + j].role = "result"
  BY <1>3 DEF GroupAt
<1>6. k + 1 \in 1 .. Len(p) /\ h + (k + 1) = n + 1
  BY <1>1, <1>4
<1>7. l[n + 1].role = "result"
  BY <1>5, <1>6
<1>8. n < Len(l)
  BY <1>1, <1>4, <1>5, <1>6
<1> QED
  BY <1>1, <1>7, <1>8

\* Messages that stand in for results.
StandFor(u, p) ==
  /\ Len(u) = Len(p)
  /\ \A i \in 1 .. Len(p) : u[i].role = "result" /\ u[i].ref = p[i] /\ u[i].calls = << >>

StandInsOf(p) == [i \in DOMAIN p |-> Result(p[i])]

LEMMA StandIns ==
  ASSUME NEW c \in Nat, NEW p \in Seq(1 .. c)
  PROVE  StandInsOf(p) \in Seq(MessagesOver(c)) /\ StandFor(StandInsOf(p), p)
PROOF
<1> DEFINE u == [i \in 1 .. Len(p) |-> Result(p[i])]
<1>1. Len(p) \in Nat /\ DOMAIN p = 1 .. Len(p) /\ \A i \in 1 .. Len(p) : p[i] \in Nat
  OBVIOUS
<1>2. << >> \in Seq(1 .. c)
  OBVIOUS
<1>3. \A x \in Nat : /\ Result(x) \in MessagesOver(c) /\ Result(x).role = "result"
                     /\ Result(x).ref = x /\ Result(x).calls = << >>
  BY <1>2 DEF Result, Message, MessagesOver
<1>4. StandInsOf(p) = u
  BY <1>1 DEF StandInsOf
<1>5. u \in Seq(MessagesOver(c)) /\ Len(u) = Len(p)
  BY <1>1, <1>3
<1>6. \A i \in 1 .. Len(p) : u[i] = Result(p[i])
  OBVIOUS
<1> HIDE DEF u
<1> QED
  BY <1>1, <1>3, <1>4, <1>5, <1>6 DEF StandFor

\* An answer with all its results.
LEMMA FullSettled ==
  ASSUME NEW c \in Nat, NEW out \in Seq(MessagesOver(c)), NEW p \in Seq(1 .. c), NEW seen,
         Settled(out, p, seen, Len(p))
  PROVE  Answered(out)
PROOF
<1>1. Len(out) \in Nat /\ Len(p) \in Nat
  OBVIOUS
<1> DEFINE h == Len(out) - Len(p)
<1>2. ASSUME NEW i \in 1 .. Len(out), out[i].role = "assistant", i = h, p # << >>
      PROVE  GroupAt(out, i)
  <2>1. out[i].calls = p /\ \A j \in 1 .. Len(p) : out[h + j].role = "result" /\ out[h + j].ref = p[j]
    BY <1>2 DEF Settled
  <2>2. i + Len(p) <= Len(out)
    BY <1>1, <1>2
  <2> QED
    BY <1>2, <2>1, <2>2 DEF GroupAt
<1>3. \A i \in 1 .. Len(out) : out[i].role = "assistant" => GroupAt(out, i) \/ (i = h /\ p # << >>)
  BY DEF Settled
<1>4. Owned(out)
  BY DEF Settled
<1> QED
  BY <1>2, <1>3, <1>4 DEF Answered

\* An answer without results, and then what stands in for them.
LEMMA RestSettled ==
  ASSUME NEW c \in Nat, NEW out \in Seq(MessagesOver(c)), NEW p \in Seq(1 .. c), p # << >>, NEW seen,
         Settled(out, p, seen, 0), NEW u \in Seq(MessagesOver(c)), StandFor(u, p)
  PROVE  Answered(out \o u)
PROOF
<1> DEFINE all == out \o u
<1>1. /\ Len(out) \in Nat /\ Len(p) \in Nat /\ Len(u) = Len(p)
      /\ \A i \in 1 .. Len(p) : u[i].role = "result" /\ u[i].ref = p[i]
  BY DEF StandFor
<1>2. Joined(out, u)
  BY ConcatJoined
<1>3. /\ Len(all) = Len(out) + Len(p) /\ Grows(out, all)
      /\ \A i \in 1 .. Len(p) : all[Len(out) + i] = u[i]
      /\ \A i \in 1 .. Len(all) : \/ i \in 1 .. Len(out)
                                  \/ i - Len(out) \in 1 .. Len(p) /\ all[i] = u[i - Len(out)]
  BY <1>1, <1>2, SMTT(60) DEF Joined, Grows
<1> HIDE DEF all
<1>4. /\ Len(out) \in 1 .. Len(out) /\ out[Len(out)].role = "assistant"
      /\ out[Len(out)].calls = p
  <2>1. Len(out) - 0 = Len(out)
    BY <1>1
  <2> QED
    BY <2>1 DEF Settled
<1>5. all[Len(out)] = out[Len(out)]
  BY <1>3, <1>4 DEF Grows
<1>6. GroupAt(all, Len(out))
  <2>1. \A j \in 1 .. Len(p) : all[Len(out) + j].role = "result" /\ all[Len(out) + j].ref = p[j]
    BY <1>1, <1>3
  <2>2. Len(out) + Len(p) <= Len(all)
    BY <1>1, <1>3
  <2> QED
    BY <1>4, <1>5, <2>1, <2>2 DEF GroupAt
<1>7. ASSUME NEW i \in 1 .. Len(all), all[i].role = "assistant" PROVE GroupAt(all, i)
  <2>1. i \in 1 .. Len(out)
    <3>1. CASE i - Len(out) \in 1 .. Len(p) /\ all[i] = u[i - Len(out)]
      <4>1. u[i - Len(out)].role = "result"
        BY <1>1, <3>1
      <4>2. all[i].role = "result"
        BY <3>1, <4>1
      <4> QED
        BY <1>7, <4>2, SMTT(60)
    <3> QED
      BY <1>3, <3>1
  <2>2. CASE i # Len(out)
    <3>1. out[i].role = "assistant"
      BY <1>3, <1>7, <2>1, SMTT(110) DEF Grows
    <3>2. GroupAt(out, i)
      <4>1. Len(out) - 0 = Len(out)
        BY <1>1
      <4> QED
        BY <2>1, <2>2, <3>1, <4>1, ZenonT(60) DEF Settled
    <3>3. Len(all) \in Nat
      BY <1>1, <1>3
    <3> QED
      BY <1>3, <2>1, <3>2, <3>3, GroupKept
  <2> QED
    BY <1>6, <2>2
<1>8. ASSUME NEW j \in 1 .. Len(all), all[j].role = "result"
      PROVE  \E i \in 1 .. j - 1 : all[i].role = "assistant" /\ j <= i + Len(all[i].calls)
  <2>1. CASE j \in 1 .. Len(out)
    <3>1. out[j].role = "result"
      BY <1>3, <1>8, <2>1 DEF Grows
    <3>2. PICK i \in 1 .. j - 1 : out[i].role = "assistant" /\ j <= i + Len(out[i].calls)
      BY <2>1, <3>1 DEF Settled, Owned
    <3>3. i \in 1 .. Len(out)
      BY <1>1, <2>1
    <3>4. all[i] = out[i]
      BY <1>3, <3>3 DEF Grows
    <3> QED
      BY <3>2, <3>4
  <2>2. CASE j - Len(out) \in 1 .. Len(p)
    <3>1. Len(out) \in 1 .. j - 1 /\ j <= Len(out) + Len(p)
      BY <1>1, <1>4, <2>2
    <3> QED
      BY <1>4, <1>5, <3>1
  <2> QED
    BY <1>3, <2>1, <2>2
<1> QED
  BY <1>7, <1>8 DEF Answered, Owned, all

\* A part of an answer's group, with the rest of it appended.
LEMMA FlushSettled ==
  ASSUME NEW c \in Nat, NEW r \in ReplayStates(c), NEW k,
         Settled(r.out, r.pending, r.seen, k), k = 0 \/ k = Len(r.pending)
  PROVE  Flush(r).out \in Seq(MessagesOver(c)) /\ Answered(Flush(r).out)
PROOF
<1>1. /\ r.out \in Seq(MessagesOver(c)) /\ r.pending \in Seq(1 .. c)
      /\ Len(r.out) \in Nat /\ Len(r.pending) \in Nat
  BY ReplayStateFields
<1>2. Flush(r).out = r.out \o StandInsOf(Missing(r.pending, r.seen))
  BY DEF Flush, Replayed, StandInsOf
<1>3. r.seen = {r.pending[j] : j \in 1 .. k}
  BY DEF Settled
<1>4. CASE k = Len(r.pending)
  <2>1. Missing(r.pending, r.seen) = << >>
    BY <1>1, <1>3, <1>4, MissingIs, ZenonT(60)
  <2>2. DOMAIN << >> = {}
    OBVIOUS
  <2>3. StandInsOf(<< >>) = << >>
    BY <2>2 DEF StandInsOf
  <2>4. r.out \o << >> = r.out
    BY <1>1
  <2>5. Answered(r.out)
    BY <1>1, <1>4, FullSettled
  <2> QED
    BY <1>1, <1>2, <2>1, <2>3, <2>4, <2>5
<1>5. CASE k = 0 /\ k # Len(r.pending)
  <2>1. \A j \in 1 .. Len(r.pending) : r.pending[j] \notin r.seen
    BY <1>3, <1>5
  <2>2. Missing(r.pending, r.seen) = r.pending
    BY <1>1, <2>1, MissingIs
  <2> DEFINE u == StandInsOf(r.pending)
  <2>3. u \in Seq(MessagesOver(c)) /\ StandFor(u, r.pending)
    BY <1>1, StandIns
  <2> HIDE DEF u
  <2>4. r.pending # << >>
    BY <1>5
  <2>5. Answered(r.out \o u)
    BY <1>1, <1>5, <2>3, <2>4, RestSettled
  <2>6. r.out \o u \in Seq(MessagesOver(c))
    BY <1>1, <2>3
  <2> QED
    BY <1>2, <2>2, <2>5, <2>6 DEF u
<1> QED
  BY <1>4, <1>5

\* The next result of a group.
LEMMA ResultSettled ==
  ASSUME NEW c \in Nat, NEW out \in Seq(MessagesOver(c)), NEW p \in Seq(1 .. c), NEW seen,
         NEW k \in Nat, k < Len(p), Settled(out, p, seen, k),
         NEW x \in MessagesOver(c), x.role = "result", x.ref = p[k + 1]
  PROVE  Settled(Append(out, x), p, seen \cup {x.ref}, k + 1)
PROOF
<1> DEFINE m == Append(out, x)
           h == Len(out) - k
<1>1. /\ m \in Seq(MessagesOver(c)) /\ Len(m) = Len(out) + 1 /\ Len(out) \in Nat /\ Len(p) \in Nat
      /\ m[Len(out) + 1] = x /\ \A i \in 1 .. Len(out) : m[i] = out[i]
  BY SMTT(60)
<1>2. p # << >>
  BY <1>1
<1> HIDE DEF m
<1>3. h \in 1 .. Len(out) /\ out[h].role = "assistant" /\ out[h].calls = p
  BY <1>2 DEF Settled
<1>4. Len(m) - (k + 1) = h /\ h + k = Len(out)
  BY <1>1
<1> HIDE DEF h
<1>5. Grows(out, m) /\ m[h] = out[h]
  BY <1>1, <1>3 DEF Grows
<1>6. ASSUME NEW j \in 1 .. k + 1 PROVE m[h + j].role = "result" /\ m[h + j].ref = p[j]
  <2>1. CASE j = k + 1
    <3>1. h + j = Len(out) + 1
      BY <1>1, <1>3, <1>4, <2>1
    <3> QED
      BY <1>1, <2>1, <3>1
  <2>2. CASE j \in 1 .. k
    <3>1. h + j \in 1 .. Len(out)
      BY <1>1, <1>3, <1>4, <2>2, SMTT(60)
    <3>2. out[h + j].role = "result" /\ out[h + j].ref = p[j]
      BY <2>2 DEF Settled, h
    <3> QED
      BY <1>1, <3>1, <3>2
  <2> QED
    BY <2>1, <2>2
<1>7. seen \cup {x.ref} = {p[j] : j \in 1 .. k + 1}
  <2>1. seen = {p[j] : j \in 1 .. k}
    BY DEF Settled
  <2>2. 1 .. k + 1 = (1 .. k) \cup {k + 1}
    OBVIOUS
  <2> QED
    BY <2>1, <2>2
<1>8. ASSUME NEW i \in 1 .. Len(m), m[i].role = "assistant"
      PROVE  GroupAt(m, i) \/ (i = h /\ p # << >>)
  <2>1. i \in 1 .. Len(out)
    BY <1>1, <1>8
  <2>2. out[i].role = "assistant"
    BY <1>1, <1>8, <2>1
  <2>3. CASE i # h
    <3>1. GroupAt(out, i)
      BY <2>1, <2>2, <2>3 DEF Settled, h
    <3>2. Len(m) \in Nat
      BY <1>1
    <3> QED
      BY <1>5, <2>1, <3>1, <3>2, GroupKept
  <2> QED
    BY <1>2, <2>3
<1>9. ASSUME NEW j \in 1 .. Len(m), m[j].role = "result"
      PROVE  \E i \in 1 .. j - 1 : m[i].role = "assistant" /\ j <= i + Len(m[i].calls)
  <2>1. CASE j \in 1 .. Len(out)
    <3>1. out[j].role = "result"
      BY <1>1, <1>9, <2>1
    <3>2. PICK i \in 1 .. j - 1 : out[i].role = "assistant" /\ j <= i + Len(out[i].calls)
      BY <2>1, <3>1 DEF Settled, Owned
    <3>3. i \in 1 .. Len(out)
      BY <1>1, <2>1
    <3>4. m[i] = out[i]
      BY <1>1, <3>3
    <3> QED
      BY <3>2, <3>4
  <2>2. CASE j = Len(out) + 1
    <3>1. h \in 1 .. j - 1 /\ j <= h + Len(p)
      BY <1>1, <1>3, <1>4, <2>2
    <3> QED
      BY <1>3, <1>5, <3>1
  <2> QED
    BY <1>1, <2>1, <2>2
<1>10. k + 1 \in 0 .. Len(p)
  BY <1>1
<1>11. h \in 1 .. Len(m)
  BY <1>1, <1>3
<1>12. Owned(m)
  BY <1>9 DEF Owned
<1> QED
  BY <1>3, <1>4, <1>5, <1>6, <1>7, <1>8, <1>10, <1>11, <1>12, ZenonT(60) DEF Settled, m

\* A message that is not a result.
LEMMA MessageSettled ==
  ASSUME NEW c \in Nat, NEW out \in Seq(MessagesOver(c)), Answered(out),
         NEW x \in MessagesOver(c), x.role # "result", x.role # "assistant" => x.calls = << >>
  PROVE  Settled(Append(out, x), x.calls, {}, 0)
PROOF
<1> DEFINE m == Append(out, x)
<1>1. /\ m \in Seq(MessagesOver(c)) /\ Len(m) = Len(out) + 1 /\ Len(out) \in Nat
      /\ m[Len(out) + 1] = x /\ \A i \in 1 .. Len(out) : m[i] = out[i]
  OBVIOUS
<1>2. x.calls \in Seq(1 .. c) /\ Len(x.calls) \in Nat
  <2>1. x.calls \in Seq(1 .. c)
    BY DEF MessagesOver
  <2> QED
    BY <2>1
<1> HIDE DEF m
<1>3. Grows(out, m) /\ Len(m) - 0 = Len(m) /\ Len(m) \in Nat /\ Len(m) \in 1 .. Len(m)
  BY <1>1 DEF Grows
<1>4. m[Len(m)] = x
  BY <1>1
<1>5. ASSUME NEW i \in 1 .. Len(m), m[i].role = "assistant"
      PROVE  GroupAt(m, i) \/ (i = Len(m) /\ x.calls # << >>)
  <2>1. CASE i \in 1 .. Len(out)
    <3>1. out[i].role = "assistant"
      BY <1>1, <1>5, <2>1
    <3>2. GroupAt(out, i)
      BY <2>1, <3>1 DEF Answered
    <3> QED
      BY <1>3, <2>1, <3>2, GroupKept, ZenonT(60)
  <2>2. CASE i = Len(m) /\ x.calls = << >>
    <3>1. Len(m[i].calls) = 0
      BY <1>4, <2>2
    <3> QED
      BY <1>3, <2>2, <3>1 DEF GroupAt
  <2>3. i \in 1 .. Len(out) \/ i = Len(m)
    BY ONLY <1>1, <1>5
  <2> QED
    BY <2>1, <2>2, <2>3, ZenonT(60)
<1>6. ASSUME NEW j \in 1 .. Len(m), m[j].role = "result"
      PROVE  \E i \in 1 .. j - 1 : m[i].role = "assistant" /\ j <= i + Len(m[i].calls)
  <2>1. j \in 1 .. Len(out) /\ out[j].role = "result"
    BY <1>1, <1>6
  <2>2. PICK i \in 1 .. j - 1 : out[i].role = "assistant" /\ j <= i + Len(out[i].calls)
    BY <2>1 DEF Answered, Owned
  <2>3. i \in 1 .. Len(out)
    BY <1>1, <2>1
  <2>4. m[i] = out[i]
    BY <1>1, <2>3
  <2> QED
    BY <2>2, <2>4
<1>7. x.calls # << >> => x.role = "assistant"
  OBVIOUS
<1>8. {} = {x.calls[j] : j \in 1 .. 0}
  OBVIOUS
<1>9. Owned(m) /\ 0 \in 0 .. Len(x.calls)
  <2>1. Owned(m)
    BY <1>6, ZenonT(60) DEF Owned
  <2>2. 0 \in 0 .. Len(x.calls)
    BY ONLY <1>2
  <2> QED
    BY ONLY <2>1, <2>2
<1>10. \A j \in 1 .. 0 : FALSE
  OBVIOUS
<1> QED
  BY <1>3, <1>4, <1>5, <1>7, <1>8, <1>9, <1>10 DEF Settled, m

\* The next message is the result after those the group has.
LEMMA NextResult ==
  ASSUME NEW c \in Nat, NEW l, LogOK(l, c), NEW n \in Nat, n < Len(l),
         NEW out, NEW p \in Seq(1 .. c), NEW s, NEW kn, NEW k,
         Settled(out, p, s, k), Along(l, n, p, kn, k), l[n + 1].role = "result"
  PROVE  /\ k \in Nat /\ k < Len(p) /\ k \in 0 .. n - 1
         /\ Complete(l[n - k]) /\ GroupAt(l, n - k) /\ l[n - k].calls = p
         /\ l[n + 1].ref = p[k + 1] /\ l[n + 1].ref \in kn
PROOF
<1>1. l \in Seq(MessagesOver(c)) /\ Len(l) \in Nat /\ n + 1 \in 1 .. Len(l) /\ Len(p) \in Nat
  BY DEF LogOK
<1>2. PICK h \in 1 .. n : Complete(l[h]) /\ n + 1 <= h + Len(l[h].calls) /\ GroupAt(l, h)
  <2> DEFINE q == n + 1
  <2>1. q \in 1 .. Len(l) /\ l[q].role = "result" /\ 1 .. q - 1 = 1 .. n
    BY <1>1
  <2> HIDE DEF q
  <2>2. \E h \in 1 .. q - 1 : Complete(l[h]) /\ q <= h + Len(l[h].calls) /\ GroupAt(l, h)
    BY <2>1 DEF LogOK, Grouped
  <2> QED
    BY <2>1, <2>2 DEF q
<1> DEFINE a == n + 1 - h
           long == Len(l[h].calls)
<1>3. h \in 1 .. n /\ h \in 1 .. Len(l) /\ long \in Nat /\ l[h].calls \in Seq(1 .. c)
  <2>1. h \in 1 .. n /\ h \in 1 .. Len(l)
    BY <1>1, <1>2
  <2>2. long \in Nat /\ l[h].calls \in Seq(1 .. c)
    BY <1>1, <2>1, MessageFields
  <2> QED
    BY <2>1, <2>2
<1>4. a \in 1 .. Len(l[h].calls) /\ h + a = n + 1
  <2>1. n + 1 <= h + long
    BY <1>2
  <2> HIDE DEF long
  <2>2. a \in 1 .. long /\ h + a = n + 1
    BY <1>3, <2>1
  <2> QED
    BY <2>2 DEF long
<1> HIDE DEF a, long
<1>5. l[n + 1].ref = l[h].calls[a]
  BY <1>2, <1>4 DEF GroupAt
<1>6. l[h].calls[a] \in kn
  <2>1. ToSet(l[h].calls) \subseteq kn
    BY <1>2, <1>3 DEF Along
  <2>2. l[h].calls[a] \in ToSet(l[h].calls)
    <3>1. DOMAIN l[h].calls = 1 .. Len(l[h].calls)
      BY <1>3
    <3>2. a \in DOMAIN l[h].calls
      BY <1>4, <3>1
    <3> QED
      BY <3>2 DEF ToSet
  <2> QED
    BY <2>1, <2>2
<1>7. k \in 0 .. Len(p)
  BY DEF Settled
<1>8. k = a - 1 /\ n - k = h /\ l[h].calls = p
  <2>1. CASE a = 1
    <3>1. h = n /\ n > 0
      BY <1>3, <1>4, <2>1
    <3>2. l[n].calls = p /\ k = 0
      BY <1>2, <3>1 DEF Along
    <3> QED
      BY <1>3, <2>1, <3>1, <3>2
  <2>2. CASE a # 1
    <3> DEFINE b == a - 1
    <3>1. b \in 1 .. Len(l[h].calls) /\ h + b = n /\ n \in Nat /\ n > 0 /\ b \in Nat
      <4>1. a \in 1 .. long /\ h + a = n + 1
        BY <1>4 DEF long
      <4>2. b \in 1 .. long /\ h + b = n /\ n \in Nat /\ n > 0 /\ b \in Nat
        BY <1>3, <2>2, <4>1
      <4> QED
        BY <4>2 DEF long
    <3> HIDE DEF b
    <3>2. l[n].role = "result" /\ l[n].ref = l[h].calls[b]
      <4>1. l[h + b].role = "result" /\ l[h + b].ref = l[h].calls[b]
        BY <1>2, <3>1 DEF GroupAt
      <4> QED
        BY <3>1, <4>1
    <3>3. k \in 1 .. n - 1 /\ l[n - k].calls = p /\ l[n].ref = p[k]
      BY <3>1, <3>2 DEF Along
    <3> DEFINE i == n - k
    <3>4. i \in 1 .. Len(l) /\ i + k = n /\ l[i].calls = p
      <4>1. k \in 1 .. n - 1
        BY <3>3
      <4>2. i \in 1 .. Len(l) /\ i + k = n
        BY <1>1, <4>1
      <4> QED
        BY <3>3, <4>2
    <3> HIDE DEF i
    <3>5. k \in 1 .. Len(l[i].calls) /\ l[i].calls[k] = l[h].calls[b]
      BY <1>7, <3>2, <3>3, <3>4
    <3>6. i = h /\ k = b
      <4>1. CallsOnce(l)
        BY DEF LogOK
      <4>2. /\ i \in 1 .. Len(l) /\ h \in 1 .. Len(l) /\ k \in 1 .. Len(l[i].calls)
            /\ b \in 1 .. Len(l[h].calls)
        BY <1>3, <3>1, <3>4, <3>5
      <4>3. \A x, y \in 1 .. Len(l) : \A v \in 1 .. Len(l[x].calls), w \in 1 .. Len(l[y].calls) :
              l[x].calls[v] = l[y].calls[w] => x = y /\ v = w
        BY <4>1 DEF CallsOnce
      <4>4. l[i].calls[k] = l[h].calls[b]
        BY <3>5
      <4> QED
        BY ONLY <4>2, <4>3, <4>4, SMTT(60)
    <3> QED
      BY <1>3, <3>4, <3>6 DEF b, i
  <2> QED
    BY <2>1, <2>2
<1>9. k + 1 = a /\ k \in Nat /\ k < Len(p) /\ k \in 0 .. n - 1
  BY <1>3, <1>4, <1>7, <1>8
<1> QED
  BY <1>2, <1>5, <1>6, <1>8, <1>9

\* The first n messages were replayed into r.
ShownTo(l, c, n, r) ==
  /\ r \in ReplayStates(c)
  /\ \E k : Settled(r.out, r.pending, r.seen, k) /\ Along(l, n, r.pending, r.known, k)

LEMMA ReplayStart ==
  ASSUME NEW c \in Nat, NEW l PROVE ShownTo(l, c, 0, Replayed(<< >>, << >>, {}, {}))
PROOF
<1> DEFINE r == Replayed(<< >>, << >>, {}, {})
<1>1. << >> \in Seq(MessagesOver(c)) /\ << >> \in Seq(1 .. c) /\ {} \in SUBSET Nat
  OBVIOUS
<1>2. r \in ReplayStates(c)
  BY <1>1, ReplayedType
<1>3. r.out = << >> /\ r.pending = << >> /\ r.seen = {} /\ r.known = {}
  BY ReplayedFields
<1>4. Len(<< >>) = 0 /\ \A i \in 1 .. 0 : FALSE
  OBVIOUS
<1>5. Settled(<< >>, << >>, {}, 0)
  <2>1. 0 \in 0 .. 0
    OBVIOUS
  <2>2. {} = {<< >>[j] : j \in 1 .. 0}
    OBVIOUS
  <2>3. Owned(<< >>)
    BY <1>4 DEF Owned
  <2> QED
    BY <1>4, <2>1, <2>2, <2>3 DEF Settled
<1>6. Along(l, 0, << >>, {}, 0)
  BY <1>4 DEF Along
<1> HIDE DEF r
<1> QED
  BY <1>2, <1>3, <1>5, <1>6 DEF ShownTo, r

LEMMA ReplayStep ==
  ASSUME NEW c \in Nat, NEW l, LogOK(l, c), NEW n \in Nat, n < Len(l), NEW r, ShownTo(l, c, n, r)
  PROVE  ShownTo(l, c, n + 1, ReplayOne(r, l[n + 1]))
PROOF
<1> DEFINE q == n + 1
           m == l[q]
<1>1. l \in Seq(MessagesOver(c)) /\ Len(l) \in Nat /\ q \in 1 .. Len(l) /\ q \in Nat /\ q > 0
      /\ n \in 0 .. Len(l) /\ \A i \in 1 .. q : i \in 1 .. n \/ i = q
  BY DEF LogOK
<1>2. PICK k : Settled(r.out, r.pending, r.seen, k) /\ Along(l, n, r.pending, r.known, k)
  BY DEF ShownTo
<1>3. /\ r \in ReplayStates(c)
      /\ r.out \in Seq(MessagesOver(c)) /\ r.pending \in Seq(1 .. c)
      /\ r.seen \in SUBSET Nat /\ r.known \in SUBSET Nat
      /\ Len(r.out) \in Nat /\ Len(r.pending) \in Nat
  BY ReplayStateFields DEF ShownTo
<1>4. /\ m \in MessagesOver(c) /\ m.ref \in Nat /\ m.calls \in Seq(1 .. c)
      /\ m.role \in Users \cup {"assistant", "result"}
      /\ m.stop \in {"none", "stop", "aborted", "error"}
  <2> HIDE DEF q
  <2> QED
    BY <1>1, MessageFields
<1>5. m.role # "assistant" => m.calls = << >>
  <2>1. CallsOnce(l)
    BY DEF LogOK
  <2> HIDE DEF q
  <2> QED
    BY <1>1, <2>1 DEF CallsOnce
<1>6. \A i \in 1 .. n : Complete(l[i]) => ToSet(l[i].calls) \subseteq r.known
  BY <1>2 DEF Along
<1>7. m.role # "result" => k = 0 \/ k = Len(r.pending)
  BY <1>1, <1>2, <1>3, NoneOpen
<1>8. CASE Failed(m)
  <2>1. m.role # "result" /\ ~Complete(m)
    BY <1>8 DEF Failed, Complete
  <2>2. ReplayOne(r, m) = r
    BY <1>8 DEF ReplayOne
  <2>3. Along(l, q, r.pending, r.known, k)
    <3> HIDE DEF q
    <3> QED
      BY <1>1, <1>6, <1>7, <2>1 DEF Along
  <2> QED
    BY <1>2, <1>3, <2>2, <2>3 DEF ShownTo
<1>9. CASE m.role = "result"
  <2>1. /\ k \in Nat /\ k < Len(r.pending) /\ k \in 0 .. n - 1
        /\ Complete(l[n - k]) /\ GroupAt(l, n - k) /\ l[n - k].calls = r.pending
        /\ m.ref = r.pending[k + 1] /\ m.ref \in r.known
    BY <1>2, <1>3, <1>9, NextResult, ZenonT(60)
  <2> DEFINE r2 == Replayed(Append(r.out, m), r.pending, r.seen \cup {m.ref}, r.known)
  <2>2. ~Failed(m) /\ ~Complete(m)
    BY <1>9 DEF Failed, Complete
  <2>3. ReplayOne(r, m) = r2
    BY <1>9, <2>1, <2>2 DEF ReplayOne
  <2>4. r2 \in ReplayStates(c)
    <3>1. Append(r.out, m) \in Seq(MessagesOver(c)) /\ r.seen \cup {m.ref} \in SUBSET Nat
      BY <1>3, <1>4, SMTT(60)
    <3> QED
      BY <1>3, <3>1, ReplayedType
  <2>5. Settled(Append(r.out, m), r.pending, r.seen \cup {m.ref}, k + 1)
    <3> HIDE DEF m
    <3> QED
      BY <1>2, <1>3, <1>4, <1>9, <2>1, ResultSettled
  <2>6. Along(l, q, r.pending, r.known, k + 1)
    <3> DEFINE d == k + 1
               h == q - d
    <3>1. h = n - k /\ d \in 1 .. q - 1
      BY <2>1, SMTT(60)
    <3>2. d \in 1 .. q - 1 /\ Complete(l[h]) /\ GroupAt(l, h) /\ l[h].calls = r.pending
          /\ l[q].ref = r.pending[d]
      BY <2>1, <3>1
    <3>3. \A i \in 1 .. q : Complete(l[i]) => ToSet(l[i].calls) \subseteq r.known
      BY <1>1, <1>6, <2>2
    <3>4. l[q].role = "result" /\ ~Complete(l[q])
      BY <1>9, <2>2
    <3> HIDE DEF q, d
    <3> QED
      BY <1>1, <3>2, <3>3, <3>4 DEF Along, d
  <2>7. r2.out = Append(r.out, m) /\ r2.pending = r.pending
        /\ r2.seen = r.seen \cup {m.ref} /\ r2.known = r.known
    <3> HIDE DEF m
    <3> QED
      BY DEF Replayed
  <2> HIDE DEF r2, m
  <2>8. Settled(r2.out, r2.pending, r2.seen, k + 1) /\ Along(l, q, r2.pending, r2.known, k + 1)
    BY <2>5, <2>6, <2>7
  <2> QED
    BY <2>3, <2>4, <2>8 DEF ShownTo, m
<1>10. CASE ~Failed(m) /\ m.role # "result"
  <2> DEFINE o  == Flush(r).out
             kn == r.known \cup ToSet(m.calls)
             r2 == Replayed(Append(o, m), m.calls, {}, kn)
  <2>1. o \in Seq(MessagesOver(c)) /\ Answered(o)
    BY <1>2, <1>3, <1>7, <1>10, FlushSettled
  <2>2. ReplayOne(r, m) = r2
    BY <1>10 DEF ReplayOne
  <2> HIDE DEF o
  <2>3. r2 \in ReplayStates(c)
    <3>1. Append(o, m) \in Seq(MessagesOver(c))
      BY <1>4, <2>1
    <3>2. ToSet(m.calls) \subseteq Nat
      <4>1. \A i \in 1 .. Len(m.calls) : m.calls[i] \in Nat
        BY <1>4, SMTT(60)
      <4>2. DOMAIN m.calls = 1 .. Len(m.calls)
        BY <1>4
      <4> QED
        BY <4>1, <4>2 DEF ToSet
    <3>3. kn \in SUBSET Nat /\ {} \in SUBSET Nat
      BY <1>3, <3>2
    <3> QED
      BY <1>4, <3>1, <3>3, ReplayedType
  <2>4. Settled(Append(o, m), m.calls, {}, 0)
    <3> HIDE DEF m
    <3> QED
      BY <1>4, <1>5, <1>10, <2>1, MessageSettled
  <2>5. Along(l, q, m.calls, kn, 0)
    <3>1. \A i \in 1 .. q : Complete(l[i]) => ToSet(l[i].calls) \subseteq kn
      <4> HIDE DEF q
      <4> QED
        BY <1>1, <1>6
    <3> HIDE DEF q, kn
    <3> QED
      BY <1>10, <3>1 DEF Along
  <2>6. r2.out = Append(o, m) /\ r2.pending = m.calls /\ r2.seen = {} /\ r2.known = kn
    <3> HIDE DEF m, kn
    <3> QED
      BY DEF Replayed
  <2> HIDE DEF r2, m, kn
  <2>7. Settled(r2.out, r2.pending, r2.seen, 0) /\ Along(l, q, r2.pending, r2.known, 0)
    BY <2>4, <2>5, <2>6
  <2> QED
    BY <2>2, <2>3, <2>7 DEF ShownTo, m
<1> QED
  BY <1>8, <1>9, <1>10

LEMMA ReplayEnd ==
  ASSUME NEW c \in Nat, NEW l, LogOK(l, c), NEW r, ShownTo(l, c, Len(l), r)
  PROVE  Flush(r).out \in Seq(MessagesOver(c)) /\ Answered(Flush(r).out)
PROOF
<1>1. PICK k : Settled(r.out, r.pending, r.seen, k) /\ Along(l, Len(l), r.pending, r.known, k)
  BY DEF ShownTo
<1>2. r \in ReplayStates(c) /\ Len(r.pending) \in Nat
  BY ReplayStateFields DEF ShownTo
<1>3. Len(l) \in 0 .. Len(l)
  <2>1. Len(l) \in Nat
    BY DEF LogOK
  <2> QED
    BY <2>1
<1>4. k = 0 \/ k = Len(r.pending)
  BY <1>1, <1>2, <1>3, NoneOpen
<1> QED
  BY <1>1, <1>2, <1>4, FlushSettled

\* What a request shows of any transcript whose groups are whole.
LEMMA ReplayIs ==
  ASSUME NEW c \in Nat, NEW l, LogOK(l, c)
  PROVE  Replay(l) \in Seq(MessagesOver(c)) /\ Answered(Replay(l))
PROOF
<1> DEFINE N == Len(l)
           R == ReplayStates(c)
           start == Replayed(<< >>, << >>, {}, {})
           step == [q \in (1 .. N) \X R |-> ReplayOne(q[2], l[q[1]])]
           Eqn(f) == f = [n \in 0 .. N |-> IF n = 0 THEN start ELSE ReplayOne(f[n - 1], l[n])]
           X == [n \in 0 .. N |-> {r \in R : ShownTo(l, c, n, r)}]
           after == CHOOSE f : Eqn(f)
<1>1. N \in Nat
  BY DEF LogOK
<1>2. start \in X[0]
  <2>1. ShownTo(l, c, 0, start)
    BY ReplayStart
  <2>2. start \in R
    BY <2>1 DEF ShownTo
  <2>3. 0 \in 0 .. N
    BY <1>1
  <2> HIDE DEF start, R, N
  <2> QED
    BY <2>1, <2>2, <2>3
<1>3. ASSUME NEW n \in 1 .. N, NEW r \in X[n - 1]
      PROVE  r \in R /\ ReplayOne(r, l[n]) \in X[n]
  <2> DEFINE b == n - 1
  <2>1. n \in 0 .. N /\ b \in 0 .. N /\ b \in Nat /\ b < N /\ b + 1 = n
    BY <1>1
  <2> HIDE DEF b, R
  <2>2. r \in R /\ ShownTo(l, c, b, r)
    <3>1. r \in X[b]
      BY <1>3 DEF b
    <3> QED
      BY <2>1, <3>1
  <2>3. ShownTo(l, c, b + 1, ReplayOne(r, l[b + 1]))
    BY <2>1, <2>2, ReplayStep
  <2>4. ShownTo(l, c, n, ReplayOne(r, l[n]))
    BY <2>1, <2>3
  <2>5. ReplayOne(r, l[n]) \in R
    BY <2>4 DEF ShownTo, R
  <2> QED
    BY <2>1, <2>2, <2>4, <2>5
<1> HIDE DEF start, R
<1>4. PICK g : Recursion!IteratesOn(g, N, start, step)
  <2> HIDE DEF step, N
  <2> QED  BY <1>1, Recursion!IterationExists
<1>5. ASSUME NEW n \in 1 .. N, g[n - 1] \in X[n - 1]
      PROVE  g[n] = ReplayOne(g[n - 1], l[n])
  <2>1. n \in 0 .. N /\ n # 0
    BY <1>1
  <2>2. g[n] = step[<<n, g[n - 1]>>]
    <3> HIDE DEF step, N
    <3> QED  BY <1>4, <2>1 DEF Recursion!IteratesOn
  <2>3. g[n - 1] \in R
    <3> HIDE DEF X, N
    <3> QED  BY <1>3, <1>5
  <2> QED  BY <2>2, <2>3
<1>6. \A n \in 0 .. N : g[n] \in X[n]
  <2>1. g[0] \in X[0]
    <3> HIDE DEF X
    <3> QED  BY <1>1, <1>2, <1>4 DEF Recursion!IteratesOn
  <2> HIDE DEF X, N
  <2> QED  BY <1>1, <1>3, <1>5, <2>1, Recursion!Induct, ZenonT(60)
<1>7. Eqn(g)
  <2>1. ASSUME NEW n \in 0 .. N, n # 0
        PROVE  step[<<n, g[n - 1]>>] = ReplayOne(g[n - 1], l[n])
    <3>1. n - 1 \in 0 .. N /\ n \in 1 .. N
      BY <1>1, <2>1
    <3> QED  BY <1>6, <3>1
  <2> QED  BY <1>4, <2>1 DEF Recursion!IteratesOn
<1>8. Eqn(after)
  <2> HIDE DEF Eqn
  <2> QED  BY <1>7
<1>9. \A n \in 0 .. N : after[n] \in X[n]
  <2>1. after[0] = start /\ \A n \in 1 .. N : after[n] = ReplayOne(after[n - 1], l[n])
    <3>1. /\ 0 \in 0 .. N
          /\ \A n \in 1 .. N : n \in 0 .. N /\ n # 0
      BY <1>1
    <3> HIDE DEF after, N
    <3> QED  BY <1>8, <3>1
  <2> HIDE DEF X, N, after
  <2> QED  BY <1>1, <1>2, <1>3, <2>1, Recursion!Induct
<1>10. Replay(l) = Flush(after[N]).out
  BY DEF Replay, start
<1>11. ShownTo(l, c, N, after[N])
  <2>1. N \in 0 .. N
    BY <1>1
  <2>2. after[N] \in X[N]
    <3> HIDE DEF X, N, after
    <3> QED  BY <1>9, <2>1
  <2> HIDE DEF N, after
  <2> QED  BY <2>1, <2>2
<1> HIDE DEF after
<1> QED  BY <1>10, <1>11, ReplayEnd

\* In the words of the property.
LEMMA ShownIs == ASSUME called \in Nat, LogOK(log, called) PROVE ShownWithResults
PROOF
<1> DEFINE shown == Replay(log)
<1>1. shown \in Seq(MessagesOver(called)) /\ Answered(shown)
  BY ReplayIs
<1> HIDE DEF shown
<1>2. DOMAIN shown = 1 .. Len(shown) /\ Len(shown) \in Nat
  BY <1>1
<1>3. ASSUME NEW i \in DOMAIN shown, shown[i].role = "assistant"
      PROVE  LET n == Len(shown[i].calls) IN
           /\ i + n <= Len(shown)
           /\ {shown[j].ref : j \in i + 1 .. i + n} = ToSet(shown[i].calls)
           /\ \A j \in i + 1 .. i + n : shown[j].role = "result"
  <2> DEFINE ids == shown[i].calls
             n == Len(ids)
  <2>1. GroupAt(shown, i)
    BY <1>1, <1>2, <1>3 DEF Answered
  <2>2. ids \in Seq(1 .. called) /\ n \in Nat /\ DOMAIN ids = 1 .. n
    <3>1. ids \in Seq(1 .. called)
      BY <1>1, <1>2, MessageFields
    <3> QED
      BY <3>1
  <2>3. i + n <= Len(shown) /\ \A a \in 1 .. n : shown[i + a].role = "result" /\ shown[i + a].ref = ids[a]
    BY <2>1 DEF GroupAt
  <2> HIDE DEF ids, n
  <2>4. ASSUME NEW j \in i + 1 .. i + n PROVE j - i \in 1 .. n /\ j = i + (j - i)
    BY <1>2, <2>2
  <2>5. \A a \in 1 .. n : i + a \in i + 1 .. i + n
    BY <1>2, <2>2, SMTT(60)
  <2>6. \A j \in i + 1 .. i + n : shown[j].role = "result" /\ shown[j].ref = ids[j - i]
    BY <2>3, <2>4
  <2>7. {shown[j].ref : j \in i + 1 .. i + n} = ToSet(ids)
    <3>1. ToSet(ids) = {ids[a] : a \in 1 .. n}
      BY <2>2 DEF ToSet
    <3>2. ASSUME NEW j \in i + 1 .. i + n PROVE shown[j].ref \in ToSet(ids)
      BY <2>4, <2>6, <3>1
    <3>3. ASSUME NEW a \in 1 .. n PROVE ids[a] \in {shown[j].ref : j \in i + 1 .. i + n}
      BY <2>3, <2>5
    <3> QED
      BY <3>1, <3>2, <3>3
  <2> QED
    BY <2>3, <2>6, <2>7 DEF n, ids
<1>4. ASSUME NEW j \in DOMAIN shown, shown[j].role = "result"
      PROVE  \E i \in 1 .. j - 1 : shown[i].role = "assistant" /\ j <= i + Len(shown[i].calls)
  BY <1>1, <1>2, <1>4 DEF Answered, Owned
<1> QED
  BY <1>3, <1>4 DEF ShownWithResults, shown

-----------------------------------------------------------------------------
(* The invariant. *)

Streams ==
  [answer : Answers \cup {<< >>}, sent : Nat, got : Nat,
   status : {"none", "open", "ok", "failed", "busy", "refused"}]
Dispatches ==
  [calls : Seq(Nat), modes : Seq(Modes), cursor : Nat, running : SUBSET Nat, ends : SUBSET Nat]

\* A transfer is over as "ok" only when everything was sent.
StreamOK ==
  /\ stream \in Streams
  /\ stream.got <= stream.sent /\ stream.sent <= Chunks(stream.answer)
  /\ turn = "stream" => stream.status # "none"
  /\ stream.status = "ok" => stream.sent = Chunks(stream.answer)

\* While tools run, the answer that called them is last in the transcript.
ToolsOK ==
  /\ tools \in Dispatches
  /\ Len(tools.modes) = Len(tools.calls)
  /\ tools.running \subseteq 1 .. Len(tools.calls)
  /\ tools.ends \subseteq 1 .. Len(tools.calls)
  /\ turn = "tools" => /\ tools.cursor >= 1 /\ tools.calls \in Seq(1 .. called)
                       /\ Quiet => /\ log # << >> /\ Complete(log[Len(log)])
                                   /\ log[Len(log)].calls = tools.calls

QueuesOK ==
  /\ items \in 0 .. MaxItems
  /\ steering \in Seq(1 .. items) /\ followUps \in Seq(1 .. items)
  /\ withdrawn \subseteq 1 .. items

CountsOK ==
  /\ called \in Nat /\ requests \in 0 .. MaxRequests /\ attempt \in 0 .. MaxRetries
  /\ abort \in BOOLEAN /\ turn \in {"idle", "stream", "backoff", "tools"}

TurnInv == LogIs(log, called) /\ StreamOK /\ ToolsOK /\ QueuesOK /\ CountsOK

LEMMA NothingYet ==
  /\ NoStream \in Streams /\ NoTools \in Dispatches
  /\ NoStream.got = 0 /\ NoStream.sent = 0 /\ NoStream.status = "none" /\ NoStream.answer = << >>
  /\ NoTools.calls = << >> /\ NoTools.modes = << >> /\ NoTools.running = {} /\ NoTools.ends = {}
  /\ Chunks(<< >>) = 1 /\ Len(<< >>) = 0
PROOF
<1>1. << >> \in Seq(Nat) /\ << >> \in Seq(Modes) /\ {} \in SUBSET Nat /\ Len(<< >>) = 0
  OBVIOUS
<1>2. Chunks(<< >>) = 1
  BY <1>1 DEF Chunks
<1> QED
  BY <1>1, <1>2 DEF NoStream, NoTools, Streams, Dispatches

\* A slice reaches a state of the invariant.  Counts and queues of the next
\* state that the parts of a slice leave to its action:
Frame ==
  /\ called' \in Nat /\ items' \in 0 .. MaxItems /\ abort' \in BOOLEAN
  /\ withdrawn' \subseteq 1 .. items' /\ requests \in 0 .. MaxRequests
  /\ attempt \in 0 .. MaxRetries

LEMMA FinishKeeps ==
  ASSUME Frame, NEW l, LogIs(l, called'), NEW s \in Seq(1 .. items'), NEW f \in Seq(1 .. items'),
         Finish(l, s, f)
  PROVE  TurnInv'
PROOF
<1>1. 0 \in 0 .. MaxRetries
  BY BoundsAssumption
<1>2. LogIs(log, called)'
  BY DEF Finish
<1>3. StreamOK'
  BY NothingYet DEF Finish, StreamOK
<1>4. ToolsOK'
  BY NothingYet DEF Finish, ToolsOK
<1>5. QueuesOK'
  BY DEF Finish, QueuesOK, Frame
<1>6. CountsOK'
  BY <1>1 DEF Finish, CountsOK, Frame
<1> QED
  BY <1>2, <1>3, <1>4, <1>5, <1>6 DEF TurnInv

\* The streams and tools of a request that opens.
LEMMA OpenKeeps ==
  ASSUME Frame, Open PROVE StreamOK' /\ ToolsOK' /\ turn' = "stream" /\ requests' \in 0 .. MaxRequests
PROOF
<1>1. PICK answer \in Answers :
        stream' = [answer |-> answer, sent |-> 0, got |-> 0, status |-> "open"]
  BY DEF Open
<1>2. /\ stream' \in Streams /\ stream'.got = 0 /\ stream'.sent = 0 /\ stream'.status = "open"
      /\ stream'.answer = answer
  BY <1>1 DEF Streams
<1>3. 0 <= Chunks(answer)
  <2>1. answer \in Seq(Modes)
    BY AnswersAssumption
  <2>2. Len(answer) \in Nat
    BY <2>1
  <2> QED
    BY <2>2 DEF Chunks
<1>4. StreamOK'
  BY <1>2, <1>3 DEF StreamOK
<1>5. ToolsOK'
  BY NothingYet DEF Open, ToolsOK
<1>6. requests' \in 0 .. MaxRequests
  BY BoundsAssumption DEF Open, Frame
<1> QED
  BY <1>4, <1>5, <1>6 DEF Open

\* What is taken from a queue and what is left.
LEMMA DrainedIs ==
  ASSUME NEW n \in Nat, NEW q \in Seq(1 .. n)
  PROVE  Drained(q).taken \in Seq(1 .. n) /\ Drained(q).rest \in Seq(1 .. n)
PROOF
<1>1. Len(q) \in Nat /\ Share(q) \in 0 .. Len(q)
  BY DEF Share
<1>2. \A i \in 1 .. Len(q) : q[i] \in 1 .. n
  OBVIOUS
<1>3. SubSeq(q, 1, Share(q)) \in Seq(1 .. n)
  BY <1>1, <1>2, SubSeqProperties
<1>4. SubSeq(q, Share(q) + 1, Len(q)) \in Seq(1 .. n)
  BY <1>1, <1>2, SubSeqProperties
<1> QED
  BY <1>3, <1>4 DEF Drained

LEMMA SaidIs ==
  ASSUME NEW c \in Nat, NEW n \in Nat, NEW q \in Seq(1 .. n), NEW kind \in Users
  PROVE  Said(kind, q) \in Seq(MessagesOver(c)) /\ FromUsers(Said(kind, q)) /\ Len(Said(kind, q)) = Len(q)
PROOF
<1>1. Len(q) \in Nat /\ DOMAIN q = 1 .. Len(q) /\ \A i \in 1 .. Len(q) : q[i] \in Nat
  OBVIOUS
<1>2. << >> \in Seq(1 .. c)
  OBVIOUS
<1>3. \A x \in Nat : /\ FromUser(kind, x) \in MessagesOver(c) /\ FromUser(kind, x).role = kind
                     /\ FromUser(kind, x).calls = << >>
  BY <1>2 DEF FromUser, Message, MessagesOver
<1> DEFINE u == [i \in 1 .. Len(q) |-> FromUser(kind, q[i])]
<1>4. Said(kind, q) = u
  BY <1>1 DEF Said
<1>5. u \in Seq(MessagesOver(c)) /\ Len(u) = Len(q)
  BY <1>1, <1>3
<1>6. \A i \in 1 .. Len(u) : u[i] = FromUser(kind, q[i])
  BY <1>5
<1> HIDE DEF u
<1>7. FromUsers(u)
  BY <1>1, <1>3, <1>5, <1>6 DEF FromUsers
<1> QED
  BY <1>4, <1>5, <1>7

LEMMA SaidAppended ==
  ASSUME NEW c \in Nat, NEW l, LogIs(l, c), NEW n \in Nat, NEW q \in Seq(1 .. n), NEW kind \in Users
  PROVE  LogIs(l \o Said(kind, q), c)
PROOF
  BY SaidIs, UsersIn

LEMMA UserAppended ==
  ASSUME NEW c \in Nat, NEW l, LogIs(l, c), NEW kind \in Users, NEW x \in Nat
  PROVE  LogIs(Append(l, FromUser(kind, x)), c)
PROOF
<1> DEFINE m == FromUser(kind, x)
           u == << m >>
<1>1. << >> \in Seq(1 .. c)
  OBVIOUS
<1>2. m \in MessagesOver(c) /\ m.role = kind /\ m.calls = << >>
  BY <1>1 DEF FromUser, Message, MessagesOver
<1> HIDE DEF m
<1>3. u \in Seq(MessagesOver(c)) /\ Len(u) = 1 /\ u[1] = m
  BY <1>2
<1>4. FromUsers(u)
  BY <1>2, <1>3 DEF FromUsers
<1>5. LogIs(l \o u, c)
  BY <1>3, <1>4, UsersIn
<1>6. l \o u = Append(l, m)
  <2>1. l \in Seq(MessagesOver(c))
    BY DEF LogIs
  <2> QED
    BY <1>2, <2>1
<1> QED
  BY <1>5, <1>6 DEF m

LEMMA LoopTopKeeps ==
  ASSUME Frame, NEW l, LogIs(l, called'), NEW s \in Seq(1 .. items'), NEW f \in Seq(1 .. items'),
         NEW a, LoopTop(a, l, s, f)
  PROVE  TurnInv'
PROOF
<1> DEFINE q  == Drained(s)
           l2 == l \o Said("steering", q.taken)
<1>1. q.taken \in Seq(1 .. items') /\ q.rest \in Seq(1 .. items')
  BY DrainedIs DEF Frame
<1>2. LogIs(l2, called')
  BY <1>1, SaidAppended DEF Frame, Users
<1>3. CASE Finish(l, s, f)
  BY <1>3, FinishKeeps
<1>4. CASE Finish(l2, q.rest, f)
  <2> HIDE DEF q, l2
  <2> QED
    BY <1>1, <1>2, <1>4, FinishKeeps
<1>5. CASE Open /\ log' = l2 /\ steering' = q.rest /\ followUps' = f /\ attempt' = 0
  <2> HIDE DEF q, l2
  <2>1. StreamOK' /\ ToolsOK' /\ turn' = "stream" /\ requests' \in 0 .. MaxRequests
    BY <1>5, OpenKeeps
  <2>2. QueuesOK'
    BY <1>1, <1>5 DEF QueuesOK, Frame
  <2>3. CountsOK'
    BY <1>5, <2>1, BoundsAssumption DEF CountsOK, Frame
  <2>4. LogIs(log, called)'
    BY <1>2, <1>5
  <2> QED
    BY <2>1, <2>2, <2>3, <2>4 DEF TurnInv
<1> QED
  BY <1>3, <1>4, <1>5 DEF LoopTop

LEMMA StopKeeps ==
  ASSUME Frame, NEW l, LogIs(l, called'),
         steering \in Seq(1 .. items'), followUps \in Seq(1 .. items'), Stop(l)
  PROVE  TurnInv'
PROOF
<1> DEFINE s == Drained(steering)
           f == Drained(followUps)
<1>1. /\ s.taken \in Seq(1 .. items') /\ s.rest \in Seq(1 .. items')
      /\ f.taken \in Seq(1 .. items') /\ f.rest \in Seq(1 .. items')
  BY DrainedIs DEF Frame
<1>2. LogIs(l \o Said("steering", s.taken), called') /\ LogIs(l \o Said("follow-up", f.taken), called')
  BY <1>1, SaidAppended DEF Frame, Users
<1>3. \/ LoopTop(abort, l \o Said("steering", s.taken), s.rest, followUps)
      \/ LoopTop(abort, l \o Said("follow-up", f.taken), steering, f.rest)
      \/ Finish(l, steering, followUps)
  BY DEF Stop
<1> HIDE DEF s, f
<1> QED
  BY <1>1, <1>2, <1>3, LoopTopKeeps, FinishKeeps

LEMMA DispatchKeeps ==
  ASSUME Frame, NEW l, LogIs(l, called'), l # << >>, Complete(l[Len(l)]),
         steering \in Seq(1 .. items'), followUps \in Seq(1 .. items'),
         NEW ids, ids = l[Len(l)].calls, Len(ids) >= 1,
         NEW modes \in Seq(Modes), Len(modes) = Len(ids),
         Dispatch(l, ids, modes)
  PROVE  TurnInv'
PROOF
<1>1. CASE abort
  BY <1>1, FinishKeeps DEF Dispatch
<1>2. CASE ~abort
  <2>1. ids \in Seq(1 .. called') /\ ids \in Seq(Nat) /\ Len(ids) \in Nat
    <3>1. l \in Seq(MessagesOver(called')) /\ called' \in Nat
      BY DEF LogIs, Frame
    <3>2. Len(l) \in 1 .. Len(l)
      BY <3>1
    <3>3. ids \in Seq(1 .. called')
      BY <3>1, <3>2, MessageFields
    <3> QED
      BY <3>1, <3>3
  <2>2. Batch(modes, 1) \subseteq 1 .. Len(modes)
    BY <2>1 DEF Batch
  <2>3. /\ log' = l /\ turn' = "tools"
        /\ tools' = [calls |-> ids, modes |-> modes, cursor |-> 1,
                     running |-> Batch(modes, 1), ends |-> {}]
        /\ stream' = NoStream
        /\ UNCHANGED <<steering, followUps, attempt, requests>>
    BY <1>2 DEF Dispatch
  <2>4. Batch(modes, 1) \in SUBSET Nat
    BY <2>1, <2>2
  <2>5. /\ tools' \in Dispatches /\ tools'.calls = ids /\ tools'.modes = modes /\ tools'.cursor = 1
        /\ tools'.running = Batch(modes, 1) /\ tools'.ends = {}
    BY <2>1, <2>3, <2>4 DEF Dispatches
  <2>6. ToolsOK'
    <3>1. /\ tools'.cursor >= 1 /\ tools'.calls \in Seq(1 .. called')
          /\ log' # << >> /\ Complete(log'[Len(log')]) /\ log'[Len(log')].calls = tools'.calls
      BY <2>1, <2>3, <2>5
    <3>2. /\ tools' \in Dispatches /\ Len(tools'.modes) = Len(tools'.calls)
          /\ tools'.running \subseteq 1 .. Len(tools'.calls)
          /\ tools'.ends \subseteq 1 .. Len(tools'.calls)
      BY <2>2, <2>5
    <3> QED
      BY <3>1, <3>2 DEF ToolsOK
  <2>7. StreamOK'
    BY <2>3, NothingYet DEF StreamOK
  <2>8. QueuesOK' /\ CountsOK'
    BY <2>3 DEF QueuesOK, CountsOK, Frame
  <2> QED
    BY <2>3, <2>6, <2>7, <2>8 DEF TurnInv
<1> QED
  BY <1>1, <1>2

\* The answer that is recorded.
Recorded(got, stop) ==
  Message("assistant", 0, [i \in 1 .. got - 1 |-> called + i], stop, got = Chunks(stream.answer))

LEMMA RecordedIs ==
  ASSUME called \in Nat, NEW got \in Nat, NEW stop \in {"stop", "aborted", "error"}
  PROVE  LET d == called + (IF got = 0 THEN 0 ELSE got - 1)
             x == Recorded(got, stop)
         IN  /\ d \in Nat /\ called <= d /\ x \in MessagesOver(d)
             /\ x.role = "assistant" /\ x.stop = stop /\ x.whole = (got = Chunks(stream.answer))
             /\ x.calls = [i \in 1 .. got - 1 |-> called + i]
             /\ Len(x.calls) = (IF got = 0 THEN 0 ELSE got - 1)
             /\ \A a \in 1 .. Len(x.calls) : x.calls[a] = called + a
PROOF
<1> DEFINE n   == IF got = 0 THEN 0 ELSE got - 1
           d   == called + n
           ids == [i \in 1 .. got - 1 |-> called + i]
           x   == Recorded(got, stop)
           w   == got = Chunks(stream.answer)
<1>1. n \in Nat /\ d \in Nat /\ called <= d /\ 1 .. got - 1 = 1 .. n
  OBVIOUS
<1>2. ids = [i \in 1 .. n |-> called + i]
  BY <1>1
<1>3. \A i \in 1 .. n : called + i \in 1 .. d
  BY <1>1
<1>4. ids \in Seq(1 .. d) /\ Len(ids) = n /\ \A a \in 1 .. n : ids[a] = called + a
  <2> HIDE DEF n, d
  <2> DEFINE z == [i \in 1 .. n |-> called + i]
  <2>1. z \in [1 .. n -> 1 .. d]
    BY <1>3
  <2>2. z \in Seq(1 .. d) /\ Len(z) = n
    BY <1>1, <2>1
  <2>3. \A a \in 1 .. n : z[a] = called + a
    OBVIOUS
  <2>4. ids = z
    BY <1>2
  <2> HIDE DEF z, ids
  <2> QED
    BY <2>2, <2>3, <2>4
<1>5. w \in BOOLEAN
  OBVIOUS
<1>6. /\ x.role = "assistant" /\ x.stop = stop /\ x.calls = ids /\ x.ref = 0
      /\ x = [role |-> "assistant", ref |-> 0, calls |-> ids, stop |-> stop, whole |-> w]
  <2> HIDE DEF ids
  <2> QED
    BY DEF Recorded, Message, ids
<1>7. x.whole = w
  <2> HIDE DEF x, ids, w
  <2> QED
    BY <1>6
<1> HIDE DEF ids, w, n, d
<1>8. x \in MessagesOver(d)
  <2>1. [role |-> "assistant", ref |-> 0, calls |-> ids, stop |-> stop, whole |-> w] \in MessagesOver(d)
    BY <1>4, <1>5 DEF MessagesOver
  <2> HIDE DEF x
  <2> QED
    BY <1>6, <2>1
<1> HIDE DEF x
<1> QED
  BY <1>1, <1>4, <1>6, <1>7, <1>8 DEF n, d, ids, w, x

LEMMA SettleIs ==
  ASSUME NEW how, NEW got, Settle(how, got)
  PROVE  LET ids == [i \in 1 .. got - 1 |-> called + i] IN
         \/ Finish(log, steering, followUps)
         \/ \E stop \in {"aborted", "error"} :
              Finish(Append(log, Recorded(got, stop)), steering, followUps)
         \/ /\ how \notin {"failed", "busy", "refused"}
            /\ \/ ids = << >> /\ Stop(Append(log, Recorded(got, "stop")))
               \/ /\ ids # << >>
                  /\ Dispatch(Append(log, Recorded(got, "stop")), ids,
                              SubSeq(stream.answer, 1, got - 1))
PROOF
<1> DEFINE ids == [i \in 1 .. got - 1 |-> called + i]
           l(stop) == Append(log, Recorded(got, stop))
<1>1. CASE how = "failed"
  <2>1. Finish(IF got = 0 THEN log ELSE l(IF abort THEN "aborted" ELSE "error"), steering, followUps)
    BY <1>1 DEF Settle, Recorded
  <2>2. CASE got = 0
    BY <2>1, <2>2
  <2>3. CASE got # 0 /\ abort
    <3>1. Finish(l("aborted"), steering, followUps)
      BY <2>1, <2>3
    <3> QED
      BY <3>1
  <2>4. CASE got # 0 /\ ~abort
    <3>1. Finish(l("error"), steering, followUps)
      BY <2>1, <2>4
    <3> QED
      BY <3>1
  <2> QED
    BY <2>2, <2>3, <2>4
<1>2. CASE how \in {"busy", "refused"}
  <2>1. Finish(IF SavesPartial THEN log ELSE l("error"), steering, followUps)
    BY <1>2 DEF Settle, Recorded
  <2>2. CASE SavesPartial
    BY <2>1, <2>2
  <2>3. CASE ~SavesPartial
    <3>1. Finish(l("error"), steering, followUps)
      BY <2>1, <2>3
    <3> QED
      BY <3>1
  <2> QED
    BY <2>2, <2>3
<1>3. CASE how \notin {"failed", "busy", "refused"}
  <2>1. CASE how = "ok" /\ stream.answer \in BadAnswers /\ got = Chunks(stream.answer)
    <3>1. Finish(l("error"), steering, followUps)
      BY <1>3, <2>1 DEF Settle, Recorded
    <3> QED
      BY <3>1
  <2>2. CASE ~(how = "ok" /\ stream.answer \in BadAnswers /\ got = Chunks(stream.answer))
    <3>1. IF ids = << >> THEN Stop(l("stop"))
          ELSE Dispatch(l("stop"), ids, SubSeq(stream.answer, 1, got - 1))
      BY <1>3, <2>2 DEF Settle, Recorded
    <3> QED
      BY <1>3, <3>1
  <2> QED
    BY <2>1, <2>2
<1> QED
  BY <1>1, <1>2, <1>3

\* How much of an answer was read, and how many calls that makes.
GotOK(got) ==
  /\ got \in Nat /\ got <= Chunks(stream.answer)
  /\ called' = called + (IF got = 0 THEN 0 ELSE got - 1)

LEMMA RecordedAppended ==
  ASSUME called \in Nat, LogIs(log, called), NEW got, GotOK(got),
         NEW stop \in {"stop", "aborted", "error"}
  PROVE  LET l == Append(log, Recorded(got, stop))
         IN  /\ LogIs(l, called') /\ Len(l) = Len(log) + 1 /\ Len(log) \in Nat
             /\ l[Len(l)] = Recorded(got, stop) /\ l # << >>
PROOF
<1> DEFINE x == Recorded(got, stop)
           l == Append(log, x)
<1>1. /\ called' \in Nat /\ called <= called' /\ x \in MessagesOver(called')
      /\ x.role = "assistant" /\ \A a \in 1 .. Len(x.calls) : x.calls[a] = called + a
  BY RecordedIs, ZenonT(90) DEF GotOK
<1> HIDE DEF x
<1>2. LogIs(l, called')
  BY <1>1, AnswerIn
<1>3. log \in Seq(MessagesOver(called'))
  BY <1>1, MessagesMore DEF LogIs
<1>4. Len(l) = Len(log) + 1 /\ Len(log) \in Nat /\ l[Len(log) + 1] = x
  BY <1>1, <1>3
<1>5. l # << >>
  <2>1. Len(l) # 0
    BY <1>4
  <2> HIDE DEF l
  <2> QED
    BY <2>1
<1> QED
  BY <1>2, <1>4, <1>5 DEF x

LEMMA SettleKeeps ==
  ASSUME TurnInv, Frame, NEW how, NEW got, GotOK(got),
         steering \in Seq(1 .. items'), followUps \in Seq(1 .. items'), Settle(how, got)
  PROVE  TurnInv'
PROOF
<1> DEFINE ids == [i \in 1 .. got - 1 |-> called + i]
           l(stop) == Append(log, Recorded(got, stop))
<1>1. called \in Nat /\ LogIs(log, called) /\ stream \in Streams
  BY DEF TurnInv, CountsOK, StreamOK
<1>2. \A stop \in {"stop", "aborted", "error"} :
        /\ LogIs(l(stop), called') /\ Len(l(stop)) = Len(log) + 1 /\ Len(log) \in Nat
        /\ l(stop)[Len(l(stop))] = Recorded(got, stop) /\ l(stop) # << >>
  BY <1>1, RecordedAppended
<1>3. CASE Finish(log, steering, followUps)
  <2>1. called <= called' /\ called' \in Nat
    BY <1>1 DEF GotOK
  <2>2. got = 0 \/ got # 0
    OBVIOUS
  <2>3. LogIs(log, called')
    <3>1. MessagesOver(called) \subseteq MessagesOver(called')
      BY <1>1, <2>1, MessagesMore
    <3>2. log \in Seq(MessagesOver(called'))
      BY <1>1, <3>1 DEF LogIs
    <3> QED
      BY <1>1, <3>2 DEF LogIs
  <2> QED
    BY <1>3, <2>3, FinishKeeps
<1>4. CASE \E stop \in {"aborted", "error"} : Finish(l(stop), steering, followUps)
  <2>1. PICK stop \in {"aborted", "error"} : Finish(l(stop), steering, followUps)
    BY <1>4
  <2>2. LogIs(l(stop), called')
    BY <1>2
  <2> HIDE DEF l
  <2> QED
    BY <2>1, <2>2, FinishKeeps
<1>5. CASE Stop(l("stop"))
  <2>1. LogIs(l("stop"), called')
    BY <1>2
  <2> HIDE DEF l
  <2> QED
    BY <1>5, <2>1, StopKeeps
<1>6. CASE ids # << >> /\ Dispatch(l("stop"), ids, SubSeq(stream.answer, 1, got - 1))
  <2> DEFINE x == Recorded(got, "stop")
             n == got - 1
             modes == SubSeq(stream.answer, 1, n)
  <2>1. /\ x.role = "assistant" /\ x.stop = "stop" /\ x.calls = ids
        /\ Len(ids) = (IF got = 0 THEN 0 ELSE got - 1)
    <3>1. got \in Nat
      BY DEF GotOK
    <3>2. "stop" \in {"stop", "aborted", "error"}
      OBVIOUS
    <3>3. /\ x.role = "assistant" /\ x.stop = "stop"
          /\ x.calls = [i \in 1 .. got - 1 |-> called + i]
          /\ Len(x.calls) = (IF got = 0 THEN 0 ELSE got - 1)
      BY ONLY <1>1, <3>1, <3>2, RecordedIs, ZenonT(60)
    <3> HIDE DEF x
    <3> QED
      BY <3>3
  <2> HIDE DEF x
  <2>2. Len(ids) >= 1 /\ Len(ids) = n /\ n \in Nat
    <3>1. got \in Nat
      BY DEF GotOK
    <3>2. n >= 1
      <4>1. CASE n < 1
        <5>1. 1 .. n = {}
          BY <3>1, <4>1
        <5>2. ids = << >>
          BY <5>1
        <5> QED
          BY <1>6, <5>2
      <4> QED
        BY <3>1, <4>1
    <3> HIDE DEF ids
    <3> QED
      BY <2>1, <3>1, <3>2
  <2>3. modes \in Seq(Modes) /\ Len(modes) = n
    <3>1. stream.answer \in Seq(Modes)
      <4>1. stream.answer \in Answers \cup {<< >>}
        BY <1>1 DEF Streams
      <4>2. << >> \in Seq(Modes)
        OBVIOUS
      <4> QED
        BY <4>1, <4>2, AnswersAssumption
    <3>2. Len(stream.answer) \in Nat /\ n <= Len(stream.answer)
      <4>1. Len(stream.answer) \in Nat /\ got <= 1 + Len(stream.answer) /\ got \in Nat
        BY <3>1 DEF GotOK, Chunks
      <4> QED
        BY <4>1
    <3> DEFINE answer == stream.answer
    <3>3. \A i \in 1 .. n : answer[i] \in Modes
      BY <2>2, <3>1, <3>2
    <3> HIDE DEF answer
    <3>4. answer \in Seq(Modes) /\ n <= Len(answer) /\ Len(answer) \in Nat
      BY <3>1, <3>2 DEF answer
    <3> HIDE DEF n
    <3>5. SubSeq(answer, 1, n) \in Seq(Modes) /\ Len(SubSeq(answer, 1, n)) = n
      BY <2>2, <3>3, <3>4
    <3> QED
      BY <3>5 DEF answer
  <2> DEFINE m == l("stop")
  <2>4. LogIs(m, called') /\ m[Len(m)] = x /\ m # << >>
    BY <1>2 DEF x
  <2>5. Dispatch(m, ids, modes)
    BY <1>6
  <2> HIDE DEF ids, modes, l, n, m
  <2>6. Complete(m[Len(m)]) /\ ids = m[Len(m)].calls
    BY <2>1, <2>4 DEF Complete
  <2>7. Len(modes) = Len(ids)
    BY <2>2, <2>3
  <2> QED
    BY <2>2, <2>3, <2>4, <2>5, <2>6, <2>7, DispatchKeeps
<1> QED
  BY <1>3, <1>4, <1>5, <1>6, SettleIs

LEMMA StreamFields ==
  ASSUME StreamOK
  PROVE  /\ stream.got \in Nat /\ stream.sent \in Nat /\ stream.answer \in Answers \cup {<< >>}
         /\ Chunks(stream.answer) \in Nat /\ Len(stream.answer) \in Nat
PROOF
<1>1. stream \in Streams
  BY DEF StreamOK
<1>2. stream.got \in Nat /\ stream.sent \in Nat /\ stream.answer \in Answers \cup {<< >>}
  BY <1>1 DEF Streams
<1>3. << >> \in Seq(Modes)
  OBVIOUS
<1>4. stream.answer \in Seq(Modes)
  BY <1>2, <1>3, AnswersAssumption
<1>5. Len(stream.answer) \in Nat
  BY <1>4
<1> QED
  BY <1>2, <1>5 DEF Chunks

LEMMA ReceiveKeeps == ASSUME TurnInv, Receive PROVE TurnInv'
PROOF
<1>1. /\ LogIs(log, called) /\ StreamOK /\ ToolsOK /\ QueuesOK /\ CountsOK
      /\ stream \in Streams /\ stream.got \in Nat /\ stream.sent \in Nat
      /\ stream.got <= stream.sent /\ stream.sent <= Chunks(stream.answer)
  BY StreamFields DEF TurnInv, StreamOK
<1>2. UNCHANGED <<abort, items, withdrawn>>
  BY DEF Receive
<1>3. CASE stream' = [stream EXCEPT !.got = stream.sent]
           /\ UNCHANGED <<log, steering, followUps, turn, attempt, tools, requests, called>>
  <2>1. /\ stream' \in Streams /\ stream'.got = stream.sent /\ stream'.sent = stream.sent
        /\ stream'.status = stream.status /\ stream'.answer = stream.answer
    BY <1>1, <1>3 DEF Streams
  <2>2. StreamOK'
    BY <1>1, <1>3, <2>1 DEF StreamOK
  <2>3. ToolsOK' /\ QueuesOK' /\ CountsOK' /\ LogIs(log, called)'
    BY <1>1, <1>2, <1>3 DEF ToolsOK, QueuesOK, CountsOK
  <2> QED
    BY <2>2, <2>3 DEF TurnInv
<1>4. ASSUME NEW how \in Ends, Conclude(how, stream.sent) PROVE TurnInv'
  <2>1. CASE Retries(how, stream.sent)
    <3>1. /\ turn' = "backoff" /\ attempt' = attempt + 1
          /\ stream' = [stream EXCEPT !.status = how, !.got = 0]
          /\ UNCHANGED <<log, steering, followUps, tools, requests, called>>
      BY <1>4, <2>1 DEF Conclude
    <3>2. how \in {"failed", "busy"} /\ attempt < MaxRetries
      BY <2>1 DEF Retries
    <3>3. /\ stream' \in Streams /\ stream'.got = 0 /\ stream'.sent = stream.sent
          /\ stream'.status = how /\ stream'.answer = stream.answer
      BY <1>1, <3>1, <3>2 DEF Streams
    <3>4. StreamOK'
      BY <1>1, <3>1, <3>2, <3>3 DEF StreamOK
    <3>5. attempt' \in 0 .. MaxRetries
      BY <1>1, <3>1, <3>2, BoundsAssumption DEF CountsOK
    <3>6. CountsOK'
      BY <1>1, <1>2, <3>1, <3>5 DEF CountsOK
    <3>7. ToolsOK' /\ QueuesOK' /\ LogIs(log, called)'
      BY <1>1, <1>2, <3>1 DEF ToolsOK, QueuesOK
    <3> QED
      BY <3>4, <3>6, <3>7 DEF TurnInv
  <2>2. CASE ~Retries(how, stream.sent)
    <3>1. /\ Settle(how, stream.sent)
          /\ called' = called + (IF stream.sent = 0 THEN 0 ELSE stream.sent - 1)
      BY <1>4, <2>2 DEF Conclude
    <3>2. GotOK(stream.sent)
      BY <1>1, <3>1 DEF GotOK
    <3>3. called' \in Nat
      BY <1>1, <3>1 DEF CountsOK
    <3>4. Frame
      BY <1>1, <1>2, <3>3 DEF Frame, CountsOK, QueuesOK
    <3>5. steering \in Seq(1 .. items') /\ followUps \in Seq(1 .. items')
      BY <1>1, <1>2 DEF QueuesOK
    <3> QED
      BY <3>1, <3>2, <3>4, <3>5, SettleKeeps
  <2> QED
    BY <2>1, <2>2
<1> QED
  BY <1>3, <1>4 DEF Receive

\* What the parts of a slice need when the action changes no count.
LEMMA SameFrame ==
  ASSUME TurnInv, UNCHANGED <<abort, items, called, withdrawn>>
  PROVE  Frame /\ steering \in Seq(1 .. items') /\ followUps \in Seq(1 .. items')
         /\ called' = called /\ LogIs(log, called')
PROOF
<1>1. LogIs(log, called) /\ QueuesOK /\ CountsOK
  BY DEF TurnInv
<1> QED
  BY <1>1 DEF QueuesOK, CountsOK, Frame

LEMMA BackoffKeeps == ASSUME TurnInv, Backoff PROVE TurnInv'
PROOF
<1>1. /\ Frame /\ steering \in Seq(1 .. items') /\ followUps \in Seq(1 .. items')
      /\ called' = called /\ LogIs(log, called')
  BY SameFrame DEF Backoff
<1>2. LogIs(log, called) /\ StreamOK /\ ToolsOK /\ QueuesOK /\ CountsOK
  BY DEF TurnInv
<1>3. CASE Settle(stream.status, 0)
  <2>1. Chunks(stream.answer) \in Nat
    BY <1>2, StreamFields
  <2>2. GotOK(0)
    BY <1>1, <1>2, <2>1 DEF GotOK, CountsOK
  <2> QED
    BY <1>1, <1>3, <2>2, SettleKeeps
<1>4. CASE Finish(log, steering, followUps)
  BY <1>1, <1>4, FinishKeeps
<1>5. CASE Open /\ UNCHANGED <<log, steering, followUps, attempt>>
  <2>1. StreamOK' /\ ToolsOK' /\ turn' = "stream" /\ requests' \in 0 .. MaxRequests
    BY <1>1, <1>5, OpenKeeps
  <2>2. UNCHANGED <<abort, items, called, withdrawn>>
    BY DEF Backoff
  <2>3. QueuesOK' /\ CountsOK' /\ LogIs(log, called)'
    BY <1>1, <1>2, <1>5, <2>1, <2>2 DEF QueuesOK, CountsOK
  <2> QED
    BY <2>1, <2>3 DEF TurnInv
<1> QED
  BY <1>3, <1>4, <1>5 DEF Backoff

LEMMA BatchIs ==
  ASSUME NEW modes \in Seq(Modes), NEW k \in 1 .. Len(modes)
  PROVE  Batch(modes, k) \subseteq 1 .. Len(modes) /\ Cardinality(Batch(modes, k)) \in Nat
PROOF
<1>1. Batch(modes, k) \subseteq 1 .. Len(modes)
  BY DEF Batch
<1>2. IsFiniteSet(1 .. Len(modes))
  BY FS_Interval
<1> QED
  BY <1>1, <1>2, FS_Subset, FS_CardinalityType

LEMMA ResultsKeep ==
  ASSUME TurnInv, turn = "tools", Frame, called' = called,
         steering \in Seq(1 .. items'), followUps \in Seq(1 .. items'), NEW ends, Results(ends)
  PROVE  TurnInv'
PROOF
<1> DEFINE u == StandInsOf(tools.calls)
           l == log \o u
<1>1. /\ LogIs(log, called) /\ called \in Nat /\ tools.calls \in Seq(1 .. called)
      /\ Quiet => /\ log # << >> /\ Complete(log[Len(log)]) /\ log[Len(log)].calls = tools.calls
  BY DEF TurnInv, ToolsOK, CountsOK
<1>2. u \in Seq(MessagesOver(called)) /\ StandFor(u, tools.calls)
  BY <1>1, StandIns
<1>3. \/ Stop(l)
      \/ LoopTop(abort, l, steering, followUps)
  BY DEF Results, StandInsOf
<1> HIDE DEF u
<1>4. LogIs(l, called)
  <2>1. /\ Len(u) = Len(tools.calls)
        /\ \A j \in 1 .. Len(u) : /\ u[j].role = "result" /\ u[j].calls = << >>
                                  /\ u[j].ref = tools.calls[j]
    BY <1>2 DEF StandFor
  <2> QED
    BY <1>1, <1>2, <2>1, ResultsIn, SMTT(60)
<1> HIDE DEF l
<1> QED
  BY <1>1, <1>3, <1>4, StopKeeps, LoopTopKeeps

LEMMA ToolKeeps ==
  ASSUME TurnInv, NEW i \in DOMAIN tools.calls, FinishTool(i) PROVE TurnInv'
PROOF
<1>1. /\ LogIs(log, called) /\ StreamOK /\ ToolsOK /\ QueuesOK /\ CountsOK
      /\ tools \in Dispatches /\ Len(tools.modes) = Len(tools.calls)
      /\ tools.running \subseteq 1 .. Len(tools.calls)
      /\ tools.ends \subseteq 1 .. Len(tools.calls)
  BY DEF TurnInv, ToolsOK
<1>2. /\ tools.calls \in Seq(Nat) /\ tools.modes \in Seq(Modes) /\ tools.cursor \in Nat
      /\ DOMAIN tools.calls = 1 .. Len(tools.calls) /\ Len(tools.calls) \in Nat
  BY <1>1 DEF Dispatches
<1> DEFINE running == tools.running \ {i}
           batch   == Batch(tools.modes, tools.cursor)
           next    == tools.cursor + Cardinality(batch)
           Goes(cursor, run, ends) ==
             /\ tools' = [tools EXCEPT !.cursor = cursor, !.running = run, !.ends = ends]
             /\ UNCHANGED <<log, steering, followUps, turn, attempt, stream, requests>>
<1>3. PICK ends \in {tools.ends, tools.ends \cup {i}} :
        /\ turn = "tools" /\ i \in tools.running
        /\ IF running # {}
           THEN /\ tools' = [tools EXCEPT !.running = running, !.ends = ends]
                /\ UNCHANGED <<log, steering, followUps, turn, attempt, stream, requests>>
           ELSE IF ~Continues(batch, next)
           THEN Finish(log, steering, followUps)
           ELSE IF next > Len(tools.calls)
           THEN Results(ends)
           ELSE /\ tools' = [tools EXCEPT !.cursor = next, !.ends = ends,
                                          !.running = Batch(tools.modes, next)]
                /\ UNCHANGED <<log, steering, followUps, turn, attempt, stream, requests>>
        /\ UNCHANGED <<abort, items, called, withdrawn>>
  BY DEF FinishTool
<1>4. /\ Frame /\ steering \in Seq(1 .. items') /\ followUps \in Seq(1 .. items')
      /\ called' = called /\ LogIs(log, called')
  BY <1>3, SameFrame
<1>5. ends \subseteq 1 .. Len(tools.calls) /\ running \subseteq 1 .. Len(tools.calls)
  BY <1>1, <1>2
<1>6. tools.cursor >= 1
  BY <1>1, <1>3 DEF ToolsOK
<1>7. ASSUME NEW cursor \in Nat, cursor >= 1, NEW run \in SUBSET (1 .. Len(tools.calls)),
             tools' = [tools EXCEPT !.cursor = cursor, !.running = run, !.ends = ends],
             UNCHANGED <<log, steering, followUps, turn, attempt, stream, requests>>
      PROVE  TurnInv'
  <2>1. run \in SUBSET Nat /\ ends \in SUBSET Nat
    BY <1>2, <1>5
  <2>2. /\ tools' \in Dispatches /\ tools'.calls = tools.calls /\ tools'.modes = tools.modes
        /\ tools'.cursor = cursor /\ tools'.running = run /\ tools'.ends = ends
    BY <1>1, <1>7, <2>1 DEF Dispatches
  <2>3. ToolsOK'
    <3>1. /\ tools' \in Dispatches /\ Len(tools'.modes) = Len(tools'.calls)
          /\ tools'.running \subseteq 1 .. Len(tools'.calls)
          /\ tools'.ends \subseteq 1 .. Len(tools'.calls)
      BY <1>1, <1>5, <1>7, <2>2
    <3>2. /\ tools.calls \in Seq(1 .. called)
          /\ Quiet => /\ log # << >> /\ Complete(log[Len(log)])
                      /\ log[Len(log)].calls = tools.calls
      BY <1>1, <1>3 DEF ToolsOK
    <3>3. tools'.cursor >= 1 /\ tools'.calls \in Seq(1 .. called')
      BY <1>3, <1>7, <2>2, <3>2
    <3>4. Quiet => /\ log' # << >> /\ Complete(log'[Len(log')])
                   /\ log'[Len(log')].calls = tools'.calls
      BY <1>7, <2>2, <3>2
    <3> QED
      BY <3>1, <3>3, <3>4 DEF ToolsOK
  <2>4. StreamOK' /\ QueuesOK' /\ CountsOK' /\ LogIs(log, called)'
    BY <1>1, <1>3, <1>7 DEF StreamOK, QueuesOK, CountsOK
  <2> QED
    BY <2>3, <2>4 DEF TurnInv
<1>8. CASE running # {}
  <2>1. tools' = [tools EXCEPT !.running = running, !.ends = ends]
    BY <1>3, <1>8
  <2>2. tools' = [tools EXCEPT !.cursor = tools.cursor, !.running = running, !.ends = ends]
    BY <1>1, <2>1 DEF Dispatches
  <2>3. UNCHANGED <<log, steering, followUps, turn, attempt, stream, requests>>
    BY <1>3, <1>8
  <2> QED
    BY <1>2, <1>5, <1>6, <1>7, <2>2, <2>3
<1>9. CASE running = {} /\ ~Continues(batch, next)
  BY <1>3, <1>4, <1>9, FinishKeeps
<1>10. CASE running = {} /\ Continues(batch, next) /\ next > Len(tools.calls)
  BY <1>3, <1>4, <1>10, ResultsKeep
<1>11. CASE running = {} /\ Continues(batch, next) /\ ~(next > Len(tools.calls))
  <2>1. /\ tools' = [tools EXCEPT !.cursor = next, !.ends = ends,
                                  !.running = Batch(tools.modes, next)]
        /\ UNCHANGED <<log, steering, followUps, turn, attempt, stream, requests>>
    BY <1>3, <1>11
  <2>2. Cardinality(batch) \in Nat
    <3>1. CASE tools.cursor <= Len(tools.calls)
      <4>1. tools.cursor \in 1 .. Len(tools.modes)
        BY <1>1, <1>2, <1>6, <3>1
      <4> QED
        BY <1>2, <4>1, BatchIs
    <3>2. CASE ~(tools.cursor <= Len(tools.calls))
      <4>1. IsFiniteSet(batch)
        <5>1. CASE tools.modes[tools.cursor] = "sequential"
          BY <5>1, FS_Singleton DEF Batch
        <5>2. CASE tools.modes[tools.cursor] # "sequential"
          <6>1. tools.cursor .. Len(tools.modes) = {}
            BY <1>1, <1>2, <3>2
          <6>2. batch = {}
            BY <5>2, <6>1 DEF Batch
          <6> QED
            BY <6>2, FS_EmptySet
        <5> QED
          BY <5>1, <5>2
      <4> QED
        BY <4>1, FS_CardinalityType
    <3> QED
      BY <3>1, <3>2
  <2>3. next \in Nat /\ next >= 1 /\ next \in 1 .. Len(tools.modes)
    <3> DEFINE d == Cardinality(batch)
    <3>1. d \in Nat /\ next = tools.cursor + d
      BY <2>2
    <3> HIDE DEF d
    <3> QED
      BY <1>1, <1>2, <1>6, <1>11, <3>1, SMTT(60)
  <2> HIDE DEF next
  <2>4. Batch(tools.modes, next) \in SUBSET (1 .. Len(tools.calls))
    BY <1>1, <1>2, <2>3, BatchIs
  <2>5. tools' = [tools EXCEPT !.cursor = next, !.running = Batch(tools.modes, next), !.ends = ends]
    BY <1>1, <2>1 DEF Dispatches
  <2> QED
    BY <1>7, <2>1, <2>3, <2>4, <2>5
<1> QED
  BY <1>8, <1>9, <1>10, <1>11

LEMMA MoreItems ==
  ASSUME NEW n \in Nat, NEW m \in Nat, n <= m
  PROVE  1 .. n \subseteq 1 .. m /\ Seq(1 .. n) \subseteq Seq(1 .. m)
PROOF
<1>1. 1 .. n \subseteq 1 .. m
  OBVIOUS
<1> QED
  BY <1>1

LEMMA InSeqs ==
  ASSUME NEW S, NEW q \in Seq(S) PROVE ToSet(q) \subseteq S
PROOF
<1>1. DOMAIN q = 1 .. Len(q) /\ \A i \in 1 .. Len(q) : q[i] \in S
  OBVIOUS
<1> QED
  BY <1>1 DEF ToSet

LEMMA PromptKeeps == ASSUME TurnInv, Prompt PROVE TurnInv'
PROOF
<1>1. LogIs(log, called) /\ QueuesOK /\ CountsOK
  BY DEF TurnInv
<1>2. /\ items' = items + 1 /\ items' \in 0 .. MaxItems /\ items \in Nat
      /\ 1 .. items \subseteq 1 .. items'
  BY <1>1, BoundsAssumption DEF Prompt, QueuesOK
<1>3. Seq(1 .. items) \subseteq Seq(1 .. items')
  BY <1>2
<1>4. abort' = FALSE /\ UNCHANGED <<called, withdrawn>>
  BY DEF Prompt
<1>5. Frame /\ steering \in Seq(1 .. items') /\ followUps \in Seq(1 .. items')
  BY <1>1, <1>2, <1>3, <1>4 DEF Frame, QueuesOK, CountsOK
<1>6. LogIs(Append(log, FromUser("prompt", items')), called')
  <2>1. "prompt" \in Users /\ items' \in Nat /\ called \in Nat
    BY <1>1, <1>2 DEF Users, CountsOK
  <2> QED
    BY <1>1, <1>4, <2>1, UserAppended
<1>7. LoopTop(FALSE, Append(log, FromUser("prompt", items')), steering, followUps)
  BY DEF Prompt
<1> QED
  BY <1>5, <1>6, <1>7, LoopTopKeeps

LEMMA TransferKeeps == ASSUME TurnInv, Transfer PROVE TurnInv'
PROOF
<1>1. /\ LogIs(log, called) /\ StreamOK /\ ToolsOK /\ QueuesOK /\ CountsOK
      /\ stream \in Streams /\ stream.got \in Nat /\ stream.sent \in Nat
      /\ Chunks(stream.answer) \in Nat
      /\ stream.got <= stream.sent /\ stream.sent <= Chunks(stream.answer)
  BY StreamFields DEF TurnInv, StreamOK
<1>2. UNCHANGED <<log, abort, turn, attempt, tools, steering, followUps, withdrawn,
                  items, called, requests>> /\ stream.status = "open"
  BY DEF Transfer, queues, counters
<1>3. ToolsOK' /\ QueuesOK' /\ CountsOK' /\ LogIs(log, called)'
  BY <1>1, <1>2 DEF ToolsOK, QueuesOK, CountsOK
<1>4. CASE stream.sent < Chunks(stream.answer) /\ stream' = [stream EXCEPT !.sent = @ + 1]
  <2>1. stream.sent + 1 \in Nat
    BY <1>1
  <2>2. /\ stream' \in Streams /\ stream'.got = stream.got /\ stream'.sent = stream.sent + 1
        /\ stream'.status = stream.status /\ stream'.answer = stream.answer
    BY <1>1, <1>4, <2>1 DEF Streams
  <2>3. stream.sent + 1 <= Chunks(stream.answer) /\ stream.got <= stream.sent + 1
    <3> DEFINE ch == Chunks(stream.answer)
    <3>1. ch \in Nat /\ stream.sent < ch
      BY <1>1, <1>4
    <3> HIDE DEF ch
    <3>2. stream.sent + 1 <= ch /\ stream.got <= stream.sent + 1
      BY <1>1, <3>1
    <3> QED
      BY <3>2 DEF ch
  <2>4. StreamOK'
    BY <1>2, <2>2, <2>3 DEF StreamOK
  <2> QED
    BY <1>3, <2>4 DEF TurnInv
<1>5. ASSUME NEW how \in {"ok", "busy", "refused", "failed"},
             how = "ok" => stream.sent = Chunks(stream.answer),
             stream' = [stream EXCEPT !.status = how]
      PROVE  TurnInv'
  <2>1. /\ stream' \in Streams /\ stream'.got = stream.got /\ stream'.sent = stream.sent
        /\ stream'.status = how /\ stream'.answer = stream.answer
    BY <1>1, <1>5 DEF Streams
  <2>2. StreamOK'
    BY <1>1, <1>5, <2>1 DEF StreamOK
  <2> QED
    BY <1>3, <2>2 DEF TurnInv
<1>6. CASE stream.sent = Chunks(stream.answer) /\ stream' = [stream EXCEPT !.status = "ok"]
  BY <1>5, <1>6
<1>7. CASE stream.sent = 0 /\ \E how \in {"busy", "refused"} :
                                stream' = [stream EXCEPT !.status = how]
  BY <1>5, <1>7
<1>8. CASE stream' = [stream EXCEPT !.status = "failed"]
  BY <1>5, <1>8
<1> QED
  BY <1>4, <1>6, <1>7, <1>8 DEF Transfer

LEMMA QueueKeeps == ASSUME TurnInv, Queue PROVE TurnInv'
PROOF
<1>1. LogIs(log, called) /\ StreamOK /\ ToolsOK /\ QueuesOK /\ CountsOK
  BY DEF TurnInv
<1>2. UNCHANGED <<log, abort, turn, attempt, stream, tools, called, requests, withdrawn>>
  BY DEF Queue
<1>3. /\ items' = items + 1 /\ items' \in 0 .. MaxItems /\ items' \in 1 .. items'
      /\ 1 .. items \subseteq 1 .. items'
  BY <1>1, BoundsAssumption DEF Queue, QueuesOK
<1>4. Seq(1 .. items) \subseteq Seq(1 .. items')
  <2>1. items \in Nat /\ items' \in Nat /\ items <= items'
    BY <1>1, <1>3 DEF QueuesOK
  <2> QED
    BY <2>1, MoreItems
<1>5. steering \in Seq(1 .. items') /\ followUps \in Seq(1 .. items') /\ withdrawn \subseteq 1 .. items'
  BY <1>1, <1>3, <1>4 DEF QueuesOK
<1>6. steering' \in Seq(1 .. items') /\ followUps' \in Seq(1 .. items')
  <2>1. \A q \in Seq(1 .. items') : Append(q, items') \in Seq(1 .. items')
    BY <1>3
  <2> QED
    BY <1>5, <2>1 DEF Queue
<1>7. QueuesOK'
  BY <1>2, <1>3, <1>5, <1>6 DEF QueuesOK
<1>8. StreamOK' /\ ToolsOK' /\ CountsOK' /\ LogIs(log, called)'
  BY <1>1, <1>2 DEF StreamOK, ToolsOK, CountsOK
<1> QED
  BY <1>7, <1>8 DEF TurnInv

LEMMA Removed ==
  ASSUME NEW S, NEW q \in Seq(S), NEW i \in DOMAIN q
  PROVE  RemoveAt(q, i) \in Seq(S) /\ q[i] \in S
PROOF
<1>1. Len(q) \in Nat /\ i \in 1 .. Len(q) /\ \A j \in 1 .. Len(q) : q[j] \in S
  OBVIOUS
<1>2. SubSeq(q, 1, i - 1) \in Seq(S)
  BY <1>1, SubSeqProperties
<1>3. SubSeq(q, i + 1, Len(q)) \in Seq(S)
  BY <1>1, SubSeqProperties
<1> QED
  BY <1>1, <1>2, <1>3 DEF RemoveAt

LEMMA QueuesOnly ==
  ASSUME TurnInv, steering' \in Seq(1 .. items), followUps' \in Seq(1 .. items),
         withdrawn' \subseteq 1 .. items, abort' \in BOOLEAN,
         UNCHANGED <<log, turn, attempt, stream, tools, items, called, requests>>
  PROVE  TurnInv'
PROOF
<1>1. LogIs(log, called) /\ StreamOK /\ ToolsOK /\ QueuesOK /\ CountsOK
  BY DEF TurnInv
<1>2. StreamOK' /\ ToolsOK' /\ QueuesOK' /\ CountsOK' /\ LogIs(log, called)'
  BY <1>1, SMTT(60) DEF StreamOK, ToolsOK, QueuesOK, CountsOK
<1> QED
  BY <1>2 DEF TurnInv

LEMMA WithdrawKeeps == ASSUME TurnInv, Withdraw PROVE TurnInv'
PROOF
<1>1. /\ steering \in Seq(1 .. items) /\ followUps \in Seq(1 .. items)
      /\ withdrawn \subseteq 1 .. items /\ abort \in BOOLEAN
  BY DEF TurnInv, QueuesOK, CountsOK
<1>2. UNCHANGED <<log, abort, turn, attempt, stream, tools, items, called, requests>>
  BY DEF Withdraw, counters
<1>3. /\ steering' \in Seq(1 .. items) /\ followUps' \in Seq(1 .. items)
      /\ withdrawn' \subseteq 1 .. items
  <2>1. CASE \E i \in DOMAIN steering :
               /\ steering' = RemoveAt(steering, i)
               /\ withdrawn' = withdrawn \cup {steering[i]}
               /\ UNCHANGED followUps
    BY <1>1, <2>1, Removed
  <2>2. CASE \E i \in DOMAIN followUps :
               /\ followUps' = RemoveAt(followUps, i)
               /\ withdrawn' = withdrawn \cup {followUps[i]}
               /\ UNCHANGED steering
    BY <1>1, <2>2, Removed
  <2> QED
    BY <2>1, <2>2 DEF Withdraw
<1> QED
  BY <1>1, <1>2, <1>3, QueuesOnly

LEMMA AbortKeeps == ASSUME TurnInv, Abort PROVE TurnInv'
PROOF
<1>1. /\ steering \in Seq(1 .. items) /\ followUps \in Seq(1 .. items)
      /\ withdrawn \subseteq 1 .. items
  BY DEF TurnInv, QueuesOK
<1>2. UNCHANGED <<log, turn, attempt, stream, tools, items, called, requests>>
  BY DEF Abort, counters
<1>3. ToSet(steering) \subseteq 1 .. items /\ ToSet(followUps) \subseteq 1 .. items
  BY <1>1, InSeqs
<1>4. << >> \in Seq(1 .. items) /\ TRUE \in BOOLEAN
  OBVIOUS
<1>5. /\ steering' \in Seq(1 .. items) /\ followUps' \in Seq(1 .. items)
      /\ withdrawn' \subseteq 1 .. items /\ abort' \in BOOLEAN
  BY <1>1, <1>3, <1>4 DEF Abort
<1> QED
  BY <1>2, <1>5, QueuesOnly

LEMMA InjectKeeps == ASSUME TurnInv, Inject PROVE TurnInv'
PROOF
<1>1. LogIs(log, called) /\ StreamOK /\ ToolsOK /\ QueuesOK /\ CountsOK
  BY DEF TurnInv
<1>2. /\ UNCHANGED <<abort, turn, attempt, stream, tools, called, requests, steering, followUps, withdrawn>>
      /\ Quiet => turn # "tools"
  BY DEF Inject, queues, Quiet
<1>3. /\ items' = items + 1 /\ items' \in 0 .. MaxItems /\ items' \in Nat
      /\ 1 .. items \subseteq 1 .. items'
  BY <1>1, BoundsAssumption DEF Inject, QueuesOK
<1>4. Seq(1 .. items) \subseteq Seq(1 .. items')
  <2>1. items \in Nat /\ items' \in Nat /\ items <= items'
    BY <1>1, <1>3 DEF QueuesOK
  <2> QED
    BY <2>1, MoreItems
<1>5. QueuesOK'
  BY <1>1, <1>2, <1>3, <1>4 DEF QueuesOK
<1>6. LogIs(log, called)'
  <2>1. "injected" \in Users /\ called \in Nat
    BY <1>1 DEF Users, CountsOK
  <2>2. LogIs(Append(log, FromUser("injected", items')), called)
    BY <1>1, <1>3, <2>1, UserAppended
  <2> QED
    BY <1>2, <2>2 DEF Inject
<1>7. StreamOK' /\ CountsOK'
  BY <1>1, <1>2 DEF StreamOK, CountsOK
<1>8. ToolsOK'
  BY <1>1, <1>2 DEF ToolsOK
<1> QED
  BY <1>5, <1>6, <1>7, <1>8 DEF TurnInv

LEMMA TurnStarts == TurnInit => TurnInv
PROOF
<1> SUFFICES ASSUME TurnInit PROVE TurnInv
  OBVIOUS
<1>1. << >> \in Seq(MessagesOver(0)) /\ Len(<< >>) = 0 /\ << >> \in Seq(1 .. 0)
  OBVIOUS
<1>2. \A i \in 1 .. 0 : FALSE
  OBVIOUS
<1>3. LogIs(<< >>, 0)
  BY <1>1, <1>2 DEF LogIs, Grouped, CallsOnce
<1>4. StreamOK /\ ToolsOK
  BY NothingYet DEF TurnInit, StreamOK, ToolsOK
<1>5. QueuesOK /\ CountsOK
  <2>1. 0 \in 0 .. MaxItems /\ 0 \in 0 .. MaxRequests /\ 0 \in 0 .. MaxRetries
    BY BoundsAssumption
  <2>2. FALSE \in BOOLEAN /\ {} \subseteq 1 .. 0 /\ 0 \in Nat
    OBVIOUS
  <2>3. QueuesOK
    BY <1>1, <2>1, <2>2 DEF TurnInit, QueuesOK
  <2>4. CountsOK
    BY <2>1, <2>2 DEF TurnInit, CountsOK
  <2> QED
    BY <2>3, <2>4
<1> QED
  BY <1>3, <1>4, <1>5 DEF TurnInit, TurnInv

LEMMA TurnStep ==
  ASSUME TurnInv, [TurnNext]_turnVars PROVE TurnInv'
PROOF
<1>1. CASE Receive  BY <1>1, ReceiveKeeps
<1>2. CASE Backoff  BY <1>2, BackoffKeeps
<1>3. CASE \E i \in DOMAIN tools.calls : FinishTool(i)  BY <1>3, ToolKeeps
<1>4. CASE Prompt  BY <1>4, PromptKeeps
<1>5. CASE Transfer  BY <1>5, TransferKeeps
<1>6. CASE Queue  BY <1>6, QueueKeeps
<1>7. CASE Withdraw  BY <1>7, WithdrawKeeps
<1>8. CASE Abort  BY <1>8, AbortKeeps
<1>9. CASE Inject  BY <1>9, InjectKeeps
<1>10. CASE UNCHANGED turnVars
  BY <1>10, SMTT(60) DEF turnVars, TurnInv, StreamOK, ToolsOK, QueuesOK, CountsOK
<1> QED
  BY <1>1, <1>2, <1>3, <1>4, <1>5, <1>6, <1>7, <1>8, <1>9, <1>10 DEF TurnNext, Slice

LEMMA TurnTyped == TurnInv => TurnTypeOK
PROOF
<1> SUFFICES ASSUME TurnInv PROVE TurnTypeOK
  OBVIOUS
<1>1. LogIs(log, called) /\ StreamOK /\ ToolsOK /\ QueuesOK /\ CountsOK
  BY DEF TurnInv
<1>2. log \in Seq(MessagesOver(called)) /\ called \in Nat /\ DOMAIN log = 1 .. Len(log)
  BY <1>1 DEF LogIs, CountsOK
<1>3. \A i \in DOMAIN log :
       /\ log[i].role \in Users \cup {"assistant", "result"}
       /\ log[i].ref \in Nat /\ log[i].calls \in Seq(1 .. called)
       /\ log[i].stop \in {"none", "stop", "aborted", "error"}
       /\ log[i].whole \in BOOLEAN
  BY <1>2, MessageFields
<1>4. /\ stream.answer \in Answers \cup {<< >>}
      /\ stream.got \in 0 .. stream.sent /\ stream.sent \in 0 .. Chunks(stream.answer)
      /\ stream.status \in {"none", "open", "ok", "failed", "busy", "refused"}
  BY <1>1, StreamFields DEF StreamOK, Streams
<1>5. tools.running \subseteq DOMAIN tools.calls /\ tools.ends \subseteq DOMAIN tools.calls
  <2>1. tools.calls \in Seq(Nat)
    BY <1>1 DEF ToolsOK, Dispatches
  <2>2. DOMAIN tools.calls = 1 .. Len(tools.calls)
    BY <2>1
  <2> QED
    BY <1>1, <2>2 DEF ToolsOK
<1> QED
  BY <1>1, <1>3, <1>4, <1>5 DEF TurnTypeOK, QueuesOK, CountsOK

\* Calls and results stay together in the transcript and in every request,
\* for all answers, retries, queues and lengths of the transcript, as long as
\* no extension adds a message while tools run.
THEOREM CallsAnswered ==
  ASSUME "tools" \notin InjectIn PROVE TurnSpec => []CallsAreAnswered
PROOF
<1>1. TurnInv => CallsAreAnswered
  <2>1. TurnInv => called \in Nat /\ LogOK(log, called)
    BY DEF TurnInv, CountsOK, LogIs, LogOK, Quiet
  <2> QED
    BY <2>1, TurnTyped, ShownIs, GroupsRecorded DEF CallsAreAnswered
<1>2. TurnInv /\ [TurnNext]_turnVars => TurnInv'
  BY TurnStep, ZenonT(60)
<1> QED
  BY <1>1, <1>2, TurnStarts, PTL DEF TurnSpec

-----------------------------------------------------------------------------
(* Where the queued items are. *)

\* The items that were said.
SpokenIn(l) == {l[i].ref : i \in {j \in 1 .. Len(l) : l[j].role \in Users}}

\* InOrder of any transcript.
InOrderIn(l, kind, q) ==
  /\ \A i, j \in 1 .. Len(l) :
       i < j /\ l[i].role = kind /\ l[j].role = kind => l[i].ref < l[j].ref
  /\ \A i \in 1 .. Len(l), j \in 1 .. Len(q) : l[i].role = kind => l[i].ref < q[j]
  /\ \A i, j \in 1 .. Len(q) : i < j => q[i] < q[j]

\* q is t and then r.
Splits(q, t, r) ==
  /\ Len(t) \in Nat /\ Len(r) \in Nat /\ Len(q) = Len(t) + Len(r)
  /\ \A i \in 1 .. Len(t) : t[i] = q[i]
  /\ \A i \in 1 .. Len(r) : r[i] = q[Len(t) + i]

LEMMA RestOfSeq ==
  ASSUME NEW S, NEW q \in Seq(S), NEW k \in 0 .. Len(q)
  PROVE  LET r == SubSeq(q, k + 1, Len(q))
         IN  /\ r \in Seq(S) /\ Len(r) = Len(q) - k
             /\ \A i \in 1 .. Len(q) - k : r[i] = q[k + i]
PROOF
<1> DEFINE r == SubSeq(q, k + 1, Len(q))
<1>1. Len(q) \in Nat
  OBVIOUS
<1>2. \A i \in k + 1 .. Len(q) : q[i] \in S
  BY <1>1
<1>3. /\ Len(r) = IF k + 1 <= Len(q) THEN Len(q) - (k + 1) + 1 ELSE 0
      /\ \A i \in 1 .. Len(q) - (k + 1) + 1 : r[i] = q[k + 1 + i - 1]
  BY <1>1, <1>2, SubSeqProperties
<1>4. r \in Seq(S)
  BY <1>1, <1>2, SubSeqProperties
<1>5. /\ Len(q) - (k + 1) + 1 = Len(q) - k
      /\ \A i \in 1 .. Len(q) - k : k + 1 + i - 1 = k + i
      /\ k + 1 <= Len(q) \/ Len(q) - k = 0
  BY <1>1
<1> HIDE DEF r
<1> QED
  BY <1>1, <1>3, <1>4, <1>5, ZenonT(60) DEF r

LEMMA DrainedSplits ==
  ASSUME NEW S, NEW q \in Seq(S) PROVE Splits(q, Drained(q).taken, Drained(q).rest)
PROOF
<1> DEFINE k == Share(q)
           t == SubSeq(q, 1, k)
           r == SubSeq(q, k + 1, Len(q))
<1>1. Len(q) \in Nat /\ k \in 0 .. Len(q)
  BY DEF Share
<1> HIDE DEF k
<1>2. Len(t) = k /\ \A i \in 1 .. k : t[i] = q[i]
  <2>1. \A i \in 1 .. k : q[i] \in S
    BY <1>1
  <2>2. Len(t) = k /\ \A i \in 1 .. k : t[i] = q[1 + i - 1]
    BY <1>1, <2>1, SubSeqProperties
  <2>3. \A i \in 1 .. k : 1 + i - 1 = i
    BY <1>1
  <2> HIDE DEF t
  <2> QED
    BY <2>2, <2>3
<1>3. Len(r) = Len(q) - k /\ \A i \in 1 .. Len(q) - k : r[i] = q[k + i]
  BY <1>1, RestOfSeq
<1>4. Drained(q).taken = t /\ Drained(q).rest = r
  BY DEF Drained, k
<1> HIDE DEF t, r
<1>5. Len(t) \in Nat /\ Len(r) \in Nat /\ Len(q) = Len(t) + Len(r)
  BY <1>1, <1>2, <1>3
<1>6. /\ \A i \in 1 .. Len(t) : t[i] = q[i]
      /\ \A i \in 1 .. Len(r) : r[i] = q[Len(t) + i]
  BY <1>2, <1>3
<1>7. Splits(q, t, r)
  BY <1>5, <1>6 DEF Splits
<1> QED
  BY <1>4, <1>7

LEMMA SplitSets ==
  ASSUME NEW n \in Nat, NEW q \in Seq(1 .. n), NEW t \in Seq(1 .. n), NEW r \in Seq(1 .. n),
         Splits(q, t, r), \A i, j \in 1 .. Len(q) : i < j => q[i] < q[j]
  PROVE  ToSet(q) = ToSet(t) \cup ToSet(r) /\ ToSet(t) \cap ToSet(r) = {}
PROOF
<1>1. /\ ToSet(q) = {q[i] : i \in 1 .. Len(q)} /\ ToSet(t) = {t[i] : i \in 1 .. Len(t)}
      /\ ToSet(r) = {r[i] : i \in 1 .. Len(r)}
  <2>1. DOMAIN q = 1 .. Len(q) /\ DOMAIN t = 1 .. Len(t) /\ DOMAIN r = 1 .. Len(r)
    OBVIOUS
  <2> QED
    BY <2>1 DEF ToSet
<1>2. /\ Len(t) \in Nat /\ Len(r) \in Nat /\ Len(q) = Len(t) + Len(r)
      /\ \A i \in 1 .. Len(t) : t[i] = q[i] /\ i \in 1 .. Len(q)
      /\ \A i \in 1 .. Len(r) : r[i] = q[Len(t) + i] /\ Len(t) + i \in 1 .. Len(q)
  BY SMTT(60) DEF Splits
<1>3. ASSUME NEW i \in 1 .. Len(q) PROVE q[i] \in ToSet(t) \cup ToSet(r)
  <2>1. CASE i \in 1 .. Len(t)
    BY <1>1, <1>2, <2>1
  <2>2. CASE i \notin 1 .. Len(t)
    <3>1. i - Len(t) \in 1 .. Len(r) /\ Len(t) + (i - Len(t)) = i
      BY <1>2, <2>2
    <3>2. q[i] = r[i - Len(t)]
      BY <1>2, <3>1
    <3> QED
      BY <1>1, <3>1, <3>2
  <2> QED
    BY <2>1, <2>2
<1>4. ASSUME NEW i \in 1 .. Len(t), NEW j \in 1 .. Len(r), t[i] = r[j] PROVE FALSE
  <2>1. i < Len(t) + j /\ i \in 1 .. Len(q) /\ Len(t) + j \in 1 .. Len(q)
    BY <1>2
  <2>2. q[i] < q[Len(t) + j]
    BY <2>1
  <2>3. q[i] = q[Len(t) + j] /\ q[i] \in Nat
    <3>1. t[i] \in 1 .. n
      BY SMTT(60)
    <3>2. t[i] = q[i] /\ r[j] = q[Len(t) + j]
      BY <1>2
    <3> HIDE DEF Splits
    <3>3. q[i] \in 1 .. n
      BY <3>1, <3>2
    <3>4. q[i] = q[Len(t) + j]
      BY <1>4, <3>2
    <3> QED
      BY <3>3, <3>4, SMTT(60)
  <2> QED
    BY <2>2, <2>3, SMTT(60)
<1>5. ToSet(q) \subseteq ToSet(t) \cup ToSet(r)
  BY <1>1, <1>3
<1>6. ToSet(t) \subseteq ToSet(q) /\ ToSet(r) \subseteq ToSet(q)
  BY <1>1, <1>2
<1>7. ToSet(t) \cap ToSet(r) = {}
  BY <1>1, <1>4
<1> QED
  BY <1>5, <1>6, <1>7

\* The points of a transcript and what is said after it.
LEMMA SaidPoints ==
  ASSUME NEW c \in Nat, NEW l \in Seq(MessagesOver(c)), NEW n \in Nat, NEW t \in Seq(1 .. n),
         NEW kind \in Users
  PROVE  LET m == l \o Said(kind, t)
         IN  /\ m \in Seq(MessagesOver(c)) /\ Len(m) = Len(l) + Len(t)
             /\ Len(l) \in Nat /\ Len(t) \in Nat
             /\ \A i \in 1 .. Len(l) : m[i] = l[i]
             /\ \A a \in 1 .. Len(t) : /\ m[Len(l) + a].role = kind /\ m[Len(l) + a].ref = t[a]
                                       /\ Len(l) + a \in 1 .. Len(m)
             /\ \A i \in 1 .. Len(m) :
                  \/ i \in 1 .. Len(l)
                  \/ i - Len(l) \in 1 .. Len(t) /\ m[i].role = kind /\ m[i].ref = t[i - Len(l)]
PROOF
<1> DEFINE u == Said(kind, t)
           m == l \o u
<1>1. u \in Seq(MessagesOver(c)) /\ Len(u) = Len(t) /\ Len(t) \in Nat /\ Len(l) \in Nat
  BY SaidIs
<1>2. \A a \in 1 .. Len(t) : u[a].role = kind /\ u[a].ref = t[a]
  <2>1. DOMAIN t = 1 .. Len(t)
    OBVIOUS
  <2>2. \A a \in 1 .. Len(t) : u[a] = FromUser(kind, t[a])
    BY <2>1 DEF Said
  <2>3. \A x : FromUser(kind, x).role = kind /\ FromUser(kind, x).ref = x
    BY DEF FromUser, Message
  <2> HIDE DEF u
  <2> QED
    BY <2>2, <2>3, SMTT(60)
<1> HIDE DEF u
<1>3. m \in Seq(MessagesOver(c)) /\ Joined(l, u)
  BY <1>1, ConcatPoints, ConcatJoined
<1>4. /\ Len(m) = Len(l) + Len(t)
      /\ \A i \in 1 .. Len(l) : m[i] = l[i]
      /\ \A a \in 1 .. Len(t) : m[Len(l) + a] = u[a]
      /\ \A i \in 1 .. Len(m) : \/ i \in 1 .. Len(l)
                                \/ i - Len(l) \in 1 .. Len(t) /\ m[i] = u[i - Len(l)]
  BY <1>1, <1>3 DEF Joined
<1> HIDE DEF m
<1>5. \A a \in 1 .. Len(t) : Len(l) + a \in 1 .. Len(m)
  BY <1>1, <1>4
<1>6. \A i \in 1 .. Len(m) :
        \/ i \in 1 .. Len(l)
        \/ i - Len(l) \in 1 .. Len(t) /\ m[i].role = kind /\ m[i].ref = t[i - Len(l)]
  BY <1>2, <1>4, ZenonT(120)
<1> QED
  BY <1>1, <1>2, <1>3, <1>4, <1>5, <1>6, SMTT(60) DEF m, u

LEMMA SpokenSaid ==
  ASSUME NEW c \in Nat, NEW l \in Seq(MessagesOver(c)), NEW n \in Nat, NEW t \in Seq(1 .. n),
         NEW kind \in Users
  PROVE  SpokenIn(l \o Said(kind, t)) = SpokenIn(l) \cup ToSet(t)
PROOF
<1> DEFINE m == l \o Said(kind, t)
<1>1. /\ Len(m) = Len(l) + Len(t)
      /\ Len(l) \in Nat /\ Len(t) \in Nat
      /\ \A i \in 1 .. Len(l) : m[i] = l[i]
      /\ \A a \in 1 .. Len(t) : /\ m[Len(l) + a].role = kind /\ m[Len(l) + a].ref = t[a]
                                /\ Len(l) + a \in 1 .. Len(m)
      /\ \A i \in 1 .. Len(m) :
           \/ i \in 1 .. Len(l)
           \/ i - Len(l) \in 1 .. Len(t) /\ m[i].role = kind /\ m[i].ref = t[i - Len(l)]
  BY SaidPoints, SMTT(60)
<1> HIDE DEF m
<1>2. ToSet(t) = {t[a] : a \in 1 .. Len(t)}
  <2>1. DOMAIN t = 1 .. Len(t)
    OBVIOUS
  <2> QED
    BY <2>1 DEF ToSet
<1>3. ASSUME NEW i \in 1 .. Len(m), m[i].role \in Users PROVE m[i].ref \in SpokenIn(l) \cup ToSet(t)
  BY <1>1, <1>2, <1>3 DEF SpokenIn
<1>4. ASSUME NEW i \in 1 .. Len(l), l[i].role \in Users PROVE l[i].ref \in SpokenIn(m)
  <2>1. i \in 1 .. Len(m) /\ m[i] = l[i]
    BY <1>1
  <2> QED
    BY <1>4, <2>1 DEF SpokenIn
<1>5. ASSUME NEW a \in 1 .. Len(t) PROVE t[a] \in SpokenIn(m)
  <2> DEFINE i == Len(l) + a
  <2>1. i \in 1 .. Len(m) /\ m[i].role \in Users /\ m[i].ref = t[a]
    BY <1>1
  <2> HIDE DEF i
  <2> QED
    BY <2>1 DEF SpokenIn
<1>6. SpokenIn(m) \subseteq SpokenIn(l) \cup ToSet(t)
  BY <1>3 DEF SpokenIn
<1>7. SpokenIn(l) \subseteq SpokenIn(m)
  BY <1>4 DEF SpokenIn
<1>8. ToSet(t) \subseteq SpokenIn(m)
  BY <1>2, <1>5
<1> QED
  BY <1>6, <1>7, <1>8 DEF m

\* Said in the order of the queue.
LEMMA OrderSaid ==
  ASSUME NEW c \in Nat, NEW l \in Seq(MessagesOver(c)), NEW n \in Nat, NEW t \in Seq(1 .. n),
         NEW kind \in Users, NEW q, NEW r, Splits(q, t, r), InOrderIn(l, kind, q)
  PROVE  InOrderIn(l \o Said(kind, t), kind, r)
PROOF
<1> DEFINE m == l \o Said(kind, t)
<1>1. /\ Len(m) = Len(l) + Len(t) /\ Len(l) \in Nat /\ Len(t) \in Nat
      /\ \A i \in 1 .. Len(l) : m[i] = l[i]
      /\ \A i \in 1 .. Len(m) :
           \/ i \in 1 .. Len(l)
           \/ i - Len(l) \in 1 .. Len(t) /\ m[i].role = kind /\ m[i].ref = t[i - Len(l)]
  BY SaidPoints
<1> HIDE DEF m
<1>2. /\ Len(r) \in Nat
      /\ \A i \in 1 .. Len(t) : t[i] = q[i] /\ i \in 1 .. Len(q)
      /\ \A i \in 1 .. Len(r) : r[i] = q[Len(t) + i] /\ Len(t) + i \in 1 .. Len(q)
  BY <1>1, SMTT(60) DEF Splits
<1>3. /\ \A i, j \in 1 .. Len(l) :
           i < j /\ l[i].role = kind /\ l[j].role = kind => l[i].ref < l[j].ref
      /\ \A i \in 1 .. Len(l), j \in 1 .. Len(q) : l[i].role = kind => l[i].ref < q[j]
      /\ \A i, j \in 1 .. Len(q) : i < j => q[i] < q[j]
  BY DEF InOrderIn
<1>4. ASSUME NEW i \in 1 .. Len(m), NEW j \in 1 .. Len(m), i < j, m[i].role = kind, m[j].role = kind
      PROVE  m[i].ref < m[j].ref
  <2>1. CASE i \in 1 .. Len(l) /\ j \in 1 .. Len(l)
    BY <1>1, <1>3, <1>4, <2>1
  <2>2. CASE i \in 1 .. Len(l) /\ j \notin 1 .. Len(l)
    <3> DEFINE b == j - Len(l)
    <3>1. b \in 1 .. Len(t) /\ m[j].ref = t[b]
      BY <1>1, <2>2
    <3> HIDE DEF b
    <3>2. m[j].ref = q[b] /\ b \in 1 .. Len(q) /\ m[i] = l[i]
      BY <1>1, <1>2, <2>2, <3>1
    <3> QED
      BY <1>3, <1>4, <2>2, <3>2
  <2>3. CASE i \notin 1 .. Len(l)
    <3> DEFINE a == i - Len(l)
               b == j - Len(l)
    <3>1. j \notin 1 .. Len(l)
      BY <1>1, <1>4, <2>3
    <3>2. a \in 1 .. Len(t) /\ m[i].ref = t[a] /\ b \in 1 .. Len(t) /\ m[j].ref = t[b]
      BY <1>1, <2>3, <3>1
    <3>3. a < b
      BY <1>1, <1>4
    <3> HIDE DEF a, b
    <3>4. m[i].ref = q[a] /\ m[j].ref = q[b] /\ a \in 1 .. Len(q) /\ b \in 1 .. Len(q)
      BY <1>2, <3>2
    <3> QED
      BY <1>3, <3>3, <3>4
  <2> QED
    BY <2>1, <2>2, <2>3
<1>5. ASSUME NEW i \in 1 .. Len(m), NEW j \in 1 .. Len(r), m[i].role = kind
      PROVE  m[i].ref < r[j]
  <2> DEFINE k == Len(t) + j
  <2>1. r[j] = q[k] /\ k \in 1 .. Len(q)
    BY <1>2
  <2>2. k > Len(t)
    BY <1>1
  <2> HIDE DEF k
  <2>3. CASE i \in 1 .. Len(l)
    BY <1>1, <1>3, <1>5, <2>1, <2>3
  <2>4. CASE i \notin 1 .. Len(l)
    <3> DEFINE a == i - Len(l)
    <3>1. a \in 1 .. Len(t) /\ m[i].ref = t[a]
      BY <1>1, <2>4
    <3>2. a < k
      BY <1>1, <2>1, <2>2, <3>1
    <3> HIDE DEF a
    <3>3. m[i].ref = q[a] /\ a \in 1 .. Len(q)
      BY <1>2, <3>1
    <3> QED
      BY <1>3, <2>1, <3>2, <3>3
  <2> QED
    BY <2>3, <2>4
<1>6. ASSUME NEW i \in 1 .. Len(r), NEW j \in 1 .. Len(r), i < j PROVE r[i] < r[j]
  <2>1. /\ r[i] = q[Len(t) + i] /\ Len(t) + i \in 1 .. Len(q)
        /\ r[j] = q[Len(t) + j] /\ Len(t) + j \in 1 .. Len(q) /\ Len(t) + i < Len(t) + j
    BY <1>1, <1>2, <1>6
  <2> QED
    BY <1>3, <2>1
<1> QED
  BY <1>4, <1>5, <1>6 DEF InOrderIn, m

\* More messages of other kinds.
LEMMA OrderOther ==
  ASSUME NEW S, NEW l \in Seq(S), NEW u \in Seq(S), NEW kind, NEW q,
         \A i \in 1 .. Len(u) : u[i].role # kind, InOrderIn(l, kind, q)
  PROVE  InOrderIn(l \o u, kind, q)
PROOF
<1> DEFINE m == l \o u
<1>1. Joined(l, u)
  BY ConcatJoined
<1>2. /\ \A i \in 1 .. Len(l) : m[i] = l[i]
      /\ \A i \in 1 .. Len(m) : \/ i \in 1 .. Len(l)
                                \/ i - Len(l) \in 1 .. Len(u) /\ m[i] = u[i - Len(l)]
  BY <1>1 DEF Joined
<1> HIDE DEF m
<1>3. \A i \in 1 .. Len(m) : m[i].role = kind => i \in 1 .. Len(l) /\ m[i] = l[i]
  BY <1>2
<1> QED
  BY <1>3, SMTT(60) DEF InOrderIn, m

LEMMA SpokenOther ==
  ASSUME NEW S, NEW l \in Seq(S), NEW u \in Seq(S),
         \A i \in 1 .. Len(u) : u[i].role \notin Users
  PROVE  SpokenIn(l \o u) = SpokenIn(l)
PROOF
<1> DEFINE m == l \o u
<1>1. Joined(l, u)
  BY ConcatJoined
<1>2. /\ \A i \in 1 .. Len(l) : m[i] = l[i] /\ i \in 1 .. Len(m)
      /\ \A i \in 1 .. Len(m) : \/ i \in 1 .. Len(l)
                                \/ i - Len(l) \in 1 .. Len(u) /\ m[i] = u[i - Len(l)]
  BY <1>1 DEF Joined
<1> HIDE DEF m
<1>3. \A i \in 1 .. Len(m) : m[i].role \in Users => i \in 1 .. Len(l) /\ m[i] = l[i]
  BY <1>2
<1>4. SpokenIn(m) \subseteq SpokenIn(l)
  BY <1>3 DEF SpokenIn
<1>5. SpokenIn(l) \subseteq SpokenIn(m)
  BY <1>2 DEF SpokenIn
<1> QED
  BY <1>4, <1>5 DEF m

\* Items are said, queued for the turn, queued for its end, or taken back.
Parted(A, B, C, D, n) ==
  /\ A \cup B \cup C \cup D = 1 .. n
  /\ A \cap B = {} /\ A \cap C = {} /\ A \cap D = {}
  /\ B \cap C = {} /\ B \cap D = {} /\ C \cap D = {}

OnePlace(l, s, f, w, n) ==
  /\ InOrderIn(l, "steering", s) /\ InOrderIn(l, "follow-up", f)
  /\ Parted(SpokenIn(l), ToSet(s), ToSet(f), w, n)

Placed == OnePlace(log, steering, followUps, withdrawn, items)

LEMMA SteeringSaid ==
  ASSUME NEW c \in Nat, NEW l \in Seq(MessagesOver(c)), NEW n \in Nat, NEW s \in Seq(1 .. n),
         NEW t \in Seq(1 .. n), NEW r \in Seq(1 .. n), NEW f, NEW w,
         Splits(s, t, r), OnePlace(l, s, f, w, n)
  PROVE  OnePlace(l \o Said("steering", t), r, f, w, n)
PROOF
<1> DEFINE m == l \o Said("steering", t)
<1>1. "steering" \in Users
  BY DEF Users
<1>2. InOrderIn(m, "steering", r)
  BY <1>1, OrderSaid DEF OnePlace
<1>3. InOrderIn(m, "follow-up", f)
  <2>1. /\ Said("steering", t) \in Seq(MessagesOver(c)) /\ DOMAIN t = 1 .. Len(t)
        /\ Len(Said("steering", t)) = Len(t)
    BY <1>1, SaidIs
  <2>2. \A x : FromUser("steering", x).role # "follow-up"
    BY DEF FromUser, Message
  <2>3. \A i \in 1 .. Len(t) : Said("steering", t)[i].role # "follow-up"
    BY <2>1, <2>2 DEF Said
  <2> QED
    BY <2>1, <2>3, OrderOther DEF OnePlace
<1>4. SpokenIn(m) = SpokenIn(l) \cup ToSet(t)
  BY <1>1, SpokenSaid
<1>5. ToSet(s) = ToSet(t) \cup ToSet(r) /\ ToSet(t) \cap ToSet(r) = {}
  BY SplitSets DEF OnePlace, InOrderIn
<1> HIDE DEF m
<1>6. Parted(SpokenIn(l), ToSet(s), ToSet(f), w, n)
  BY DEF OnePlace
<1>7. Parted(SpokenIn(m), ToSet(r), ToSet(f), w, n)
  BY <1>4, <1>5, <1>6 DEF Parted
<1> QED
  BY <1>2, <1>3, <1>7 DEF OnePlace, m

LEMMA FollowUpSaid ==
  ASSUME NEW c \in Nat, NEW l \in Seq(MessagesOver(c)), NEW n \in Nat, NEW f \in Seq(1 .. n),
         NEW t \in Seq(1 .. n), NEW r \in Seq(1 .. n), NEW s, NEW w,
         Splits(f, t, r), OnePlace(l, s, f, w, n)
  PROVE  OnePlace(l \o Said("follow-up", t), s, r, w, n)
PROOF
<1> DEFINE m == l \o Said("follow-up", t)
<1>1. "follow-up" \in Users
  BY DEF Users
<1>2. InOrderIn(m, "follow-up", r)
  BY <1>1, OrderSaid DEF OnePlace
<1>3. InOrderIn(m, "steering", s)
  <2>1. /\ Said("follow-up", t) \in Seq(MessagesOver(c)) /\ DOMAIN t = 1 .. Len(t)
        /\ Len(Said("follow-up", t)) = Len(t)
    BY <1>1, SaidIs
  <2>2. \A x : FromUser("follow-up", x).role # "steering"
    BY DEF FromUser, Message
  <2>3. \A i \in 1 .. Len(t) : Said("follow-up", t)[i].role # "steering"
    BY <2>1, <2>2 DEF Said
  <2> QED
    BY <2>1, <2>3, OrderOther DEF OnePlace
<1>4. SpokenIn(m) = SpokenIn(l) \cup ToSet(t)
  BY <1>1, SpokenSaid
<1>5. ToSet(f) = ToSet(t) \cup ToSet(r) /\ ToSet(t) \cap ToSet(r) = {}
  BY SplitSets DEF OnePlace, InOrderIn
<1> HIDE DEF m
<1>6. Parted(SpokenIn(l), ToSet(s), ToSet(f), w, n)
  BY DEF OnePlace
<1>7. Parted(SpokenIn(m), ToSet(s), ToSet(r), w, n)
  BY <1>4, <1>5, <1>6 DEF Parted
<1> QED
  BY <1>2, <1>3, <1>7 DEF OnePlace, m

\* Answers and results take nothing from a queue.
LEMMA OthersSaid ==
  ASSUME NEW S, NEW l \in Seq(S), NEW u \in Seq(S),
         \A i \in 1 .. Len(u) : u[i].role \in {"assistant", "result"},
         NEW s, NEW f, NEW w, NEW n, OnePlace(l, s, f, w, n)
  PROVE  OnePlace(l \o u, s, f, w, n)
PROOF
<1>1. \A i \in 1 .. Len(u) : /\ u[i].role \notin Users
                             /\ u[i].role # "steering" /\ u[i].role # "follow-up"
  BY DEF Users
<1>2. InOrderIn(l \o u, "steering", s) /\ InOrderIn(l \o u, "follow-up", f)
  BY <1>1, OrderOther DEF OnePlace
<1>3. SpokenIn(l \o u) = SpokenIn(l)
  BY <1>1, SpokenOther
<1> QED
  BY <1>2, <1>3 DEF OnePlace

\* A new item that is said at once.
LEMMA NewItemSaid ==
  ASSUME NEW c \in Nat, NEW l \in Seq(MessagesOver(c)), NEW n \in Nat,
         NEW kind \in {"prompt", "injected"}, NEW s, NEW f, NEW w, OnePlace(l, s, f, w, n)
  PROVE  OnePlace(Append(l, FromUser(kind, n + 1)), s, f, w, n + 1)
PROOF
<1> DEFINE t == << n + 1 >>
           m == l \o Said(kind, t)
<1>1. kind \in Users /\ kind # "steering" /\ kind # "follow-up"
  BY DEF Users
<1>2. t \in Seq(1 .. n + 1) /\ ToSet(t) = {n + 1} /\ n + 1 \in Nat /\ Len(t) = 1 /\ DOMAIN t = 1 .. 1
  <2>1. n + 1 \in 1 .. n + 1 /\ n + 1 \in Nat
    OBVIOUS
  <2>2. Len(t) = 1 /\ t[1] = n + 1 /\ DOMAIN t = {1} /\ 1 .. 1 = {1}
    OBVIOUS
  <2> QED
    BY <2>1, <2>2 DEF ToSet
<1>3. Append(l, FromUser(kind, n + 1)) = m
  <2> DEFINE x == FromUser(kind, n + 1)
  <2>1. x \in MessagesOver(c)
    <3>1. << >> \in Seq(1 .. c) /\ n + 1 \in Nat
      OBVIOUS
    <3> QED
      BY <1>1, <3>1 DEF FromUser, Message, MessagesOver
  <2>2. Said(kind, t) = << x >>
    <3>1. Said(kind, t) = [i \in 1 .. 1 |-> FromUser(kind, t[i])]
      BY <1>2 DEF Said
    <3>2. Said(kind, t) \in Seq(MessagesOver(c)) /\ Len(Said(kind, t)) = 1
      BY <1>1, <1>2, SaidIs
    <3>3. Said(kind, t)[1] = x
      BY <3>1
    <3> HIDE DEF x, t
    <3> QED
      BY <2>1, <3>2, <3>3
  <2> HIDE DEF x, t
  <2> QED
    BY <2>1, <2>2 DEF x
<1>4. SpokenIn(m) = SpokenIn(l) \cup {n + 1}
  <2> HIDE DEF t
  <2> QED
    BY <1>1, <1>2, SpokenSaid
<1>5. InOrderIn(m, "steering", s) /\ InOrderIn(m, "follow-up", f)
  <2>1. Said(kind, t) \in Seq(MessagesOver(c)) /\ Len(Said(kind, t)) = 1
    BY <1>1, <1>2, SaidIs
  <2>2. \A x : FromUser(kind, x).role = kind
    BY DEF FromUser, Message
  <2>3. \A i \in 1 .. 1 : Said(kind, t)[i].role = kind
    <3> HIDE DEF t
    <3> QED
      BY <1>2, <2>2 DEF Said
  <2>4. \A i \in 1 .. Len(Said(kind, t)) : /\ Said(kind, t)[i].role # "steering"
                                           /\ Said(kind, t)[i].role # "follow-up"
    BY <1>1, <2>1, <2>3
  <2> HIDE DEF t
  <2> QED
    BY <2>1, <2>4, OrderOther DEF OnePlace
<1> HIDE DEF m, t
<1>6. Parted(SpokenIn(l), ToSet(s), ToSet(f), w, n)
  BY DEF OnePlace
<1>7. Parted(SpokenIn(m), ToSet(s), ToSet(f), w, n + 1)
  <2>1. n + 1 \notin 1 .. n /\ 1 .. n + 1 = (1 .. n) \cup {n + 1}
    OBVIOUS
  <2> QED
    BY <1>4, <1>6, <2>1 DEF Parted
<1> QED
  BY <1>3, <1>5, <1>7 DEF OnePlace

\* One queue with a new item.
LEMMA OrderQueued ==
  ASSUME NEW c \in Nat, NEW l \in Seq(MessagesOver(c)), NEW n \in Nat, NEW q \in Seq(1 .. n),
         NEW kind \in Users, InOrderIn(l, kind, q), SpokenIn(l) \subseteq 1 .. n
  PROVE  /\ InOrderIn(l, kind, Append(q, n + 1))
         /\ ToSet(Append(q, n + 1)) = ToSet(q) \cup {n + 1}
PROOF
<1> DEFINE r == Append(q, n + 1)
<1>1. /\ Len(r) = Len(q) + 1 /\ Len(q) \in Nat /\ r[Len(q) + 1] = n + 1
      /\ \A i \in 1 .. Len(q) : r[i] = q[i] /\ q[i] \in 1 .. n
      /\ DOMAIN r = 1 .. Len(r) /\ DOMAIN q = 1 .. Len(q)
  OBVIOUS
<1> HIDE DEF r
<1>2. \A i \in 1 .. Len(r) : i \in 1 .. Len(q) \/ i = Len(q) + 1
  BY <1>1
<1>3. \A i \in 1 .. Len(l) : l[i].role = kind => l[i].ref \in 1 .. n
  BY DEF SpokenIn
<1>4. \A i \in 1 .. Len(l), j \in 1 .. Len(r) : l[i].role = kind => l[i].ref < r[j]
  <2>1. ASSUME NEW i \in 1 .. Len(l), NEW j \in 1 .. Len(r), l[i].role = kind PROVE l[i].ref < r[j]
    <3>1. CASE j \in 1 .. Len(q)
      BY <1>1, <2>1, <3>1 DEF InOrderIn
    <3>2. CASE j = Len(q) + 1
      <4>1. r[j] = n + 1 /\ l[i].ref \in 1 .. n
        BY <1>1, <1>3, <2>1, <3>2
      <4> QED
        BY <4>1, SMTT(60)
    <3> QED
      BY <1>2, <3>1, <3>2
  <2> QED
    BY <2>1
<1>5. \A i, j \in 1 .. Len(r) : i < j => r[i] < r[j]
  <2>1. ASSUME NEW i \in 1 .. Len(r), NEW j \in 1 .. Len(r), i < j PROVE r[i] < r[j]
    <3>1. i \in 1 .. Len(q)
      BY <1>1, <2>1
    <3>2. CASE j \in 1 .. Len(q)
      BY <1>1, <2>1, <3>1, <3>2 DEF InOrderIn
    <3>3. CASE j = Len(q) + 1
      <4>1. r[j] = n + 1 /\ r[i] \in 1 .. n
        BY <1>1, <3>1, <3>3
      <4> QED
        BY <4>1
    <3> QED
      BY <1>2, <3>2, <3>3
  <2> QED
    BY <2>1
<1>6. ToSet(r) = ToSet(q) \cup {n + 1}
  <2>1. ToSet(r) = {r[i] : i \in 1 .. Len(r)} /\ ToSet(q) = {q[i] : i \in 1 .. Len(q)}
    BY <1>1 DEF ToSet
  <2>2. 1 .. Len(r) = (1 .. Len(q)) \cup {Len(q) + 1}
    BY <1>1
  <2>3. r[Len(q) + 1] = n + 1 /\ \A i \in 1 .. Len(q) : r[i] = q[i]
    BY <1>1
  <2> HIDE DEF r
  <2>4. {r[i] : i \in 1 .. Len(r)} = {q[i] : i \in 1 .. Len(q)} \cup {n + 1}
    BY <2>2, <2>3, ZenonT(60)
  <2> QED
    BY <2>1, <2>4
<1>7. InOrderIn(l, kind, r)
  BY <1>4, <1>5 DEF InOrderIn
<1> QED
  BY <1>6, <1>7 DEF r

\* One queue without one of its items.
LEMMA OrderRemoved ==
  ASSUME NEW l, NEW n \in Nat, NEW q \in Seq(1 .. n), NEW kind, InOrderIn(l, kind, q),
         NEW k \in DOMAIN q
  PROVE  /\ InOrderIn(l, kind, RemoveAt(q, k))
         /\ ToSet(RemoveAt(q, k)) = ToSet(q) \ {q[k]} /\ q[k] \in ToSet(q)
PROOF
<1> DEFINE s == SubSeq(q, 1, k - 1)
           t == SubSeq(q, k + 1, Len(q))
           r == s \o t
           At(i) == IF i < k THEN i ELSE i + 1
<1>1. /\ Len(q) \in Nat /\ DOMAIN q = 1 .. Len(q) /\ k \in 1 .. Len(q)
      /\ \A i \in 1 .. Len(q) : q[i] \in 1 .. n
  BY SMTT(60)
<1>2. s \in Seq(1 .. n) /\ Len(s) = k - 1 /\ \A i \in 1 .. k - 1 : s[i] = q[i]
  <2>1. \A i \in 1 .. k - 1 : q[i] \in 1 .. n
    BY <1>1
  <2>2. s \in Seq(1 .. n) /\ Len(s) = k - 1
    BY <1>1, <2>1, SubSeqProperties
  <2>3. \A i \in 1 .. k - 1 : s[i] = q[i]
    BY <1>1
  <2> QED
    BY <2>2, <2>3
<1>3. t \in Seq(1 .. n) /\ Len(t) = Len(q) - k /\ \A i \in 1 .. Len(q) - k : t[i] = q[k + i]
  <2>1. k \in 0 .. Len(q)
    BY <1>1
  <2> QED
    BY <2>1, RestOfSeq
<1> HIDE DEF s, t
<1>4. Joined(s, t) /\ r \in Seq(1 .. n)
  BY <1>2, <1>3, ConcatJoined
<1>5. /\ Len(r) = Len(s) + Len(t)
      /\ \A i \in 1 .. Len(s) : r[i] = s[i]
      /\ \A i \in 1 .. Len(r) : i \in 1 .. Len(s) \/ (i - Len(s) \in 1 .. Len(t) /\ r[i] = t[i - Len(s)])
  BY <1>4 DEF Joined
<1>6. DOMAIN r = 1 .. Len(r)
  BY <1>4
<1> HIDE DEF r
<1>7. Len(r) = Len(q) - 1
  BY <1>1, <1>2, <1>3, <1>5, SMTT(60)
<1>8. ASSUME NEW i \in 1 .. Len(r) PROVE At(i) \in 1 .. Len(q) /\ r[i] = q[At(i)]
  <2>1. CASE i < k
    <3>1. At(i) = i
      BY <2>1
    <3>2. i \in Nat /\ i >= 1 /\ i < k /\ k \in Nat /\ k <= Len(q)
      BY <1>1, <1>7, <2>1
    <3>3. i \in 1 .. k - 1 /\ i \in 1 .. Len(q)
      BY <1>1, <3>2
    <3>4. i \in 1 .. Len(s)
      BY <1>2, <3>3
    <3>5. r[i] = s[i] /\ s[i] = q[i]
      BY <1>2, <1>5, <3>3, <3>4
    <3> QED
      BY <3>1, <3>3, <3>5
  <2>2. CASE ~(i < k)
    <3>1. i - Len(s) \in 1 .. Len(t) /\ r[i] = t[i - Len(s)]
      BY <1>1, <1>2, <1>5, <1>7, <2>2, SMTT(60)
    <3> DEFINE d == i - Len(s)
    <3>2. d \in 1 .. Len(q) - k /\ r[i] = t[d] /\ k + d = i + 1 /\ At(i) = i + 1
      BY <1>1, <1>2, <1>3, <2>2, <3>1, SMTT(60)
    <3> HIDE DEF d
    <3>3. t[d] = q[k + d]
      BY <1>3, <3>2
    <3> QED
      BY <1>1, <1>7, <2>2, <3>2, <3>3, SMTT(60)
  <2> QED
    BY <2>1, <2>2
<1>9. ASSUME NEW i \in 1 .. Len(q), i # k PROVE \E j \in 1 .. Len(r) : At(j) = i
  <2>1. CASE i < k
    BY <1>1, <1>7, <2>1
  <2>2. CASE ~(i < k)
    <3>1. i - 1 \in 1 .. Len(r) /\ At(i - 1) = i
      BY <1>1, <1>7, <1>9, <2>2, SMTT(60)
    <3> QED
      BY <3>1
  <2> QED
    BY <2>1, <2>2
<1>10. /\ \A i \in 1 .. Len(r) : At(i) # k
       /\ \A i, j \in 1 .. Len(r) : i < j => At(i) < At(j)
  BY <1>1, SMTT(60)
<1> HIDE DEF At
<1>11. /\ \A i \in 1 .. Len(l), j \in 1 .. Len(q) : l[i].role = kind => l[i].ref < q[j]
       /\ \A i, j \in 1 .. Len(q) : i < j => q[i] < q[j]
  BY DEF InOrderIn
<1>12. InOrderIn(l, kind, r)
  <2>1. \A i \in 1 .. Len(l), j \in 1 .. Len(r) : l[i].role = kind => l[i].ref < r[j]
    BY <1>8, <1>11
  <2>2. \A i, j \in 1 .. Len(r) : i < j => r[i] < r[j]
    BY <1>8, <1>10, <1>11
  <2> QED
    BY <2>1, <2>2 DEF InOrderIn
<1>13. ToSet(r) = {r[i] : i \in 1 .. Len(r)} /\ ToSet(q) = {q[i] : i \in 1 .. Len(q)}
  BY <1>1, <1>6 DEF ToSet
<1>14. \A i \in 1 .. Len(q) : i # k => q[i] # q[k]
  <2>1. ASSUME NEW i \in 1 .. Len(q), i # k PROVE q[i] # q[k]
    <3>1. i < k \/ k < i
      BY <1>1, <2>1
    <3>2. q[i] < q[k] \/ q[k] < q[i]
      BY <1>1, <1>11, <3>1
    <3>3. q[i] \in 1 .. n /\ q[k] \in 1 .. n
      BY <1>1
    <3> QED
      BY <3>2, <3>3
  <2> QED
    BY <2>1
<1>15. ToSet(r) \subseteq ToSet(q) \ {q[k]}
  BY <1>8, <1>10, <1>13, <1>14, SMTT(60)
<1>16. ToSet(q) \ {q[k]} \subseteq ToSet(r)
  <2>1. ASSUME NEW i \in 1 .. Len(q), i # k PROVE q[i] \in ToSet(r)
    <3>1. PICK j \in 1 .. Len(r) : At(j) = i
      BY <1>9, <2>1
    <3> QED
      BY <1>8, <1>13, <3>1
  <2> QED
    BY <1>13, <2>1
<1>17. q[k] \in ToSet(q)
  BY <1>1, <1>13
<1>18. RemoveAt(q, k) = r
  BY DEF RemoveAt, r, s, t
<1> QED
  BY <1>12, <1>15, <1>16, <1>17, <1>18

LEMMA LoopTopPlaces ==
  ASSUME NEW c \in Nat, items' \in Nat, NEW l \in Seq(MessagesOver(c)),
         NEW s \in Seq(1 .. items'), NEW f \in Seq(1 .. items'),
         OnePlace(l, s, f, withdrawn', items'), NEW a, LoopTop(a, l, s, f)
  PROVE  Placed'
PROOF
<1> DEFINE q  == Drained(s)
           l2 == l \o Said("steering", q.taken)
<1>1. q.taken \in Seq(1 .. items') /\ q.rest \in Seq(1 .. items') /\ Splits(s, q.taken, q.rest)
  BY DrainedIs, DrainedSplits
<1>2. OnePlace(l2, q.rest, f, withdrawn', items')
  BY <1>1, SteeringSaid
<1>3. \/ log' = l /\ steering' = s /\ followUps' = f
      \/ log' = l2 /\ steering' = q.rest /\ followUps' = f
  BY DEF LoopTop, Finish
<1> HIDE DEF q, l2
<1> QED
  BY <1>2, <1>3 DEF Placed

LEMMA StopPlaces ==
  ASSUME NEW c \in Nat, items' \in Nat, NEW l \in Seq(MessagesOver(c)),
         steering \in Seq(1 .. items'), followUps \in Seq(1 .. items'),
         OnePlace(l, steering, followUps, withdrawn', items'), Stop(l)
  PROVE  Placed'
PROOF
<1> DEFINE s  == Drained(steering)
           f  == Drained(followUps)
           l1 == l \o Said("steering", s.taken)
           l2 == l \o Said("follow-up", f.taken)
<1>1. /\ s.taken \in Seq(1 .. items') /\ s.rest \in Seq(1 .. items')
      /\ f.taken \in Seq(1 .. items') /\ f.rest \in Seq(1 .. items')
      /\ Splits(steering, s.taken, s.rest) /\ Splits(followUps, f.taken, f.rest)
  BY DrainedIs, DrainedSplits
<1>2. /\ OnePlace(l1, s.rest, followUps, withdrawn', items')
      /\ OnePlace(l2, steering, f.rest, withdrawn', items')
  BY <1>1, SteeringSaid, FollowUpSaid, SMTT(60)
<1>3. l1 \in Seq(MessagesOver(c)) /\ l2 \in Seq(MessagesOver(c))
  BY <1>1, SaidPoints DEF Users
<1>4. \/ LoopTop(abort, l1, s.rest, followUps)
      \/ LoopTop(abort, l2, steering, f.rest)
      \/ log' = l /\ steering' = steering /\ followUps' = followUps
  BY DEF Stop, Finish
<1> HIDE DEF s, f, l1, l2
<1>5. CASE LoopTop(abort, l1, s.rest, followUps)
  BY <1>1, <1>2, <1>3, <1>5, LoopTopPlaces
<1>6. CASE LoopTop(abort, l2, steering, f.rest)
  BY <1>1, <1>2, <1>3, <1>6, LoopTopPlaces
<1> QED
  BY <1>4, <1>5, <1>6 DEF Placed

\* What is known before a slice in which no item is added.
Steady == TurnInv /\ Placed /\ items' = items /\ withdrawn' = withdrawn

LEMMA SteadyFacts ==
  ASSUME Steady
  PROVE  /\ items' \in Nat /\ called \in Nat /\ log \in Seq(MessagesOver(called))
         /\ steering \in Seq(1 .. items') /\ followUps \in Seq(1 .. items')
         /\ OnePlace(log, steering, followUps, withdrawn', items')
PROOF
  BY DEF Steady, TurnInv, LogIs, QueuesOK, CountsOK, Placed

LEMMA FinishPlaces ==
  ASSUME Steady, NEW l, OnePlace(l, steering, followUps, withdrawn', items'),
         log' = l, steering' = steering, followUps' = followUps
  PROVE  Placed'
PROOF
  BY DEF Placed

LEMMA RecordedPlaces ==
  ASSUME Steady, NEW got, GotOK(got), NEW stop \in {"stop", "aborted", "error"}
  PROVE  /\ Append(log, Recorded(got, stop)) \in Seq(MessagesOver(called'))
         /\ called' \in Nat
         /\ OnePlace(Append(log, Recorded(got, stop)), steering, followUps, withdrawn', items')
PROOF
<1> DEFINE x == Recorded(got, stop)
           u == << x >>
<1>1. called \in Nat /\ LogIs(log, called)
  BY SteadyFacts DEF Steady, TurnInv
<1>2. called' \in Nat /\ called <= called' /\ x \in MessagesOver(called') /\ x.role = "assistant"
  BY <1>1, RecordedIs, ZenonT(60) DEF GotOK
<1> HIDE DEF x
<1>3. log \in Seq(MessagesOver(called'))
  BY <1>1, <1>2, MessagesMore DEF LogIs
<1>4. u \in Seq(MessagesOver(called')) /\ Len(u) = 1 /\ u[1] = x
  BY <1>2
<1>5. \A i \in 1 .. Len(u) : u[i].role \in {"assistant", "result"}
  BY <1>2, <1>4
<1>6. Append(log, x) = log \o u /\ Append(log, x) \in Seq(MessagesOver(called'))
  BY <1>2, <1>3
<1> HIDE DEF u
<1>7. OnePlace(log \o u, steering, followUps, withdrawn', items')
  BY <1>3, <1>4, <1>5, SteadyFacts, OthersSaid
<1> QED
  BY <1>2, <1>6, <1>7 DEF x

LEMMA SettlePlaces ==
  ASSUME Steady, NEW how, NEW got, GotOK(got), Settle(how, got) PROVE Placed'
PROOF
<1> DEFINE ids == [i \in 1 .. got - 1 |-> called + i]
           l(stop) == Append(log, Recorded(got, stop))
<1>1. \A stop \in {"stop", "aborted", "error"} :
        /\ l(stop) \in Seq(MessagesOver(called')) /\ called' \in Nat
        /\ OnePlace(l(stop), steering, followUps, withdrawn', items')
  BY RecordedPlaces
<1>2. CASE Finish(log, steering, followUps)
  BY <1>2, SteadyFacts, FinishPlaces DEF Finish
<1>3. CASE \E stop \in {"aborted", "error"} : Finish(l(stop), steering, followUps)
  <2>1. PICK stop \in {"aborted", "error"} : Finish(l(stop), steering, followUps)
    BY <1>3
  <2>2. OnePlace(l(stop), steering, followUps, withdrawn', items')
    BY <1>1
  <2> HIDE DEF l
  <2> QED
    BY <2>1, <2>2, FinishPlaces DEF Finish
<1>4. CASE Stop(l("stop"))
  <2>1. /\ l("stop") \in Seq(MessagesOver(called')) /\ called' \in Nat
        /\ OnePlace(l("stop"), steering, followUps, withdrawn', items')
    BY <1>1
  <2> HIDE DEF l
  <2> QED
    BY <1>4, <2>1, SteadyFacts, StopPlaces
<1>5. CASE Dispatch(l("stop"), ids, SubSeq(stream.answer, 1, got - 1))
  <2>1. OnePlace(l("stop"), steering, followUps, withdrawn', items')
    BY <1>1
  <2>2. log' = l("stop") /\ steering' = steering /\ followUps' = followUps
    BY <1>5 DEF Dispatch, Finish
  <2> HIDE DEF l
  <2> QED
    BY <2>1, <2>2, FinishPlaces
<1> QED
  BY <1>2, <1>3, <1>4, <1>5, SettleIs

LEMMA SamePlaces ==
  ASSUME Steady, UNCHANGED <<log, steering, followUps>> PROVE Placed'
PROOF
  BY SteadyFacts DEF Placed

LEMMA ReceivePlaces == ASSUME TurnInv, Placed, Receive PROVE Placed'
PROOF
<1>1. Steady
  BY DEF Receive, Steady
<1>2. CASE UNCHANGED <<log, steering, followUps>>
  BY <1>1, <1>2, SamePlaces
<1>3. ASSUME NEW how \in Ends, Conclude(how, stream.sent) PROVE Placed'
  <2>1. CASE Retries(how, stream.sent)
    BY <1>2, <1>3, <2>1 DEF Conclude
  <2>2. CASE ~Retries(how, stream.sent)
    <3>1. StreamOK /\ stream.sent \in Nat
      BY StreamFields DEF TurnInv
    <3>2. GotOK(stream.sent) /\ Settle(how, stream.sent)
      BY <1>3, <2>2, <3>1 DEF Conclude, GotOK, StreamOK
    <3> QED
      BY <1>1, <3>2, SettlePlaces
  <2> QED
    BY <2>1, <2>2
<1> QED
  BY <1>2, <1>3 DEF Receive

LEMMA BackoffPlaces == ASSUME TurnInv, Placed, Backoff PROVE Placed'
PROOF
<1>1. Steady /\ called' = called
  BY DEF Backoff, Steady
<1>2. CASE Settle(stream.status, 0)
  <2>1. Chunks(stream.answer) \in Nat /\ called \in Nat
    BY StreamFields DEF TurnInv, CountsOK
  <2>2. GotOK(0)
    BY <1>1, <2>1 DEF GotOK
  <2> QED
    BY <1>1, <1>2, <2>2, SettlePlaces
<1>3. CASE UNCHANGED <<log, steering, followUps>>
  BY <1>1, <1>3, SamePlaces
<1> QED
  BY <1>2, <1>3 DEF Backoff, Finish

\* The transcript with the results of the calls.
LEMMA ResultsAre ==
  ASSUME TurnInv, turn = "tools"
  PROVE  LET u == StandInsOf(tools.calls)
         IN  /\ u \in Seq(MessagesOver(called)) /\ Len(u) = Len(tools.calls)
             /\ \A i \in 1 .. Len(u) : u[i].role = "result"
             /\ log \in Seq(MessagesOver(called)) /\ called \in Nat
             /\ log \o u \in Seq(MessagesOver(called))
PROOF
<1> DEFINE u == StandInsOf(tools.calls)
<1>1. called \in Nat /\ log \in Seq(MessagesOver(called))
  BY DEF TurnInv, CountsOK, LogIs
<1>3. tools.calls \in Seq(1 .. called)
  BY DEF TurnInv, ToolsOK
<1>4. u \in Seq(MessagesOver(called)) /\ StandFor(u, tools.calls)
  BY <1>1, <1>3, StandIns
<1> HIDE DEF u
<1>5. Len(u) = Len(tools.calls) /\ \A i \in 1 .. Len(u) : u[i].role = "result"
  BY <1>4 DEF StandFor
<1>6. log \o u \in Seq(MessagesOver(called))
  BY <1>1, <1>4
<1> QED
  BY <1>1, <1>4, <1>5, <1>6 DEF u

LEMMA ToolPlaces ==
  ASSUME TurnInv, Placed, NEW i \in DOMAIN tools.calls, FinishTool(i) PROVE Placed'
PROOF
<1>1. Steady /\ turn = "tools"
  BY DEF FinishTool, Steady
<1>2. \/ UNCHANGED <<log, steering, followUps>>
      \/ \E ends \in {tools.ends, tools.ends \cup {i}} : Results(ends)
  BY DEF FinishTool, Finish
<1>3. CASE UNCHANGED <<log, steering, followUps>>
  BY <1>1, <1>3, SamePlaces
<1>4. ASSUME NEW ends \in {tools.ends, tools.ends \cup {i}}, Results(ends) PROVE Placed'
  <2> DEFINE u == StandInsOf(tools.calls)
             l == log \o u
  <2>1. /\ u \in Seq(MessagesOver(called)) /\ \A j \in 1 .. Len(u) : u[j].role = "result"
        /\ log \in Seq(MessagesOver(called)) /\ called \in Nat
        /\ l \in Seq(MessagesOver(called))
    BY <1>1, ResultsAre
  <2>2. Stop(l) \/ LoopTop(abort, l, steering, followUps)
    BY <1>4 DEF Results, StandInsOf
  <2> HIDE DEF u
  <2>3. OnePlace(l, steering, followUps, withdrawn', items')
    <3>1. \A j \in 1 .. Len(u) : u[j].role \in {"assistant", "result"}
      BY <2>1
    <3> QED
      BY <1>1, <2>1, <3>1, SteadyFacts, OthersSaid
  <2> HIDE DEF l
  <2> QED
    BY <1>1, <2>1, <2>2, <2>3, SteadyFacts, StopPlaces, LoopTopPlaces
<1> QED
  BY <1>2, <1>3, <1>4

LEMMA PromptPlaces == ASSUME TurnInv, Placed, Prompt PROVE Placed'
PROOF
<1>1. /\ items \in Nat /\ called \in Nat /\ log \in Seq(MessagesOver(called))
      /\ steering \in Seq(1 .. items) /\ followUps \in Seq(1 .. items)
  BY DEF TurnInv, LogIs, QueuesOK, CountsOK
<1>2. items' = items + 1 /\ withdrawn' = withdrawn
  BY DEF Prompt
<1>3. items' \in Nat /\ steering \in Seq(1 .. items') /\ followUps \in Seq(1 .. items')
  BY <1>1, <1>2, MoreItems
<1> DEFINE l == Append(log, FromUser("prompt", items'))
<1>4. OnePlace(l, steering, followUps, withdrawn', items')
  BY <1>1, <1>2, NewItemSaid DEF Placed
<1>5. l \in Seq(MessagesOver(called))
  <2>1. FromUser("prompt", items') \in MessagesOver(called)
    <3>1. << >> \in Seq(1 .. called)
      OBVIOUS
    <3> QED
      BY <1>3, <3>1 DEF FromUser, Message, MessagesOver, Users
  <2> QED
    BY <1>1, <2>1
<1>6. LoopTop(FALSE, l, steering, followUps)
  BY DEF Prompt
<1> HIDE DEF l
<1> QED
  BY <1>1, <1>3, <1>4, <1>5, <1>6, LoopTopPlaces

LEMMA QueuePlaces == ASSUME TurnInv, Placed, Queue PROVE Placed'
PROOF
<1>1. /\ items \in Nat /\ called \in Nat /\ log \in Seq(MessagesOver(called))
      /\ steering \in Seq(1 .. items) /\ followUps \in Seq(1 .. items)
  BY DEF TurnInv, LogIs, QueuesOK, CountsOK
<1>2. items' = items + 1 /\ withdrawn' = withdrawn /\ log' = log
  BY DEF Queue
<1>3. /\ InOrderIn(log, "steering", steering) /\ InOrderIn(log, "follow-up", followUps)
      /\ Parted(SpokenIn(log), ToSet(steering), ToSet(followUps), withdrawn, items)
      /\ SpokenIn(log) \subseteq 1 .. items
  BY DEF Placed, OnePlace, Parted
<1>4. items + 1 \notin 1 .. items /\ 1 .. items + 1 = (1 .. items) \cup {items + 1}
  BY <1>1
<1>5. CASE steering' = Append(steering, items') /\ UNCHANGED followUps
  <2>1. InOrderIn(log, "steering", steering') /\ ToSet(steering') = ToSet(steering) \cup {items + 1}
    BY <1>1, <1>2, <1>3, <1>5, OrderQueued DEF Users
  <2>2. Parted(SpokenIn(log), ToSet(steering'), ToSet(followUps), withdrawn, items + 1)
    BY <1>3, <1>4, <2>1 DEF Parted
  <2> QED
    BY <1>2, <1>3, <1>5, <2>1, <2>2 DEF Placed, OnePlace
<1>6. CASE followUps' = Append(followUps, items') /\ UNCHANGED steering
  <2>1. /\ InOrderIn(log, "follow-up", followUps')
        /\ ToSet(followUps') = ToSet(followUps) \cup {items + 1}
    BY <1>1, <1>2, <1>3, <1>6, OrderQueued DEF Users
  <2>2. Parted(SpokenIn(log), ToSet(steering), ToSet(followUps'), withdrawn, items + 1)
    BY <1>3, <1>4, <2>1 DEF Parted
  <2> QED
    BY <1>2, <1>3, <1>6, <2>1, <2>2 DEF Placed, OnePlace
<1> QED
  BY <1>5, <1>6 DEF Queue

LEMMA WithdrawPlaces == ASSUME TurnInv, Placed, Withdraw PROVE Placed'
PROOF
<1>1. items \in Nat /\ steering \in Seq(1 .. items) /\ followUps \in Seq(1 .. items)
  BY DEF TurnInv, QueuesOK
<1>2. log' = log /\ items' = items
  BY DEF Withdraw, counters
<1>3. /\ InOrderIn(log, "steering", steering) /\ InOrderIn(log, "follow-up", followUps)
      /\ Parted(SpokenIn(log), ToSet(steering), ToSet(followUps), withdrawn, items)
  BY DEF Placed, OnePlace
<1>4. ASSUME NEW i \in DOMAIN steering, steering' = RemoveAt(steering, i),
             withdrawn' = withdrawn \cup {steering[i]}, UNCHANGED followUps
      PROVE  Placed'
  <2>1. /\ InOrderIn(log, "steering", steering')
        /\ ToSet(steering') = ToSet(steering) \ {steering[i]} /\ steering[i] \in ToSet(steering)
    BY <1>1, <1>3, <1>4, OrderRemoved
  <2>2. Parted(SpokenIn(log), ToSet(steering'), ToSet(followUps), withdrawn', items)
    BY <1>3, <1>4, <2>1 DEF Parted
  <2> QED
    BY <1>2, <1>3, <1>4, <2>1, <2>2 DEF Placed, OnePlace
<1>5. ASSUME NEW i \in DOMAIN followUps, followUps' = RemoveAt(followUps, i),
             withdrawn' = withdrawn \cup {followUps[i]}, UNCHANGED steering
      PROVE  Placed'
  <2>1. /\ InOrderIn(log, "follow-up", followUps')
        /\ ToSet(followUps') = ToSet(followUps) \ {followUps[i]} /\ followUps[i] \in ToSet(followUps)
    BY <1>1, <1>3, <1>5, OrderRemoved
  <2>2. Parted(SpokenIn(log), ToSet(steering), ToSet(followUps'), withdrawn', items)
    BY <1>3, <1>5, <2>1 DEF Parted
  <2> QED
    BY <1>2, <1>3, <1>5, <2>1, <2>2, SMTT(60) DEF Placed, OnePlace
<1> QED
  BY <1>4, <1>5 DEF Withdraw

LEMMA OrderEmptied == ASSUME NEW l, NEW kind, NEW q, InOrderIn(l, kind, q) PROVE InOrderIn(l, kind, << >>)
PROOF
<1>1. Len(<< >>) = 0 /\ \A i \in 1 .. 0 : FALSE
  OBVIOUS
<1> QED
  BY <1>1 DEF InOrderIn

LEMMA AbortPlaces == ASSUME TurnInv, Placed, Abort PROVE Placed'
PROOF
<1>1. /\ log' = log /\ items' = items /\ steering' = << >> /\ followUps' = << >>
      /\ withdrawn' = withdrawn \cup ToSet(steering) \cup ToSet(followUps)
  BY DEF Abort, counters
<1>2. /\ InOrderIn(log, "steering", << >>) /\ InOrderIn(log, "follow-up", << >>)
      /\ Parted(SpokenIn(log), ToSet(steering), ToSet(followUps), withdrawn, items)
  BY OrderEmptied DEF Placed, OnePlace
<1>3. ToSet(<< >>) = {}
  BY DEF ToSet
<1>4. Parted(SpokenIn(log), {}, {}, withdrawn', items)
  BY <1>1, <1>2 DEF Parted
<1> QED
  BY <1>1, <1>2, <1>3, <1>4 DEF Placed, OnePlace

LEMMA InjectPlaces == ASSUME TurnInv, Placed, Inject PROVE Placed'
PROOF
<1>1. items \in Nat /\ called \in Nat /\ log \in Seq(MessagesOver(called))
  BY DEF TurnInv, LogIs, QueuesOK, CountsOK
<1>2. /\ items' = items + 1 /\ UNCHANGED <<withdrawn, steering, followUps>>
      /\ log' = Append(log, FromUser("injected", items'))
  BY DEF Inject, queues
<1> QED
  BY <1>1, <1>2, NewItemSaid DEF Placed

LEMMA PlacesStep == ASSUME TurnInv, Placed, [TurnNext]_turnVars PROVE Placed'
PROOF
<1>1. CASE Receive  BY <1>1, ReceivePlaces
<1>2. CASE Backoff  BY <1>2, BackoffPlaces
<1>3. CASE \E i \in DOMAIN tools.calls : FinishTool(i)  BY <1>3, ToolPlaces
<1>4. CASE Prompt  BY <1>4, PromptPlaces
<1>5. CASE Transfer \/ UNCHANGED turnVars
  <2>1. Steady /\ UNCHANGED <<log, steering, followUps>>
    BY <1>5 DEF Transfer, turnVars, queues, counters, Steady
  <2> QED
    BY <2>1, SamePlaces
<1>6. CASE Queue  BY <1>6, QueuePlaces
<1>7. CASE Withdraw  BY <1>7, WithdrawPlaces
<1>8. CASE Abort  BY <1>8, AbortPlaces
<1>9. CASE Inject  BY <1>9, InjectPlaces
<1> QED
  BY <1>1, <1>2, <1>3, <1>4, <1>5, <1>6, <1>7, <1>8, <1>9 DEF TurnNext, Slice

LEMMA PlacesStart == TurnInit => Placed
PROOF
<1> SUFFICES ASSUME TurnInit PROVE Placed
  OBVIOUS
<1>1. Len(<< >>) = 0 /\ (\A i \in 1 .. 0 : FALSE) /\ 1 .. 0 = {}
  OBVIOUS
<1>2. ToSet(<< >>) = {}
  BY DEF ToSet
<1>3. SpokenIn(<< >>) = {}
  BY <1>1 DEF SpokenIn
<1>4. \A kind : InOrderIn(<< >>, kind, << >>)
  BY <1>1 DEF InOrderIn
<1>5. Parted({}, {}, {}, {}, 0)
  BY <1>1 DEF Parted
<1> QED
  BY <1>2, <1>3, <1>4, <1>5 DEF TurnInit, Placed, OnePlace

\* In the words of the property.
LEMMA PlacedIs == ASSUME TurnInv, Placed PROVE InOnePlace
PROOF
<1>1. /\ log \in Seq(MessagesOver(called)) /\ steering \in Seq(1 .. items)
      /\ followUps \in Seq(1 .. items)
  BY DEF TurnInv, LogIs, QueuesOK
<1>2. /\ DOMAIN log = 1 .. Len(log) /\ DOMAIN steering = 1 .. Len(steering)
      /\ DOMAIN followUps = 1 .. Len(followUps)
  BY <1>1
<1>3. InOrder("steering", steering) /\ InOrder("follow-up", followUps)
  BY <1>2, SMTT(60) DEF Placed, OnePlace, InOrderIn, InOrder
<1>4. SpokenIn(log) = {log[i].ref : i \in {j \in DOMAIN log : log[j].role \in Users}}
  BY <1>2 DEF SpokenIn
<1>5. Parted(SpokenIn(log), ToSet(steering), ToSet(followUps), withdrawn, items)
  BY DEF Placed, OnePlace
<1>6. /\ SpokenIn(log) \cup Pending \cup withdrawn = 1 .. items
      /\ SpokenIn(log) \cap Pending = {} /\ withdrawn \cap (SpokenIn(log) \cup Pending) = {}
  BY <1>5 DEF Parted, Pending
<1> QED
  BY <1>3, <1>4, <1>6 DEF InOnePlace

-----------------------------------------------------------------------------
(* What a step adds to the transcript. *)

\* A slice only steers after l.
Steers(l) ==
  Grows(l, log') /\ \A i \in Len(l) + 1 .. Len(log') : log'[i].role = "steering"

\* A slice steers after l, or it says follow-ups.
GoesOn(l) ==
  /\ Grows(l, log')
  /\ \A i \in Len(l) + 1 .. Len(log') :
       \/ log'[i].role = "steering"
       \/ /\ log'[i].role = "follow-up" /\ steering = << >>
          /\ i = Len(l) + 1 \/ log'[i - 1].role = "follow-up"

LEMMA GrowsNot == ASSUME NEW S, NEW l \in Seq(S), log' = l PROVE Steers(l) /\ GoesOn(l)
PROOF
<1>1. Len(l) \in Nat /\ Len(l) + 1 .. Len(l) = {}
  OBVIOUS
<1> QED
  BY <1>1 DEF Steers, GoesOn, Grows

LEMMA LoopTopSteers ==
  ASSUME NEW c \in Nat, NEW l \in Seq(MessagesOver(c)), NEW n \in Nat, NEW s \in Seq(1 .. n),
         NEW f, NEW a, LoopTop(a, l, s, f)
  PROVE  Steers(l)
PROOF
<1> DEFINE t  == Drained(s).taken
           l2 == l \o Said("steering", t)
<1>1. t \in Seq(1 .. n)
  BY DrainedIs
<1>2. log' = l \/ log' = l2
  BY DEF LoopTop, Finish
<1>3. CASE log' = l2
  <2>1. /\ Len(l2) = Len(l) + Len(t) /\ Len(l) \in Nat /\ Len(t) \in Nat
        /\ \A i \in 1 .. Len(l) : l2[i] = l[i]
        /\ \A i \in 1 .. Len(l2) :
             i \in 1 .. Len(l) \/ (i - Len(l) \in 1 .. Len(t) /\ l2[i].role = "steering")
    <3> HIDE DEF t
    <3>1. "steering" \in Users
      BY DEF Users
    <3> QED
      BY <1>1, <3>1, SaidPoints
  <2> HIDE DEF t, l2
  <2>2. \A i \in Len(l) + 1 .. Len(l2) : i \in 1 .. Len(l2) /\ i \notin 1 .. Len(l)
    BY <2>1
  <2> QED
    BY <1>3, <2>1, <2>2, SMTT(60) DEF Steers, Grows
<1> QED
  BY <1>2, <1>3, GrowsNot

LEMMA SteersGoesOn == ASSUME NEW l, Steers(l) PROVE GoesOn(l)
PROOF
  BY DEF Steers, GoesOn

LEMMA StopGoesOn ==
  ASSUME NEW c \in Nat, NEW l \in Seq(MessagesOver(c)), NEW n \in Nat,
         steering \in Seq(1 .. n), followUps \in Seq(1 .. n), Stop(l)
  PROVE  GoesOn(l)
PROOF
<1> DEFINE s  == Drained(steering)
           f  == Drained(followUps)
           l1 == l \o Said("steering", s.taken)
           l2 == l \o Said("follow-up", f.taken)
<1>1. /\ s.taken \in Seq(1 .. n) /\ s.rest \in Seq(1 .. n)
      /\ f.taken \in Seq(1 .. n) /\ f.rest \in Seq(1 .. n)
  BY DrainedIs
<1>2. \/ LoopTop(abort, l1, s.rest, followUps)
      \/ steering = << >> /\ LoopTop(abort, l2, steering, f.rest)
      \/ log' = l
  BY DEF Stop, Finish
<1> HIDE DEF s, f
<1>3. CASE LoopTop(abort, l1, s.rest, followUps)
  <2>1. /\ l1 \in Seq(MessagesOver(c)) /\ Len(l) \in Nat
        /\ Len(l1) = Len(l) + Len(s.taken) /\ Len(s.taken) \in Nat
        /\ \A i \in 1 .. Len(l) : l1[i] = l[i]
        /\ \A i \in 1 .. Len(l1) : i \in 1 .. Len(l) \/ l1[i].role = "steering"
    <3> DEFINE t == s.taken
    <3>1. "steering" \in Users /\ t \in Seq(1 .. n)
      BY <1>1 DEF Users
    <3>2. l1 = l \o Said("steering", t)
      OBVIOUS
    <3> HIDE DEF t, l1
    <3>3. /\ l1 \in Seq(MessagesOver(c)) /\ Len(l) \in Nat
          /\ Len(l1) = Len(l) + Len(t) /\ Len(t) \in Nat
          /\ \A i \in 1 .. Len(l) : l1[i] = l[i]
          /\ \A i \in 1 .. Len(l1) :
               i \in 1 .. Len(l) \/ (i - Len(l) \in 1 .. Len(t) /\ l1[i].role = "steering")
      BY <3>1, <3>2, SaidPoints
    <3> QED
      BY <3>3 DEF t
  <2> HIDE DEF l1
  <2>2. Steers(l1)
    BY <1>1, <1>3, <2>1, LoopTopSteers, SMTT(60)
  <2>4. Grows(l, log')
    <3>1. Len(l) <= Len(l1) /\ Len(l1) \in Nat /\ Len(l1) <= Len(log')
          /\ \A i \in 1 .. Len(l) : i \in 1 .. Len(l1)
      BY <2>1, <2>2 DEF Steers, Grows
    <3>2. \A i \in 1 .. Len(l) : log'[i] = l[i]
      BY <2>1, <2>2, <3>1 DEF Steers, Grows
    <3>3. Len(l) <= Len(log')
      BY <2>1, <3>1
    <3> QED
      BY <3>2, <3>3 DEF Grows
  <2>5. ASSUME NEW i \in Len(l) + 1 .. Len(log') PROVE log'[i].role = "steering"
    <3>1. CASE i \in 1 .. Len(l1)
      <4>1. i \notin 1 .. Len(l)
        BY <2>1
      <4> QED
        BY <2>1, <2>2, <3>1, <4>1, SMTT(60) DEF Steers, Grows
    <3>2. CASE i \notin 1 .. Len(l1)
      <4>1. i \in Len(l1) + 1 .. Len(log')
        BY <2>1, <3>2
      <4> QED
        BY <2>2, <4>1 DEF Steers
    <3> QED
      BY <3>1, <3>2
  <2> QED
    BY <2>4, <2>5 DEF GoesOn
<1>4. CASE steering = << >> /\ LoopTop(abort, l2, steering, f.rest)
  <2>1. /\ l2 \in Seq(MessagesOver(c)) /\ Len(l) \in Nat
        /\ Len(l2) = Len(l) + Len(f.taken) /\ Len(f.taken) \in Nat
        /\ \A i \in 1 .. Len(l) : l2[i] = l[i]
        /\ \A i \in 1 .. Len(l2) : i \in 1 .. Len(l) \/ l2[i].role = "follow-up"
    <3> DEFINE t == f.taken
    <3>1. "follow-up" \in Users /\ t \in Seq(1 .. n)
      BY <1>1 DEF Users
    <3>2. l2 = l \o Said("follow-up", t)
      OBVIOUS
    <3> HIDE DEF t, l2
    <3>3. /\ l2 \in Seq(MessagesOver(c)) /\ Len(l) \in Nat
          /\ Len(l2) = Len(l) + Len(t) /\ Len(t) \in Nat
          /\ \A i \in 1 .. Len(l) : l2[i] = l[i]
          /\ \A i \in 1 .. Len(l2) :
               i \in 1 .. Len(l) \/ (i - Len(l) \in 1 .. Len(t) /\ l2[i].role = "follow-up")
      BY <3>1, <3>2, SaidPoints
    <3> QED
      BY <3>3 DEF t
  <2> HIDE DEF l2
  <2>2. Steers(l2)
    BY <1>1, <1>4, <2>1, LoopTopSteers
  <2>4. Grows(l, log')
    <3>1. Len(l) <= Len(l2) /\ Len(l2) \in Nat /\ Len(l2) <= Len(log')
          /\ \A i \in 1 .. Len(l) : i \in 1 .. Len(l2)
      BY <2>1, <2>2, SMTT(60) DEF Steers, Grows
    <3>2. \A i \in 1 .. Len(l) : log'[i] = l[i]
      BY <2>1, <2>2, <3>1 DEF Steers, Grows
    <3>3. Len(l) <= Len(log')
      BY <2>1, <3>1
    <3> QED
      BY <3>2, <3>3 DEF Grows
  <2>5. ASSUME NEW i \in Len(l) + 1 .. Len(log')
        PROVE  \/ log'[i].role = "steering"
               \/ /\ log'[i].role = "follow-up"
                  /\ i = Len(l) + 1 \/ log'[i - 1].role = "follow-up"
    <3>1. CASE i \in 1 .. Len(l2)
      <4>1. i \notin 1 .. Len(l)
        BY <2>1
      <4>2. log'[i].role = "follow-up"
        BY <2>1, <2>2, <3>1, <4>1 DEF Steers, Grows
      <4>3. CASE i # Len(l) + 1
        <5> DEFINE j == i - 1
        <5>1. j \in 1 .. Len(l2) /\ j \notin 1 .. Len(l)
          BY <2>1, <3>1, <4>3, SMTT(60)
        <5> HIDE DEF j
        <5>2. log'[j].role = "follow-up"
          BY <2>1, <2>2, <5>1 DEF Steers, Grows
        <5> QED
          BY <4>2, <5>2 DEF j
      <4> QED
        BY <4>2, <4>3
    <3>2. CASE i \notin 1 .. Len(l2)
      <4>1. i \in Len(l2) + 1 .. Len(log')
        BY <2>1, <3>2
      <4> QED
        BY <2>2, <4>1 DEF Steers
    <3> QED
      BY <3>1, <3>2
  <2> QED
    BY <1>4, <2>4, <2>5 DEF GoesOn
<1> QED
  BY <1>2, <1>3, <1>4, GrowsNot

\* A follow-up at i is in its turn.
InTurn(i) ==
  /\ steering = << >>
  /\ log'[i - 1].role # "steering"
  /\ log'[i - 1].role = "assistant" => log'[i - 1].calls = << >>
  /\ log'[i - 1].role = "result" => tools.ends \cup tools.running = DOMAIN tools.calls

\* An answer is whole, or it was cut off.
WholeOrCut(m) == m.role = "assistant" /\ m.stop = "stop" => m.whole \/ abort

Tells ==
  \A i \in DOMAIN log' \ DOMAIN log :
    /\ log'[i].role = "follow-up" => InTurn(i)
    /\ WholeOrCut(log'[i])

\* The turn may say follow-ups after l.
EndsTurn(l) ==
  /\ l # << >> /\ l[Len(l)].role # "steering"
  /\ l[Len(l)].role = "assistant" => l[Len(l)].calls = << >>
  /\ l[Len(l)].role = "result" => tools.ends \cup tools.running = DOMAIN tools.calls

LEMMA BaseTells ==
  ASSUME NEW S, log \in Seq(S), NEW T, log' \in Seq(T), NEW U, NEW l \in Seq(U), Grows(log, l),
         \A i \in Len(log) + 1 .. Len(l) : l[i].role # "follow-up" /\ WholeOrCut(l[i]),
         Steers(l) \/ (GoesOn(l) /\ EndsTurn(l))
  PROVE  Tells
PROOF
<1>1. /\ DOMAIN log = 1 .. Len(log) /\ DOMAIN log' = 1 .. Len(log')
      /\ Len(log) \in Nat /\ Len(log') \in Nat /\ Len(l) \in Nat
  OBVIOUS
<1>2. GoesOn(l)
  BY SteersGoesOn
<1>3. Len(l) <= Len(log') /\ \A i \in 1 .. Len(l) : log'[i] = l[i]
  BY <1>2 DEF GoesOn, Grows
<1>4. ASSUME NEW i \in DOMAIN log' \ DOMAIN log
      PROVE  /\ log'[i].role = "follow-up" => InTurn(i)
             /\ WholeOrCut(log'[i])
  <2>1. i \in 1 .. Len(log') /\ i \notin 1 .. Len(log)
    BY <1>1
  <2>2. CASE i \in 1 .. Len(l)
    <3>1. i \in Len(log) + 1 .. Len(l) /\ log'[i] = l[i]
      BY <1>1, <1>3, <2>1, <2>2
    <3> QED
      BY <3>1
  <2>3. CASE i \notin 1 .. Len(l)
    <3>1. i \in Len(l) + 1 .. Len(log')
      BY <1>1, <2>1, <2>3
    <3>2. log'[i].role # "assistant"
      BY <1>2, <3>1, SMTT(60) DEF GoesOn
    <3>3. WholeOrCut(log'[i])
      BY <3>2 DEF WholeOrCut
    <3>4. ASSUME log'[i].role = "follow-up" PROVE InTurn(i)
      <4>1. EndsTurn(l)
        BY <3>1, <3>4 DEF Steers
      <4>2. steering = << >> /\ (i = Len(l) + 1 \/ log'[i - 1].role = "follow-up")
        BY <1>2, <3>1, <3>4 DEF GoesOn
      <4>3. CASE i = Len(l) + 1
        <5>1. i - 1 = Len(l) /\ Len(l) \in 1 .. Len(l)
          <6>1. l # << >>
            BY <4>1 DEF EndsTurn
          <6> QED
            BY <1>1, <4>3, <6>1
        <5>2. log'[i - 1] = l[Len(l)]
          BY <1>3, <5>1
        <5> QED
          BY <4>1, <4>2, <5>2 DEF EndsTurn, InTurn
      <4>4. CASE log'[i - 1].role = "follow-up"
        BY <4>2, <4>4 DEF InTurn
      <4> QED
        BY <4>2, <4>3, <4>4
    <3> QED
      BY <3>3, <3>4
  <2> QED
    BY <2>2, <2>3
<1> QED
  BY <1>4 DEF Tells

LEMMA SameTells == ASSUME log' = log PROVE Tells
PROOF
  BY DEF Tells

\* What holds on both sides of a step.
Typed ==
  /\ log \in Seq(MessagesOver(called)) /\ log' \in Seq(MessagesOver(called'))
  /\ called \in Nat /\ called' \in Nat /\ items \in Nat
  /\ steering \in Seq(1 .. items) /\ followUps \in Seq(1 .. items)

LEMMA TypedIs == ASSUME TurnInv, TurnInv' PROVE Typed
PROOF
  BY DEF TurnInv, LogIs, QueuesOK, CountsOK, Typed

LEMMA SettleTells ==
  ASSUME TurnInv, Typed, NEW how, NEW got, GotOK(got), Settle(how, got),
         how \notin {"failed", "busy", "refused"} => got = Chunks(stream.answer) \/ abort
  PROVE  Tells
PROOF
<1> DEFINE ids == [i \in 1 .. got - 1 |-> called + i]
           l(stop) == Append(log, Recorded(got, stop))
<1>1. called \in Nat /\ LogIs(log, called) /\ got \in Nat
  BY DEF TurnInv, CountsOK, GotOK
<1>2. ASSUME NEW stop \in {"stop", "aborted", "error"},
             stop = "stop" => got = Chunks(stream.answer) \/ abort
      PROVE  /\ l(stop) \in Seq(MessagesOver(called')) /\ Grows(log, l(stop))
             /\ \A i \in Len(log) + 1 .. Len(l(stop)) :
                  l(stop)[i].role # "follow-up" /\ WholeOrCut(l(stop)[i])
             /\ l(stop)[Len(l(stop))].role = "assistant"
             /\ l(stop)[Len(l(stop))].calls = ids
             /\ l(stop) # << >>
    <2> DEFINE x == Recorded(got, stop)
               m == l(stop)
    <2>1. /\ x.role = "assistant" /\ x.stop = stop /\ x.whole = (got = Chunks(stream.answer))
          /\ x.calls = ids /\ x \in MessagesOver(called') /\ called <= called'
      BY <1>1, RecordedIs, ZenonT(60) DEF GotOK
    <2> HIDE DEF x
    <2>2. WholeOrCut(x) /\ x.role # "follow-up"
      BY <1>2, <2>1 DEF WholeOrCut
    <2>3. log \in Seq(MessagesOver(called'))
      BY <1>1, <2>1, MessagesMore DEF LogIs, Typed
    <2>4. /\ m \in Seq(MessagesOver(called')) /\ Len(m) = Len(log) + 1 /\ Len(log) \in Nat
          /\ m[Len(log) + 1] = x /\ \A i \in 1 .. Len(log) : m[i] = log[i]
      <3>1. m = Append(log, x)
        BY DEF x
      <3> HIDE DEF m
      <3> QED
        BY <2>1, <2>3, <3>1
    <2> HIDE DEF l, m
    <2>5. m # << >> /\ Grows(log, m) /\ m[Len(m)] = x
      <3>1. Len(m) # 0
        BY <2>4
      <3> QED
        BY <2>4, <3>1 DEF Grows
    <2>6. \A i \in Len(log) + 1 .. Len(m) : m[i] = x
      <3>1. Len(log) + 1 .. Len(m) = {Len(log) + 1}
        BY <2>4
      <3> QED
        BY <2>4, <3>1
    <2> QED
      BY <2>1, <2>2, <2>4, <2>5, <2>6 DEF m
<1> HIDE DEF l
<1>3. CASE Finish(log, steering, followUps)
  BY <1>3, SameTells DEF Finish
<1>4. CASE \E stop \in {"aborted", "error"} : Finish(l(stop), steering, followUps)
  <2>1. PICK stop \in {"aborted", "error"} : Finish(l(stop), steering, followUps)
    BY <1>4
  <2>2. log' = l(stop) /\ stop # "stop"
    BY <2>1 DEF Finish
  <2>3. l(stop) \in Seq(MessagesOver(called'))
    BY <1>2, <2>2
  <2>4. Steers(l(stop))
    BY <2>2, <2>3, GrowsNot
  <2> QED
    BY <1>2, <2>2, <2>3, <2>4, BaseTells DEF Typed
<1>5. CASE how \notin {"failed", "busy", "refused"} /\ ids = << >> /\ Stop(l("stop"))
  <2> DEFINE m == l("stop")
  <2>1. /\ m \in Seq(MessagesOver(called')) /\ Grows(log, m)
        /\ \A i \in Len(log) + 1 .. Len(m) : m[i].role # "follow-up" /\ WholeOrCut(m[i])
        /\ m[Len(m)].role = "assistant" /\ m[Len(m)].calls = << >> /\ m # << >>
    BY <1>2, <1>5
  <2>2. Stop(m)
    BY <1>5
  <2> HIDE DEF m
  <2>3. GoesOn(m)
    BY <2>1, <2>2, StopGoesOn DEF Typed
  <2>4. EndsTurn(m)
    BY <2>1 DEF EndsTurn
  <2> QED
    BY <2>1, <2>3, <2>4, BaseTells DEF Typed
<1>6. CASE /\ how \notin {"failed", "busy", "refused"}
           /\ Dispatch(l("stop"), ids, SubSeq(stream.answer, 1, got - 1))
  <2> DEFINE m == l("stop")
  <2>1. /\ m \in Seq(MessagesOver(called')) /\ Grows(log, m)
        /\ \A i \in Len(log) + 1 .. Len(m) : m[i].role # "follow-up" /\ WholeOrCut(m[i])
    BY <1>2, <1>6
  <2>2. log' = m
    BY <1>6 DEF Dispatch, Finish
  <2> HIDE DEF m
  <2>3. Steers(m)
    BY <2>1, <2>2, GrowsNot
  <2> QED
    BY <2>1, <2>3, BaseTells DEF Typed
<1> QED
  BY <1>3, <1>4, <1>5, <1>6, SettleIs DEF l

LEMMA ReceiveTells == ASSUME TurnInv, TurnInv', Receive PROVE Tells
PROOF
<1>1. Typed
  BY TypedIs
<1>2. CASE log' = log
  BY <1>2, SameTells
<1>3. ASSUME Interrupted \/ (stream.status # "open" /\ stream.sent = stream.got),
             NEW how \in Ends, Conclude(how, stream.sent)
      PROVE  Tells
  <2>1. CASE Retries(how, stream.sent)
    BY <1>2, <1>3, <2>1 DEF Conclude
  <2>2. CASE ~Retries(how, stream.sent)
    <3>1. StreamOK /\ stream \in Streams /\ stream.sent \in Nat
      BY StreamFields DEF TurnInv, StreamOK
    <3>2. GotOK(stream.sent) /\ Settle(how, stream.sent)
      BY <1>3, <2>2, <3>1 DEF Conclude, GotOK, StreamOK
    <3>3. ASSUME how \notin {"failed", "busy", "refused"}, ~abort
          PROVE  stream.sent = Chunks(stream.answer)
      <4>1. stream.status # "open" /\ how = stream.status
        BY <1>3, <3>3 DEF Interrupted, Ends
      <4>2. stream.status \in {"none", "open", "ok", "failed", "busy", "refused"}
        BY <3>1 DEF Streams
      <4>3. stream.status # "none"
        BY <3>1 DEF StreamOK, Receive
      <4>4. stream.status = "ok"
        BY <3>3, <4>1, <4>2, <4>3
      <4> QED
        BY <3>1, <4>4 DEF StreamOK
    <3> QED
      BY <1>1, <3>2, <3>3, SettleTells
  <2> QED
    BY <2>1, <2>2
<1> QED
  BY <1>2, <1>3 DEF Receive

LEMMA BackoffTells == ASSUME TurnInv, TurnInv', Backoff PROVE Tells
PROOF
<1>1. Typed
  BY TypedIs
<1>2. CASE log' = log
  BY <1>2, SameTells
<1>3. CASE abort /\ Settle(stream.status, 0)
  <2>1. Chunks(stream.answer) \in Nat /\ called' = called
    BY StreamFields DEF TurnInv, Backoff
  <2>2. GotOK(0)
    BY <1>1, <2>1 DEF GotOK, Typed
  <2> QED
    BY <1>1, <1>3, <2>2, SettleTells
<1> QED
  BY <1>2, <1>3 DEF Backoff, Finish

LEMMA ToolTells ==
  ASSUME TurnInv, TurnInv', NEW i \in DOMAIN tools.calls, FinishTool(i) PROVE Tells
PROOF
<1>1. Typed
  BY TypedIs
<1>2. CASE log' = log
  BY <1>2, SameTells
<1>3. ASSUME NEW ends \in {tools.ends, tools.ends \cup {i}}, tools.running \ {i} = {}, Results(ends),
             i \in tools.running, turn = "tools"
      PROVE  Tells
  <2> DEFINE u == StandInsOf(tools.calls)
             l == log \o u
  <2>1. /\ u \in Seq(MessagesOver(called)) /\ \A j \in 1 .. Len(u) : u[j].role = "result"
        /\ Len(u) = Len(tools.calls)
        /\ l \in Seq(MessagesOver(called)) /\ called \in Nat /\ log \in Seq(MessagesOver(called))
    BY <1>3, ResultsAre
  <2>2. (Stop(l) /\ ends = DOMAIN tools.calls) \/ LoopTop(abort, l, steering, followUps)
    BY <1>3 DEF Results, StandInsOf
  <2> HIDE DEF u
  <2>3. Joined(log, u)
    BY <2>1, ConcatJoined
  <2>4. /\ Len(l) = Len(log) + Len(u) /\ Len(log) \in Nat /\ Len(u) \in Nat
        /\ \A j \in 1 .. Len(log) : l[j] = log[j]
        /\ \A j \in 1 .. Len(l) : j \in 1 .. Len(log) \/ l[j].role = "result"
    BY <2>1, <2>3 DEF Joined
  <2> HIDE DEF l
  <2>5. Grows(log, l)
    BY <2>4 DEF Grows
  <2>6. \A j \in Len(log) + 1 .. Len(l) : l[j].role = "result"
    <3>1. \A j \in Len(log) + 1 .. Len(l) : j \in 1 .. Len(l) /\ j \notin 1 .. Len(log)
      BY <2>4
    <3> QED
      BY <2>4, <3>1
  <2>7. \A j \in Len(log) + 1 .. Len(l) : l[j].role # "follow-up" /\ WholeOrCut(l[j])
    BY <2>6 DEF WholeOrCut
  <2>8. CASE LoopTop(abort, l, steering, followUps)
    <3>1. Steers(l)
      BY <1>1, <2>1, <2>8, LoopTopSteers DEF Typed
    <3> QED
      BY <1>1, <2>1, <2>5, <2>7, <3>1, BaseTells DEF Typed
  <2>9. CASE Stop(l) /\ ends = DOMAIN tools.calls
    <3>1. GoesOn(l)
      BY <1>1, <2>1, <2>9, StopGoesOn DEF Typed
    <3>2. Len(u) >= 1
      <4>1. tools.calls \in Seq(Nat)
        BY DEF TurnInv, ToolsOK, Dispatches
      <4>2. i \in 1 .. Len(tools.calls) /\ Len(tools.calls) \in Nat
        BY <4>1
      <4> QED
        BY <2>1, <4>2
    <3>3. Len(l) \in Len(log) + 1 .. Len(l)
      BY <2>4, <3>2
    <3>4. l[Len(l)].role = "result"
      BY <2>6, <3>3
    <3>5. l # << >>
      <4>1. Len(l) # 0
        BY <2>4, <3>2
      <4> QED
        BY <4>1
    <3>6. tools.ends \cup tools.running = DOMAIN tools.calls
      <4>1. tools.running = {i}
        BY <1>3
      <4>2. tools.ends \subseteq DOMAIN tools.calls
        BY TurnTyped DEF TurnTypeOK
      <4> QED
        BY <1>3, <2>9, <4>1, <4>2
    <3>7. EndsTurn(l)
      BY <3>4, <3>5, <3>6 DEF EndsTurn
    <3> QED
      BY <1>1, <2>1, <2>5, <2>7, <3>1, <3>7, BaseTells DEF Typed
  <2> QED
    BY <2>2, <2>8, <2>9
<1> QED
  BY <1>2, <1>3 DEF FinishTool, Finish

\* A message is said before the turn starts or between slices.
LEMMA MessageTells ==
  ASSUME Typed, NEW kind \in {"prompt", "injected"}, NEW x \in Nat,
         NEW l, l = Append(log, FromUser(kind, x)), log' = l \/ Steers(l)
  PROVE  Tells
PROOF
<1> DEFINE m == FromUser(kind, x)
<1>1. log \in Seq(MessagesOver(called))
  BY DEF Typed
<1>2. m \in MessagesOver(called) /\ m.role # "follow-up" /\ WholeOrCut(m)
  <2>1. << >> \in Seq(1 .. called)
    OBVIOUS
  <2> QED
    BY <2>1 DEF FromUser, Message, MessagesOver, Users, WholeOrCut
<1> HIDE DEF m
<1>3. /\ l \in Seq(MessagesOver(called)) /\ Len(l) = Len(log) + 1 /\ Len(log) \in Nat
      /\ l[Len(log) + 1] = m /\ \A i \in 1 .. Len(log) : l[i] = log[i]
  BY <1>1, <1>2 DEF m
<1>4. Grows(log, l)
  BY <1>3 DEF Grows
<1>5. \A i \in Len(log) + 1 .. Len(l) : l[i].role # "follow-up" /\ WholeOrCut(l[i])
  <2>1. Len(log) + 1 .. Len(l) = {Len(log) + 1}
    BY <1>3
  <2> QED
    BY <1>2, <1>3, <2>1
<1>6. Steers(l)
  BY <1>3, GrowsNot
<1> QED
  BY <1>1, <1>3, <1>4, <1>5, <1>6, BaseTells DEF Typed

LEMMA PromptTells == ASSUME TurnInv, TurnInv', Prompt PROVE Tells
PROOF
<1>1. Typed /\ items' \in Nat /\ items' = items + 1
  BY TypedIs DEF TurnInv, QueuesOK, Prompt
<1> DEFINE l == Append(log, FromUser("prompt", items'))
<1>2. l \in Seq(MessagesOver(called))
  <2>1. FromUser("prompt", items') \in MessagesOver(called)
    <3>1. << >> \in Seq(1 .. called)
      OBVIOUS
    <3> QED
      BY <1>1, <3>1 DEF FromUser, Message, MessagesOver, Users
  <2> QED
    BY <1>1, <2>1 DEF Typed
<1>3. LoopTop(FALSE, l, steering, followUps)
  BY DEF Prompt
<1>4. Steers(l)
  <2> HIDE DEF l
  <2> QED
    BY <1>1, <1>2, <1>3, LoopTopSteers DEF Typed
<1> QED
  BY <1>1, <1>4, MessageTells

LEMMA InjectTells == ASSUME TurnInv, TurnInv', Inject PROVE Tells
PROOF
<1>1. Typed /\ items' \in Nat
  BY TypedIs DEF TurnInv, QueuesOK, Inject
<1>2. log' = Append(log, FromUser("injected", items'))
  BY DEF Inject
<1> QED
  BY <1>1, <1>2, MessageTells

LEMMA StepTells == ASSUME TurnInv, TurnInv', [TurnNext]_turnVars PROVE Tells
PROOF
<1>1. CASE Receive  BY <1>1, ReceiveTells
<1>2. CASE Backoff  BY <1>2, BackoffTells
<1>3. CASE \E i \in DOMAIN tools.calls : FinishTool(i)  BY <1>3, ToolTells
<1>4. CASE Prompt  BY <1>4, PromptTells
<1>5. CASE Inject  BY <1>5, InjectTells
<1>6. CASE Transfer \/ Queue \/ Withdraw \/ Abort \/ UNCHANGED turnVars
  <2>1. log' = log
    BY <1>6 DEF Transfer, Queue, Withdraw, Abort, turnVars
  <2> QED
    BY <2>1, SameTells
<1> QED
  BY <1>1, <1>2, <1>3, <1>4, <1>5, <1>6 DEF TurnNext, Slice

\* A request that is retried had shown nothing.
LEMMA RetriesUnshown ==
  ASSUME TurnInv, [TurnNext]_turnVars, attempt' > attempt PROVE stream.sent = 0
PROOF
<1>1. attempt \in Nat
  BY DEF TurnInv, CountsOK
<1>2. attempt' # 0 /\ attempt' # attempt
  BY <1>1
<1>3. /\ \A l, s, f : ~Finish(l, s, f)
      /\ \A a, l, s, f : ~LoopTop(a, l, s, f)
      /\ \A l : ~Stop(l)
      /\ \A l, ids, modes : ~Dispatch(l, ids, modes)
  <2>1. \A l, s, f : ~Finish(l, s, f)
    BY <1>2 DEF Finish
  <2>2. \A a, l, s, f : ~LoopTop(a, l, s, f)
    BY <1>2, <2>1 DEF LoopTop
  <2>3. \A l : ~Stop(l)
    BY <2>1, <2>2 DEF Stop
  <2>4. \A l, ids, modes : ~Dispatch(l, ids, modes)
    BY <1>2, <2>1 DEF Dispatch
  <2> QED
    BY <2>1, <2>2, <2>3, <2>4
<1>4. \A how, got : ~Settle(how, got)
  BY <1>3, SettleIs
<1>5. CASE Receive
  <2>1. PICK how \in Ends : Conclude(how, stream.sent)
    BY <1>2, <1>5 DEF Receive
  <2>2. Retries(how, stream.sent)
    BY <1>4, <2>1 DEF Conclude
  <2> QED
    BY <2>2 DEF Retries
<1>6. CASE Backoff
  BY <1>2, <1>3, <1>4, <1>6 DEF Backoff
<1>7. CASE \E i \in DOMAIN tools.calls : FinishTool(i)
  <2>1. \A ends : ~Results(ends)
    BY <1>3 DEF Results
  <2> QED
    BY <1>2, <1>3, <1>7, <2>1 DEF FinishTool
<1>8. CASE Prompt
  BY <1>3, <1>8 DEF Prompt
<1>9. CASE Transfer \/ Queue \/ Withdraw \/ Abort \/ Inject \/ UNCHANGED turnVars
  BY <1>2, <1>9 DEF Transfer, Queue, Withdraw, Abort, Inject, turnVars
<1> QED
  BY <1>5, <1>6, <1>7, <1>8, <1>9 DEF TurnNext, Slice

\* What is queued is said once, in its order, and in its turn.
THEOREM QueuedSaid == TurnSpec => QueuedOnce
PROOF
<1>1. TurnInv /\ Placed /\ [TurnNext]_turnVars => TurnInv' /\ Placed' /\ Tells
  <2> SUFFICES ASSUME TurnInv, Placed, [TurnNext]_turnVars PROVE TurnInv' /\ Placed' /\ Tells
    OBVIOUS
  <2>1. TurnInv'
    BY TurnStep
  <2> QED
    BY <2>1, PlacesStep, StepTells
<1>2. TurnInv /\ Placed => InOnePlace
  BY PlacedIs
<1>3. Tells => [\A i \in DOMAIN log' \ DOMAIN log : log'[i].role = "follow-up" =>
         /\ steering = << >>
         /\ log'[i - 1].role # "steering"
         /\ log'[i - 1].role = "assistant" => log'[i - 1].calls = << >>
         /\ log'[i - 1].role = "result" =>
              tools.ends \cup tools.running = DOMAIN tools.calls]_turnVars
  BY DEF Tells, InTurn
<1> QED
  BY <1>1, <1>2, <1>3, TurnStarts, PlacesStart, PTL DEF TurnSpec, QueuedOnce, FollowUpsWait

\* The user reads every text once and whole, except what an abort cuts off.
THEOREM AnswersWhole == TurnSpec => AnswersAreWhole
PROOF
<1>1. TurnInv /\ [TurnNext]_turnVars => TurnInv'
  BY TurnStep
<1>2. TurnInv /\ [TurnNext]_turnVars =>
        [/\ attempt' > attempt => stream.sent = 0
         /\ \A i \in DOMAIN log' \ DOMAIN log :
              log'[i].role = "assistant" /\ log'[i].stop = "stop" => log'[i].whole \/ abort]_turnVars
  <2> SUFFICES ASSUME TurnInv, [TurnNext]_turnVars
               PROVE  /\ attempt' > attempt => stream.sent = 0
                      /\ \A i \in DOMAIN log' \ DOMAIN log :
                           log'[i].role = "assistant" /\ log'[i].stop = "stop" =>
                             log'[i].whole \/ abort
    OBVIOUS
  <2>1. TurnInv'
    BY TurnStep
  <2>2. Tells
    BY <2>1, StepTells
  <2> QED
    BY <2>2, RetriesUnshown DEF Tells, WholeOrCut
<1> QED
  BY <1>1, <1>2, TurnStarts, PTL DEF TurnSpec, AnswersAreWhole

-----------------------------------------------------------------------------
(* The handle of a child process, for any bounds. *)

\* A signal is only sent by an abort, the death of the child is told by its
\* cause, and the handle holds the first pieces that were read.
HandleInv ==
  /\ HandleTypeOK
  /\ cause \in {"none", "exit", "signal"}
  /\ cause = "none" <=> state["sh"] # "dead"
  /\ termed \cup killed # {} => aborted
  /\ cause = "signal" => aborted
  /\ reaped => state["sh"] = "dead"
  /\ kept = AtMost(output, Kept)
  /\ StatusIsTrue /\ TruncationIsTold

\* What the host leaves alone.
LEMMA HandleUnchanged ==
  ASSUME HandleInv, UNCHANGED <<termed, killed, aborted, handle>>,
         state' \in [Procs -> Alive \cup {"unborn", "dead"}], stubborn' = stubborn,
         pipe' \in Seq(Procs), Len(pipe') <= PipeMax,
         asked' \in BOOLEAN, UNCHANGED stage,
         cause' = cause /\ (state'["sh"] = "dead" <=> state["sh"] = "dead")
  PROVE  HandleInv'
PROOF
  BY DEF HandleInv, HandleTypeOK, StatusIsTrue, TruncationIsTold, handle

LEMMA HandleInitial == HandleInit => HandleInv
PROOF
<1> SUFFICES ASSUME HandleInit PROVE HandleInv
  OBVIOUS
<1>1. << >> \in Seq(Procs) /\ Len(<< >>) = 0
  OBVIOUS
<1>2. PipeMax \in Nat /\ Kept \in Nat /\ GiveUp \in Nat
  BY HandleBounds
<1>3. state["sh"] = "writing" /\ state \in [Procs -> Alive \cup {"unborn", "dead"}]
  BY DEF HandleInit, Procs, Alive
<1>4. stubborn \subseteq Procs /\ termed = {} /\ killed = {} /\ pipe = << >> /\ stage = "loop"
      /\ cause = "none" /\ status = "none" /\ asked = FALSE /\ aborted = FALSE /\ reaped = FALSE
      /\ truncated = FALSE /\ waited = 0 /\ output = 0 /\ kept = 0
  BY DEF HandleInit
<1>5. HandleTypeOK
  <2>1. 0 \in 0 .. GiveUp /\ 0 \in 0 .. Kept + 1 /\ 0 \in 0 .. Kept /\ 0 <= PipeMax
    BY <1>2
  <2>2. \A s \in {stubborn, termed, killed} : s \subseteq Procs
    BY <1>4
  <2>3. pipe \in Seq(Procs) /\ Len(pipe) <= PipeMax
    BY <1>1, <1>4, <2>1
  <2>4. /\ {asked, aborted, reaped, truncated} \subseteq BOOLEAN
        /\ {cause, status} \subseteq {"none", "exit", "signal", "aborted"}
    BY <1>4
  <2> QED
    BY <1>3, <1>4, <2>1, <2>2, <2>3, <2>4 DEF HandleTypeOK
<1> QED
  BY <1>2, <1>3, <1>4, <1>5 DEF HandleInv, StatusIsTrue, TruncationIsTold, AtMost

LEMMA ProcessesStep ==
  ASSUME HandleInv, NEW p \in Procs, WriteOut(p) \/ Quieten(p) \/ Exit(p) \/ Fall(p) \/ Spawn \/ Ask
  PROVE  HandleInv'
PROOF
<1>1. /\ state \in [Procs -> Alive \cup {"unborn", "dead"}] /\ pipe \in Seq(Procs) /\ Len(pipe) <= PipeMax
      /\ asked \in BOOLEAN
  BY DEF HandleInv, HandleTypeOK
<1>2. CASE WriteOut(p)
  <2>1. pipe' \in Seq(Procs) /\ Len(pipe') = Len(pipe) + 1 /\ Len(pipe) < PipeMax
    BY <1>1, <1>2 DEF WriteOut
  <2>2. Len(pipe') <= PipeMax
    BY <1>1, <2>1, HandleBounds
  <2> QED
    BY <1>1, <1>2, <2>1, <2>2, HandleUnchanged DEF WriteOut, group, host
<1>3. CASE Quieten(p)
  <2>1. /\ state[p] \in Alive /\ \E s \in Alive : state' = [state EXCEPT ![p] = s]
        /\ UNCHANGED <<stubborn, cause, pipe, host>>
    BY <1>3 DEF Quieten, Become, Alive
  <2>2. state' \in [Procs -> Alive \cup {"unborn", "dead"}]
        /\ (state'["sh"] = "dead" <=> state["sh"] = "dead")
    BY <1>1, <2>1 DEF Alive, Procs
  <2> QED
    BY <1>1, <2>1, <2>2, HandleUnchanged DEF host
<1>4. ASSUME NEW how \in {"exit", "signal"}, Dies(p, how), how = "signal" => aborted PROVE HandleInv'
  <2>1. /\ state[p] \in Alive /\ state' = [state EXCEPT ![p] = "dead"]
        /\ cause' = (IF p = "sh" THEN how ELSE cause)
        /\ UNCHANGED <<stubborn, pipe, host>>
    BY <1>4 DEF Dies, Become
  <2>2. state' \in [Procs -> Alive \cup {"unborn", "dead"}]
    BY <1>1, <2>1
  <2>3. CASE p = "sh"
    <3>1. state["sh"] # "dead" /\ state'["sh"] = "dead" /\ cause' = how
      BY <1>1, <2>1, <2>3 DEF Alive, Procs
    <3>2. stage # "closed"
      BY <3>1 DEF HandleInv, StatusIsTrue
    <3> QED
      BY <1>4, <2>1, <2>2, <3>1, <3>2 DEF HandleInv, HandleTypeOK, StatusIsTrue, TruncationIsTold, host, handle
  <2>4. CASE p # "sh"
    <3>1. state'["sh"] = state["sh"] /\ cause' = cause
      BY <1>1, <2>1, <2>4 DEF Procs
    <3> QED
      BY <1>1, <2>1, <2>2, <3>1, HandleUnchanged DEF host
  <2> QED
    BY <2>3, <2>4
<1>5. CASE Exit(p)
  BY <1>4, <1>5 DEF Exit
<1>6. CASE Fall(p)
  <2>1. aborted
    BY <1>6 DEF Fall, Doomed, HandleInv
  <2> QED
    BY <1>4, <1>6, <2>1 DEF Fall
<1>7. CASE Spawn
  <2>1. /\ state["bg"] = "unborn" /\ state' = [state EXCEPT !["bg"] = "writing"]
        /\ UNCHANGED <<stubborn, cause, pipe, host>>
    BY <1>7 DEF Spawn, Become
  <2>2. state' \in [Procs -> Alive \cup {"unborn", "dead"}] /\ state'["sh"] = state["sh"]
    BY <1>1, <2>1 DEF Alive, Procs
  <2> QED
    BY <1>1, <2>1, <2>2, HandleUnchanged DEF host
<1>8. CASE Ask
  BY <1>1, <1>8, HandleUnchanged DEF Ask, group
<1> QED
  BY <1>2, <1>3, <1>5, <1>6, <1>7, <1>8

\* The signals: what was sent, to whom, and that the handle knows.
SignalsOK ==
  /\ termed \subseteq Procs /\ killed \subseteq Procs /\ aborted \in BOOLEAN
  /\ termed \cup killed # {} => aborted
  /\ cause = "signal" => aborted

LEMMA SigtermOK ==
  ASSUME HandleInv, Sigterm \/ TermOnce \/ UNCHANGED <<aborted, termed>>,
         UNCHANGED cause,
         killed' = killed \/ (aborted' /\ killed' = killed \cup Group)
  PROVE  SignalsOK'
PROOF
<1>1. Group \subseteq Procs
  BY DEF Group
<1>2. \/ aborted' = TRUE /\ termed' = termed \cup Group
      \/ aborted' = aborted /\ termed' = termed
  BY DEF Sigterm, TermOnce
<1> QED
  BY <1>1, <1>2 DEF HandleInv, HandleTypeOK, SignalsOK

\* What was read, and what is still to be.
BufferOK ==
  /\ pipe \in Seq(Procs) /\ Len(pipe) <= PipeMax
  /\ output \in 0 .. Kept + 1 /\ kept \in 0 .. Kept /\ truncated \in BOOLEAN
  /\ kept = AtMost(output, Kept) /\ TruncationIsTold

LEMMA CaptureOK ==
  ASSUME HandleInv, NEW n \in Nat, n > 0, Capture(n)
  PROVE  /\ output' \in 0 .. Kept + 1 /\ kept' \in 0 .. Kept /\ truncated' \in BOOLEAN
         /\ kept' = AtMost(output', Kept) /\ TruncationIsTold'
PROOF
<1>1. Kept \in Nat /\ output \in 0 .. Kept + 1 /\ kept \in 0 .. Kept /\ truncated \in BOOLEAN
  BY HandleBounds DEF HandleInv, HandleTypeOK
<1>2. kept = (IF output > Kept THEN Kept ELSE output) /\ (truncated <=> output > kept)
  BY DEF HandleInv, TruncationIsTold, AtMost
<1>3. /\ output' = IF output + n > Kept + 1 THEN Kept + 1 ELSE output + n
      /\ kept' = IF kept + n > Kept THEN Kept ELSE kept + n
      /\ truncated' = (truncated \/ kept + n > Kept)
  BY DEF Capture, AtMost
<1>4. output' \in 0 .. Kept + 1 /\ kept' \in 0 .. Kept
  BY <1>1, <1>3
<1>5. kept' = IF output' > Kept THEN Kept ELSE output'
  BY <1>1, <1>2, <1>3
<1>6. truncated' \in BOOLEAN
  BY <1>1, <1>3
<1>7. output' > kept' <=> (output > kept \/ kept + n > Kept)
  BY <1>1, <1>2, <1>3
<1>8. truncated' <=> output' > kept'
  BY <1>2, <1>3, <1>7
<1> QED
  BY <1>4, <1>5, <1>6, <1>8 DEF AtMost, TruncationIsTold

\* The polling, which ends no call.
LEMMA PollStep ==
  ASSUME HandleInv, Loop \/ Read \/ Again \/ TimesOut \/ Drop PROVE HandleInv'
PROOF
<1>1. /\ UNCHANGED <<group, killed, asked, waited, status>>
      /\ stage # "closed" /\ stage' \in {"loop", "poll", "again", "reap"}
      /\ Sigterm \/ TermOnce \/ UNCHANGED <<aborted, termed>>
  BY DEF Loop, Read, Again, TimesOut, Drop, handle
<1>2. SignalsOK'
  BY <1>1, SigtermOK DEF group
<1>3. reaped' \in BOOLEAN /\ (reaped' => state["sh"] = "dead")
  <2>1. reaped' = reaped \/ reaped' = (state["sh"] = "dead")
    BY DEF Loop, Read, Again, TimesOut, Drop, handle
  <2>2. reaped \in BOOLEAN /\ (reaped => state["sh"] = "dead")
    BY DEF HandleInv, HandleTypeOK
  <2>3. (state["sh"] = "dead") \in BOOLEAN
    OBVIOUS
  <2>4. CASE reaped' = reaped
    BY <2>2, <2>4
  <2>5. CASE reaped' = (state["sh"] = "dead")
    BY <2>3, <2>5
  <2> QED
    BY <2>1, <2>4, <2>5
<1>4. BufferOK'
  <2>1. CASE UNCHANGED <<pipe, output, kept, truncated>>
    BY <2>1 DEF HandleInv, HandleTypeOK, BufferOK, TruncationIsTold
  <2>2. ASSUME NEW n \in 1 .. Len(pipe), pipe' = SubSeq(pipe, n + 1, Len(pipe)), Capture(n)
        PROVE  BufferOK'
    <3>1. pipe \in Seq(Procs) /\ Len(pipe) \in Nat /\ Len(pipe) <= PipeMax /\ PipeMax \in Nat
      BY HandleBounds DEF HandleInv, HandleTypeOK
    <3>2. n \in Nat /\ n > 0 /\ n <= Len(pipe)
      BY <2>2, <3>1
    <3>3. pipe' \in Seq(Procs) /\ Len(pipe') = Len(pipe) - n
      BY <2>2, <3>1, <3>2
    <3>4. Len(pipe') <= PipeMax
      BY <3>1, <3>2, <3>3
    <3> QED
      BY <2>2, <3>2, <3>3, <3>4, CaptureOK DEF BufferOK
  <2>3. CASE Read
    <3>1. CASE \E n \in 1 .. Len(pipe) : pipe' = SubSeq(pipe, n + 1, Len(pipe)) /\ Capture(n)
      BY <2>2, <3>1
    <3> QED
      BY <2>1, <2>3, <3>1 DEF Read
  <2>4. CASE Loop \/ Again \/ TimesOut \/ Drop
    BY <2>1, <2>4 DEF Loop, Again, TimesOut, Drop, handle
  <2> QED
    BY <2>3, <2>4
<1>5. HandleTypeOK'
  BY <1>1, <1>2, <1>3, <1>4 DEF HandleInv, HandleTypeOK, SignalsOK, BufferOK, group
<1>6. StatusIsTrue'
  BY <1>1 DEF StatusIsTrue
<1> QED
  BY <1>1, <1>2, <1>3, <1>4, <1>5, <1>6 DEF HandleInv, SignalsOK, BufferOK, group

LEMMA CloseStep ==
  ASSUME HandleInv, state["sh"] = "dead", Close(aborted) PROVE HandleInv'
PROOF
<1>1. /\ reaped' = TRUE /\ stage' = "closed" /\ status' = (IF aborted THEN "aborted" ELSE cause)
      /\ UNCHANGED <<group, termed, killed, pipe, asked, aborted, waited, output, kept, truncated>>
  BY DEF Close
<1>2. HandleTypeOK'
  BY <1>1 DEF HandleInv, HandleTypeOK, group
<1>3. StatusIsTrue'
  BY <1>1 DEF HandleInv, StatusIsTrue, group
<1> QED
  BY <1>1, <1>2, <1>3 DEF HandleInv, TruncationIsTold, group

LEMMA ReapStep == ASSUME HandleInv, Reap \/ Wait PROVE HandleInv'
PROOF
<1>1. CASE Close(aborted)
  <2>1. state["sh"] = "dead"
    BY <1>1 DEF Reap, Wait, HandleInv, Close
  <2> QED
    BY <1>1, <2>1, CloseStep
<1>2. CASE ~Close(aborted)
  <2>1. /\ TermOnce
        /\ IF aborted' THEN Kill ELSE UNCHANGED killed
        /\ stage = "reap" /\ stage' \in {"wait", "reap"}
        /\ waited' = AtMost(waited + 1, GiveUp)
        /\ UNCHANGED <<group, pipe, asked, reaped, output, kept, truncated, status>>
    BY <1>2 DEF Reap, Wait
  <2>2. SignalsOK'
    BY <2>1, SigtermOK DEF Kill, group
  <2>3. waited' \in 0 .. GiveUp
    <3>1. GiveUp \in Nat /\ waited \in 0 .. GiveUp
      BY HandleBounds DEF HandleInv, HandleTypeOK
    <3> QED
      BY <2>1, <3>1 DEF AtMost
  <2>4. HandleTypeOK'
    BY <2>1, <2>2, <2>3 DEF HandleInv, HandleTypeOK, SignalsOK, group
  <2>5. StatusIsTrue'
    BY <2>1 DEF StatusIsTrue
  <2> QED
    BY <2>1, <2>2, <2>4, <2>5 DEF HandleInv, SignalsOK, TruncationIsTold, group
<1> QED
  BY <1>1, <1>2

LEMMA HandleStep == HandleInv /\ [HandleNext]_handleVars => HandleInv'
PROOF
<1> SUFFICES ASSUME HandleInv, [HandleNext]_handleVars PROVE HandleInv'
  OBVIOUS
<1>1. CASE Spawn \/ Ask
  <2>1. "sh" \in Procs
    BY DEF Procs
  <2> QED
    BY <1>1, <2>1, ProcessesStep
<1>2. CASE \E p \in Procs : WriteOut(p) \/ Quieten(p) \/ Exit(p) \/ Fall(p)
  BY <1>2, ProcessesStep
<1>3. CASE Loop \/ Read \/ Again \/ TimesOut \/ Drop
  BY <1>3, PollStep
<1>4. CASE Reap \/ Wait
  BY <1>4, ReapStep
<1>5. CASE UNCHANGED handleVars
  BY <1>5 DEF handleVars, group, handle, HandleInv, HandleTypeOK, StatusIsTrue, TruncationIsTold
<1> QED
  BY <1>1, <1>2, <1>3, <1>4, <1>5 DEF HandleNext, Host

\* What a call reports is what happened, for any limits, any number of pieces and
\* any order of exits, signals and system calls: the status tells how the child
\* ended, a child that fell to a signal is told as aborted, and the result says
\* that it was truncated exactly when it lacks something that was read.
THEOREM ResultTrue == HandleSpec => []ResultIsTrue
PROOF
<1>1. HandleInv => ResultIsTrue
  BY DEF HandleInv, ResultIsTrue
<1> QED
  BY <1>1, HandleInitial, HandleStep, PTL DEF HandleSpec

-----------------------------------------------------------------------------
(* Mutual exclusion of the file mutation queue, for any tasks, names and files,
   with or without callers outside coroutines. *)

\* The elements of a queue that are tasks are distinct, wait for this key
\* and have not been told to go.
QueuesOfWaiters ==
  \A k \in Keys : \A i \in 1 .. Len(locks[k].queue) :
    LET t == locks[k].queue[i] IN
      t \in Tasks =>
        /\ pc[t] = "waiting" /\ key[t] = k /\ ~ready[t]
        /\ \A j \in 1 .. Len(locks[k].queue) : locks[k].queue[j] = t => i = j

OwnersHoldLocks == \A t \in Tasks : Owns(t) => locks[key[t]].held

InsideHasYields == \A t \in Tasks : pc[t] = "inside" => left[t] > 0

\* The flag belongs to the task's one call.
ReadyHasWaited == \A t \in Tasks : pc[t] = "start" => ~ready[t]

\* Mutual exclusion alone is not inductive: a release could make a task
\* ready that is queued twice or on another key, and a call could find the
\* lock of an owner free.
IInv ==
  /\ TypeOK /\ MutualExclusion /\ QueuesOfWaiters /\ OwnersHoldLocks
  /\ InsideHasYields /\ ReadyHasWaited

USE YieldsAssumption, NamesAssumption, NobodyAssumption

LEMMA KeyType ==
  ASSUME TypeOK, NEW n \in Names
  PROVE  Key(n) \in Keys
BY DEF Key, Keys, TypeOK

LEMMA LockType ==
  ASSUME TypeOK, NEW k \in Keys
  PROVE  /\ locks[k].held \in BOOLEAN
         /\ locks[k].queue \in Seq(Tasks \cup {Nobody})
         /\ Len(locks[k].queue) \in Nat
BY LenProperties DEF TypeOK

LEMMA RequeueType ==
  ASSUME NEW Waiters, NEW queue \in Waiters,
         NEW lock \in [held : BOOLEAN, queue : Waiters]
  PROVE  [lock EXCEPT !.queue = queue] \in [held : BOOLEAN, queue : Waiters]
OBVIOUS

\* A lock taken or queued on keeps every other lock's state.
LEMMA EnterStep ==
  ASSUME IInv, NEW t \in Tasks, Enter(t)
  PROVE  IInv'
<1> DEFINE k == Key(name[t])
<1>1. k \in Keys /\ name[t] \in Names
  BY KeyType DEF IInv, TypeOK
<1>2. /\ pc[t] = "start" /\ ~locks[k].held
      /\ key' = [key EXCEPT ![t] = k]
      /\ Write(t)
      /\ UNCHANGED <<name, ready, main>>
  BY DEF Enter
<1>3. key' \in [Tasks -> Keys] /\ key'[t] = k /\ \A u \in Tasks \ {t} : key'[u] = key[u]
  BY <1>1, <1>2 DEF IInv, TypeOK
<1> HIDE DEF k
<1>8. resolved' \in SUBSET Files
  BY <1>1, <1>2 DEF IInv, TypeOK, Write
<1>4. ~Owns(t)
  BY <1>2 DEF Owns
<1>5. \A j \in Keys : \A i \in 1 .. Len(locks[j].queue) : locks[j].queue[i] # t
  BY <1>2 DEF IInv, QueuesOfWaiters
<1>6. CASE /\ pc' = [pc EXCEPT ![t] = "done"]
           /\ UNCHANGED <<locks, left>>
  <2>1. pc'[t] = "done" /\ \A u \in Tasks \ {t} : pc'[u] = pc[u]
    BY <1>6 DEF IInv, TypeOK
  <2>2. TypeOK'
    <3>1. pc' \in [Tasks -> Pcs]
      BY <1>6 DEF IInv, TypeOK, Pcs
    <3> QED
      BY <1>2, <1>3, <1>8, <1>6, <3>1 DEF IInv, TypeOK
  <2>3. \A u \in Tasks : Owns(u)' => u # t /\ Owns(u)
    BY <1>2, <2>1 DEF Owns
  <2>4. MutualExclusion' /\ OwnersHoldLocks'
    BY <1>3, <1>6, <2>3 DEF IInv, MutualExclusion, OwnersHoldLocks
  <2>5. QueuesOfWaiters'
    BY <1>2, <1>3, <1>5, <1>6, <2>1, SMTT(60) DEF IInv, QueuesOfWaiters
  <2>6. InsideHasYields' /\ ReadyHasWaited'
    BY <1>2, <1>6, <2>1 DEF IInv, InsideHasYields, ReadyHasWaited
  <2> QED
    BY <2>2, <2>4, <2>5, <2>6 DEF IInv
<1>7. ASSUME NEW n \in 1 .. MaxYields,
             pc' = [pc EXCEPT ![t] = "inside"],
             left' = [left EXCEPT ![t] = n],
             locks' = [locks EXCEPT ![k] = Held]
      PROVE  IInv'
  <2>1. pc'[t] = "inside" /\ \A u \in Tasks \ {t} : pc'[u] = pc[u]
    BY <1>7 DEF IInv, TypeOK
  <2>2. left'[t] = n /\ \A u \in Tasks \ {t} : left'[u] = left[u]
    BY <1>7 DEF IInv, TypeOK
  <2>3. locks'[k] = Held /\ \A j \in Keys \ {k} : locks'[j] = locks[j]
    BY <1>1, <1>7 DEF IInv, TypeOK
  <2>4. TypeOK'
    <3>1. Held \in [held : BOOLEAN, queue : Seq(Tasks \cup {Nobody})]
      BY EmptySeq DEF Held
    <3>2. locks' \in [Keys -> [held : BOOLEAN, queue : Seq(Tasks \cup {Nobody})]]
      BY <1>7, <3>1 DEF IInv, TypeOK
    <3>3. pc' \in [Tasks -> Pcs] /\ left' \in [Tasks -> 0 .. MaxYields]
      BY <1>7 DEF IInv, TypeOK, Pcs
    <3> QED
      BY <1>2, <1>3, <1>8, <1>7, <3>2, <3>3 DEF IInv, TypeOK
  <2>5. \A u \in Tasks \ {t} : (Owns(u)' <=> Owns(u)) /\ (Owns(u) => key[u] # k)
    <3>1. \A u \in Tasks \ {t} : Owns(u)' <=> Owns(u)
      BY <1>2, <2>1 DEF Owns
    <3>2. \A u \in Tasks : Owns(u) => key[u] # k
      BY <1>2 DEF IInv, OwnersHoldLocks
    <3> QED
      BY <3>1, <3>2
  <2>6. MutualExclusion'
    BY <1>3, <2>5 DEF IInv, MutualExclusion
  <2>7. OwnersHoldLocks'
    <3> SUFFICES ASSUME NEW u \in Tasks, Owns(u)'
                 PROVE  locks'[key'[u]].held
      BY DEF OwnersHoldLocks
    <3>1. CASE u = t
      BY <1>3, <2>3, <3>1 DEF Held
    <3>2. CASE u # t
      <4>1. key'[u] \in Keys \ {k} /\ key'[u] = key[u] /\ Owns(u)
        BY <1>3, <2>5, <3>2
      <4> QED
        BY <2>3, <4>1 DEF IInv, OwnersHoldLocks
    <3> QED
      BY <3>1, <3>2
  <2>8. QueuesOfWaiters'
    <3> SUFFICES ASSUME NEW j \in Keys, NEW i \in 1 .. Len(locks'[j].queue),
                        locks'[j].queue[i] \in Tasks
                 PROVE  LET u == locks'[j].queue[i] IN
                          /\ pc'[u] = "waiting" /\ key'[u] = j /\ ~ready'[u]
                          /\ \A m \in 1 .. Len(locks'[j].queue) :
                               locks'[j].queue[m] = u => i = m
      BY DEF QueuesOfWaiters
    <3>1. CASE j = k
      BY <2>3, <3>1, EmptySeq DEF Held
    <3>2. CASE j # k
      BY <1>2, <1>3, <1>5, <2>1, <2>3, <3>2 DEF IInv, QueuesOfWaiters
    <3> QED
      BY <3>1, <3>2
  <2>9. InsideHasYields' /\ ReadyHasWaited'
    BY <1>2, <2>1, <2>2 DEF IInv, InsideHasYields, ReadyHasWaited
  <2> QED
    BY <2>4, <2>6, <2>7, <2>8, <2>9 DEF IInv
<1> QED
  BY <1>6, <1>7 DEF Enter, k

\* Every step's effect on an owner's place: it leaves, and the head of the
\* queue, if it is a task, owns the lock in its stead.
LEMMA ReleaseStep ==
  ASSUME IInv, NEW t \in Tasks, Owns(t), Release(key[t]),
         pc' = [pc EXCEPT ![t] = "done"],
         resolved' \in SUBSET Files,
         left' \in [Tasks -> 0 .. MaxYields],
         \A u \in Tasks \ {t} : left'[u] = left[u],
         UNCHANGED <<name, key, main>>
  PROVE  IInv'
<1> DEFINE k == key[t]
           queue == locks[k].queue
<1>1. k \in Keys
  BY DEF IInv, TypeOK
<1>2. /\ queue \in Seq(Tasks \cup {Nobody}) /\ Len(queue) \in Nat
      /\ locks[k].held
  BY <1>1, LockType DEF IInv, OwnersHoldLocks
<1>3. /\ pc' \in [Tasks -> Pcs] /\ pc'[t] = "done"
      /\ \A u \in Tasks \ {t} : pc'[u] = pc[u]
  BY DEF IInv, TypeOK, Pcs
<1>4. /\ locks' = [locks EXCEPT ![k] = IF queue = << >> THEN Free
                                      ELSE [@ EXCEPT !.queue = Tail(queue)]]
      /\ ready' = [u \in Tasks |-> ready[u] \/ (queue # << >> /\ u = Head(queue))]
  BY DEF Release
<1>5. \A j \in Keys \ {k} : locks'[j] = locks[j]
  BY <1>1, <1>4 DEF IInv, TypeOK
<1>6. \A j \in Keys : \A i \in 1 .. Len(locks[j].queue) : locks[j].queue[i] # t
  BY DEF IInv, QueuesOfWaiters, Owns
<1>7. \A u \in Tasks \ {t} : Owns(u) => key[u] # k
  BY DEF IInv, MutualExclusion
<1> HIDE DEF k, queue
<1>8. InsideHasYields'
  BY <1>3 DEF IInv, InsideHasYields
<1>9. CASE queue = << >>
  <2>1. locks'[k] = Free /\ ready' = ready
    BY <1>1, <1>4, <1>9 DEF IInv, TypeOK
  <2>2. \A u \in Tasks : Owns(u)' => u # t /\ Owns(u)
    BY <1>3, <2>1 DEF Owns
  <2>3. TypeOK'
    <3>1. Free \in [held : BOOLEAN, queue : Seq(Tasks \cup {Nobody})]
      BY EmptySeq DEF Free
    <3>2. locks' \in [Keys -> [held : BOOLEAN, queue : Seq(Tasks \cup {Nobody})]]
      BY <1>4, <1>9, <3>1 DEF IInv, TypeOK
    <3> QED
      BY <1>3, <2>1, <3>2 DEF IInv, TypeOK
  <2>4. MutualExclusion'
    BY <2>2 DEF IInv, MutualExclusion
  <2>5. OwnersHoldLocks'
    <3> SUFFICES ASSUME NEW u \in Tasks, Owns(u)'
                 PROVE  locks'[key[u]].held
      BY DEF OwnersHoldLocks
    <3>1. key[u] \in Keys \ {k} /\ Owns(u)
      BY <1>7, <2>2 DEF IInv, TypeOK
    <3> QED
      BY <1>5, <3>1 DEF IInv, OwnersHoldLocks
  <2>6. QueuesOfWaiters'
    <3> SUFFICES ASSUME NEW j \in Keys, NEW i \in 1 .. Len(locks'[j].queue),
                        locks'[j].queue[i] \in Tasks
                 PROVE  LET u == locks'[j].queue[i] IN
                          /\ pc'[u] = "waiting" /\ key'[u] = j /\ ~ready'[u]
                          /\ \A m \in 1 .. Len(locks'[j].queue) :
                               locks'[j].queue[m] = u => i = m
      BY DEF QueuesOfWaiters
    <3>1. CASE j = k
      BY <2>1, <3>1, EmptySeq DEF Free
    <3>2. CASE j # k
      BY <1>3, <1>5, <1>6, <2>1, <3>2, SMTT(60) DEF IInv, QueuesOfWaiters
    <3> QED
      BY <3>1, <3>2
  <2>7. ReadyHasWaited'
    BY <1>3, <2>1 DEF IInv, ReadyHasWaited
  <2> QED
    BY <1>8, <2>3, <2>4, <2>5, <2>6, <2>7 DEF IInv
<1>10. CASE queue # << >>
  <2> DEFINE h == Head(queue)
  <2>1. /\ Tail(queue) \in Seq(Tasks \cup {Nobody})
        /\ Len(Tail(queue)) = Len(queue) - 1
        /\ \A i \in 1 .. Len(Tail(queue)) : Tail(queue)[i] = queue[i + 1]
        /\ h = queue[1] /\ Len(queue) >= 1
    BY <1>2, <1>10, HeadTailProperties, EmptySeq
  <2>2. locks'[k].queue = Tail(queue) /\ locks'[k].held
    BY <1>1, <1>2, <1>4, <1>10 DEF IInv, TypeOK
  <2>3. /\ ready' \in [Tasks -> BOOLEAN]
        /\ \A u \in Tasks : ready'[u] <=> ready[u] \/ u = h
    BY <1>4, <1>10 DEF IInv, TypeOK
  <2> HIDE DEF h
  <2>4. h \in Tasks => /\ h # t /\ pc[h] = "waiting" /\ key[h] = k
                       /\ \A i \in 1 .. Len(queue) : queue[i] = h => i = 1
    BY <1>1, <1>2, <1>6, <2>1 DEF IInv, QueuesOfWaiters, queue
  <2>5. \A u \in Tasks : Owns(u)' => u # t /\ (Owns(u) \/ u = h)
    BY <1>3, <2>3 DEF Owns
  <2>6. TypeOK'
    <3>1. [locks[k] EXCEPT !.queue = Tail(queue)]
            \in [held : BOOLEAN, queue : Seq(Tasks \cup {Nobody})]
      <4>1. locks[k] \in [held : BOOLEAN, queue : Seq(Tasks \cup {Nobody})]
        BY <1>1 DEF IInv, TypeOK
      <4> QED
        BY <1>1, <2>1, <4>1, RequeueType
    <3>2. locks' \in [Keys -> [held : BOOLEAN, queue : Seq(Tasks \cup {Nobody})]]
      BY <1>1, <1>4, <1>10, <3>1 DEF IInv, TypeOK
    <3> QED
      BY <1>3, <2>3, <3>2 DEF IInv, TypeOK
  <2>7. MutualExclusion'
    <3>1. \A u \in Tasks : Owns(u)' /\ key[u] = k => u = h
      BY <1>7, <2>5
    <3>2. \A u \in Tasks : Owns(u)' /\ key[u] # k => Owns(u)
      BY <2>4, <2>5
    <3> QED
      BY <3>1, <3>2 DEF IInv, MutualExclusion
  <2>8. OwnersHoldLocks'
    <3> SUFFICES ASSUME NEW u \in Tasks, Owns(u)'
                 PROVE  locks'[key[u]].held
      BY DEF OwnersHoldLocks
    <3>1. CASE key[u] = k
      BY <2>2, <3>1
    <3>2. CASE key[u] # k
      <4>1. key[u] \in Keys \ {k} /\ Owns(u)
        BY <2>4, <2>5, <3>2 DEF IInv, TypeOK
      <4> QED
        BY <1>5, <4>1 DEF IInv, OwnersHoldLocks
    <3> QED
      BY <3>1, <3>2
  <2>9. QueuesOfWaiters'
    <3> SUFFICES ASSUME NEW j \in Keys, NEW i \in 1 .. Len(locks'[j].queue),
                        locks'[j].queue[i] \in Tasks
                 PROVE  LET u == locks'[j].queue[i] IN
                          /\ pc'[u] = "waiting" /\ key'[u] = j /\ ~ready'[u]
                          /\ \A m \in 1 .. Len(locks'[j].queue) :
                               locks'[j].queue[m] = u => i = m
      BY DEF QueuesOfWaiters
    <3>1. CASE j = k
      <4>1. /\ i \in 1 .. Len(Tail(queue)) /\ locks'[j].queue[i] = queue[i + 1]
            /\ i + 1 \in 1 .. Len(queue)
        <5>1. i \in 1 .. Len(Tail(queue))
          BY <2>2, <3>1
        <5>2. Tail(queue)[i] = queue[i + 1] /\ i + 1 \in 1 .. Len(queue)
          BY <1>2, <2>1, <5>1
        <5> QED
          BY <2>2, <3>1, <5>1, <5>2
      <4> DEFINE u == queue[i + 1]
      <4>2. /\ u \in Tasks /\ u # t /\ pc[u] = "waiting" /\ key[u] = k /\ ~ready[u]
            /\ \A m \in 1 .. Len(queue) : queue[m] = u => i + 1 = m
        BY <1>1, <1>6, <4>1, SMTT(60) DEF IInv, QueuesOfWaiters, queue
      <4>3. u # h
        BY <2>4, <4>1, <4>2
      <4>4. \A m \in 1 .. Len(Tail(queue)) : Tail(queue)[m] = u => i = m
        <5> SUFFICES ASSUME NEW m \in 1 .. Len(Tail(queue)), Tail(queue)[m] = u
                     PROVE  i = m
          OBVIOUS
        <5>1. m + 1 \in 1 .. Len(queue) /\ queue[m + 1] = u
          BY <1>2, <2>1
        <5> HIDE DEF u
        <5> QED
          BY <4>2, <5>1
      <4> QED
        BY <1>3, <2>2, <2>3, <3>1, <4>1, <4>2, <4>3, <4>4, ZenonT(100)
    <3>2. CASE j # k
      <4>1. locks'[j] = locks[j]
        BY <1>5, <3>2
      <4> DEFINE u == locks[j].queue[i]
      <4>2. /\ u \in Tasks /\ u # t /\ pc[u] = "waiting" /\ key[u] = j /\ ~ready[u]
            /\ \A m \in 1 .. Len(locks[j].queue) : locks[j].queue[m] = u => i = m
        BY <1>6, <4>1 DEF IInv, QueuesOfWaiters
      <4>3. u # h
        BY <2>4, <3>2, <4>2
      <4> QED
        BY <1>3, <2>3, <4>1, <4>2, <4>3
    <3> QED
      BY <3>1, <3>2
  <2>10. ReadyHasWaited'
    BY <1>3, <2>3, <2>4 DEF IInv, ReadyHasWaited
  <2> QED
    BY <1>8, <2>6, <2>7, <2>8, <2>9, <2>10 DEF IInv
<1> QED
  BY <1>9, <1>10

\* A task or a caller outside coroutines joins a held lock's queue.
LEMMA AppendStep ==
  ASSUME IInv, NEW k \in Keys, locks[k].held, NEW w \in Tasks \cup {Nobody},
         locks' = [locks EXCEPT ![k].queue = Append(@, w)],
         pc' \in [Tasks -> Pcs], key' \in [Tasks -> Keys], main' \in {"idle", "ran", "raised"},
         \A u \in Tasks \ {w} : pc'[u] = pc[u] /\ key'[u] = key[u],
         w \in Tasks => /\ pc[w] = "start" /\ ~ready[w]
                        /\ pc'[w] = "waiting" /\ key'[w] = k,
         UNCHANGED <<name, ready, left, resolved>>
  PROVE  IInv'
<1> DEFINE queue == locks[k].queue
<1>1. queue \in Seq(Tasks \cup {Nobody}) /\ Len(queue) \in Nat
  BY LockType DEF IInv
<1> HIDE DEF queue
<1>2. /\ Append(queue, w) \in Seq(Tasks \cup {Nobody})
      /\ Len(Append(queue, w)) = Len(queue) + 1
      /\ \A i \in 1 .. Len(queue) : Append(queue, w)[i] = queue[i]
      /\ Append(queue, w)[Len(queue) + 1] = w
  BY <1>1, AppendProperties
<1>3. /\ locks'[k] = [locks[k] EXCEPT !.queue = Append(queue, w)]
      /\ \A j \in Keys \ {k} : locks'[j] = locks[j]
  BY DEF IInv, TypeOK, queue
<1>4. locks'[k].queue = Append(queue, w) /\ locks'[k].held
  BY <1>3 DEF IInv, TypeOK
<1>5. \A u \in Tasks : Owns(u)' <=> Owns(u) /\ u # w
  BY DEF Owns
<1>6. TypeOK'
  <2>1. [locks[k] EXCEPT !.queue = Append(queue, w)]
          \in [held : BOOLEAN, queue : Seq(Tasks \cup {Nobody})]
    <3>1. locks[k] \in [held : BOOLEAN, queue : Seq(Tasks \cup {Nobody})]
      BY DEF IInv, TypeOK
    <3> QED
      BY <1>2, <3>1, RequeueType
  <2>2. locks' \in [Keys -> [held : BOOLEAN, queue : Seq(Tasks \cup {Nobody})]]
    BY <2>1 DEF IInv, TypeOK, queue
  <2> QED
    BY <2>2 DEF IInv, TypeOK
<1>7. MutualExclusion'
  BY <1>5 DEF IInv, MutualExclusion
<1>8. OwnersHoldLocks'
  <2> SUFFICES ASSUME NEW u \in Tasks, Owns(u)'
               PROVE  locks'[key'[u]].held
    BY DEF OwnersHoldLocks
  <2>1. Owns(u) /\ key'[u] = key[u] /\ key[u] \in Keys
    BY <1>5 DEF IInv, TypeOK
  <2> QED
    BY <1>3, <1>4, <2>1 DEF IInv, OwnersHoldLocks
<1>9. InsideHasYields' /\ ReadyHasWaited'
  BY SMTT(60) DEF IInv, InsideHasYields, ReadyHasWaited
<1>10. QueuesOfWaiters'
  <2> SUFFICES ASSUME NEW j \in Keys, NEW i \in 1 .. Len(locks'[j].queue),
                      locks'[j].queue[i] \in Tasks
               PROVE  LET u == locks'[j].queue[i] IN
                        /\ pc'[u] = "waiting" /\ key'[u] = j /\ ~ready'[u]
                        /\ \A m \in 1 .. Len(locks'[j].queue) :
                             locks'[j].queue[m] = u => i = m
    BY DEF QueuesOfWaiters
  <2>1. \A l \in Keys : \A m \in 1 .. Len(locks[l].queue) :
          w \in Tasks => locks[l].queue[m] # w
    BY DEF IInv, QueuesOfWaiters
  <2>2. \A m \in 1 .. Len(queue) : w \in Tasks => queue[m] # w
    BY <2>1, SMTT(60) DEF queue
  <2>3. CASE j # k
    <3>1. locks'[j] = locks[j]
      BY <1>3, <2>3
    <3> QED
      BY <2>1, <3>1, SMTT(60) DEF IInv, QueuesOfWaiters
  <2>4. CASE j = k
    <3>1. i \in 1 .. Len(queue) + 1 /\ locks'[j].queue = Append(queue, w)
      BY <1>2, <1>4, <2>4
    <3>2. \A m \in 1 .. Len(queue) + 1 : m \in 1 .. Len(queue) \/ m = Len(queue) + 1
      BY <1>1
    <3>3. CASE i = Len(queue) + 1
      <4>1. locks'[j].queue[i] = w
        BY <1>2, <3>1, <3>3
      <4>2. \A m \in 1 .. Len(queue) + 1 : Append(queue, w)[m] = w => m = i
        BY <1>2, <2>2, <3>2, <3>3, <4>1
      <4> QED
        BY <1>2, <2>4, <3>1, <4>1, <4>2, SMTT(60)
    <3>4. CASE i \in 1 .. Len(queue)
      <4> DEFINE u == queue[i]
      <4>1. locks'[j].queue[i] = u
        BY <1>2, <3>1, <3>4, SMTT(60)
      <4>2. /\ u \in Tasks /\ u # w /\ pc[u] = "waiting" /\ key[u] = k /\ ~ready[u]
            /\ \A m \in 1 .. Len(queue) : queue[m] = u => i = m
        BY <2>2, <3>4, <4>1, SMTT(60) DEF IInv, QueuesOfWaiters, queue
      <4> HIDE DEF u
      <4>3. \A m \in 1 .. Len(queue) + 1 : Append(queue, w)[m] = u => i = m
        BY <1>2, <3>2, <4>2
      <4> QED
        BY <1>2, <2>4, <3>1, <4>1, <4>2, <4>3, SMTT(60)
    <3> QED
      BY <3>1, <3>2, <3>3, <3>4
  <2> QED
    BY <2>3, <2>4
<1> QED
  BY <1>6, <1>7, <1>8, <1>9, <1>10 DEF IInv

\* A task that runs its function on goes on owning what it owned.
LEMMA KeepStep ==
  ASSUME IInv, NEW t \in Tasks, Owns(t), NEW n \in 1 .. MaxYields,
         pc' = [pc EXCEPT ![t] = "inside"], left' = [left EXCEPT ![t] = n],
         resolved' \in SUBSET Files,
         UNCHANGED <<locks, name, key, ready, main>>
  PROVE  IInv'
<1>1. /\ pc' \in [Tasks -> Pcs] /\ pc'[t] = "inside"
      /\ \A u \in Tasks \ {t} : pc'[u] = pc[u]
  BY DEF IInv, TypeOK, Pcs
<1>2. /\ left' \in [Tasks -> 0 .. MaxYields] /\ left'[t] = n
      /\ \A u \in Tasks \ {t} : left'[u] = left[u]
  BY DEF IInv, TypeOK
<1>3. \A u \in Tasks : Owns(u)' <=> Owns(u)
  BY <1>1 DEF Owns
<1>4. TypeOK'
  BY <1>1, <1>2 DEF IInv, TypeOK
<1>5. MutualExclusion' /\ OwnersHoldLocks'
  BY <1>3 DEF IInv, MutualExclusion, OwnersHoldLocks
<1>6. QueuesOfWaiters'
  BY <1>1 DEF IInv, QueuesOfWaiters, Owns
<1>7. InsideHasYields' /\ ReadyHasWaited'
  BY <1>1, <1>2 DEF IInv, InsideHasYields, ReadyHasWaited
<1> QED
  BY <1>4, <1>5, <1>6, <1>7 DEF IInv

LEMMA NextStep ==
  ASSUME IInv, [Next]_vars
  PROVE  IInv'
<1>1. CASE UNCHANGED vars
  BY <1>1 DEF vars, IInv, TypeOK, MutualExclusion, QueuesOfWaiters,
              OwnersHoldLocks, InsideHasYields, ReadyHasWaited, Owns
<1>2. ASSUME NEW t \in Tasks, Enter(t)
      PROVE  IInv'
  BY <1>2, EnterStep
<1>3. ASSUME NEW t \in Tasks, Enqueue(t)
      PROVE  IInv'
  <2> DEFINE k == Key(name[t])
  <2>1. k \in Keys
    BY KeyType DEF IInv, TypeOK
  <2>2. /\ pc[t] = "start" /\ locks[k].held
        /\ key' = [key EXCEPT ![t] = k]
        /\ pc' = [pc EXCEPT ![t] = "waiting"]
        /\ locks' = [locks EXCEPT ![k].queue = Append(@, t)]
        /\ UNCHANGED <<name, ready, left, resolved, main>>
    BY <1>3 DEF Enqueue
  <2> HIDE DEF k
  <2>3. /\ pc' \in [Tasks -> Pcs] /\ key' \in [Tasks -> Keys]
        /\ pc'[t] = "waiting" /\ key'[t] = k
        /\ \A u \in Tasks \ {t} : pc'[u] = pc[u] /\ key'[u] = key[u]
    BY <2>1, <2>2 DEF IInv, TypeOK, Pcs
  <2>4. ~ready[t]
    BY <2>2 DEF IInv, ReadyHasWaited
  <2>5. main' \in {"idle", "ran", "raised"}
    BY <2>2 DEF IInv, TypeOK
  <2> QED
    BY <2>1, <2>2, <2>3, <2>4, <2>5, AppendStep
<1>4. ASSUME NEW t \in Tasks, Wake(t)
      PROVE  IInv'
  <2>1. /\ Owns(t) /\ Write(t) /\ UNCHANGED <<name, key, main>>
    BY <1>4 DEF Wake, MayWake, Owns
  <2>2. resolved' \in SUBSET Files
    BY <2>1 DEF IInv, TypeOK, Write
  <2>3. CASE /\ pc' = [pc EXCEPT ![t] = "done"]
             /\ Release(key[t]) /\ UNCHANGED left
    <3>1. left' \in [Tasks -> 0 .. MaxYields]
      BY <2>3 DEF IInv, TypeOK
    <3> QED
      BY <2>1, <2>2, <2>3, <3>1, ReleaseStep
  <2>4. ASSUME NEW n \in 1 .. MaxYields,
               pc' = [pc EXCEPT ![t] = "inside"],
               left' = [left EXCEPT ![t] = n],
               UNCHANGED <<locks, ready>>
        PROVE  IInv'
    BY <2>1, <2>2, <2>4, KeepStep
  <2> QED
    BY <1>4, <2>3, <2>4 DEF Wake
<1>5. ASSUME NEW t \in Tasks, Work(t)
      PROVE  IInv'
  <2>1. /\ pc[t] = "inside" /\ Owns(t) /\ Write(t) /\ UNCHANGED <<name, key, main>>
        /\ left' = [left EXCEPT ![t] = left[t] - 1]
    BY <1>5 DEF Work, Owns
  <2>2. resolved' \in SUBSET Files
    BY <2>1 DEF IInv, TypeOK, Write
  <2>3. left[t] \in 1 .. MaxYields
    BY <2>1 DEF IInv, TypeOK, InsideHasYields
  <2>4. CASE left[t] > 1
    <3>1. UNCHANGED <<locks, pc, ready>>
      BY <1>5, <2>4 DEF Work
    <3>2. pc' = [pc EXCEPT ![t] = "inside"]
      BY <2>1, <3>1 DEF IInv, TypeOK
    <3>3. left[t] - 1 \in 1 .. MaxYields
      BY <2>3, <2>4
    <3> QED
      BY <2>1, <2>2, <3>1, <3>2, <3>3, KeepStep
  <2>5. CASE ~(left[t] > 1)
    <3>1. pc' = [pc EXCEPT ![t] = "done"] /\ Release(key[t])
      BY <1>5, <2>5 DEF Work
    <3>2. /\ left' \in [Tasks -> 0 .. MaxYields]
          /\ \A u \in Tasks \ {t} : left'[u] = left[u]
      BY <2>1, <2>3 DEF IInv, TypeOK
    <3> QED
      BY <2>1, <2>2, <3>1, <3>2, ReleaseStep
  <2> QED
    BY <2>4, <2>5
<1>6. ASSUME NEW n \in Names, MainCall(n)
      PROVE  IInv'
  <2> DEFINE k == Key(n)
  <2>1. k \in Keys
    BY KeyType DEF IInv
  <2>2. UNCHANGED <<pc, name, key, ready, left, resolved>>
    BY <1>6 DEF MainCall
  <2>3. CASE locks[k].held
    <3>1. locks' = [locks EXCEPT ![k].queue = Append(@, Nobody)] /\ main' = "raised"
      BY <1>6, <2>3 DEF MainCall
    <3>2. pc' \in [Tasks -> Pcs] /\ key' \in [Tasks -> Keys]
      BY <2>2 DEF IInv, TypeOK
    <3> HIDE DEF k
    <3> QED
      BY <2>1, <2>2, <2>3, <3>1, <3>2, AppendStep
  <2>4. CASE ~locks[k].held
    <3>1. UNCHANGED locks /\ main' = "ran"
      BY <1>6, <2>4 DEF MainCall
    <3>2. TypeOK'
      BY <2>2, <3>1 DEF IInv, TypeOK
    <3> QED
      BY <2>2, <3>1, <3>2 DEF IInv, MutualExclusion, QueuesOfWaiters,
                              OwnersHoldLocks, InsideHasYields, ReadyHasWaited, Owns
  <2> QED
    BY <2>3, <2>4
<1> QED
  BY <1>1, <1>2, <1>3, <1>4, <1>5, <1>6, SMTT(60) DEF Next, Step

LEMMA InitialState ==
  ASSUME Init
  PROVE  IInv
<1>1. Free \in [held : BOOLEAN, queue : Seq(Tasks \cup {Nobody})]
  BY EmptySeq DEF Free
<1>2. TypeOK
  BY <1>1 DEF Init, TypeOK, Pcs, Keys
<1>3. \A t \in Tasks : ~Owns(t) /\ pc[t] = "start"
  BY DEF Init, Owns
<1>4. QueuesOfWaiters
  BY EmptySeq DEF Init, Free, QueuesOfWaiters
<1> QED
  BY <1>2, <1>3, <1>4 DEF Init, IInv, MutualExclusion, OwnersHoldLocks,
                          InsideHasYields, ReadyHasWaited

\* with_path's critical section: under one key at most one task runs its
\* function or has been handed the lock, for any number of tasks and names
\* and any length of the functions, with or without callers outside
\* coroutines.
THEOREM Exclusion == Spec => []MutualExclusion
<1>1. Init => IInv
  BY InitialState
<1>2. IInv /\ [Next]_vars => IInv'
  BY NextStep
<1>3. IInv => MutualExclusion
  BY DEF IInv
<1> QED
  BY <1>1, <1>2, <1>3, PTL DEF Spec

\* The variables keep their types: a queue holds tasks and dead waiters, and
\* a task's yields never run below zero.
THEOREM TypeCorrect == Spec => []TypeOK
<1>1. Init => IInv
  BY InitialState
<1>2. IInv /\ [Next]_vars => IInv'
  BY NextStep
<1>3. IInv => TypeOK
  BY DEF IInv
<1> QED
  BY <1>1, <1>2, <1>3, PTL DEF Spec

\* A task that has computed its key has its file's real path.
KeyedByFile ==
  /\ resolved = Files
  /\ \A t \in Tasks : pc[t] # "start" => key[t] = FileOf[name[t]]

\* When every file exists, one writer per key is one writer per file.
THEOREM OneWriter ==
  ASSUME Existing = Files
  PROVE  Spec => []OneWriterPerFile
PROOF
<1>1. Init => IInv /\ KeyedByFile
  BY InitialState DEF Init, KeyedByFile
<1>2. IInv /\ KeyedByFile /\ [Next]_vars => IInv' /\ KeyedByFile'
  <2> SUFFICES ASSUME IInv, KeyedByFile, [Next]_vars PROVE KeyedByFile'
    BY NextStep
  <2> USE DEF KeyedByFile
  <2>1. name \in [Tasks -> Names] /\ key \in [Tasks -> Keys] /\ pc \in [Tasks -> Pcs]
    BY DEF IInv, TypeOK
  <2>2. \A n \in Names : FileOf[n] \in Files /\ Key(n) = FileOf[n]
    BY DEF Key
  <2>3. ASSUME NEW t \in Tasks, Write(t) PROVE resolved' = Files
    BY <2>1, <2>2, <2>3 DEF Write
  <2>4. ASSUME NEW t \in Tasks, Enter(t) \/ Enqueue(t) PROVE KeyedByFile'
    BY <2>1, <2>2, <2>3, <2>4 DEF Enter, Enqueue
  <2>5. ASSUME NEW t \in Tasks, Wake(t) \/ Work(t) PROVE KeyedByFile'
    BY <2>1, <2>3, <2>5 DEF Wake, Work
  <2>6. ASSUME NEW n \in Names, MainCall(n) PROVE KeyedByFile'
    BY <2>6 DEF MainCall
  <2>7. CASE UNCHANGED vars
    BY <2>7 DEF vars
  <2> QED
    BY <2>4, <2>5, <2>6, <2>7 DEF Next, Step
<1>3. IInv /\ KeyedByFile => OneWriterPerFile
  BY DEF IInv, KeyedByFile, MutualExclusion, OneWriterPerFile, Owns
<1> QED
  BY <1>1, <1>2, <1>3, PTL DEF Spec

\* Only the head of a queue is ever told to go: nobody overtakes.
THEOREM FirstCome == Spec => HandOffIsFifo
PROOF
<1> DEFINE Fifo == \A k \in Keys : \A i, j \in DOMAIN locks[k].queue :
             LET s == locks[k].queue[i]
                 t == locks[k].queue[j]
             IN  i < j /\ {s, t} \subseteq Tasks /\ ready'[t] => ready'[s]
<1>1. Init => IInv
  BY InitialState
<1>2. IInv /\ [Next]_vars => IInv'
  BY NextStep
<1>3. IInv /\ [Next]_vars => [Fifo]_vars
  <2> SUFFICES ASSUME IInv, Next,
                      NEW k \in Keys, NEW i \in DOMAIN locks[k].queue,
                      NEW j \in DOMAIN locks[k].queue, i < j,
                      NEW t \in Tasks, t = locks[k].queue[j]
               PROVE  ~ready'[t]
    OBVIOUS
  <2>1. /\ locks[k].queue \in Seq(Tasks \cup {Nobody}) /\ i \in 1 .. Len(locks[k].queue)
        /\ j \in 1 .. Len(locks[k].queue) /\ j # 1 /\ key[t] = k /\ ~ready[t]
    BY LockType, LenProperties, SMTT(60) DEF IInv, QueuesOfWaiters
  <2>2. ASSUME NEW u \in Tasks, Release(key[u]) PROVE ~ready'[t]
    <3>1. key[u] \in Keys
      BY DEF IInv, TypeOK
    <3> DEFINE queue == locks[key[u]].queue
    <3>2. queue \in Seq(Tasks \cup {Nobody})
      BY <3>1, LockType DEF IInv
    <3>3. ~(queue # << >> /\ t = Head(queue))
      <4> SUFFICES ASSUME queue # << >>, t = Head(queue) PROVE FALSE
        OBVIOUS
      <4>1. 1 \in 1 .. Len(queue) /\ queue[1] = t
        BY <3>2
      <4>2. key[t] = key[u]
        BY <3>1, <4>1 DEF IInv, QueuesOfWaiters
      <4>3. key[u] = k
        BY <2>1, <4>2
      <4>4. locks[k].queue[1] = t /\ locks[k].queue[j] = t /\ 1 \in 1 .. Len(locks[k].queue)
        BY <4>1, <4>3
      <4>5. 1 = j
        <5> DEFINE q == locks[k].queue
        <5>1. \A m, n \in 1 .. Len(q) : q[m] \in Tasks /\ q[n] = q[m] => m = n
          BY DEF IInv, QueuesOfWaiters
        <5>2. q[1] = t /\ q[j] = t /\ 1 \in 1 .. Len(q) /\ j \in 1 .. Len(q)
          BY <2>1, <4>4, SMTT(60)
        <5> HIDE DEF q
        <5> QED
          BY <5>1, <5>2
      <4> QED
        BY <2>1, <4>5
    <3> QED
      BY <2>1, <2>2, <3>3 DEF Release
  <2>3. ASSUME NEW u \in Tasks, Step(u) PROVE ~ready'[t]
    BY <2>1, <2>2, <2>3 DEF Step, Enter, Enqueue, Wake, Work
  <2>4. ASSUME NEW n \in Names, MainCall(n) PROVE ~ready'[t]
    BY <2>1, <2>4 DEF MainCall
  <2> QED
    BY <2>3, <2>4 DEF Next
<1> QED
  BY <1>1, <1>2, <1>3, PTL DEF Spec, HandOffIsFifo

=============================================================================
