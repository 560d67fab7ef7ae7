--------------------------- MODULE RecursionProofs ---------------------------
(***************************************************************************)
(* What recursive functions return: in general (f[0] = x and               *)
(* f[n] = step[<<n, f[n - 1]>>], the form of the walks and scans of the    *)
(* models), and the operators of SessionTree, for every sequence of        *)
(* entries.                                                                *)
(***************************************************************************)
EXTENDS SessionTree, SequenceTheorems, WellFoundedInduction, TLAPS

\* Every non-empty set of naturals has a least element.
LEMMA LeastNatural ==
  ASSUME NEW T, T \subseteq Nat, T # {}
  PROVE  \E m \in T : \A n \in T : m <= n
<1>1. PICK m \in T : \A n \in T : ~ (<<n, m>> \in OpToRel(<, Nat))
  BY NatLessThanWellFounded, WFMin
<1>2. \A n \in T : ~ (n < m)
  BY <1>1 DEF OpToRel
<1> QED
  BY <1>2

IteratesOn(f, N, x, step) ==
  f = [n \in 0 .. N |-> IF n = 0 THEN x ELSE step[<<n, f[n - 1]>>]]

\* The function defined by the recursion exists.
LEMMA IterationExists ==
  ASSUME NEW N \in Nat, NEW x, NEW step
  PROVE  \E f : IteratesOn(f, N, x, step)
<1> DEFINE Bad == {m \in Nat : ~ \E f : IteratesOn(f, m, x, step)}
<1>1. SUFFICES ASSUME Bad # {} PROVE FALSE
  OBVIOUS
<1>2. PICK m \in Bad : \A n \in Bad : m <= n
  <2> HIDE DEF Bad
  <2>1. Bad \subseteq Nat
    BY DEF Bad
  <2> QED
    BY <1>1, <2>1, LeastNatural
<1>3. CASE m = 0
  <2>1. IteratesOn([n \in 0 .. 0 |-> x], 0, x, step)
    BY DEF IteratesOn
  <2> QED
    BY <1>2, <1>3, <2>1
<1>4. CASE m # 0
  <2>1. m - 1 \in Nat /\ m - 1 \notin Bad
    BY <1>2, <1>4
  <2>2. PICK g : IteratesOn(g, m - 1, x, step)
    BY <2>1
  <2> DEFINE h == [n \in 0 .. m |-> IF n = m THEN step[<<m, g[m - 1]>>] ELSE g[n]]
  <2>3. \A n \in 0 .. m - 1 : h[n] = g[n]
    BY <2>1
  <2>4. \A n \in 0 .. m : h[n] = IF n = 0 THEN x ELSE step[<<n, h[n - 1]>>]
    <3> TAKE n \in 0 .. m
    <3>1. CASE n = m
      BY <3>1, <2>1, <2>3, <1>4, SMTT(60)
    <3>2. CASE n # m
      <4>1. n \in 0 .. m - 1
        BY <3>2, <2>1
      <4>2. g[n] = IF n = 0 THEN x ELSE step[<<n, g[n - 1]>>]
        BY <4>1, <2>2 DEF IteratesOn
      <4>3. h[n] = g[n] /\ (n # 0 => h[n - 1] = g[n - 1])
        <5>1. n # 0 => n - 1 \in 0 .. m - 1
          BY <4>1, <2>1
        <5> HIDE DEF h
        <5> QED
          BY <4>1, <5>1, <2>3
      <4> HIDE DEF h
      <4> QED
        BY <4>2, <4>3
    <3> QED
      BY <3>1, <3>2
  <2>5. h = [n \in 0 .. m |-> IF n = 0 THEN x ELSE step[<<n, h[n - 1]>>]]
    BY <2>4
  <2>6. IteratesOn(h, m, x, step)
    BY <2>5 DEF IteratesOn
  <2> QED
    BY <1>2, <2>6
<1> QED
  BY <1>3, <1>4

\* Induction along a function: what f[0] has and each step preserves, every
\* f[n] has.
LEMMA Induct ==
  ASSUME NEW N \in Nat, NEW f, NEW X,
         f[0] \in X[0],
         \A n \in 1 .. N : f[n - 1] \in X[n - 1] => f[n] \in X[n]
  PROVE  \A n \in 0 .. N : f[n] \in X[n]
<1> DEFINE Bad == {n \in 0 .. N : f[n] \notin X[n]}
<1>1. SUFFICES ASSUME Bad # {} PROVE FALSE
  OBVIOUS
<1>2. PICK m \in Bad : \A n \in Bad : m <= n
  <2> HIDE DEF Bad
  <2>1. Bad \subseteq Nat
    BY DEF Bad
  <2> QED
    BY <1>1, <2>1, LeastNatural
<1>3. CASE m = 0
  BY <1>3
<1>4. CASE m # 0
  <2>1. m - 1 \in 0 .. N /\ m \in 1 .. N /\ m - 1 \notin Bad
    BY <1>2, <1>4
  <2> QED
    BY <2>1
<1> QED
  BY <1>3, <1>4

\* f[0] = x, f[n] = step[<<n, f[n - 1]>>], and all of it is in S.
IteratesIn(f, N, S, x, step) ==
  /\ f \in [0 .. N -> S]
  /\ f[0] = x /\ \A n \in 1 .. N : f[n] = step[<<n, f[n - 1]>>]

\* A recursion whose steps stay in a set.
LEMMA IterationIn ==
  ASSUME NEW N \in Nat, NEW S, NEW x \in S, NEW step \in [(1 .. N) \X S -> S]
  PROVE  \E f : IteratesIn(f, N, S, x, step)
<1>1. PICK g : IteratesOn(g, N, x, step)
  BY IterationExists
<1>2. /\ 0 \in 0 .. N /\ g[0] = x
      /\ \A n \in 1 .. N : n \in 0 .. N /\ n # 0 /\ g[n] = step[<<n, g[n - 1]>>]
  BY <1>1 DEF IteratesOn
<1> DEFINE X == [n \in 0 .. N |-> S]
<1>3. \A n \in 0 .. N : g[n] \in X[n]
  <2>1. g[0] \in X[0]
    BY <1>2
  <2>2. ASSUME NEW n \in 1 .. N, g[n - 1] \in X[n - 1] PROVE g[n] \in X[n]
    <3>1. n - 1 \in 0 .. N /\ n \in 0 .. N
      OBVIOUS
    <3>2. <<n, g[n - 1]>> \in (1 .. N) \X S
      BY <2>2, <3>1
    <3>3. step[<<n, g[n - 1]>>] \in S
      BY <3>2
    <3> QED
      BY <1>2, <3>1, <3>3
  <2> HIDE DEF X
  <2> QED
    BY <2>1, <2>2, Induct
<1>4. \A n \in 0 .. N : g[n] \in S
  BY <1>3
<1>5. g \in [0 .. N -> S]
  BY <1>1, <1>4 DEF IteratesOn
<1> QED
  BY <1>2, <1>5 DEF IteratesIn

-----------------------------------------------------------------------------
(* Sequences, point by point *)

LEMMA PointsOf ==
  ASSUME NEW S, NEW s \in Seq(S)
  PROVE  Len(s) \in Nat /\ DOMAIN s = 1 .. Len(s) /\ \A i \in 1 .. Len(s) : s[i] \in S
BY LenProperties, ElementOfSeq

LEMMA AppendPoints ==
  ASSUME NEW S, NEW s \in Seq(S), NEW e \in S
  PROVE  /\ Append(s, e) \in Seq(S) /\ Len(Append(s, e)) = Len(s) + 1
         /\ DOMAIN Append(s, e) = 1 .. Len(s) + 1
         /\ Append(s, e)[Len(s) + 1] = e
         /\ \A i \in 1 .. Len(s) : Append(s, e)[i] = s[i]
<1>1. Append(s, e) \in Seq(S) /\ Len(Append(s, e)) = Len(s) + 1
  BY AppendProperties
<1>2. DOMAIN Append(s, e) = 1 .. Len(s) + 1
  BY <1>1, LenProperties
<1> QED  BY <1>1, <1>2, AppendProperties

LEMMA PrependPoints ==
  ASSUME NEW S, NEW s \in Seq(S), NEW e \in S
  PROVE  LET t == <<e>> \o s
         IN  /\ t \in Seq(S) /\ Len(t) = Len(s) + 1 /\ DOMAIN t = 1 .. Len(s) + 1
             /\ t[1] = e /\ \A i \in 1 .. Len(s) : t[i + 1] = s[i]
<1> DEFINE t == <<e>> \o s
<1>1. <<e>> \in Seq(S) /\ Len(<<e>>) = 1 /\ <<e>>[1] = e
  OBVIOUS
<1>2. Len(s) \in Nat
  BY LenProperties
<1>3. /\ t \in Seq(S) /\ Len(t) = 1 + Len(s)
      /\ \A i \in 1 .. 1 + Len(s) : t[i] = IF i <= 1 THEN <<e>>[i] ELSE s[i - 1]
  BY <1>1, ConcatProperties
<1> HIDE DEF t
<1>4. DOMAIN t = 1 .. Len(s) + 1
  BY <1>2, <1>3, LenProperties
<1>5. t[1] = e
  BY <1>1, <1>2, <1>3
<1>6. ASSUME NEW i \in 1 .. Len(s) PROVE t[i + 1] = s[i]
  <2>1. i + 1 \in 1 .. 1 + Len(s) /\ ~(i + 1 <= 1) /\ (i + 1) - 1 = i
    BY <1>2
  <2> QED  BY <1>3, <2>1
<1> QED  BY <1>2, <1>3, <1>4, <1>5, <1>6 DEF t

LEMMA PrependAppend ==
  ASSUME NEW S, NEW s \in Seq(S), NEW t \in Seq(S), NEW e \in S
  PROVE  s \o Append(t, e) = Append(s \o t, e)
<1> DEFINE one == <<e>>
<1>1. one \in Seq(S)
  OBVIOUS
<1>2. Append(t, e) = t \o one /\ s \o t \in Seq(S)
  BY AppendIsConcat, ConcatProperties
<1>3. Append(s \o t, e) = (s \o t) \o one
  BY <1>2, AppendIsConcat
<1> HIDE DEF one
<1> QED  BY <1>1, <1>2, <1>3, ConcatAssociative, SMTT(60)

-----------------------------------------------------------------------------
(* Types *)

LEMMA LookupType ==
  ASSUME NEW S, NEW es \in Seq(S), NEW id \in EntryIds(es)
  PROVE  Lookup(es, id) \in S /\ Lookup(es, id).id = id
<1> DEFINE Hits == {i \in DOMAIN es : es[i].id = id}
           Last1(i) == /\ es[i].id = id
                       /\ \A j \in DOMAIN es : es[j].id = id => j <= i
<1>1. Len(es) \in Nat /\ DOMAIN es = 1 .. Len(es)
  BY LenProperties
<1>2. \E i \in DOMAIN es : Last1(i)
  <2> DEFINE Turned == {Len(es) - i : i \in Hits}
  <2>1. Turned \subseteq Nat /\ Turned # {}
    BY <1>1 DEF EntryIds
  <2>2. PICK m \in Turned : \A n \in Turned : m <= n
    <3> HIDE DEF Turned
    <3> QED
      BY <2>1, LeastNatural
  <2>3. PICK i \in Hits : m = Len(es) - i
    BY <2>2
  <2>4. \A j \in Hits : Len(es) - i <= Len(es) - j
    BY <2>2, <2>3
  <2> QED
    BY <2>3, <2>4, <1>1
<1>3. PICK i \in DOMAIN es : i = (CHOOSE k \in DOMAIN es : Last1(k)) /\ Last1(i)
  BY <1>2
<1> QED
  BY <1>1, <1>3, ElementOfSeq DEF Lookup

LEMMA ClimbStepType ==
  ASSUME NEW S, NEW es \in Seq(S), NEW leaf, NEW path \in Seq(S)
  PROVE  ClimbStep(es, leaf, path) \in Seq(S)
<1> DEFINE next == IF path = << >> THEN leaf ELSE path[1].parent
<1>1. CASE next \in EntryIds(es) \ EntryIds(path)
  <2>1. Lookup(es, next) \in S
    BY <1>1, LookupType
  <2>2. <<Lookup(es, next)>> \in Seq(S)
    BY <2>1
  <2> QED
    BY <1>1, <2>2, ConcatProperties DEF ClimbStep
<1>2. CASE next \notin EntryIds(es) \ EntryIds(path)
  BY <1>2 DEF ClimbStep
<1> QED
  BY <1>1, <1>2

\* Climb is the function its recursion describes.
LEMMA ClimbDef ==
  ASSUME NEW S, NEW es \in Seq(S), NEW leaf
  PROVE  Climb(es, leaf) =
           [n \in 0 .. Len(es) |->
              IF n = 0 THEN << >>
              ELSE ClimbStep(es, leaf, Climb(es, leaf)[n - 1])]
<1> DEFINE step == [q \in Nat \X Seq(S) |-> ClimbStep(es, leaf, q[2])]
           Eqn(f) == f = [n \in 0 .. Len(es) |->
                            IF n = 0 THEN << >>
                            ELSE ClimbStep(es, leaf, f[n - 1])]
<1>1. Len(es) \in Nat
  BY LenProperties
<1>2. PICK g : IteratesOn(g, Len(es), << >>, step)
  <2> HIDE DEF step
  <2> QED
    BY <1>1, IterationExists
<1>3. \A n \in 0 .. Len(es) : g[n] \in Seq(S)
  <2> DEFINE X == [n \in 0 .. Len(es) |-> Seq(S)]
  <2>1. g[0] \in X[0]
    BY <1>1, <1>2, EmptySeq DEF IteratesOn
  <2>2. ASSUME NEW n \in 1 .. Len(es), g[n - 1] \in X[n - 1]
        PROVE  g[n] \in X[n]
    <3>1. n \in 0 .. Len(es) /\ n - 1 \in 0 .. Len(es) /\ n # 0 /\ n \in Nat
      BY <1>1
    <3>2. g[n] = step[<<n, g[n - 1]>>]
      BY <1>2, <3>1 DEF IteratesOn
    <3>3. g[n] = ClimbStep(es, leaf, g[n - 1])
      BY <2>2, <3>1, <3>2
    <3> QED
      BY <2>2, <3>1, <3>3, ClimbStepType
  <2>3. \A n \in 0 .. Len(es) : g[n] \in X[n]
    <3> HIDE DEF X
    <3> QED
      BY <1>1, <2>1, <2>2, Induct
  <2> QED
    BY <2>3
<1>4. Eqn(g)
  <2>1. ASSUME NEW n \in 0 .. Len(es), n # 0
        PROVE  step[<<n, g[n - 1]>>] = ClimbStep(es, leaf, g[n - 1])
    <3>1. n - 1 \in 0 .. Len(es) /\ n \in Nat
      BY <1>1, <2>1
    <3> QED
      BY <1>3, <3>1
  <2> QED
    BY <1>2, <2>1 DEF IteratesOn
<1>5. Climb(es, leaf) = CHOOSE f : Eqn(f)
  BY DEF Climb
<1> HIDE DEF Eqn
<1>6. Eqn(Climb(es, leaf))
  BY <1>4, <1>5
<1> QED
  BY <1>6 DEF Eqn

\* The active path consists of entries of the tree.
LEMMA ActivePathType ==
  ASSUME NEW S, NEW es \in Seq(S), NEW leaf
  PROVE  ActivePath(es, leaf) \in Seq(S)
<1> DEFINE up == Climb(es, leaf)
           X  == [n \in 0 .. Len(es) |-> Seq(S)]
<1>1. Len(es) \in Nat
  BY LenProperties
<1>2. up[0] \in X[0]
  BY <1>1, ClimbDef, EmptySeq, SMTT(60)
<1>3. ASSUME NEW n \in 1 .. Len(es), up[n - 1] \in X[n - 1]
      PROVE  up[n] \in X[n]
  <2>1. n \in 0 .. Len(es) /\ n - 1 \in 0 .. Len(es) /\ n # 0
    BY <1>1
  <2>2. up[n] = ClimbStep(es, leaf, up[n - 1])
    BY <2>1, ClimbDef
  <2> QED
    BY <1>3, <2>1, <2>2, ClimbStepType
<1>4. \A n \in 0 .. Len(es) : up[n] \in X[n]
  <2> HIDE DEF X, up
  <2> QED
    BY <1>1, <1>2, <1>3, Induct
<1> QED
  BY <1>1, <1>4 DEF ActivePath

\* What Only leaves of the first n entries: those in the set, in their order.
Thin(s, n, T, t) ==
  /\ \A i \in 1 .. Len(t) : \E k \in 1 .. n : t[i] = s[k] /\ s[k] \in T
  /\ \A k \in 1 .. n : s[k] \in T => \E i \in 1 .. Len(t) : t[i] = s[k]
  /\ \A i, j \in 1 .. Len(t) : i < j =>
       \E k, l \in 1 .. n : k < l /\ t[i] = s[k] /\ t[j] = s[l]

ScanStep(s, T, n, t) == IF s[n] \in T THEN Append(t, s[n]) ELSE t

LEMMA ScanThin ==
  ASSUME NEW S, NEW s \in Seq(S), NEW T, NEW n \in 1 .. Len(s),
         NEW t \in Seq(S), Thin(s, n - 1, T, t)
  PROVE  ScanStep(s, T, n, t) \in Seq(S) /\ Thin(s, n, T, ScanStep(s, T, n, t))
<1>s. Len(s) \in Nat /\ s[n] \in S /\ n \in Nat
  BY PointsOf
<1>t. Len(t) \in Nat
  BY PointsOf
<1>n. n \in 1 .. n /\ \A k \in 1 .. n - 1 : k \in 1 .. n /\ k < n
  BY <1>s
<1>k. \A k \in 1 .. n : k = n \/ k \in 1 .. n - 1
  BY <1>s
<1>1. CASE s[n] \notin T
  <2>1. \A k \in 1 .. n : s[k] \in T => k \in 1 .. n - 1
    BY <1>1, <1>k
  <2>2. ScanStep(s, T, n, t) = t
    BY <1>1 DEF ScanStep
  <2> QED  BY <1>n, <2>1, <2>2 DEF Thin
<1>2. CASE s[n] \in T
  <2> DEFINE u == Append(t, s[n])
  <2>1. /\ u \in Seq(S) /\ Len(u) = Len(t) + 1 /\ u[Len(t) + 1] = s[n]
        /\ \A i \in 1 .. Len(t) : u[i] = t[i]
    BY <1>s, AppendPoints
  <2>2. ScanStep(s, T, n, t) = u
    BY <1>2 DEF ScanStep
  <2> HIDE DEF u
  <2>3. /\ \A i \in 1 .. Len(u) : i = Len(t) + 1 \/ i \in 1 .. Len(t)
        /\ \A i \in 1 .. Len(t) : i \in 1 .. Len(u)
        /\ Len(t) + 1 \in 1 .. Len(u)
    BY <1>t, <2>1
  <2>4. \A i \in 1 .. Len(u) : \E k \in 1 .. n : u[i] = s[k] /\ s[k] \in T
    <3> TAKE i \in 1 .. Len(u)
    <3>1. CASE i = Len(t) + 1
      BY <1>2, <1>n, <2>1, <3>1
    <3>2. CASE i \in 1 .. Len(t)
      <4>1. PICK k \in 1 .. n - 1 : t[i] = s[k] /\ s[k] \in T
        BY <3>2 DEF Thin
      <4> QED  BY <1>n, <2>1, <3>2, <4>1
    <3> QED  BY <2>3, <3>1, <3>2
  <2>5. \A k \in 1 .. n : s[k] \in T => \E i \in 1 .. Len(u) : u[i] = s[k]
    <3> TAKE k \in 1 .. n
    <3>1. CASE k = n
      BY <2>1, <2>3, <3>1
    <3>2. CASE k \in 1 .. n - 1
      BY <2>1, <2>3, <3>2 DEF Thin
    <3> QED  BY <1>k, <3>1, <3>2
  <2>6. ASSUME NEW i \in 1 .. Len(u), NEW j \in 1 .. Len(u), i < j
        PROVE  \E k, l \in 1 .. n : k < l /\ u[i] = s[k] /\ u[j] = s[l]
    <3>0. i \in 1 .. Len(t)
      BY <1>t, <2>1, <2>6
    <3>1. CASE j = Len(t) + 1
      <4>1. PICK k \in 1 .. n - 1 : t[i] = s[k]
        BY <3>0 DEF Thin
      <4>2. k \in 1 .. n /\ k < n /\ u[i] = s[k] /\ u[j] = s[n]
        BY <1>n, <2>1, <3>0, <3>1, <4>1
      <4> QED  BY <1>n, <4>2
    <3>2. CASE j \in 1 .. Len(t)
      <4>1. PICK k \in 1 .. n - 1 : \E l \in 1 .. n - 1 : k < l /\ t[i] = s[k] /\ t[j] = s[l]
        BY <2>6, <3>0, <3>2 DEF Thin
      <4>2. PICK l \in 1 .. n - 1 : k < l /\ t[i] = s[k] /\ t[j] = s[l]
        BY <4>1
      <4> QED  BY <1>n, <2>1, <3>0, <3>2, <4>1, <4>2
    <3> QED  BY <2>3, <3>1, <3>2
  <2>7. Thin(s, n, T, u)
    BY <2>4, <2>5, <2>6 DEF Thin
  <2> QED  BY <2>1, <2>2, <2>7
<1> QED  BY <1>1, <1>2

\* Only keeps those entries that are in the set.
LEMMA OnlyIs ==
  ASSUME NEW S, NEW s \in Seq(S), NEW T
  PROVE  Only(s, T) \in Seq(S) /\ Thin(s, Len(s), T, Only(s, T))
<1> DEFINE N == Len(s)
           step == [q \in (1 .. N) \X Seq(S) |-> ScanStep(s, T, q[1], q[2])]
           Eqn(f) == f = [n \in 0 .. N |->
                            IF n = 0 THEN << >>
                            ELSE IF s[n] \in T THEN Append(f[n - 1], s[n])
                            ELSE f[n - 1]]
           X == [n \in 0 .. N |-> {t \in Seq(S) : Thin(s, n, T, t)}]
           scan == CHOOSE f : Eqn(f)
<1>1. N \in Nat
  BY LenProperties
<1>2. << >> \in X[0]
  <2>1. Thin(s, 0, T, << >>)
    BY EmptySeq DEF Thin
  <2> QED  BY <1>1, <2>1, EmptySeq
<1>3. ASSUME NEW n \in 1 .. N, NEW y \in X[n - 1]
      PROVE  y \in Seq(S) /\ ScanStep(s, T, n, y) \in X[n]
  <2>1. n \in 0 .. N /\ n - 1 \in 0 .. N
    BY <1>1
  <2>2. y \in Seq(S) /\ Thin(s, n - 1, T, y)
    BY <1>3, <2>1
  <2>3. ScanStep(s, T, n, y) \in Seq(S) /\ Thin(s, n, T, ScanStep(s, T, n, y))
    BY <2>2, ScanThin
  <2> QED  BY <2>1, <2>2, <2>3
<1>4. PICK g : IteratesOn(g, N, << >>, step)
  <2> HIDE DEF step, N
  <2> QED  BY <1>1, IterationExists
<1>5. ASSUME NEW n \in 1 .. N, g[n - 1] \in X[n - 1]
      PROVE  g[n] = ScanStep(s, T, n, g[n - 1])
  <2>1. n \in 0 .. N /\ n # 0
    BY <1>1
  <2>2. g[n] = step[<<n, g[n - 1]>>]
    <3> HIDE DEF step, N
    <3> QED  BY <1>4, <2>1 DEF IteratesOn
  <2>3. g[n - 1] \in Seq(S)
    <3> HIDE DEF X, N
    <3> QED  BY <1>3, <1>5
  <2> QED  BY <2>2, <2>3
<1>6. \A n \in 0 .. N : g[n] \in X[n]
  <2>1. g[0] \in X[0]
    <3> HIDE DEF X
    <3> QED  BY <1>1, <1>2, <1>4 DEF IteratesOn
  <2> HIDE DEF X, N
  <2> QED  BY <1>1, <1>3, <1>5, <2>1, Induct
<1>7. Eqn(g)
  <2>1. ASSUME NEW n \in 0 .. N, n # 0
        PROVE  step[<<n, g[n - 1]>>] = ScanStep(s, T, n, g[n - 1])
    <3>1. n - 1 \in 0 .. N /\ n \in 1 .. N
      BY <1>1, <2>1
    <3> QED  BY <1>6, <3>1
  <2> QED  BY <1>4, <2>1 DEF IteratesOn, ScanStep
<1>8. Eqn(scan)
  <2> HIDE DEF Eqn
  <2> QED  BY <1>7
<1>9. \A n \in 0 .. N : scan[n] \in X[n]
  <2>1. scan[0] = << >> /\ \A n \in 1 .. N : scan[n] = ScanStep(s, T, n, scan[n - 1])
    <3>1. /\ 0 \in 0 .. N
          /\ \A n \in 1 .. N : n \in 0 .. N /\ n # 0
      BY <1>1
    <3> HIDE DEF scan, N
    <3> QED  BY <1>8, <3>1 DEF ScanStep
  <2> HIDE DEF X, N, scan
  <2> QED  BY <1>1, <1>2, <1>3, <2>1, Induct
<1>10. Only(s, T) = scan[N]
  BY DEF Only
<1>11. scan[N] \in X[N] /\ N \in 0 .. N
  BY <1>1, <1>9
<1> HIDE DEF scan
<1> QED  BY <1>10, <1>11

LEMMA WithoutSystemType ==
  ASSUME NEW S, NEW es \in Seq(S)
  PROVE  WithoutSystem(es) \in Seq(S)
BY OnlyIs DEF WithoutSystem

LEMMA KeptType ==
  ASSUME NEW S, NEW path \in Seq(S), NEW c \in 1 .. Len(path)
  PROVE  Kept(path, c) \in Seq(S)
<1> DEFINE starts == {i \in 1 .. c - 1 : path[i].id = path[c].ref}
           first  == CHOOSE i \in starts : \A j \in starts : i <= j
<1>1. Len(path) \in Nat
  BY LenProperties
<1>2. CASE starts = {}
  BY <1>2, EmptySeq DEF Kept
<1>3. CASE starts # {}
  <2>1. starts \subseteq Nat
    BY <1>1
  <2>2. \E i \in starts : \A j \in starts : i <= j
    <3> HIDE DEF starts
    <3> QED
      BY <1>3, <2>1, LeastNatural
  <2>3. first \in starts
    BY <2>2
  <2>4. \A i \in first .. c - 1 : path[i] \in S
    BY <1>1, <2>3, ElementOfSeq
  <2>5. SubSeq(path, first, c - 1) \in Seq(S)
    <3>1. first \in Int /\ c - 1 \in Int
      BY <1>1, <2>3
    <3> HIDE DEF first
    <3> QED
      BY <2>4, <3>1, SubSeqProperties
  <2>6. Kept(path, c) = WithoutSystem(SubSeq(path, first, c - 1))
    BY <1>3 DEF Kept
  <2> HIDE DEF first
  <2> QED
    BY <2>5, <2>6, WithoutSystemType
<1> QED
  BY <1>2, <1>3

\* The last compaction is one of the path's entries.
LEMMA LastCompactionType ==
  ASSUME NEW S, NEW path \in Seq(S), Compactions(path) # {}
  PROVE  LastCompaction(path) \in 1 .. Len(path)
<1>1. Len(path) \in Nat /\ DOMAIN path = 1 .. Len(path)
  BY LenProperties
<1> DEFINE Turned == {Len(path) - i : i \in Compactions(path)}
<1>2. Turned \subseteq Nat /\ Turned # {}
  BY <1>1 DEF Compactions
<1>3. PICK m \in Turned : \A n \in Turned : m <= n
  <2> HIDE DEF Turned
  <2> QED
    BY <1>2, LeastNatural
<1>4. PICK i \in Compactions(path) : m = Len(path) - i
  BY <1>3
<1>5. \A j \in Compactions(path) : j <= i
  <2> TAKE j \in Compactions(path)
  <2>1. i \in 1 .. Len(path) /\ j \in 1 .. Len(path)
    BY <1>1 DEF Compactions
  <2>2. Len(path) - i <= Len(path) - j
    BY <1>3, <1>4
  <2> QED
    BY <1>1, <2>1, <2>2
<1> QED
  BY <1>1, <1>4, <1>5 DEF LastCompaction, Compactions

\* The projection selects entries of the path.
LEMMA SelectedType ==
  ASSUME NEW S, NEW path \in Seq(S)
  PROVE  Selected(path) \in Seq(S)
<1>1. CASE Compactions(path) = {}
  BY <1>1 DEF Selected
<1>2. CASE Compactions(path) # {}
  <2> DEFINE c == LastCompaction(path)
  <2>1. c \in 1 .. Len(path) /\ Len(path) \in Nat
    BY <1>2, LastCompactionType, LenProperties
  <2>2. <<path[c]>> \in Seq(S)
    BY <2>1, ElementOfSeq
  <2>3. Kept(path, c) \in Seq(S)
    BY <2>1, KeptType
  <2>4. \A i \in c + 1 .. Len(path) : path[i] \in S
    BY <2>1, ElementOfSeq
  <2>5. SubSeq(path, c + 1, Len(path)) \in Seq(S)
    <3> HIDE DEF c
    <3> QED
      BY <2>1, <2>4, SubSeqProperties
  <2>6. Selected(path) = <<path[c]>> \o Kept(path, c) \o SubSeq(path, c + 1, Len(path))
    BY <1>2 DEF Selected
  <2> HIDE DEF c
  <2> QED
    BY <2>2, <2>3, <2>5, <2>6, ConcatProperties
<1> QED
  BY <1>1, <1>2

-----------------------------------------------------------------------------
(* Paths and what the projection selects of them *)

USE DEF NoId

LEMMA LookupUnique ==
  ASSUME NEW S, \A r \in S : r.id # NoId,
         NEW es \in Seq(S), Rooted(es), NEW j \in 1 .. Len(es)
  PROVE  Lookup(es, es[j].id) = es[j]
<1>1. DOMAIN es = 1 .. Len(es) /\ Len(es) \in Nat
  BY PointsOf
<1>2. \A i \in DOMAIN es : es[i].id = es[j].id => i = j
  BY <1>1 DEF Rooted
<1>3. (CHOOSE i \in DOMAIN es : /\ es[i].id = es[j].id
                                /\ \A k \in DOMAIN es : es[k].id = es[j].id => k <= i) = j
  BY <1>1, <1>2
<1> QED  BY <1>3 DEF Lookup

\* What the walk from a leaf has after n steps: a chain of different entries,
\* the first of them far enough down, or a root.
Walk(es, lf, n, p) ==
  /\ n > 0 /\ p = << >> => lf \notin EntryIds(es)
  /\ \A i \in 2 .. Len(p) : p[i].parent = p[i - 1].id
  /\ \A i, j \in 1 .. Len(p) : p[i].id = p[j].id => i = j
  /\ p # << >> => \E k \in 1 .. Len(es) :
       /\ p[1] = es[k] /\ (k <= Len(es) - n + 1 \/ p[1].parent = NoId)
       /\ \A i \in 1 .. Len(p) : \E q \in k .. Len(es) : p[i] = es[q]

LEMMA WalkStep ==
  ASSUME NEW S, \A r \in S : r.id # NoId,
         NEW es \in Seq(S), Rooted(es), NEW lf, NEW n \in 1 .. Len(es),
         NEW p \in Seq(S), Walk(es, lf, n - 1, p)
  PROVE  Walk(es, lf, n, ClimbStep(es, lf, p))
<1> DEFINE next == IF p = << >> THEN lf ELSE p[1].parent
<1>e. Len(es) \in Nat /\ DOMAIN es = 1 .. Len(es) /\ \A i \in 1 .. Len(es) : es[i] \in S
  BY PointsOf
<1>p. Len(p) \in Nat /\ DOMAIN p = 1 .. Len(p) /\ \A i \in 1 .. Len(p) : p[i] \in S
  BY PointsOf
<1>n. p # << >> => Len(p) >= 1
  BY <1>p, EmptySeq
<1>u. \A i, j \in 1 .. Len(es) : es[i].id = es[j].id => i = j
  BY <1>e DEF Rooted
<1>1. ASSUME p # << >>, p[1].parent # NoId
      PROVE  /\ next \in EntryIds(es) \ EntryIds(p)
             /\ \E k \in 2 .. Len(es) : \E j \in 1 .. k - 1 :
                  /\ p[1] = es[k] /\ k <= Len(es) - n + 2 /\ next = es[j].id
                  /\ \A i \in 1 .. Len(p) : \E q \in k .. Len(es) : p[i] = es[q]
  <2>1. PICK k \in 1 .. Len(es) :
          /\ p[1] = es[k] /\ (k <= Len(es) - (n - 1) + 1 \/ p[1].parent = NoId)
          /\ \A i \in 1 .. Len(p) : \E q \in k .. Len(es) : p[i] = es[q]
    BY <1>1 DEF Walk
  <2>2. k <= Len(es) - n + 2
    BY <1>1, <1>e, <2>1
  <2>3. PICK j \in 1 .. k - 1 : es[j].id = es[k].parent
    BY <1>1, <1>e, <2>1 DEF Rooted
  <2>4. j \in 1 .. Len(es) /\ next = es[j].id /\ k \in 2 .. Len(es)
    BY <1>1, <1>e, <2>1, <2>3
  <2>5. next \in EntryIds(es)
    BY <1>e, <2>4 DEF EntryIds
  <2>6. ASSUME NEW i \in 1 .. Len(p), p[i].id = next PROVE FALSE
    <3>1. PICK q \in k .. Len(es) : p[i] = es[q]
      BY <2>1
    <3>2. q \in 1 .. Len(es) /\ q # j
      BY <1>e, <2>1, <2>3, <3>1
    <3> QED  BY <1>u, <2>4, <2>6, <3>1, <3>2
  <2>7. next \notin EntryIds(p)
    BY <1>p, <2>6 DEF EntryIds
  <2> QED  BY <2>1, <2>2, <2>4, <2>5, <2>7
<1>2. CASE next \notin EntryIds(es) \ EntryIds(p)
  <2>1. ClimbStep(es, lf, p) = p
    BY <1>2 DEF ClimbStep
  <2>2. CASE p = << >>
    <3>1. lf \notin EntryIds(es)
      BY <1>2, <2>2 DEF EntryIds
    <3> QED  BY <2>1, <2>2, <3>1 DEF Walk
  <2>3. CASE p # << >>
    <3>1. p[1].parent = NoId
      BY <1>1, <1>2, <2>3
    <3>2. PICK k \in 1 .. Len(es) :
            p[1] = es[k] /\ \A i \in 1 .. Len(p) : \E q \in k .. Len(es) : p[i] = es[q]
      BY <2>3 DEF Walk
    <3>3. /\ \A i \in 2 .. Len(p) : p[i].parent = p[i - 1].id
          /\ \A i, j \in 1 .. Len(p) : p[i].id = p[j].id => i = j
      BY DEF Walk
    <3> QED  BY <2>1, <2>3, <3>1, <3>2, <3>3 DEF Walk
  <2> QED  BY <2>2, <2>3
<1>3. CASE next \in EntryIds(es) \ EntryIds(p)
  <2> DEFINE t == <<Lookup(es, next)>> \o p
  <2>1. ClimbStep(es, lf, p) = t
    BY <1>3 DEF ClimbStep
  <2>2. PICK j \in 1 .. Len(es) : es[j].id = next
    BY <1>3, <1>e DEF EntryIds
  <2>3. Lookup(es, next) = es[j]
    BY <2>2, LookupUnique
  <2>4. /\ t \in Seq(S) /\ Len(t) = Len(p) + 1
        /\ t[1] = es[j] /\ \A i \in 1 .. Len(p) : t[i + 1] = p[i]
    BY <1>e, <2>3, PrependPoints
  <2> HIDE DEF t
  <2>5. ASSUME NEW i \in 2 .. Len(t) PROVE i - 1 \in 1 .. Len(p) /\ t[i] = p[i - 1]
    <3>1. i - 1 \in 1 .. Len(p) /\ (i - 1) + 1 = i
      BY <1>p, <2>4
    <3> QED  BY <2>4, <3>1
  <2>6. t # << >>
    BY <1>p, <2>4, EmptySeq
  <2>7. ASSUME NEW i \in 2 .. Len(t) PROVE t[i].parent = t[i - 1].id
    <3>1. CASE i = 2
      <4>1. t[2] = p[1] /\ p # << >>
        BY <1>p, <2>4, <2>5, <3>1, EmptySeq
      <4> QED  BY <2>2, <2>4, <3>1, <4>1
    <3>2. CASE i # 2
      <4>1. i - 1 \in 2 .. Len(t) /\ i - 1 \in 2 .. Len(p)
        BY <1>p, <2>4, <3>2
      <4>2. t[i] = p[i - 1] /\ t[i - 1] = p[(i - 1) - 1]
        BY <2>5, <4>1
      <4> QED  BY <4>1, <4>2 DEF Walk
    <3> QED  BY <3>1, <3>2
  <2>8. ASSUME NEW i \in 1 .. Len(p) PROVE p[i].id # next
    BY <1>3, <1>p, <2>8 DEF EntryIds
  <2>9. ASSUME NEW i \in 1 .. Len(t), NEW k \in 1 .. Len(t), t[i].id = t[k].id PROVE i = k
    <3>1. CASE i = 1 /\ k = 1
      BY <3>1
    <3>2. CASE i = 1 /\ k # 1
      <4>1. k \in 2 .. Len(t)
        BY <1>p, <2>4, <3>2
      <4>2. t[1].id = next /\ t[k].id # next
        BY <2>2, <2>4, <2>5, <2>8, <4>1
      <4> QED  BY <2>9, <3>2, <4>2
    <3>3. CASE i # 1 /\ k = 1
      <4>1. i \in 2 .. Len(t)
        BY <1>p, <2>4, <3>3
      <4>2. t[1].id = next /\ t[i].id # next
        BY <2>2, <2>4, <2>5, <2>8, <4>1
      <4> QED  BY <2>9, <3>3, <4>2
    <3>4. CASE i # 1 /\ k # 1
      <4>1. i \in 2 .. Len(t) /\ k \in 2 .. Len(t)
        BY <1>p, <2>4, <3>4
      <4>2. /\ i - 1 \in 1 .. Len(p) /\ k - 1 \in 1 .. Len(p)
            /\ p[i - 1].id = p[k - 1].id
        BY <2>5, <2>9, <4>1
      <4>3. i - 1 = k - 1
        BY <4>2 DEF Walk
      <4> QED  BY <4>1, <4>3
    <3> QED  BY <3>1, <3>2, <3>3, <3>4
  <2>10. /\ j <= Len(es) - n + 1
         /\ \A i \in 1 .. Len(p) : \E q \in j .. Len(es) : p[i] = es[q]
    <3>1. CASE p = << >>
      <4>1. n = 1
        BY <1>3, <3>1 DEF Walk
      <4>2. Len(p) = 0
        BY <3>1, EmptySeq
      <4> QED  BY <1>e, <4>1, <4>2
    <3>2. CASE p # << >>
      <4>1. p[1].parent # NoId
        BY <1>e, <2>2, <3>2 
      <4>0. PICK k \in 2 .. Len(es) : \E h \in 1 .. k - 1 :
              /\ p[1] = es[k] /\ k <= Len(es) - n + 2 /\ next = es[h].id
              /\ \A i \in 1 .. Len(p) : \E q \in k .. Len(es) : p[i] = es[q]
        BY <1>1, <3>2, <4>1
      <4>2. PICK h \in 1 .. k - 1 :
              /\ p[1] = es[k] /\ k <= Len(es) - n + 2 /\ next = es[h].id
              /\ \A i \in 1 .. Len(p) : \E q \in k .. Len(es) : p[i] = es[q]
        BY <4>0
      <4>3. h \in 1 .. Len(es) /\ h = j
        BY <1>e, <1>u, <2>2, <4>2
      <4>4. j < k /\ j <= Len(es) - n + 1
        BY <1>e, <4>2, <4>3
      <4>5. \A q \in k .. Len(es) : q \in j .. Len(es)
        BY <1>e, <4>4
      <4> QED  BY <4>2, <4>4, <4>5
    <3> QED  BY <3>1, <3>2
  <2>11. \A i \in 1 .. Len(t) : \E q \in j .. Len(es) : t[i] = es[q]
    <3> TAKE i \in 1 .. Len(t)
    <3>1. CASE i = 1
      BY <1>e, <2>4, <3>1
    <3>2. CASE i # 1
      <4>1. i \in 2 .. Len(t)
        BY <1>p, <2>4, <3>2
      <4> QED  BY <2>5, <2>10, <4>1
    <3> QED  BY <3>1, <3>2
  <2> QED  BY <2>1, <2>4, <2>6, <2>7, <2>9, <2>10, <2>11, SMTT(60) DEF Walk
<1> QED  BY <1>2, <1>3

\* The walk from any leaf of a rooted tree ends at a root.
LEMMA PathEnds ==
  ASSUME NEW S, \A r \in S : r.id # NoId,
         NEW es \in Seq(S), Rooted(es), NEW lf
  PROVE  LET a == ActivePath(es, lf)
         IN  /\ a \in Seq(S) /\ Walk(es, lf, Len(es), a)
             /\ a # << >> => a[1].parent = NoId
<1> DEFINE up == Climb(es, lf)
           X  == [n \in 0 .. Len(es) |-> {p \in Seq(S) : Walk(es, lf, n, p)}]
           a  == up[Len(es)]
<1>1. Len(es) \in Nat /\ DOMAIN es = 1 .. Len(es) /\ \A i \in 1 .. Len(es) : es[i] \in S
  BY PointsOf
<1>2. up[0] \in X[0]
  <2>1. up[0] = << >>
    BY <1>1, ClimbDef
  <2>2. Walk(es, lf, 0, << >>)
    BY EmptySeq DEF Walk
  <2> HIDE DEF up
  <2> QED  BY <1>1, <2>1, <2>2, EmptySeq
<1>3. ASSUME NEW n \in 1 .. Len(es), up[n - 1] \in X[n - 1] PROVE up[n] \in X[n]
  <2>1. n \in 0 .. Len(es) /\ n - 1 \in 0 .. Len(es) /\ n # 0
    BY <1>1
  <2>2. up[n] = ClimbStep(es, lf, up[n - 1])
    BY <2>1, ClimbDef
  <2> HIDE DEF up
  <2>3. up[n - 1] \in Seq(S) /\ Walk(es, lf, n - 1, up[n - 1])
    BY <1>3, <2>1
  <2>4. ClimbStep(es, lf, up[n - 1]) \in Seq(S)
    BY <2>3, ClimbStepType
  <2>5. Walk(es, lf, n, ClimbStep(es, lf, up[n - 1]))
    BY <2>3, WalkStep
  <2> QED  BY <2>1, <2>2, <2>4, <2>5
<1>4. \A n \in 0 .. Len(es) : up[n] \in X[n]
  <2> HIDE DEF X, up
  <2> QED  BY <1>1, <1>2, <1>3, Induct
<1>5. a \in Seq(S) /\ Walk(es, lf, Len(es), a) /\ a = ActivePath(es, lf)
  <2>1. Len(es) \in 0 .. Len(es)
    BY <1>1
  <2> QED  BY <1>4, <2>1 DEF ActivePath
<1> HIDE DEF a, up
<1>6. Len(a) \in Nat /\ DOMAIN a = 1 .. Len(a)
  BY <1>5, PointsOf
<1>7. ASSUME a # << >> PROVE a[1].parent = NoId
  <2>1. PICK k \in 1 .. Len(es) :
          a[1] = es[k] /\ (k <= Len(es) - Len(es) + 1 \/ a[1].parent = NoId)
    BY <1>5, <1>7 DEF Walk
  <2>2. CASE k = 1
    <3>1. es[1].parent = NoId \/ \E j \in 1 .. 1 - 1 : es[j].id = es[1].parent
      BY <1>1, <2>2 DEF Rooted
    <3> QED  BY <2>1, <2>2, <3>1
  <2> QED  BY <1>1, <2>1, <2>2
<1> QED  BY <1>5, <1>7

\* What the walk collects is a rooted tree itself.
LEMMA PathRooted ==
  ASSUME NEW S, \A r \in S : r.id # NoId,
         NEW es \in Seq(S), Rooted(es), NEW lf
  PROVE  Rooted(ActivePath(es, lf))
<1> DEFINE a == ActivePath(es, lf)
<1>5. a \in Seq(S) /\ Walk(es, lf, Len(es), a)
  BY PathEnds
<1>7. a # << >> => a[1].parent = NoId
  BY PathEnds
<1> HIDE DEF a
<1>6. Len(a) \in Nat /\ DOMAIN a = 1 .. Len(a)
  BY <1>5, PointsOf
<1>8. ASSUME NEW i \in 1 .. Len(a)
      PROVE  a[i].parent = NoId \/ \E j \in 1 .. i - 1 : a[j].id = a[i].parent
  <2>1. CASE i = 1
    <3>1. a # << >>
      BY <1>6, <1>8, EmptySeq
    <3> QED  BY <1>7, <2>1, <3>1
  <2>2. CASE i # 1
    <3>1. i \in 2 .. Len(a) /\ i - 1 \in 1 .. i - 1
      BY <1>6, <2>2
    <3>2. a[i].parent = a[i - 1].id
      BY <1>5, <3>1 DEF Walk
    <3> QED  BY <3>1, <3>2
  <2> QED  BY <2>1, <2>2
<1>9. \A i, j \in 1 .. Len(a) : a[i].id = a[j].id => i = j
  BY <1>5 DEF Walk
<1> QED  BY <1>6, <1>8, <1>9 DEF Rooted, a

\* A record more in the tree leaves the paths of the others as they are.
LEMMA PathStays ==
  ASSUME NEW S, \A r \in S : r.id # NoId,
         NEW es \in Seq(S), NEW e \in S, Rooted(es), Rooted(Append(es, e)),
         NEW lf \in EntryIds(es) \cup {NoId}
  PROVE  ActivePath(Append(es, e), lf) = ActivePath(es, lf)
<1> DEFINE a  == Append(es, e)
           D  == {r \in S : r.parent # e.id}
           L  == Len(es)
           up == Climb(es, lf)
           on == Climb(a, lf)
           X  == [n \in 0 .. L |-> {up[n]}]
           Y  == [n \in 0 .. L |-> Seq(D)]
<1>1. /\ a \in Seq(S) /\ Len(a) = L + 1 /\ DOMAIN a = 1 .. L + 1
      /\ a[L + 1] = e /\ \A i \in 1 .. L : a[i] = es[i]
  BY AppendPoints
<1>2. L \in Nat /\ DOMAIN es = 1 .. L /\ \A i \in 1 .. L : es[i] \in S
  BY PointsOf
<1>3. ASSUME NEW i \in 1 .. L PROVE es[i].id # e.id
  <2>1. i \in DOMAIN a /\ L + 1 \in DOMAIN a /\ a[i] = es[i] /\ i # L + 1
    BY <1>1, <1>2
  <2> QED  BY <1>1, <2>1 DEF Rooted
<1>4. es \in Seq(D)
  <2>1. ASSUME NEW i \in 1 .. L PROVE es[i] \in D
    <3>1. es[i].parent = NoId \/ \E j \in 1 .. i - 1 : es[j].id = es[i].parent
      BY <1>2 DEF Rooted
    <3>2. \A j \in 1 .. i - 1 : j \in 1 .. L
      BY <1>2
    <3> QED  BY <1>2, <1>3, <3>1, <3>2
  <2>2. es \in [1 .. L -> S]
    BY LenProperties
  <2>3. es \in [1 .. L -> D]
    BY <2>1, <2>2
  <2> QED  BY <1>2, <2>3
<1>5. /\ up[0] = << >>
      /\ \A n \in 1 .. L : up[n] = ClimbStep(es, lf, up[n - 1])
  <2>1. up = [n \in 0 .. L |-> IF n = 0 THEN << >> ELSE ClimbStep(es, lf, up[n - 1])]
    BY ClimbDef
  <2> HIDE DEF up
  <2> QED  BY <1>2, <2>1, SMTT(60)
<1>6. /\ on[0] = << >>
      /\ \A n \in 1 .. L + 1 : on[n] = ClimbStep(a, lf, on[n - 1])
  <2>1. on = [n \in 0 .. Len(a) |-> IF n = 0 THEN << >> ELSE ClimbStep(a, lf, on[n - 1])]
    <3>1. a \in Seq(S)
      BY <1>1
    <3> HIDE DEF D, a
    <3> QED  BY <3>1, ClimbDef
  <2> HIDE DEF on, a
  <2>2. on = [n \in 0 .. L + 1 |-> IF n = 0 THEN << >> ELSE ClimbStep(a, lf, on[n - 1])]
    BY <1>1, <2>1
  <2>3. 0 \in 0 .. L + 1 /\ \A n \in 1 .. L + 1 : n \in 0 .. L + 1 /\ n # 0
    BY <1>2
  <2> HIDE DEF L
  <2> QED  BY <2>2, <2>3
<1> HIDE DEF up, on, a
<1>7. EntryIds(a) = EntryIds(es) \cup {e.id} /\ lf # e.id
  <2>1. 1 .. L + 1 = (1 .. L) \cup {L + 1}
    BY <1>2
  <2> QED  BY <1>1, <1>2, <1>3, <2>1 DEF EntryIds
<1>8. ASSUME NEW p \in Seq(D) PROVE ClimbStep(a, lf, p) = ClimbStep(es, lf, p)
  <2> DEFINE next == IF p = << >> THEN lf ELSE p[1].parent
  <2>1. next # e.id
    <3>1. p # << >> => p[1] \in D
      <4>1. p # << >> => 1 \in 1 .. Len(p)
        BY <1>8, EmptySeq, PointsOf
      <4> HIDE DEF D
      <4> QED  BY <1>8, <4>1, PointsOf
    <3> QED  BY <1>7, <3>1
  <2> HIDE DEF next
  <2>2. ASSUME next \in EntryIds(es) PROVE Lookup(a, next) = Lookup(es, next)
    <3>1. PICK j \in 1 .. L : es[j].id = next
      BY <1>2, <2>2 DEF EntryIds
    <3>2. Lookup(es, next) = es[j]
      BY <3>1, LookupUnique
    <3>3. j \in 1 .. Len(a) /\ a[j] = es[j] /\ Rooted(a)
      BY <1>1, <1>2, <3>1 DEF a
    <3>4. Lookup(a, next) = es[j]
      BY <1>1, <3>1, <3>3, LookupUnique
    <3> QED  BY <3>2, <3>4
  <2>3. next \in EntryIds(a) \ EntryIds(p) <=> next \in EntryIds(es) \ EntryIds(p)
    BY <1>7, <2>1
  <2> QED  BY <2>2, <2>3 DEF ClimbStep, next
<1>9. \A n \in 0 .. L : up[n] \in Y[n]
  <2>1. up[0] \in Y[0]
    BY <1>2, <1>5, EmptySeq
  <2>2. ASSUME NEW n \in 1 .. L, up[n - 1] \in Y[n - 1] PROVE up[n] \in Y[n]
    <3>1. n \in 0 .. L /\ n - 1 \in 0 .. L
      BY <1>2
    <3> HIDE DEF D
    <3> QED  BY <1>4, <1>5, <2>2, <3>1, ClimbStepType
  <2> HIDE DEF Y
  <2> QED  BY <1>2, <2>1, <2>2, Induct
<1>10. \A n \in 0 .. L : on[n] \in X[n]
  <2>1. on[0] \in X[0]
    BY <1>2, <1>5, <1>6
  <2>2. ASSUME NEW n \in 1 .. L, on[n - 1] \in X[n - 1] PROVE on[n] \in X[n]
    <3>1. n \in 0 .. L /\ n - 1 \in 0 .. L /\ n \in 1 .. L + 1
      BY <1>2
    <3>2. on[n - 1] = up[n - 1] /\ up[n - 1] \in Seq(D)
      BY <1>9, <2>2, <3>1
    <3>3. ClimbStep(a, lf, up[n - 1]) = ClimbStep(es, lf, up[n - 1])
      BY <1>8, <3>2
    <3> QED  BY <1>5, <1>6, <3>1, <3>2, <3>3
  <2> HIDE DEF X
  <2> QED  BY <1>2, <2>1, <2>2, Induct
<1>11. on[L] = up[L] /\ up[L] \in Seq(D) /\ up[L] = ActivePath(es, lf)
  <2>1. L \in 0 .. L
    BY <1>2
  <2> QED  BY <1>9, <1>10, <2>1 DEF ActivePath, up
<1>12. ClimbStep(es, lf, up[L]) = up[L]
  <2>1. Walk(es, lf, L, up[L]) /\ (up[L] # << >> => up[L][1].parent = NoId)
    BY <1>11, PathEnds
  <2>2. NoId \notin EntryIds(es)
    BY <1>2 DEF EntryIds
  <2>3. L = 0 => EntryIds(es) = {}
    BY <1>2 DEF EntryIds
  <2>4. (IF up[L] = << >> THEN lf ELSE up[L][1].parent) \notin EntryIds(es)
    BY <1>2, <2>1, <2>2, <2>3 DEF Walk
  <2> QED  BY <2>4 DEF ClimbStep
<1>13. on[L + 1] = ClimbStep(a, lf, on[L])
  <2>1. L + 1 \in 1 .. L + 1 /\ (L + 1) - 1 = L
    BY <1>2
  <2> QED  BY <1>6, <2>1
<1>14. on[L + 1] = up[L]
  BY <1>8, <1>11, <1>12, <1>13
<1> QED  BY <1>1, <1>11, <1>14 DEF ActivePath, on, a

\* A record more at the end of the tree, and at the end of the path above it.
LEMMA ClimbUnder ==
  ASSUME NEW S, \A r \in S : r.id # NoId,
         NEW es \in Seq(S), NEW e \in S,
         Rooted(es), Rooted(Append(es, e)), e.parent # e.id,
         NEW p \in Seq({r \in S : r.id # e.id})
  PROVE  ClimbStep(Append(es, e), e.id, Append(p, e)) =
           Append(ClimbStep(es, e.parent, p), e)
<1> DEFINE a    == Append(es, e)
           q    == Append(p, e)
           next == IF p = << >> THEN e.parent ELSE p[1].parent
           L    == Len(es)
<1>1. /\ a \in Seq(S) /\ Len(a) = L + 1 /\ DOMAIN a = 1 .. L + 1
      /\ a[L + 1] = e /\ \A i \in 1 .. L : a[i] = es[i]
  BY AppendPoints
<1>2. L \in Nat /\ DOMAIN es = 1 .. L /\ \A i \in 1 .. L : es[i] \in S
  BY PointsOf
<1>3. p \in Seq(S)
  BY SeqMonotonic
<1>4. /\ Len(p) \in Nat /\ DOMAIN p = 1 .. Len(p)
      /\ \A i \in 1 .. Len(p) : p[i] \in S /\ p[i].id # e.id
  BY PointsOf
<1>5. /\ q \in Seq(S) /\ Len(q) = Len(p) + 1 /\ DOMAIN q = 1 .. Len(p) + 1
      /\ q[Len(p) + 1] = e /\ \A i \in 1 .. Len(p) : q[i] = p[i]
  BY <1>3, AppendPoints
<1> HIDE DEF a, q
<1>6. q # << >>
  BY <1>4, <1>5, EmptySeq
<1>7. q[1].parent = next
  <2>1. CASE p = << >>
    <3>1. Len(p) + 1 = 1
      BY <2>1, EmptySeq
    <3> QED  BY <1>5, <2>1, <3>1
  <2>2. CASE p # << >>
    <3>1. 1 \in 1 .. Len(p)
      BY <1>3, <2>2, EmptySeq
    <3> QED  BY <1>5, <2>2, <3>1
  <2> QED  BY <2>1, <2>2
<1> HIDE DEF next
<1>8. EntryIds(a) = EntryIds(es) \cup {e.id}
  <2>1. 1 .. L + 1 = (1 .. L) \cup {L + 1}
    BY <1>2
  <2> QED  BY <1>1, <1>2, <2>1, SMTT(60) DEF EntryIds
<1>9. EntryIds(q) = EntryIds(p) \cup {e.id}
  <2>1. 1 .. Len(p) + 1 = (1 .. Len(p)) \cup {Len(p) + 1}
    BY <1>4
  <2> QED  BY <1>4, <1>5, <2>1, SMTT(60) DEF EntryIds
<1>10. e.id \notin EntryIds(es)
  <2> SUFFICES ASSUME NEW i \in 1 .. L, es[i].id = e.id PROVE FALSE
    BY <1>2 DEF EntryIds
  <2>1. i \in DOMAIN a /\ L + 1 \in DOMAIN a /\ a[i].id = a[L + 1].id
    BY <1>1, <1>2
  <2>2. i = L + 1
    BY <2>1 DEF Rooted, a
  <2> QED  BY <1>2, <2>2
<1>11. next \in EntryIds(a) \ EntryIds(q) <=> next \in EntryIds(es) \ EntryIds(p)
  BY <1>8, <1>9, <1>10
<1>12. ClimbStep(a, e.id, q) = IF next \in EntryIds(a) \ EntryIds(q)
                               THEN <<Lookup(a, next)>> \o q ELSE q
  BY <1>6, <1>7 DEF ClimbStep
<1>13. ClimbStep(es, e.parent, p) = IF next \in EntryIds(es) \ EntryIds(p)
                                    THEN <<Lookup(es, next)>> \o p ELSE p
  BY DEF ClimbStep, next
<1>14. CASE next \in EntryIds(es) \ EntryIds(p)
  <2>1. PICK j \in 1 .. L : es[j].id = next
    BY <1>2, <1>14 DEF EntryIds
  <2>2. Lookup(es, next) = es[j]
    BY <2>1, LookupUnique
  <2>3. j \in 1 .. Len(a) /\ a[j] = es[j]
    BY <1>1, <1>2, <2>1
  <2>4. Lookup(a, next) = es[j]
    <3>1. Rooted(a)
      BY DEF a
    <3> QED  BY <1>1, <2>1, <2>3, <3>1, LookupUnique
  <2> DEFINE one == <<es[j]>>
  <2>5. one \in Seq(S)
    BY <1>2, <2>1
  <2>6. one \o q = Append(one \o p, e)
    <3> HIDE DEF one
    <3> QED  BY <1>3, <2>5, PrependAppend, SMTT(60) DEF q
  <2> QED  BY <1>11, <1>12, <1>13, <1>14, <2>2, <2>4, <2>6 DEF a, q
<1>15. CASE next \notin EntryIds(es) \ EntryIds(p)
  BY <1>11, <1>12, <1>13, <1>15 DEF a, q
<1> QED  BY <1>14, <1>15

LEMMA PathGrows ==
  ASSUME NEW S, \A r \in S : r.id # NoId,
         NEW es \in Seq(S), NEW e \in S,
         Rooted(es), Rooted(Append(es, e)), e.parent # e.id
  PROVE  ActivePath(Append(es, e), e.id) = Append(ActivePath(es, e.parent), e)
<1> DEFINE a  == Append(es, e)
           D  == {r \in S : r.id # e.id}
           L  == Len(es)
           up == Climb(es, e.parent)
           on == Climb(a, e.id)
           f  == [n \in 0 .. L |-> on[n + 1]]
           X  == [n \in 0 .. L |-> {Append(up[n], e)}]
           Y  == [n \in 0 .. L |-> Seq(D)]
<1>1. /\ a \in Seq(S) /\ Len(a) = L + 1 /\ DOMAIN a = 1 .. L + 1
      /\ a[L + 1] = e /\ \A i \in 1 .. L : a[i] = es[i]
  BY AppendPoints
<1>2. L \in Nat /\ DOMAIN es = 1 .. L /\ \A i \in 1 .. L : es[i] \in S
  BY PointsOf
<1>3. es \in Seq(D)
  <2>1. ASSUME NEW i \in 1 .. L PROVE es[i] \in D
    <3>1. i \in DOMAIN a /\ L + 1 \in DOMAIN a /\ a[i] = es[i] /\ i # L + 1
      BY <1>1, <1>2
    <3>2. a[i].id # a[L + 1].id
      BY <3>1 DEF Rooted
    <3> QED  BY <1>1, <1>2, <3>1, <3>2
  <2>2. es \in [1 .. L -> S]
    BY LenProperties
  <2>3. es \in [1 .. L -> D]
    BY <2>1, <2>2
  <2> QED  BY <1>2, <2>3
<1>4. /\ up[0] = << >>
      /\ \A n \in 1 .. L : up[n] = ClimbStep(es, e.parent, up[n - 1])
  <2>1. up = [n \in 0 .. L |-> IF n = 0 THEN << >> ELSE ClimbStep(es, e.parent, up[n - 1])]
    BY ClimbDef
  <2> HIDE DEF up
  <2> QED  BY <1>2, <2>1, SMTT(60)
<1>5. /\ on[0] = << >>
      /\ \A n \in 1 .. L + 1 : on[n] = ClimbStep(a, e.id, on[n - 1])
  <2> HIDE DEF a
  <2>0. on = [n \in 0 .. Len(a) |-> IF n = 0 THEN << >> ELSE ClimbStep(a, e.id, on[n - 1])]
    <3>1. a \in Seq(S)
      BY <1>1
    <3> HIDE DEF D
    <3> QED  BY <3>1, ClimbDef, SMTT(60)
  <2> HIDE DEF on
  <2>1. on = [n \in 0 .. L + 1 |-> IF n = 0 THEN << >> ELSE ClimbStep(a, e.id, on[n - 1])]
    BY <1>1, <2>0
  <2> QED  BY <1>2, <2>1, SMTT(60)
<1> HIDE DEF up, on, a
<1>6. \A n \in 0 .. L : up[n] \in Y[n]
  <2>1. up[0] \in Y[0]
    BY <1>2, <1>4, EmptySeq
  <2>2. ASSUME NEW n \in 1 .. L, up[n - 1] \in Y[n - 1] PROVE up[n] \in Y[n]
    <3>1. n \in 0 .. L /\ n - 1 \in 0 .. L
      BY <1>2
    <3> HIDE DEF D
    <3> QED  BY <1>3, <1>4, <2>2, <3>1, ClimbStepType
  <2> HIDE DEF Y
  <2> QED  BY <1>2, <2>1, <2>2, Induct
<1>7. f[0] \in X[0]
  <2>1. on[1] = ClimbStep(a, e.id, << >>)
    <3>1. 1 \in 1 .. L + 1 /\ 1 - 1 = 0
      BY <1>2
    <3> QED  BY <1>5, <3>1
  <2>2. EntryIds(<< >>) = {} /\ e.id \in EntryIds(a)
    <3>1. L + 1 \in DOMAIN a
      BY <1>1, <1>2
    <3> QED  BY <1>1, <3>1, SMTT(60) DEF EntryIds
  <2>3. Lookup(a, e.id) = e
    <3>1. L + 1 \in 1 .. Len(a) /\ Rooted(a)
      BY <1>1, <1>2 DEF a
    <3> QED  BY <1>1, <3>1, LookupUnique
  <2>4. on[1] = <<e>> \o << >>
    BY <2>1, <2>2, <2>3 DEF ClimbStep
  <2>5. <<e>> \o << >> = Append(<< >>, e)
    OBVIOUS
  <2>6. f[0] = on[1] /\ X[0] = {Append(up[0], e)}
    <3>1. 0 \in 0 .. L /\ 0 + 1 = 1
      BY <1>2
    <3> QED  BY <3>1
  <2> HIDE DEF f, X
  <2> QED  BY <1>4, <2>4, <2>5, <2>6
<1>8. ASSUME NEW n \in 1 .. L, f[n - 1] \in X[n - 1] PROVE f[n] \in X[n]
  <2>1. n \in 0 .. L /\ n - 1 \in 0 .. L /\ (n - 1) + 1 = n
        /\ n + 1 \in 1 .. L + 1 /\ (n + 1) - 1 = n
    BY <1>2
  <2>2. on[n] = Append(up[n - 1], e)
    BY <1>8, <2>1
  <2>3. on[n + 1] = ClimbStep(a, e.id, on[n])
    BY <1>5, <2>1
  <2>4. up[n] = ClimbStep(es, e.parent, up[n - 1])
    BY <1>4
  <2>5. up[n - 1] \in Seq(D)
    BY <1>6, <2>1
  <2>6. ClimbStep(a, e.id, Append(up[n - 1], e)) = Append(ClimbStep(es, e.parent, up[n - 1]), e)
    BY <2>5, ClimbUnder DEF a
  <2> QED  BY <2>1, <2>2, <2>3, <2>4, <2>6
<1>9. \A n \in 0 .. L : f[n] \in X[n]
  <2> HIDE DEF f, X
  <2> QED  BY <1>2, <1>7, <1>8, Induct
<1>10. on[L + 1] = Append(up[L], e)
  <2>1. L \in 0 .. L
    BY <1>2
  <2> QED  BY <1>9, <2>1
<1> QED  BY <1>1, <1>10 DEF ActivePath, up, on, a

\* The same for what the projection selects of the path, unless the record is a
\* compaction itself.
LEMMA SelectedGrows ==
  ASSUME NEW S, NEW p \in Seq(S), NEW e \in S, e.kind # "compaction"
  PROVE  Selected(Append(p, e)) = Append(Selected(p), e)
<1> DEFINE q == Append(p, e)
           L == Len(p)
<1>1. L \in Nat /\ DOMAIN p = 1 .. L /\ \A i \in 1 .. L : p[i] \in S
  BY PointsOf
<1>2. /\ q \in Seq(S) /\ Len(q) = L + 1 /\ DOMAIN q = 1 .. L + 1
      /\ q[L + 1] = e /\ \A i \in 1 .. L : q[i] = p[i]
  BY AppendPoints
<1> HIDE DEF q
<1>3. Compactions(q) = Compactions(p)
  <2>1. 1 .. L + 1 = (1 .. L) \cup {L + 1} /\ L + 1 \notin 1 .. L
    BY <1>1
  <2> QED  BY <1>1, <1>2, <2>1 DEF Compactions
<1>4. CASE Compactions(p) = {}
  BY <1>3, <1>4 DEF Selected, q
<1>5. CASE Compactions(p) # {}
  <2> DEFINE c == LastCompaction(p)
  <2>1. c \in 1 .. L /\ LastCompaction(q) = c
    BY <1>3, <1>5, LastCompactionType DEF LastCompaction
  <2> HIDE DEF c
  <2> DEFINE starts == {i \in 1 .. c - 1 : p[i].id = p[c].ref}
             first  == CHOOSE i \in starts : \A j \in starts : i <= j
             head   == <<p[c]>>
             kept   == Kept(p, c)
             rest   == SubSeq(p, c + 1, L)
  <2>2. q[c] = p[c] /\ {i \in 1 .. c - 1 : q[i].id = q[c].ref} = starts
    <3>1. \A i \in 1 .. c - 1 : i \in 1 .. L
      BY <1>1, <2>1
    <3> QED  BY <1>2, <2>1, <3>1
  <2>3. Kept(q, c) = kept
    <3>1. CASE starts = {}
      BY <2>2, <3>1 DEF Kept
    <3>2. CASE starts # {}
      <4>1. \E i \in starts : \A j \in starts : i <= j
        <5>1. starts \subseteq Nat
          BY <1>1, <2>1
        <5> HIDE DEF starts
        <5> QED  BY <3>2, <5>1, LeastNatural
      <4>2. first \in starts
        BY <4>1
      <4>3. first \in 1 .. c - 1
        BY <4>2
      <4> HIDE DEF first
      <4>4. \A i \in first .. c - 1 : i \in 1 .. L
        BY <1>1, <2>1, <4>3
      <4> DEFINE s == SubSeq(p, first, c - 1)
                 t == SubSeq(q, first, c - 1)
                 N == c - 1 - first + 1
      <4>5. first \in Int /\ c - 1 \in Int /\ N \in Nat /\ first <= c - 1
        BY <1>1, <2>1, <4>3
      <4>6. s \in Seq(S) /\ Len(s) = N /\ \A i \in 1 .. N : s[i] = p[first + i - 1]
        BY <1>1, <4>4, <4>5, SubSeqProperties
      <4>7. t \in Seq(S) /\ Len(t) = N /\ \A i \in 1 .. N : t[i] = q[first + i - 1]
        BY <1>1, <1>2, <4>4, <4>5, SubSeqProperties
      <4> HIDE DEF s, t
      <4>8. \A i \in 1 .. N : first + i - 1 \in first .. c - 1
        BY <1>1, <2>1, <4>3
      <4>9. \A i \in 1 .. N : s[i] = t[i]
        BY <1>2, <4>4, <4>6, <4>7, <4>8
      <4> HIDE DEF N
      <4>10. s = t
        BY <4>6, <4>7, <4>9, SeqEqual
      <4>11. Kept(q, c) = WithoutSystem(t)
        BY <2>2, <3>2 DEF Kept, first, t
      <4>12. kept = WithoutSystem(s)
        BY <3>2 DEF Kept, first, s
      <4> QED  BY <4>10, <4>11, <4>12
    <3> QED  BY <3>1, <3>2
  <2>4. rest \in Seq(S) /\ SubSeq(q, c + 1, L + 1) = Append(rest, e)
    <3> DEFINE N == L - c
               t == SubSeq(q, c + 1, L + 1)
    <3>1. c \in Int /\ c + 1 \in Int /\ L \in Int /\ L + 1 \in Int /\ N \in Nat
          /\ c + 1 <= L + 1
      BY <1>1, <2>1
    <3>2. /\ rest \in Seq(S) /\ Len(rest) = N
          /\ \A i \in 1 .. N : rest[i] = p[c + i]
      <4>1. \A i \in c + 1 .. L : p[i] \in S
        BY <1>1, <2>1
      <4>2. /\ rest \in Seq(S)
            /\ Len(rest) = IF c + 1 <= L THEN L - (c + 1) + 1 ELSE 0
            /\ \A i \in 1 .. L - (c + 1) + 1 : rest[i] = p[c + 1 + i - 1]
        BY <3>1, <4>1, SubSeqProperties, SMTT(60)
      <4>3. /\ L - (c + 1) + 1 = N /\ \A i \in 1 .. N : c + 1 + i - 1 = c + i
        BY <1>1, <2>1
      <4>4. ASSUME ~(c + 1 <= L) PROVE N = 0
        <5>0. L \in Int /\ c \in Int /\ c <= L
          BY <1>1, <2>1
        <5> HIDE DEF L
        <5>1. c = L
          BY <4>4, <5>0
        <5> QED  BY <1>1, <5>1
      <4> HIDE DEF rest, N
      <4> QED  BY <4>2, <4>3, <4>4
    <3>3. /\ t \in Seq(S) /\ Len(t) = N + 1
          /\ \A i \in 1 .. N + 1 : t[i] = q[c + i]
      <4>1. \A i \in c + 1 .. L + 1 : q[i] \in S
        BY <1>1, <1>2, <2>1, PointsOf
      <4>2. /\ t \in Seq(S)
            /\ Len(t) = IF c + 1 <= L + 1 THEN L + 1 - (c + 1) + 1 ELSE 0
            /\ \A i \in 1 .. L + 1 - (c + 1) + 1 : t[i] = q[c + 1 + i - 1]
        BY <3>1, <4>1, SubSeqProperties
      <4> HIDE DEF t
      <4> QED  BY <1>1, <2>1, <4>2
    <3> HIDE DEF rest, t
    <3> DEFINE u == Append(rest, e)
    <3>4. /\ u \in Seq(S) /\ Len(u) = N + 1
          /\ u[N + 1] = e /\ \A i \in 1 .. N : u[i] = rest[i]
      BY <3>2, AppendPoints
    <3> HIDE DEF u
    <3>5. ASSUME NEW i \in 1 .. N + 1 PROVE t[i] = u[i]
      <4>1. CASE i = N + 1
        <5>1. c + (N + 1) = L + 1
          BY <1>1, <2>1
        <5> QED  BY <1>2, <3>3, <3>4, <4>1, <5>1
      <4>2. CASE i # N + 1
        <5>1. i \in 1 .. N /\ c + i \in 1 .. L
          BY <1>1, <2>1, <4>2
        <5> QED  BY <1>2, <3>2, <3>3, <3>4, <5>1
      <4> QED  BY <4>1, <4>2
    <3>6. t = u
      BY <3>3, <3>4, <3>5, SeqEqual
    <3> QED  BY <3>2, <3>6 DEF t, u
  <2>5. Selected(p) = (head \o kept) \o rest
    BY <1>5 DEF Selected, c
  <2>6. Selected(q) = (head \o kept) \o Append(rest, e)
    <3>1. Compactions(q) # {} /\ LastCompaction(q) = c /\ Len(q) = L + 1
      BY <1>2, <1>3, <1>5, <2>1
    <3> QED  BY <2>2, <2>3, <2>4, <3>1 DEF Selected
  <2>7. head \o kept \in Seq(S)
    <3>1. p[c] \in S
      BY <1>1, <2>1
    <3>2. head \in Seq(S)
      BY <3>1
    <3>3. kept \in Seq(S)
      BY <2>1, KeptType
    <3> HIDE DEF head, kept
    <3> QED  BY <3>2, <3>3, ConcatProperties
  <2> DEFINE front == head \o kept
  <2>8. front \in Seq(S) /\ rest \in Seq(S)
    BY <2>4, <2>7
  <2> HIDE DEF front, rest
  <2>9. front \o Append(rest, e) = Append(front \o rest, e)
    BY <2>8, PrependAppend
  <2> QED  BY <2>5, <2>6, <2>9 DEF front, rest, q
<1> QED  BY <1>4, <1>5

LEMMA NothingThere ==
  ASSUME NEW S, NEW es \in Seq(S), NEW lf, lf \notin EntryIds(es)
  PROVE  ActivePath(es, lf) = << >>
<1> DEFINE up == Climb(es, lf)
           X  == [n \in 0 .. Len(es) |-> {<< >>}]
<1>1. Len(es) \in Nat
  BY LenProperties
<1>2. up[0] \in X[0]
  BY <1>1, ClimbDef
<1>3. ASSUME NEW n \in 1 .. Len(es), up[n - 1] \in X[n - 1] PROVE up[n] \in X[n]
  <2>1. n \in 0 .. Len(es) /\ n - 1 \in 0 .. Len(es) /\ n # 0
    BY <1>1
  <2>2. up[n] = ClimbStep(es, lf, up[n - 1])
    BY <2>1, ClimbDef
  <2> HIDE DEF up
  <2>3. up[n - 1] = << >>
    BY <1>3, <2>1
  <2>4. ClimbStep(es, lf, << >>) = << >>
    BY DEF ClimbStep
  <2> QED  BY <2>1, <2>2, <2>3, <2>4
<1>4. \A n \in 0 .. Len(es) : up[n] \in X[n]
  <2> HIDE DEF X, up
  <2> QED  BY <1>1, <1>2, <1>3, Induct
<1>5. Len(es) \in 0 .. Len(es)
  BY <1>1
<1> HIDE DEF up
<1>6. up[Len(es)] = << >>
  BY <1>4, <1>5
<1> QED  BY <1>6 DEF ActivePath, up

\* A path whose ids grow.
Ascends(p) == \A i, j \in 1 .. Len(p) : i < j => p[i].id < p[j].id

\* The part of a sequence between two places.
LEMMA SubSeqPoints ==
  ASSUME NEW S, NEW s \in Seq(S), NEW m \in Nat \ {0}, NEW n \in 0 .. Len(s), m <= n + 1
  PROVE  LET t == SubSeq(s, m, n)
         IN  /\ t \in Seq(S) /\ Len(t) = n + 1 - m
             /\ \A k \in 1 .. n + 1 - m : m + k - 1 \in m .. n /\ t[k] = s[m + k - 1]
<1> DEFINE t == SubSeq(s, m, n)
<1>1. Len(s) \in Nat /\ m \in Int /\ n \in Int /\ \A i \in 1 .. Len(s) : s[i] \in S
  BY PointsOf
<1>2. \A i \in m .. n : s[i] \in S
  BY <1>1
<1>3. /\ t \in Seq(S)
      /\ Len(t) = IF m <= n THEN n - m + 1 ELSE 0
      /\ \A i \in 1 .. n - m + 1 : t[i] = s[m + i - 1]
  BY <1>1, <1>2, SubSeqProperties
<1> HIDE DEF t
<1>4. Len(t) = n + 1 - m
  BY <1>1, <1>3
<1>5. \A k \in 1 .. n + 1 - m : m + k - 1 \in m .. n /\ t[k] = s[m + k - 1]
  BY <1>1, <1>3
<1> QED  BY <1>3, <1>4, <1>5 DEF t

LEMMA ConcatPoints ==
  ASSUME NEW S, NEW s \in Seq(S), NEW t \in Seq(S)
  PROVE  LET u == s \o t
         IN  /\ u \in Seq(S) /\ Len(u) = Len(s) + Len(t)
             /\ \A i \in 1 .. Len(s) : u[i] = s[i]
             /\ \A i \in 1 .. Len(t) : u[Len(s) + i] = t[i]
<1> DEFINE u == s \o t
<1>1. Len(s) \in Nat /\ Len(t) \in Nat
  BY LenProperties
<1>2. /\ u \in Seq(S) /\ Len(u) = Len(s) + Len(t)
      /\ \A i \in 1 .. Len(s) + Len(t) : u[i] = IF i <= Len(s) THEN s[i] ELSE t[i - Len(s)]
  BY ConcatProperties
<1> HIDE DEF u
<1>3. ASSUME NEW i \in 1 .. Len(s) PROVE u[i] = s[i]
  BY <1>1, <1>2, SMTT(60)
<1>4. ASSUME NEW i \in 1 .. Len(t) PROVE u[Len(s) + i] = t[i]
  <2>1. Len(s) + i \in 1 .. Len(s) + Len(t) /\ ~(Len(s) + i <= Len(s)) /\ (Len(s) + i) - Len(s) = i
    BY <1>1
  <2> QED  BY <1>2, <2>1
<1> QED  BY <1>2, <1>3, <1>4 DEF u

\* k is what is not a system message from place f up to place c of a path.
IsKept(p, c, f, k) ==
  /\ \A i \in 1 .. Len(k) : \E m \in f .. c - 1 : p[m].kind # "system" /\ k[i] = p[m]
  /\ \A m \in f .. c - 1 : p[m].kind # "system" => \E i \in 1 .. Len(k) : k[i] = p[m]
  /\ \A i, j \in 1 .. Len(k) : i < j =>
       \E m, n \in f .. c - 1 : m < n /\ k[i] = p[m] /\ k[j] = p[n]

LEMMA KeptPoints ==
  ASSUME NEW S, NEW p \in Seq(S), \A r \in S : r.id \in Nat, Ascends(p),
         NEW c \in 1 .. Len(p), NEW f \in 1 .. c - 1, p[f].id = p[c].ref
  PROVE  Kept(p, c) \in Seq(S) /\ IsKept(p, c, f, Kept(p, c))
<1> DEFINE starts == {i \in 1 .. c - 1 : p[i].id = p[c].ref}
           k == Kept(p, c)
           M == SubSeq(p, f, c - 1)
           T == {e \in ToSet(M) : e.kind # "system"}
           N == c - f
<1>1. Len(p) \in Nat /\ c \in Nat /\ f \in Nat \ {0} /\ f < c /\ c <= Len(p)
      /\ \A i \in 1 .. Len(p) : p[i] \in S /\ p[i].id \in Nat
  BY PointsOf
<1>2. ASSUME NEW i \in 1 .. c - 1, p[i].id = p[f].id PROVE i = f
  <2>1. i \in 1 .. Len(p) /\ f \in 1 .. Len(p) /\ i \in Nat
    BY <1>1
  <2>2. ~(i < f) /\ ~(f < i)
    BY <1>1, <1>2, <2>1, SMTT(60) DEF Ascends
  <2> QED  BY <1>1, <2>1, <2>2
<1>3. starts = {f}
  BY <1>2
<1>4. (CHOOSE i \in starts : \A j \in starts : i <= j) = f
  BY <1>1, <1>3
<1>5. k = WithoutSystem(M)
  BY <1>3, <1>4 DEF Kept
<1>6. /\ M \in Seq(S) /\ Len(M) = N /\ N \in Nat
      /\ \A i \in 1 .. N : f + i - 1 \in f .. c - 1 /\ M[i] = p[f + i - 1]
  <2>1. c - 1 \in 0 .. Len(p) /\ f <= (c - 1) + 1 /\ (c - 1) + 1 - f = N /\ N \in Nat
    BY <1>1
  <2> HIDE DEF N
  <2> QED  BY <1>1, <2>1, SubSeqPoints
<1>7. \A m \in f .. c - 1 : m - f + 1 \in 1 .. N /\ M[m - f + 1] = p[m]
  <2> TAKE m \in f .. c - 1
  <2>1. m - f + 1 \in 1 .. N /\ f + (m - f + 1) - 1 = m
    BY <1>1
  <2> HIDE DEF N, M
  <2> QED  BY <1>6, <2>1
<1> HIDE DEF M, k
<1>8. ToSet(M) = {M[i] : i \in 1 .. N}
  BY <1>6, PointsOf DEF ToSet
<1>9. k \in Seq(S) /\ Thin(M, N, T, k)
  <2> HIDE DEF T
  <2> QED  BY <1>5, <1>6, OnlyIs DEF WithoutSystem, T
<1>10. \A i \in 1 .. N : M[i] \in T <=> p[f + i - 1].kind # "system"
  BY <1>6, <1>8
<1> HIDE DEF T, N, k
<1>11. ASSUME NEW i \in 1 .. Len(k)
       PROVE  \E m \in f .. c - 1 : p[m].kind # "system" /\ k[i] = p[m]
  <2>1. PICK l \in 1 .. N : k[i] = M[l] /\ M[l] \in T
    BY <1>9 DEF Thin
  <2> QED  BY <1>6, <1>10, <2>1
<1>12. ASSUME NEW m \in f .. c - 1, p[m].kind # "system" PROVE \E i \in 1 .. Len(k) : k[i] = p[m]
  <2>1. m - f + 1 \in 1 .. N /\ f + (m - f + 1) - 1 = m /\ M[m - f + 1] = p[m]
    BY <1>1, <1>7
  <2>2. M[m - f + 1] \in T
    BY <1>10, <1>12, <2>1
  <2> QED  BY <1>9, <2>1, <2>2, SMTT(60) DEF Thin
<1>13. ASSUME NEW i \in 1 .. Len(k), NEW j \in 1 .. Len(k), i < j
       PROVE  \E m, n \in f .. c - 1 : m < n /\ k[i] = p[m] /\ k[j] = p[n]
  <2>1. PICK a \in 1 .. N : \E b \in 1 .. N : a < b /\ k[i] = M[a] /\ k[j] = M[b]
    BY <1>9, <1>13 DEF Thin
  <2>2. PICK b \in 1 .. N : a < b /\ k[i] = M[a] /\ k[j] = M[b]
    BY <2>1
  <2>3. f + a - 1 < f + b - 1
    BY <1>1, <1>6, <2>2
  <2> QED  BY <1>6, <2>2, <2>3, SMTT(60)
<1> QED  BY <1>9, <1>11, <1>12, <1>13 DEF IsKept, k

\* A sequence whose ids grow, but for the one with id h, which comes first.
Ordered(s, h) ==
  \A i, j \in 1 .. Len(s) : i < j => s[j].id # h /\ (s[i].id = h \/ s[i].id < s[j].id)

\* What a compaction leaves: itself, first, then what it keeps, then what
\* comes after it.
LEMMA HeadedIs ==
  ASSUME NEW S, NEW p \in Seq(S), \A r \in S : r.id \in Nat, Ascends(p),
         NEW c \in 1 .. Len(p), NEW f \in 1 .. c - 1, p[f].id = p[c].ref
  PROVE  LET z == <<p[c]>> \o Kept(p, c) \o SubSeq(p, c + 1, Len(p))
         IN  /\ z \in Seq(S) /\ Len(z) > 0 /\ z[1] = p[c] /\ Ordered(z, p[c].id)
             /\ \A e : e \in ToSet(z) <=>
                  /\ e \in ToSet(p)
                  /\ p[c].id <= e.id \/ (p[c].ref <= e.id /\ e.kind # "system")
<1> DEFINE L == Len(p)
           K == Kept(p, c)
           A == <<p[c]>> \o K
           R == SubSeq(p, c + 1, L)
           s == A \o R
<1>0. c \in 1 .. L
  OBVIOUS
<1>1. /\ L \in Nat /\ c \in Nat /\ f \in Nat \ {0} /\ f < c /\ c <= L
      /\ \A i \in 1 .. L : p[i] \in S /\ p[i].id \in Nat
  BY <1>0, PointsOf
<1>L. L = Len(p)
  OBVIOUS
<1>K. /\ K \in Seq(S) /\ Len(K) \in Nat
      /\ \A i \in 1 .. Len(K) : \E m \in f .. c - 1 : p[m].kind # "system" /\ K[i] = p[m]
      /\ \A m \in f .. c - 1 : p[m].kind # "system" => \E i \in 1 .. Len(K) : K[i] = p[m]
      /\ \A i, j \in 1 .. Len(K) : i < j =>
           \E m, n \in f .. c - 1 : m < n /\ K[i] = p[m] /\ K[j] = p[n]
  <2>1. K \in Seq(S) /\ IsKept(p, c, f, K)
    BY KeptPoints
  <2> HIDE DEF K
  <2> QED  BY <2>1, PointsOf DEF IsKept
<1>t. ToSet(p) = {p[i] : i \in 1 .. L}
  BY PointsOf DEF ToSet
<1> HIDE DEF K, L
<1>A. /\ A \in Seq(S) /\ Len(A) = Len(K) + 1 /\ A[1] = p[c]
      /\ \A i \in 1 .. Len(K) : A[i + 1] = K[i]
  BY <1>1, <1>K, PrependPoints
<1>R. /\ R \in Seq(S) /\ Len(R) = L - c
      /\ \A i \in 1 .. L - c : R[i] = p[c + i]
  <2>1. c + 1 \in Nat \ {0} /\ L \in 0 .. L /\ c + 1 <= L + 1 /\ L + 1 - (c + 1) = L - c
        /\ \A i \in 1 .. L - c : (c + 1) + i - 1 = c + i
    BY <1>1
  <2>2. /\ R \in Seq(S) /\ Len(R) = L + 1 - (c + 1)
        /\ \A i \in 1 .. L + 1 - (c + 1) : R[i] = p[(c + 1) + i - 1]
    BY <1>L, <2>1, SubSeqPoints
  <2> HIDE DEF R
  <2> QED  BY <2>1, <2>2
<1> HIDE DEF A, R
<1>2. /\ s \in Seq(S) /\ Len(s) = Len(A) + (L - c)
      /\ \A i \in 1 .. Len(A) : s[i] = A[i]
      /\ \A i \in 1 .. L - c : s[Len(A) + i] = p[c + i]
  <2>1. /\ s \in Seq(S) /\ Len(s) = Len(A) + Len(R)
        /\ \A i \in 1 .. Len(A) : s[i] = A[i]
        /\ \A i \in 1 .. Len(R) : s[Len(A) + i] = R[i]
    <3>1. A \in Seq(S) /\ R \in Seq(S)
      BY <1>A, <1>R
    <3> QED  BY <3>1, ConcatPoints
  <2> HIDE DEF s
  <2> QED  BY <1>R, <2>1
<1> HIDE DEF s
<1>3. s[1] = p[c] /\ Len(s) > 0
  <2>1. 1 \in 1 .. Len(A)
    BY <1>K, <1>A
  <2> QED  BY <1>1, <1>K, <1>A, <1>2, <2>1
\* Where the members come from.
<1>4. ASSUME NEW i \in 2 .. Len(A)
      PROVE  /\ i - 1 \in 1 .. Len(K) /\ s[i] = K[i - 1]
             /\ \E m \in f .. c - 1 : s[i] = p[m] /\ p[m].kind # "system"
  <2>1. i - 1 \in 1 .. Len(K) /\ (i - 1) + 1 = i /\ i \in 1 .. Len(A)
    BY <1>K, <1>A
  <2>2. s[i] = K[i - 1]
    BY <1>A, <1>2, <2>1
  <2>3. PICK m \in f .. c - 1 : p[m].kind # "system" /\ K[i - 1] = p[m]
    BY <1>K, <2>1
  <2> QED  BY <2>1, <2>2, <2>3
<1>5. ASSUME NEW i \in Len(A) + 1 .. Len(s)
      PROVE  c + (i - Len(A)) \in c + 1 .. L /\ s[i] = p[c + (i - Len(A))]
  <2> DEFINE a == Len(A)
             d == i - a
  <2>0. a \in Nat /\ i \in a + 1 .. a + (L - c) /\ c \in Nat /\ L \in Nat
    BY <1>1, <1>K, <1>A, <1>2
  <2> HIDE DEF a
  <2>1. d \in 1 .. L - c /\ a + d = i
    BY <2>0
  <2>3. c + d \in c + 1 .. L
    <3> HIDE DEF d
    <3> QED  BY <2>0, <2>1
  <2> HIDE DEF d
  <2>2. s[a + d] = p[c + d]
    BY <1>2, <2>1 DEF a
  <2> QED  BY <2>1, <2>2, <2>3 DEF a, d
<1>6. \A i \in 1 .. Len(s) : i = 1 \/ i \in 2 .. Len(A) \/ i \in Len(A) + 1 .. Len(s)
  BY <1>1, <1>K, <1>A, <1>2, SMTT(60)
<1>7. ASSUME NEW i \in 1 .. Len(s)
      PROVE  \E m \in f .. L : s[i] = p[m] /\ (c <= m \/ p[m].kind # "system")
  <2>1. CASE i = 1
    BY <1>1, <1>3, <2>1
  <2>2. CASE i \in 2 .. Len(A)
    <3>1. \A m \in f .. c - 1 : m \in f .. L
      BY <1>1
    <3> QED  BY <1>4, <2>2, <3>1
  <2>3. CASE i \in Len(A) + 1 .. Len(s)
    <3>1. \A m \in c + 1 .. L : m \in f .. L /\ c <= m
      BY <1>1
    <3> QED  BY <1>5, <2>3, <3>1
  <2> QED  BY <1>6, <2>1, <2>2, <2>3
<1>8. ASSUME NEW m \in f .. L, c <= m \/ p[m].kind # "system"
      PROVE  \E i \in 1 .. Len(s) : s[i] = p[m]
  <2>1. CASE m = c
    <3>1. 1 \in 1 .. Len(s)
      BY <1>1, <1>K, <1>A, <1>2
    <3> QED  BY <1>3, <2>1, <3>1
  <2>2. CASE m < c
    <3>1. m \in f .. c - 1 /\ p[m].kind # "system"
      BY <1>1, <1>8, <2>2
    <3>2. PICK i \in 1 .. Len(K) : K[i] = p[m]
      BY <1>K, <3>1
    <3>3. i + 1 \in 1 .. Len(A) /\ i + 1 \in 1 .. Len(s)
      BY <1>1, <1>K, <1>A, <1>2
    <3> QED  BY <1>A, <1>2, <3>2, <3>3
  <2>3. CASE m > c
    <3>0. Len(A) \in Nat
      BY <1>K, <1>A
    <3>1. m - c \in 1 .. L - c /\ c + (m - c) = m
      BY <1>1, <2>3
    <3>2. Len(A) + (m - c) \in 1 .. Len(s)
      <4> DEFINE d == m - c
                 a == Len(A)
                 r == L - c
      <4>1. a \in Nat /\ d \in 1 .. r /\ r \in Nat /\ Len(s) = a + r
        BY <1>1, <1>2, <3>0, <3>1
      <4> HIDE DEF a, d, r
      <4>2. a + d \in 1 .. Len(s)
        BY <4>1, SMTT(60)
      <4> QED  BY <4>2 DEF a, d
    <3> QED  BY <1>2, <3>1, <3>2
  <2>4. m = c \/ m < c \/ m > c
    BY <1>1
  <2> QED  BY <2>1, <2>2, <2>3, <2>4
\* Positions and ids.
<1>9. \A m, n \in 1 .. L : m < n <=> p[m].id < p[n].id
  <2> TAKE m, n \in 1 .. L
  <2>1. m < n => p[m].id < p[n].id
    BY <1>L DEF Ascends
  <2>2. n < m => p[n].id < p[m].id
    BY <1>L DEF Ascends
  <2>3. m = n => ~(p[m].id < p[n].id)
    BY <1>1
  <2>4. p[m].id \in Nat /\ p[n].id \in Nat /\ m \in Nat /\ n \in Nat
    BY <1>1
  <2> QED  BY <2>1, <2>2, <2>3, <2>4, SMTT(60)
<1>10. Ordered(s, p[c].id)
  <2> SUFFICES ASSUME NEW i \in 1 .. Len(s), NEW j \in 1 .. Len(s), i < j
               PROVE  s[j].id # p[c].id /\ (s[i].id = p[c].id \/ s[i].id < s[j].id)
    BY DEF Ordered
  <2> DEFINE Placed == \E m \in 1 .. L : \E n \in 1 .. L :
                         s[i] = p[m] /\ s[j] = p[n] /\ n # c /\ (m = c \/ m < n)
  <2>d. SUFFICES Placed
    <3>1. PICK m \in 1 .. L : \E n \in 1 .. L :
            s[i] = p[m] /\ s[j] = p[n] /\ n # c /\ (m = c \/ m < n)
      BY <2>d
    <3>2. PICK n \in 1 .. L : s[i] = p[m] /\ s[j] = p[n] /\ n # c /\ (m = c \/ m < n)
      BY <3>1
    <3>3. p[n].id # p[c].id
      <4>1. n < c \/ c < n
        BY <1>1, <3>2
      <4>2. p[n].id < p[c].id \/ p[c].id < p[n].id
        BY <1>0, <1>9, <4>1
      <4> QED  BY <1>1, <4>2, SMTT(60)
    <3>4. m = c \/ p[m].id < p[n].id
      BY <1>9, <3>2
    <3> QED  BY <3>2, <3>3, <3>4
  <2>a. /\ \A m \in f .. c - 1 : m \in 1 .. L /\ m < c /\ m # c
        /\ \A n \in c + 1 .. L : n \in 1 .. L /\ n > c /\ n # c
        /\ \A m \in f .. c - 1 : \A n \in c + 1 .. L : m < n
    BY <1>1, SMTT(60)
  <2>b. j # 1
    BY <2>a
  <2>c. j \in 2 .. Len(A) => i = 1 \/ i \in 2 .. Len(A)
    BY <1>K, <1>A
  <2>1. CASE i = 1
    <3>1. CASE j \in 2 .. Len(A)
      BY <1>0, <1>3, <1>4, <2>1, <2>a, <3>1
    <3>2. CASE j \in Len(A) + 1 .. Len(s)
      BY <1>0, <1>3, <1>5, <2>1, <2>a, <3>2
    <3> QED  BY <1>6, <2>b, <3>1, <3>2
  <2>2. CASE i \in 2 .. Len(A) /\ j \in 2 .. Len(A)
    <3>1. i - 1 \in 1 .. Len(K) /\ j - 1 \in 1 .. Len(K) /\ i - 1 < j - 1
      BY <1>4, <2>2
    <3>2. PICK m \in f .. c - 1 : \E n \in f .. c - 1 : m < n /\ K[i - 1] = p[m] /\ K[j - 1] = p[n]
      BY <1>K, <3>1
    <3>3. PICK n \in f .. c - 1 : m < n /\ K[i - 1] = p[m] /\ K[j - 1] = p[n]
      BY <3>2
    <3> QED  BY <1>4, <2>2, <2>a, <3>3
  <2>3. CASE i \in 2 .. Len(A) /\ j \in Len(A) + 1 .. Len(s)
    <3>1. PICK m \in f .. c - 1 : s[i] = p[m]
      BY <1>4, <2>3
    <3> QED  BY <1>5, <2>3, <2>a, <3>1
  <2>4. CASE i \in Len(A) + 1 .. Len(s)
    <3>1. j \in Len(A) + 1 .. Len(s)
      BY <1>K, <1>A, <2>4
    <3>2. c + (i - Len(A)) < c + (j - Len(A))
      BY <1>1, <1>K, <1>A, <2>4
    <3> QED  BY <1>5, <2>4, <2>a, <3>1, <3>2
  <2> QED  BY <1>6, <2>b, <2>c, <2>1, <2>2, <2>3, <2>4
<1>11. \A m \in 1 .. L : /\ c <= m <=> p[c].id <= p[m].id
                         /\ f <= m <=> p[c].ref <= p[m].id
  <2> TAKE m \in 1 .. L
  <2>1. f \in 1 .. L /\ m \in Nat /\ p[m].id \in Nat /\ p[f].id \in Nat /\ p[c].id \in Nat
    BY <1>1
  <2>2. (m < c <=> p[m].id < p[c].id) /\ (m < f <=> p[m].id < p[f].id)
    BY <1>0, <1>9, <2>1
  <2>3. /\ c <= m <=> ~(m < c)
        /\ f <= m <=> ~(m < f)
    BY <1>1, <2>1, SMTT(60)
  <2>4. /\ p[c].id <= p[m].id <=> ~(p[m].id < p[c].id)
        /\ p[f].id <= p[m].id <=> ~(p[m].id < p[f].id)
    BY <2>1, SMTT(60)
  <2>5. p[f].id = p[c].ref
    OBVIOUS
  <2> QED  BY <2>2, <2>3, <2>4, <2>5
<1>12. ASSUME NEW e
       PROVE  e \in ToSet(s) <=>
                /\ e \in ToSet(p)
                /\ p[c].id <= e.id \/ (p[c].ref <= e.id /\ e.kind # "system")
  <2>0. ToSet(s) = {s[i] : i \in 1 .. Len(s)} /\ ToSet(p) = {p[i] : i \in 1 .. L}
    BY <1>2, <1>t, PointsOf DEF ToSet
  <2>1. ASSUME e \in ToSet(s)
        PROVE  /\ e \in ToSet(p)
               /\ p[c].id <= e.id \/ (p[c].ref <= e.id /\ e.kind # "system")
    <3>1. PICK m \in f .. L : e = p[m] /\ (c <= m \/ p[m].kind # "system")
      BY <1>7, <2>0, <2>1, SMTT(60)
    <3>2. m \in 1 .. L /\ f <= m
      BY <1>1
    <3> QED  BY <1>11, <2>0, <3>1, <3>2
  <2>2. ASSUME e \in ToSet(p), p[c].id <= e.id \/ (p[c].ref <= e.id /\ e.kind # "system")
        PROVE  e \in ToSet(s)
    <3>1. PICK m \in 1 .. L : e = p[m]
      BY <2>0, <2>2
    <3>2. c <= m \/ (f <= m /\ p[m].kind # "system")
      BY <1>11, <2>2, <3>1
    <3>3. m \in f .. L /\ (c <= m \/ p[m].kind # "system")
      BY <1>1, <3>2
    <3> QED  BY <1>8, <2>0, <3>1, <3>3
  <2> QED  BY <2>1, <2>2
<1> QED  BY <1>2, <1>3, <1>10, <1>12 DEF s, A, R, K, L

\* The order is kept when entries are left out.
LEMMA OnlyOrdered ==
  ASSUME NEW S, NEW s \in Seq(S), NEW T, NEW h, Ordered(s, h)
  PROVE  LET t == Only(s, T)
         IN  /\ t \in Seq(S) /\ Ordered(t, h)
             /\ \A e : e \in ToSet(t) <=> e \in ToSet(s) /\ e \in T
<1> DEFINE t == Only(s, T)
<1>1. t \in Seq(S) /\ Thin(s, Len(s), T, t)
  BY OnlyIs
<1> HIDE DEF t
<1>2. ToSet(s) = {s[i] : i \in 1 .. Len(s)} /\ ToSet(t) = {t[i] : i \in 1 .. Len(t)}
  BY <1>1, PointsOf DEF ToSet
<1>3. ASSUME NEW i \in 1 .. Len(t), NEW j \in 1 .. Len(t), i < j
      PROVE  t[j].id # h /\ (t[i].id = h \/ t[i].id < t[j].id)
  <2>1. PICK k \in 1 .. Len(s) : \E l \in 1 .. Len(s) : k < l /\ t[i] = s[k] /\ t[j] = s[l]
    BY <1>1, <1>3 DEF Thin
  <2> QED  BY <2>1 DEF Ordered
<1>4. ASSUME NEW e PROVE e \in ToSet(t) <=> e \in ToSet(s) /\ e \in T
  <2>1. ASSUME e \in ToSet(t) PROVE e \in ToSet(s) /\ e \in T
    <3>1. PICK i \in 1 .. Len(t) : e = t[i]
      BY <1>2, <2>1
    <3>2. PICK k \in 1 .. Len(s) : t[i] = s[k] /\ s[k] \in T
      BY <1>1 DEF Thin
    <3> QED  BY <1>2, <3>1, <3>2
  <2>2. ASSUME e \in ToSet(s), e \in T PROVE e \in ToSet(t)
    <3>1. PICK k \in 1 .. Len(s) : e = s[k]
      BY <1>2, <2>2
    <3>2. \E i \in 1 .. Len(t) : t[i] = s[k]
      BY <1>1, <2>2, <3>1 DEF Thin
    <3> QED  BY <1>2, <3>1, <3>2
  <2> QED  BY <2>1, <2>2
<1> QED  BY <1>1, <1>3, <1>4 DEF Ordered, t

\* What is cut out of a sequence, and cuts side by side.
LEMMA CutPoints ==
  ASSUME NEW X, NEW s \in Seq(X), NEW m \in Nat, NEW n \in Nat, n <= Len(s)
  PROVE  /\ SubSeq(s, m + 1, n) \in Seq(X)
         /\ Len(SubSeq(s, m + 1, n)) = IF m <= n THEN n - m ELSE 0
<1>1. Len(s) \in Nat /\ \A i \in 1 .. Len(s) : s[i] \in X
  BY PointsOf
<1>2. m + 1 \in Int /\ n \in Int /\ \A i \in m + 1 .. n : i \in 1 .. Len(s)
  BY <1>1
<1>3. /\ SubSeq(s, m + 1, n) \in Seq(X)
      /\ Len(SubSeq(s, m + 1, n)) = IF m + 1 <= n THEN n - (m + 1) + 1 ELSE 0
  BY <1>1, <1>2, SubSeqProperties
<1> QED
  BY <1>3

LEMMA CutJoin ==
  ASSUME NEW X, NEW s \in Seq(X), NEW m \in Nat, NEW k \in Nat, NEW n \in Nat,
         m <= k, k <= n, n <= Len(s)
  PROVE  SubSeq(s, m + 1, k) \o SubSeq(s, k + 1, n) = SubSeq(s, m + 1, n)
<1>1. Len(s) \in Nat
  BY PointsOf
<1>2. m + 1 \in 1 .. Len(s) + 1 /\ k \in (m + 1) - 1 .. Len(s) /\ n \in k .. Len(s)
  BY <1>1
<1> QED
  BY <1>2, ConcatAdjacentSubSeq
=============================================================================
