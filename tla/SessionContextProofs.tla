------------------------ MODULE SessionContextProofs ------------------------
(***************************************************************************)
(* Proofs about SessionContext, for every bound on the entries, their      *)
(* kinds and the forks.  Ids grow along a path, so what a projection       *)
(* selects of it is told by the ids alone: the paths become sets of ids,   *)
(* and the invariant says of each entry what was true when it was made.    *)
(***************************************************************************)
EXTENDS SessionContext, RecursionProofs

USE DEF NoId

Recorded == {e \in EntriesOver(Ids) : e.id \in Ids}

\* The ids on the path to an entry.
Line(t, x) == EntryIds(ActivePath(t, x))

OfKind(t, x, kinds) == {y \in Line(t, x) : t[y].kind \in kinds}

\* What the edits on the path to x remove.
Edited(t, x) == {t[y].ref : y \in OfKind(t, x, {"context_edit"})}

\* A tree whose ids count its entries; the path to each of them is its
\* parent's path with one entry more.
TreeSound(t) ==
  /\ t \in Seq(Recorded)
  /\ \A i \in 1 .. Len(t) :
       /\ t[i].id = i /\ t[i].parent \in 0 .. i - 1
       /\ ActivePath(t, i) = Append(ActivePath(t, t[i].parent), t[i])

-----------------------------------------------------------------------------
(* Paths as sets of ids *)

LEMMA RecordedIds == \A r \in Recorded : r.id \in Nat /\ r.id # 0 /\ r.id \in Ids
BY BoundsAssumption DEF Recorded, Ids

LEMMA SoundPoints ==
  ASSUME NEW t, TreeSound(t)
  PROVE  /\ t \in Seq(Recorded) /\ Len(t) \in Nat /\ DOMAIN t = 1 .. Len(t)
         /\ \A i \in 1 .. Len(t) : /\ t[i] \in Recorded /\ t[i].id = i
                                   /\ t[i].parent \in 0 .. i - 1
BY PointsOf DEF TreeSound

LEMMA SoundRooted ==
  ASSUME NEW t, TreeSound(t)
  PROVE  Rooted(t)
<1>1. Len(t) \in Nat /\ DOMAIN t = 1 .. Len(t)
      /\ \A i \in 1 .. Len(t) : t[i].id = i /\ t[i].parent \in 0 .. i - 1
  BY SoundPoints
<1>2. ASSUME NEW i \in 1 .. Len(t), t[i].parent # NoId
      PROVE  \E j \in 1 .. i - 1 : t[j].id = t[i].parent
  <2>1. t[i].parent \in 1 .. i - 1 /\ t[i].parent \in 1 .. Len(t)
    BY <1>1, <1>2
  <2> QED  BY <1>1, <2>1
<1> QED  BY <1>1, <1>2, SMTT(60) DEF Rooted

\* There is nothing above a root.
LEMMA NoLine ==
  ASSUME NEW t, TreeSound(t)
  PROVE  ActivePath(t, NoId) = << >> /\ Line(t, NoId) = {}
<1>1. t \in Seq(Recorded) /\ NoId \notin EntryIds(t)
  BY SoundPoints, RecordedIds DEF EntryIds
<1>2. ActivePath(t, NoId) = << >>
  BY <1>1, NothingThere
<1> QED  BY <1>2 DEF Line, EntryIds

LEMMA PathSeq ==
  ASSUME NEW t, TreeSound(t), NEW x
  PROVE  /\ ActivePath(t, x) \in Seq(Recorded)
         /\ Line(t, x) = {ActivePath(t, x)[k].id : k \in 1 .. Len(ActivePath(t, x))}
<1>1. ActivePath(t, x) \in Seq(Recorded)
  BY SoundPoints, ActivePathType
<1> QED  BY <1>1, PointsOf DEF Line, EntryIds

LEMMA LineParent ==
  ASSUME NEW t, TreeSound(t), NEW x \in 1 .. Len(t)
  PROVE  Line(t, x) = Line(t, t[x].parent) \cup {x}
<1> DEFINE w == ActivePath(t, t[x].parent)
           p == ActivePath(t, x)
<1>1. p = Append(w, t[x]) /\ t[x].id = x /\ t[x] \in Recorded
  BY SoundPoints DEF TreeSound
<1>2. w \in Seq(Recorded)
  BY PathSeq
<1>w. Line(t, t[x].parent) = {w[k].id : k \in 1 .. Len(w)}
  BY PathSeq
<1>v. Line(t, x) = {p[k].id : k \in 1 .. Len(p)}
  BY PathSeq
<1> HIDE DEF w, p
<1>3. Len(w) \in Nat /\ 1 .. Len(w) + 1 = (1 .. Len(w)) \cup {Len(w) + 1}
  BY <1>2, PointsOf
<1>4. Len(p) = Len(w) + 1 /\ p[Len(w) + 1] = t[x] /\ \A i \in 1 .. Len(w) : p[i] = w[i]
  BY <1>1, <1>2, AppendPoints
<1> QED  BY <1>1, <1>w, <1>v, <1>3, <1>4

\* Induction up the tree.
LEMMA TreeInduct ==
  ASSUME NEW t, TreeSound(t), NEW X, 0 \in X,
         \A x \in 1 .. Len(t) : (\A y \in 0 .. x - 1 : y \in X) => x \in X
  PROVE  \A x \in 0 .. Len(t) : x \in X
<1> DEFINE Bad == {x \in 0 .. Len(t) : x \notin X}
<1>1. SUFFICES ASSUME Bad # {} PROVE FALSE
  OBVIOUS
<1>2. Len(t) \in Nat
  BY SoundPoints
<1>3. PICK m \in Bad : \A n \in Bad : m <= n
  <2>1. Bad \subseteq Nat
    BY <1>2
  <2> HIDE DEF Bad
  <2> QED  BY <1>1, <2>1, LeastNatural
<1>4. m \in 1 .. Len(t)
  BY <1>2
<1>5. ASSUME NEW y \in 0 .. m - 1 PROVE y \in X
  <2>1. y \in 0 .. Len(t) /\ ~(m <= y)
    BY <1>2, <1>4
  <2> QED  BY <1>3, <2>1
<1> QED  BY <1>4, <1>5

\* Ids grow along a path, and each of its entries is the tree's.
Climbs(t, x) ==
  LET p == ActivePath(t, x)
  IN  Ascends(p) /\ \A k \in 1 .. Len(p) : p[k].id \in 1 .. x /\ p[k] = t[p[k].id]

LEMMA PathClimbs ==
  ASSUME NEW t, TreeSound(t), NEW x \in 0 .. Len(t)
  PROVE  Climbs(t, x)
<1> DEFINE X == {y \in 0 .. Len(t) : Climbs(t, y)}
<1>1. 0 \in X
  <2>1. Len(ActivePath(t, 0)) = 0
    BY NoLine, EmptySeq
  <2> QED  BY <2>1, SoundPoints DEF Climbs, Ascends
<1>2. ASSUME NEW y \in 1 .. Len(t), \A z \in 0 .. y - 1 : z \in X PROVE y \in X
  <2> DEFINE w == ActivePath(t, t[y].parent)
             p == ActivePath(t, y)
             v == t[y].parent
  <2>1. p = Append(w, t[y]) /\ t[y].id = y /\ t[y] \in Recorded /\ v \in 0 .. y - 1
    BY SoundPoints DEF TreeSound
  <2>2. Len(t) \in Nat /\ y \in 0 .. Len(t) /\ y \in Nat /\ v \in Nat /\ v < y
    BY <2>1, SoundPoints
  <2>3. w \in Seq(Recorded)
    BY PathSeq
  <2>4. Climbs(t, v)
    BY <1>2, <2>1
  <2>5. Ascends(w) /\ \A k \in 1 .. Len(w) : w[k].id \in 1 .. v /\ w[k] = t[w[k].id]
    BY <2>4 DEF Climbs
  <2> HIDE DEF w, p, v
  <2>6. Len(p) = Len(w) + 1 /\ p[Len(w) + 1] = t[y] /\ \A i \in 1 .. Len(w) : p[i] = w[i]
    BY <2>1, <2>3, AppendPoints
  <2>7. Len(w) \in Nat /\ \A k \in 1 .. Len(w) + 1 : k = Len(w) + 1 \/ k \in 1 .. Len(w)
    BY <2>3, PointsOf
  <2>8. \A k \in 1 .. Len(w) : w[k].id \in 1 .. y /\ w[k].id < y
    BY <2>2, <2>5
  <2>9. ASSUME NEW k \in 1 .. Len(p) PROVE p[k].id \in 1 .. y /\ p[k] = t[p[k].id]
    <3>1. CASE k = Len(w) + 1
      BY <2>1, <2>2, <2>6, <3>1
    <3>2. CASE k \in 1 .. Len(w)
      BY <2>5, <2>6, <2>8, <3>2
    <3> QED  BY <2>6, <2>7, <3>1, <3>2
  <2>10. ASSUME NEW i \in 1 .. Len(p), NEW j \in 1 .. Len(p), i < j PROVE p[i].id < p[j].id
    <3>0. i \in 1 .. Len(w)
      BY <2>6, <2>7, <2>10
    <3>1. CASE j = Len(w) + 1
      BY <2>1, <2>6, <2>8, <3>0, <3>1
    <3>2. CASE j \in 1 .. Len(w)
      BY <2>5, <2>6, <2>10, <3>0, <3>2 DEF Ascends
    <3> QED  BY <2>6, <2>7, <3>1, <3>2
  <2> QED  BY <2>2, <2>9, <2>10 DEF Climbs, Ascends, p
<1> HIDE DEF X
<1>3. \A y \in 0 .. Len(t) : y \in X
  BY <1>1, <1>2, TreeInduct
<1> QED  BY <1>3 DEF X

LEMMA LineBounds ==
  ASSUME NEW t, TreeSound(t), NEW x \in 0 .. Len(t)
  PROVE  /\ Line(t, x) \subseteq 1 .. x /\ Line(t, x) \subseteq 1 .. Len(t)
         /\ x # 0 => x \in Line(t, x)
<1>1. Climbs(t, x) /\ Len(t) \in Nat
  BY PathClimbs, SoundPoints
<1>2. Line(t, x) \subseteq 1 .. x
  BY <1>1, PathSeq DEF Climbs
<1>3. x # 0 => x \in Line(t, x)
  <2>1. x # 0 => x \in 1 .. Len(t)
    BY <1>1
  <2> QED  BY <2>1, LineParent
<1> QED  BY <1>1, <1>2, <1>3

\* The path to an entry of a path is the part of that path up to it.
LEMMA LineCut ==
  ASSUME NEW t, TreeSound(t), NEW x \in 0 .. Len(t), NEW y \in Line(t, x)
  PROVE  Line(t, y) = {z \in Line(t, x) : z <= y}
<1> DEFINE Cut(u) == \A v \in Line(t, u) : Line(t, v) = {z \in Line(t, u) : z <= v}
           X == {u \in 0 .. Len(t) : Cut(u)}
<1>1. 0 \in X
  BY NoLine, SoundPoints
<1>2. ASSUME NEW u \in 1 .. Len(t), \A v \in 0 .. u - 1 : v \in X PROVE u \in X
  <2> DEFINE w == t[u].parent
  <2>1. w \in 0 .. u - 1 /\ Len(t) \in Nat /\ u \in 0 .. Len(t) /\ u \in Nat
    BY SoundPoints
  <2>2. Line(t, u) = Line(t, w) \cup {u}
    BY LineParent
  <2>3. Cut(w)
    BY <1>2, <2>1
  <2>4. Line(t, u) \subseteq 1 .. u
    BY <2>1, LineBounds
  <2>5. Line(t, w) \subseteq 1 .. w /\ w \in Nat /\ w < u
    <3>1. w \in 0 .. Len(t)
      BY <2>1
    <3> QED  BY <2>1, <3>1, LineBounds
  <2> HIDE DEF w
  <2>6. ASSUME NEW v \in Line(t, u) PROVE Line(t, v) = {z \in Line(t, u) : z <= v}
    <3>1. CASE v = u
      BY <2>4, <3>1
    <3>2. CASE v \in Line(t, w)
      <4>1. v \in Nat /\ v < u
        BY <2>1, <2>5, <3>2
      <4>2. {z \in Line(t, u) : z <= v} = {z \in Line(t, w) : z <= v}
        BY <2>1, <2>2, <4>1
      <4> QED  BY <2>3, <3>2, <4>2
    <3> QED  BY <2>2, <3>1, <3>2
  <2> QED  BY <2>1, <2>6
<1> HIDE DEF X
<1>3. \A u \in 0 .. Len(t) : u \in X
  BY <1>1, <1>2, TreeInduct
<1> QED  BY <1>3 DEF X

\* The entries of a path, from their ids.
LEMMA PathIs ==
  ASSUME NEW t, TreeSound(t), NEW x \in 0 .. Len(t)
  PROVE  \A e : e \in ToSet(ActivePath(t, x)) <=> e.id \in Line(t, x) /\ e = t[e.id]
<1> DEFINE p == ActivePath(t, x)
<1>1. p \in Seq(Recorded) /\ Line(t, x) = {p[k].id : k \in 1 .. Len(p)}
  BY PathSeq
<1>2. \A k \in 1 .. Len(p) : p[k] = t[p[k].id]
  BY PathClimbs DEF Climbs
<1> HIDE DEF p
<1>3. ToSet(p) = {p[k] : k \in 1 .. Len(p)}
  BY <1>1, PointsOf DEF ToSet
<1> QED  BY <1>1, <1>2, <1>3 DEF p

-----------------------------------------------------------------------------
(* The projection by ids *)

\* The compaction that speaks on the path to x.
Speaker(t, x) ==
  LET cs == OfKind(t, x, {"compaction"})
  IN  IF cs = {} THEN NoId ELSE CHOOSE c \in cs : \A d \in cs : d <= c

\* What it leaves of the path, and what is left to remove there.
Chosen(t, x) ==
  LET c == Speaker(t, x)
  IN  {y \in Line(t, x) : c <= y \/ (t[c].ref <= y /\ t[y].kind # "system")}

Struck(t, x) == {t[z].ref : z \in {y \in Chosen(t, x) : t[y].kind = "context_edit"}}

Told(t, x) ==
  {y \in Chosen(t, x) :
     \/ t[y].kind \in Messages \cup {"system"} /\ y \notin Struck(t, x)
     \/ y = Speaker(t, x)}

ShownOn(t, x) == {y \in Told(t, x) : t[y].kind # "system"}

\* Every compaction keeps an entry of its own path.
Keeps(t, x) ==
  \A c \in OfKind(t, x, {"compaction"}) : t[c].ref \in Line(t, c) \ {c}

\* The entries of s are those of the tree with these ids.
Holds(s, t, ids) == s \in Seq(Recorded) /\ \A e : e \in ToSet(s) <=> e.id \in ids /\ e = t[e.id]

LEMMA GreatestBelow ==
  ASSUME NEW n \in Nat, NEW T, T \subseteq 0 .. n, T # {}
  PROVE  \E m \in T : \A k \in T : k <= m
<1> DEFINE U == {n - k : k \in T}
<1>1. U \subseteq Nat /\ U # {}
  <2>1. \A k \in T : n - k \in Nat
    <3> TAKE k \in T
    <3>1. k \in 0 .. n
      OBVIOUS
    <3> QED  BY <3>1
  <2> QED  BY <2>1
<1>2. PICK u \in U : \A v \in U : u <= v
  <2> HIDE DEF U
  <2> QED  BY <1>1, LeastNatural
<1>3. PICK m \in T : u = n - m
  BY <1>2
<1>4. ASSUME NEW k \in T PROVE k <= m
  <2>1. n - m <= n - k
    BY <1>2, <1>3
  <2>2. m \in 0 .. n /\ k \in 0 .. n
    OBVIOUS
  <2> QED  BY <2>1, <2>2
<1> QED  BY <1>4

LEMMA SpeakerIs ==
  ASSUME NEW t, TreeSound(t), NEW x \in 0 .. Len(t)
  PROVE  /\ OfKind(t, x, {"compaction"}) = {} => Speaker(t, x) = 0
         /\ OfKind(t, x, {"compaction"}) # {} =>
              /\ Speaker(t, x) \in OfKind(t, x, {"compaction"})
              /\ \A d \in OfKind(t, x, {"compaction"}) : d <= Speaker(t, x)
<1> DEFINE cs == OfKind(t, x, {"compaction"})
<1>1. cs \subseteq 0 .. x /\ x \in Nat
  BY SoundPoints, LineBounds DEF OfKind
<1>2. CASE cs = {}
  BY <1>2 DEF Speaker
<1>3. CASE cs # {}
  <2>1. \E c \in cs : \A d \in cs : d <= c
    <3> HIDE DEF cs
    <3> QED  BY <1>1, <1>3, GreatestBelow
  <2> HIDE DEF cs
  <2>2. Speaker(t, x) = CHOOSE c \in cs : \A d \in cs : d <= c
    BY <1>3 DEF Speaker, cs
  <2> QED  BY <1>3, <2>1, <2>2 DEF cs
<1> QED  BY <1>2, <1>3

\* The last compaction of a path is the one that speaks.
LEMMA LastSpeaks ==
  ASSUME NEW t, TreeSound(t), NEW x \in 0 .. Len(t), NEW p, p = ActivePath(t, x)
  PROVE  /\ Compactions(p) = {} <=> OfKind(t, x, {"compaction"}) = {}
         /\ Compactions(p) # {} =>
              /\ LastCompaction(p) \in 1 .. Len(p)
              /\ p[LastCompaction(p)].id = Speaker(t, x)
              /\ p[LastCompaction(p)] = t[Speaker(t, x)]
<1>1. /\ p \in Seq(Recorded) /\ Len(p) \in Nat /\ DOMAIN p = 1 .. Len(p)
      /\ Line(t, x) = {p[k].id : k \in 1 .. Len(p)}
  BY PathSeq, PointsOf
<1>2. Ascends(p) /\ \A k \in 1 .. Len(p) : p[k].id \in 1 .. x /\ p[k] = t[p[k].id]
  BY PathClimbs DEF Climbs
<1>3. Compactions(p) = {i \in 1 .. Len(p) : p[i].kind = "compaction"}
  BY <1>1 DEF Compactions
<1>4. OfKind(t, x, {"compaction"}) = {p[i].id : i \in Compactions(p)}
  BY <1>1, <1>2, <1>3, SMTT(60) DEF OfKind
<1>5. ASSUME Compactions(p) # {}
      PROVE  /\ LastCompaction(p) \in 1 .. Len(p)
             /\ p[LastCompaction(p)].id = Speaker(t, x)
             /\ p[LastCompaction(p)] = t[Speaker(t, x)]
  <2> DEFINE c == LastCompaction(p)
  <2>1. \E i \in Compactions(p) : \A j \in Compactions(p) : j <= i
    <3>1. Compactions(p) \subseteq 0 .. Len(p)
      BY <1>1, <1>3
    <3> QED  BY <1>1, <1>5, <3>1, GreatestBelow
  <2>2. c \in Compactions(p) /\ \A j \in Compactions(p) : j <= c
    BY <2>1 DEF LastCompaction
  <2> HIDE DEF c
  <2>3. c \in 1 .. Len(p)
    BY <1>3, <2>2
  <2>4. \A j \in Compactions(p) : p[j].id <= p[c].id
    <3> TAKE j \in Compactions(p)
    <3>1. j \in 1 .. Len(p) /\ j <= c
      BY <1>3, <2>2
    <3>2. p[j].id \in Nat /\ p[c].id \in Nat
      BY <1>2, <2>3, <3>1
    <3>3. CASE j = c
      BY <3>2, <3>3
    <3>4. CASE j < c
      BY <1>2, <2>3, <3>1, <3>2, <3>4, SMTT(60) DEF Ascends
    <3> QED  BY <1>1, <2>3, <3>1, <3>3, <3>4
  <2>5. /\ Speaker(t, x) \in OfKind(t, x, {"compaction"})
        /\ \A d \in OfKind(t, x, {"compaction"}) : d <= Speaker(t, x)
    BY <1>4, <1>5, SpeakerIs
  <2>6. p[c].id = Speaker(t, x)
    <3>1. p[c].id \in OfKind(t, x, {"compaction"}) /\ p[c].id <= Speaker(t, x)
      BY <1>4, <2>2, <2>5
    <3>2. Speaker(t, x) <= p[c].id
      BY <1>4, <2>4, <2>5
    <3>3. p[c].id \in Nat /\ Speaker(t, x) \in Nat
      BY <1>2, <1>4, <1>3, <2>3, <2>5, SMTT(60)
    <3> QED  BY <3>1, <3>2, <3>3
  <2> QED  BY <1>2, <2>3, <2>6 DEF c
<1> QED  BY <1>4, <1>5

\* What the projection selects, by ids, and its order.
LEMMA SelectedIs ==
  ASSUME NEW t, TreeSound(t), NEW x \in 0 .. Len(t), Keeps(t, x)
  PROVE  LET s == Selected(ActivePath(t, x))
         IN  /\ Holds(s, t, Chosen(t, x)) /\ Ordered(s, Speaker(t, x))
             /\ Speaker(t, x) # 0 => Len(s) > 0 /\ s[1].id = Speaker(t, x)
<1> DEFINE p == ActivePath(t, x)
           C == Speaker(t, x)
<1>1. /\ p \in Seq(Recorded) /\ Len(p) \in Nat /\ DOMAIN p = 1 .. Len(p)
      /\ Line(t, x) = {p[k].id : k \in 1 .. Len(p)}
  BY PathSeq, PointsOf
<1>2. Ascends(p) /\ \A k \in 1 .. Len(p) : p[k].id \in 1 .. x /\ p[k] = t[p[k].id]
  BY PathClimbs DEF Climbs
<1>3. \A e : e \in ToSet(p) <=> e.id \in Line(t, x) /\ e = t[e.id]
  BY PathIs
<1>4. Line(t, x) \subseteq 1 .. x
  BY LineBounds
<1>5. CASE Compactions(p) = {}
  <2>1. Selected(p) = p /\ C = 0
    BY <1>5, LastSpeaks, SpeakerIs DEF Selected
  <2>2. Chosen(t, x) = Line(t, x)
    BY <1>4, <2>1 DEF Chosen
  <2>3. Ordered(p, 0)
    BY <1>2 DEF Ordered, Ascends
  <2> HIDE DEF p, C
  <2> QED  BY <1>1, <1>3, <2>1, <2>2, <2>3 DEF Holds, p, C
<1>6. CASE Compactions(p) # {}
  <2> DEFINE c == LastCompaction(p)
             s == Selected(p)
  <2>1. c \in 1 .. Len(p) /\ p[c].id = C /\ p[c] = t[C]
    BY <1>6, LastSpeaks
  <2>2. C \in OfKind(t, x, {"compaction"})
    BY <1>6, LastSpeaks, SpeakerIs
  <2>3. s = <<p[c]>> \o Kept(p, c) \o SubSeq(p, c + 1, Len(p))
    BY <1>6 DEF Selected
  <2> HIDE DEF p, c, C
  <2>4. t[C].ref \in Line(t, x) /\ t[C].ref < C
    <3>1. t[C].ref \in Line(t, C) /\ t[C].ref # C /\ C \in Line(t, x)
      BY <2>2 DEF Keeps, OfKind
    <3>2. t[C].ref \in Line(t, x) /\ t[C].ref <= C
      BY <3>1, LineCut
    <3> QED  BY <1>4, <3>1, <3>2
  <2>5. PICK f \in 1 .. Len(p) : p[f].id = t[C].ref
    BY <1>1, <2>4
  <2>6. f \in 1 .. c - 1
    <3>1. p[f].id < p[c].id
      BY <2>1, <2>4, <2>5
    <3>2. p[f].id \in Nat /\ p[c].id \in Nat
      BY <1>2, <2>1, <2>5, SMTT(60)
    <3>3. ~(c < f) /\ f # c
      BY <2>1, <2>5, <1>2, <3>1, <3>2, SMTT(60) DEF Ascends
    <3> QED  BY <1>1, <2>1, <2>5, <3>3
  <2>7. \A r \in Recorded : r.id \in Nat
    BY RecordedIds
  <2>8. /\ s \in Seq(Recorded) /\ Len(s) > 0 /\ s[1] = p[c] /\ Ordered(s, p[c].id)
        /\ \A e : e \in ToSet(s) <=>
             /\ e \in ToSet(p)
             /\ p[c].id <= e.id \/ (p[c].ref <= e.id /\ e.kind # "system")
    <3>1. p[f].id = p[c].ref
      BY <2>1, <2>5
    <3> HIDE DEF s
    <3> QED  BY <1>1, <1>2, <2>1, <2>3, <2>6, <2>7, <3>1, HeadedIs, ZenonT(60)
  <2> HIDE DEF s
  <2>9. ASSUME NEW e PROVE e \in ToSet(s) <=> e.id \in Chosen(t, x) /\ e = t[e.id]
    BY <1>3, <2>1, <2>8 DEF Chosen, C
  <2> QED  BY <2>1, <2>8, <2>9 DEF Holds, p, s, C
<1> QED  BY <1>5, <1>6

\* Leaving entries out leaves the ids out.
LEMMA OnlyHolds ==
  ASSUME NEW t, NEW s, NEW ids, NEW more, NEW h, NEW T,
         Holds(s, t, ids), Ordered(s, h), more \subseteq ids,
         \A y \in ids : t[y].id = y => (t[y] \in T <=> y \in more)
  PROVE  Holds(Only(s, T), t, more) /\ Ordered(Only(s, T), h)
<1> DEFINE u == Only(s, T)
<1>1. s \in Seq(Recorded) /\ \A e : e \in ToSet(s) <=> e.id \in ids /\ e = t[e.id]
  BY DEF Holds
<1>2. /\ u \in Seq(Recorded) /\ Ordered(u, h)
      /\ \A e : e \in ToSet(u) <=> e \in ToSet(s) /\ e \in T
  BY <1>1, OnlyOrdered
<1> HIDE DEF u
<1>3. ASSUME NEW e PROVE e \in ToSet(u) <=> e.id \in more /\ e = t[e.id]
  <2>1. ASSUME e \in ToSet(u) PROVE e.id \in more /\ e = t[e.id]
    <3>1. e.id \in ids /\ e = t[e.id] /\ e \in T
      BY <1>1, <1>2, <2>1
    <3>2. t[e.id].id = e.id /\ t[e.id] \in T
      BY <3>1
    <3> QED  BY <3>1, <3>2
  <2>2. ASSUME e.id \in more, e = t[e.id] PROVE e \in ToSet(u)
    <3>1. e.id \in ids /\ t[e.id].id = e.id
      BY <2>2
    <3>2. e \in T /\ e \in ToSet(s)
      BY <1>1, <2>2, <3>1
    <3> QED  BY <1>2, <3>2
  <2> QED  BY <2>1, <2>2
<1> QED  BY <1>2, <1>3 DEF Holds, u

LEMMA TargetsOf ==
  ASSUME NEW t, NEW s, NEW ids, Holds(s, t, ids), \A y \in ids : t[y].id = y
  PROVE  /\ Targets(s) = {t[z].ref : z \in {y \in ids : t[y].kind = "context_edit"}}
         /\ {e.id : e \in ToSet(s)} = ids
<1>1. s \in Seq(Recorded) /\ \A e : e \in ToSet(s) <=> e.id \in ids /\ e = t[e.id]
  BY DEF Holds
<1>2. ToSet(s) = {s[i] : i \in DOMAIN s}
  BY DEF ToSet
<1>3. \A y \in ids : t[y] \in ToSet(s)
  BY <1>1
<1>4. Targets(s) = {e.ref : e \in {d \in ToSet(s) : d.kind = "context_edit"}}
  BY <1>2 DEF Targets
<1> QED  BY <1>1, <1>3, <1>4

\* The entries that yield a message.
LEMMA RecordsIs ==
  ASSUME NEW t, TreeSound(t), NEW x \in 0 .. Len(t), Keeps(t, x)
  PROVE  /\ Holds(Records(ActivePath(t, x)), t, Told(t, x))
         /\ Ordered(Records(ActivePath(t, x)), Speaker(t, x))
         /\ Removed(ActivePath(t, x)) = Struck(t, x)
<1> DEFINE p == ActivePath(t, x)
           s == Selected(p)
           removed == Removed(p)
           T == {e \in ToSet(s) : \/ e.kind \in Messages \cup {"system"} /\ e.id \notin removed
                                  \/ e.kind = "compaction" /\ e.id = s[1].id}
<1>1. /\ Holds(s, t, Chosen(t, x)) /\ Ordered(s, Speaker(t, x))
      /\ Speaker(t, x) # 0 => Len(s) > 0 /\ s[1].id = Speaker(t, x)
  BY SelectedIs
<1>2. Chosen(t, x) \subseteq Line(t, x)
  BY DEF Chosen
<1>3. \A y \in Chosen(t, x) : t[y].id = y /\ y \in 1 .. Len(t)
  BY <1>2, LineBounds, SoundPoints
<1>4. removed = Struck(t, x)
  BY <1>1, <1>3, TargetsOf DEF Removed, Struck
<1>5. Records(p) = Only(s, T)
  BY DEF Records
<1>6. \A y \in Chosen(t, x) : t[y] \in ToSet(s)
  BY <1>1, <1>3 DEF Holds
<1>7. ASSUME NEW y \in Chosen(t, x)
      PROVE  t[y].kind = "compaction" /\ y = s[1].id <=> y = Speaker(t, x)
  <2>1. CASE OfKind(t, x, {"compaction"}) = {}
    <3>1. Speaker(t, x) = 0 /\ y # 0
      BY <1>3, <2>1, SpeakerIs, SoundPoints
    <3>2. t[y].kind # "compaction"
      BY <1>2, <2>1 DEF OfKind
    <3> QED  BY <3>1, <3>2
  <2>2. CASE OfKind(t, x, {"compaction"}) # {}
    <3>1. Speaker(t, x) \in OfKind(t, x, {"compaction"})
      BY <2>2, SpeakerIs
    <3>2. Speaker(t, x) \in 1 .. x /\ t[Speaker(t, x)].kind = "compaction"
      BY <3>1, LineBounds DEF OfKind
    <3>3. s[1].id = Speaker(t, x)
      BY <1>1, <3>2
    <3> QED  BY <3>2, <3>3
  <2> QED  BY <2>1, <2>2
<1> HIDE DEF s, p, removed
<1>8. \A y \in Chosen(t, x) : t[y].id = y => (t[y] \in T <=> y \in Told(t, x))
  BY <1>4, <1>6, <1>7 DEF Told
<1>9. Told(t, x) \subseteq Chosen(t, x)
  BY DEF Told
<1> HIDE DEF T
<1>10. Holds(Only(s, T), t, Told(t, x)) /\ Ordered(Only(s, T), Speaker(t, x))
  BY <1>1, <1>8, <1>9, OnlyHolds
<1> QED  BY <1>4, <1>5, <1>10 DEF p, removed

\* The messages shown to the model, and their order: the compaction that
\* speaks, then by id.
LEMMA ContextIs ==
  ASSUME NEW t, TreeSound(t), NEW x \in 0 .. Len(t), Keeps(t, x)
  PROVE  /\ Holds(Context(ActivePath(t, x)), t, ShownOn(t, x))
         /\ Ordered(Context(ActivePath(t, x)), Speaker(t, x))
<1> DEFINE r == Records(ActivePath(t, x))
           T == {e \in ToSet(r) : e.kind # "system"}
<1>1. Holds(r, t, Told(t, x)) /\ Ordered(r, Speaker(t, x))
  BY RecordsIs
<1>2. Context(ActivePath(t, x)) = Only(r, T)
  BY DEF Context, WithoutSystem
<1> HIDE DEF r
<1>3. \A y \in Told(t, x) : t[y].id = y => (t[y] \in T <=> y \in ShownOn(t, x))
  BY <1>1 DEF ShownOn, Holds
<1>4. ShownOn(t, x) \subseteq Told(t, x)
  BY DEF ShownOn
<1> HIDE DEF T
<1>5. Holds(Only(r, T), t, ShownOn(t, x)) /\ Ordered(Only(r, T), Speaker(t, x))
  BY <1>1, <1>3, <1>4, OnlyHolds
<1> QED  BY <1>2, <1>5

LEMMA ShownBounds ==
  ASSUME NEW t, TreeSound(t), NEW x \in 0 .. Len(t)
  PROVE  /\ ShownOn(t, x) \subseteq Told(t, x) /\ Told(t, x) \subseteq Chosen(t, x)
         /\ Chosen(t, x) \subseteq Line(t, x) /\ Line(t, x) \subseteq 1 .. x
         /\ \A y \in Line(t, x) : y \in 1 .. Len(t) /\ y \in Nat /\ t[y].id = y
                                  /\ t[y] \in Recorded
<1>1. Line(t, x) \subseteq 1 .. x /\ Line(t, x) \subseteq 1 .. Len(t)
  BY LineBounds
<1>2. \A y \in Line(t, x) : y \in 1 .. Len(t) /\ y \in Nat /\ t[y].id = y /\ t[y] \in Recorded
  BY <1>1, SoundPoints
<1> QED  BY <1>1, <1>2 DEF ShownOn, Told, Chosen

LEMMA ShownIs ==
  ASSUME NEW t, TreeSound(t), NEW x \in 0 .. Len(t), Keeps(t, x)
  PROVE  Shown(ActivePath(t, x)) = ShownOn(t, x)
<1>1. Holds(Context(ActivePath(t, x)), t, ShownOn(t, x))
  BY ContextIs
<1>2. \A y \in ShownOn(t, x) : t[y].id = y
  BY ShownBounds
<1> QED  BY <1>1, <1>2, TargetsOf DEF Shown

LEMMA EditedIs ==
  ASSUME NEW t, TreeSound(t), NEW x \in 0 .. Len(t)
  PROVE  Targets(ActivePath(t, x)) = Edited(t, x)
<1>1. Holds(ActivePath(t, x), t, Line(t, x))
  BY PathSeq, PathIs DEF Holds
<1>2. \A y \in Line(t, x) : t[y].id = y
  BY ShownBounds
<1> QED  BY <1>1, <1>2, TargetsOf DEF Edited, OfKind

-----------------------------------------------------------------------------
(* What was true of an entry when it was made *)

EditFact(t, x) ==
  t[x].kind = "context_edit" =>
    t[x].ref \in OfKind(t, x, Messages \ {"branch_summary"})

\* What can be recorded between an answer and its last result.
Between == {"toolResult", "custom", "change", "context_edit"}

\* On the path to x nothing else is after the answer a.
Answering(t, x, a) ==
  /\ a \in OfKind(t, x, {"assistant"})
  /\ \A y \in Line(t, x) : a < y => t[y].kind \in Between

ResultFact(t, x) == t[x].kind = "toolResult" => Answering(t, x, t[x].ref)

\* A compaction starts the kept part at a message that no edit removes and
\* no call is missed by; it carries the system messages, and speaks of all
\* that is before, except what was edited out.
CompactionFact(t, cov, car, x) ==
  t[x].kind = "compaction" =>
    /\ t[x].ref \in OfKind(t, x, Messages \ {"toolResult"}) \ Edited(t, x)
    /\ car[x] = OfKind(t, x, {"system"})
    /\ \A y \in OfKind(t, x, Messages) : y < t[x].ref => y \in cov[x] \cup Edited(t, x)
    /\ \A i \in OfKind(t, x, {"context_edit"}) : t[i].ref \in cov[x] =>
         \E k \in Line(t, x) \ {x} :
           t[i].ref \in cov[k] /\ (k < i \/ t[k].kind = "branch_summary")

BranchFact(t, cov, x) ==
  t[x].kind = "branch_summary" =>
    /\ t[x].ref \in 1 .. x - 1
    /\ \A y \in OfKind(t, t[x].ref, Messages) :
         y \in Line(t, x) \cup cov[x] \cup Edited(t, t[x].ref)

Facts(t, cov, car, x) ==
  /\ EditFact(t, x) /\ ResultFact(t, x)
  /\ CompactionFact(t, cov, car, x) /\ BranchFact(t, cov, x)

\* Only summaries speak of others, only compactions carry.
Bare(t, cov, car) ==
  \A x \in Ids :
    /\ x \notin 1 .. Len(t) \/ t[x].kind \notin {"compaction", "branch_summary"} => cov[x] = {}
    /\ x \notin 1 .. Len(t) \/ t[x].kind # "compaction" => car[x] = {}

Sound(t, cov, car) ==
  /\ TreeSound(t) /\ Bare(t, cov, car)
  /\ \A x \in 1 .. Len(t) : Facts(t, cov, car, x)

-----------------------------------------------------------------------------
(* What follows for every path *)

LEMMA SoundFacts ==
  ASSUME NEW t, NEW cov, NEW car, Sound(t, cov, car), NEW x \in 0 .. Len(t)
  PROVE  /\ TreeSound(t) /\ Keeps(t, x)
         /\ \A y \in Line(t, x) : Facts(t, cov, car, y)
<1>1. TreeSound(t)
  BY DEF Sound
<1>2. \A y \in Line(t, x) : Facts(t, cov, car, y)
  BY <1>1, ShownBounds DEF Sound
<1>3. ASSUME NEW c \in OfKind(t, x, {"compaction"}) PROVE t[c].ref \in Line(t, c) \ {c}
  <2>1. c \in Line(t, x) /\ t[c].kind = "compaction"
    BY DEF OfKind
  <2>2. t[c].ref \in OfKind(t, c, Messages \ {"toolResult"})
    BY <1>2, <2>1 DEF Facts, CompactionFact
  <2> QED  BY <2>1, <2>2 DEF OfKind, Messages
<1> QED  BY <1>1, <1>2, <1>3 DEF Keeps

LEMMA StruckEdited ==
  ASSUME NEW t, TreeSound(t), NEW x \in 0 .. Len(t)
  PROVE  /\ Struck(t, x) \subseteq Edited(t, x)
         /\ \A y \in Line(t, x) : Line(t, y) \subseteq Line(t, x)
                                  /\ Edited(t, y) \subseteq Edited(t, x)
<1>1. ASSUME NEW y \in Line(t, x) PROVE Line(t, y) \subseteq Line(t, x)
  BY LineCut
<1> QED  BY <1>1 DEF Struck, Edited, OfKind, Chosen

\* A removed message stays hidden.
LEMMA EditedHidden ==
  ASSUME NEW t, NEW cov, NEW car, Sound(t, cov, car), NEW x \in 0 .. Len(t),
         NEW i \in OfKind(t, x, {"context_edit"})
  PROVE  t[i].ref \notin ShownOn(t, x)
<1> DEFINE y == t[i].ref
           c == Speaker(t, x)
<1>1. TreeSound(t) /\ i \in Line(t, x) /\ t[i].kind = "context_edit"
  BY SoundFacts DEF OfKind
<1>2. y \in Line(t, i) /\ t[y].kind \in Messages
  BY <1>1, SoundFacts DEF Facts, EditFact, OfKind
<1>3. y \in Line(t, x) /\ y <= i /\ y # i
  BY <1>1, <1>2, LineCut DEF Messages
<1>4. y \in Nat /\ i \in Nat /\ y < i /\ y # 0
  BY <1>1, <1>3, ShownBounds
<1> SUFFICES ASSUME y \in ShownOn(t, x) PROVE FALSE
  OBVIOUS
<1>5. y # c
  <2>1. CASE OfKind(t, x, {"compaction"}) = {}
    BY <1>1, <1>4, <2>1, SpeakerIs
  <2>2. CASE OfKind(t, x, {"compaction"}) # {}
    BY <1>1, <1>2, <2>2, SpeakerIs DEF OfKind, Messages
  <2> QED  BY <2>1, <2>2
<1> HIDE DEF y, c
<1>6. y \notin Struck(t, x) /\ y \in Chosen(t, x)
  BY <1>5 DEF ShownOn, Told, c
<1>7. i \notin Chosen(t, x)
  BY <1>1, <1>6 DEF Struck, y
<1>8. ~(c <= i) /\ ~(t[c].ref <= i)
  BY <1>1, <1>7 DEF Chosen, c
<1>9. c <= y \/ t[c].ref <= y
  BY <1>6 DEF Chosen, c
<1>10. c # 0
  BY <1>4, <1>8
<1>11. c \in Line(t, x) /\ t[c].ref \in Line(t, c)
  <2>1. c \in OfKind(t, x, {"compaction"})
    BY <1>1, <1>10, SpeakerIs DEF c
  <2> QED  BY <2>1, SoundFacts DEF Keeps, OfKind
<1>12. c \in Nat /\ t[c].ref \in Nat
  <2>1. t[c].ref \in Line(t, x)
    BY <1>1, <1>11, StruckEdited
  <2> QED  BY <1>1, <1>11, <2>1, ShownBounds
<1> QED  BY <1>4, <1>8, <1>9, <1>12

LEMMA SpeakerShown ==
  ASSUME NEW t, TreeSound(t), NEW x \in 0 .. Len(t), Speaker(t, x) # 0
  PROVE  /\ Speaker(t, x) \in ShownOn(t, x) /\ Speaker(t, x) \in Line(t, x)
         /\ t[Speaker(t, x)].kind = "compaction"
<1> DEFINE c == Speaker(t, x)
<1>1. c \in OfKind(t, x, {"compaction"})
  BY SpeakerIs
<1>2. c \in Line(t, x) /\ t[c].kind = "compaction"
  BY <1>1 DEF OfKind
<1>3. c <= c
  BY <1>2, ShownBounds
<1>4. c \in Chosen(t, x)
  BY <1>2, <1>3 DEF Chosen
<1> QED  BY <1>2, <1>4 DEF Told, ShownOn

\* A message that is not shown was removed, or is before what the compaction
\* keeps.
LEMMA NotShown ==
  ASSUME NEW t, NEW cov, NEW car, Sound(t, cov, car), NEW x \in 0 .. Len(t),
         NEW y \in OfKind(t, x, Messages),
         y \notin ShownOn(t, x), y \notin Edited(t, x)
  PROVE  LET c == Speaker(t, x)
         IN  c # 0 /\ y \in OfKind(t, c, Messages) /\ y < t[c].ref /\ y < c
<1> DEFINE c == Speaker(t, x)
<1>1. TreeSound(t) /\ y \in Line(t, x) /\ t[y].kind \in Messages /\ t[y].kind # "system"
  BY SoundFacts DEF OfKind, Messages
<1>2. y \notin Chosen(t, x)
  <2>1. y \notin Struck(t, x)
    BY <1>1, StruckEdited
  <2>2. y \notin Told(t, x)
    BY <1>1 DEF ShownOn
  <2> QED  BY <1>1, <2>1, <2>2 DEF Told
<1>3. ~(c <= y) /\ ~(t[c].ref <= y)
  BY <1>1, <1>2 DEF Chosen
<1>4. y \in Nat
  BY <1>1, ShownBounds
<1>5. c # 0
  BY <1>3, <1>4
<1>6. c \in OfKind(t, x, {"compaction"}) /\ c \in Line(t, x) /\ c \in Nat
  <2>1. c \in OfKind(t, x, {"compaction"})
    BY <1>1, <1>5, SpeakerIs
  <2>2. c \in Line(t, x)
    BY <2>1 DEF OfKind
  <2> QED  BY <1>1, <2>1, <2>2, ShownBounds
<1>7. t[c].ref \in Nat
  <2>1. t[c].ref \in Line(t, c)
    BY <1>6, SoundFacts DEF Keeps
  <2>2. t[c].ref \in Line(t, x)
    BY <1>1, <1>6, <2>1, StruckEdited
  <2> QED  BY <1>1, <2>2, ShownBounds
<1>8. y \in Line(t, c)
  BY <1>1, <1>3, <1>4, <1>6, LineCut
<1> QED  BY <1>1, <1>3, <1>4, <1>5, <1>6, <1>7, <1>8 DEF OfKind

\* Every message of a path is shown, removed, or spoken of by the compaction
\* that is shown.
LEMMA Accounted ==
  ASSUME NEW t, NEW cov, NEW car, Sound(t, cov, car), NEW x \in 0 .. Len(t),
         NEW y \in OfKind(t, x, Messages),
         y \notin ShownOn(t, x), y \notin Edited(t, x)
  PROVE  LET c == Speaker(t, x)
         IN  c \in ShownOn(t, x) /\ y \in cov[c] /\ y < c
<1> DEFINE c == Speaker(t, x)
<1>1. c # 0 /\ y \in OfKind(t, c, Messages) /\ y < t[c].ref /\ y < c
  BY NotShown
<1>2. TreeSound(t)
  BY SoundFacts
<1>3. c \in ShownOn(t, x) /\ c \in Line(t, x) /\ t[c].kind = "compaction"
  BY <1>1, <1>2, SpeakerShown
<1> HIDE DEF c
<1>4. y \in cov[c] \cup Edited(t, c)
  BY <1>1, <1>3, SoundFacts DEF Facts, CompactionFact
<1>5. Edited(t, c) \subseteq Edited(t, x)
  BY <1>2, <1>3, StruckEdited
<1> QED  BY <1>1, <1>3, <1>4, <1>5 DEF c

\* The system messages of a path are all told, or carried by the compaction.
LEMMA SystemTold ==
  ASSUME NEW t, NEW cov, NEW car, Sound(t, cov, car), NEW x \in 0 .. Len(t)
  PROVE  UNION {IF t[y].kind = "system" THEN {y} ELSE car[y] : y \in Told(t, x)}
           = OfKind(t, x, {"system"})
<1> DEFINE c == Speaker(t, x)
           U == UNION {IF t[y].kind = "system" THEN {y} ELSE car[y] : y \in Told(t, x)}
<1>1. TreeSound(t)
  BY SoundFacts
<1>2. /\ Told(t, x) \subseteq Line(t, x)
      /\ \A y \in Line(t, x) : y \in Nat /\ y # 0 /\ y \in 1 .. Len(t) /\ y \in Ids
  BY <1>1, ShownBounds, RecordedIds
<1>3. \A y \in Line(t, x) : t[y].kind # "compaction" => car[y] = {}
  BY <1>1, <1>2 DEF Sound, Bare
<1>4. \A y \in Told(t, x) : t[y].kind = "compaction" => y = c
  BY DEF Told, Messages
<1>5. ASSUME NEW y \in Struck(t, x) PROVE t[y].kind # "system"
  <2>1. PICK z \in Chosen(t, x) : t[z].kind = "context_edit" /\ y = t[z].ref
    BY DEF Struck
  <2>2. z \in Line(t, x)
    BY <1>1, <2>1, ShownBounds
  <2>3. y \in OfKind(t, z, Messages \ {"branch_summary"})
    BY <2>1, <2>2, SoundFacts DEF Facts, EditFact
  <2> QED  BY <2>3 DEF OfKind, Messages
<1>6. \A y \in OfKind(t, x, {"system"}) : c <= y => y \in Told(t, x)
  BY <1>5 DEF OfKind, Chosen, Told
<1>7. CASE c = 0
  <2>1. \A y \in Told(t, x) : t[y].kind # "compaction"
    BY <1>2, <1>4, <1>7
  <2>2. \A y \in OfKind(t, x, {"system"}) : y \in Told(t, x)
    BY <1>2, <1>6, <1>7 DEF OfKind
  <2>3. \A y \in Told(t, x) : t[y].kind = "system" => y \in OfKind(t, x, {"system"})
    BY <1>2 DEF OfKind
  <2>4. \A y \in OfKind(t, x, {"system"}) : t[y].kind = "system"
    BY DEF OfKind
  <2> QED  BY <1>2, <1>3, <2>1, <2>2, <2>3, <2>4
<1>8. CASE c # 0
  <2>1. c \in ShownOn(t, x) /\ c \in Line(t, x) /\ t[c].kind = "compaction"
    BY <1>1, <1>8, SpeakerShown
  <2>2. car[c] = OfKind(t, c, {"system"})
    BY <2>1, SoundFacts DEF Facts, CompactionFact
  <2>3. c \in Told(t, x)
    BY <2>1 DEF ShownOn
  <2>4. Line(t, c) = {z \in Line(t, x) : z <= c}
    BY <1>1, <2>1, LineCut
  <2> HIDE DEF c
  <2>5. ASSUME NEW y \in U PROVE y \in OfKind(t, x, {"system"})
    <3>1. PICK z \in Told(t, x) : y \in IF t[z].kind = "system" THEN {z} ELSE car[z]
      OBVIOUS
    <3>2. CASE t[z].kind = "system"
      BY <1>2, <3>1, <3>2 DEF OfKind
    <3>3. CASE t[z].kind # "system"
      <4>1. y \in car[z] /\ z = c
        BY <1>2, <1>3, <1>4, <3>1, <3>3
      <4> QED  BY <2>2, <2>4, <4>1 DEF OfKind
    <3> QED  BY <3>2, <3>3
  <2>6. ASSUME NEW y \in OfKind(t, x, {"system"}) PROVE y \in U
    <3>1. y \in Line(t, x) /\ t[y].kind = "system" /\ y \in Nat /\ c \in Nat
      BY <1>2, <2>1 DEF OfKind
    <3>2. CASE c <= y
      <4>1. y \in Told(t, x)
        BY <1>6, <3>2
      <4> QED  BY <3>1, <4>1
    <3>3. CASE y <= c
      <4>1. y \in car[c]
        BY <2>2, <2>4, <3>1, <3>3 DEF OfKind
      <4> QED  BY <2>1, <2>3, <4>1
    <3> QED  BY <3>1, <3>2, <3>3
  <2> QED  BY <2>5, <2>6
<1> QED  BY <1>7, <1>8

\* A result that is shown comes with its answer, or that was removed, or the
\* kept part starts at an extension's message between them.
LEMMA ResultShown ==
  ASSUME NEW t, NEW cov, NEW car, Sound(t, cov, car), NEW x \in 0 .. Len(t),
         NEW y \in ShownOn(t, x), t[y].kind = "toolResult"
  PROVE  LET a == t[y].ref
             c == Speaker(t, x)
             f == t[c].ref
         IN  /\ a < y
             /\ \/ a \in ShownOn(t, x) \/ a \in Edited(t, x)
                \/ /\ c # 0 /\ f \in Line(t, x) /\ t[f].kind = "custom"
                   /\ a < f /\ f < y
<1> DEFINE a == t[y].ref
           c == Speaker(t, x)
           f == t[c].ref
<1>1. TreeSound(t) /\ y \in Line(t, x) /\ y \in Chosen(t, x)
  BY SoundFacts, ShownBounds
<1>2. /\ a \in Line(t, y) /\ t[a].kind = "assistant"
      /\ \A z \in Line(t, y) : a < z => t[z].kind \in Between
  BY <1>1, SoundFacts DEF Facts, ResultFact, Answering, OfKind
<1>3. a \in Line(t, x) /\ a <= y /\ a # y
  BY <1>1, <1>2, LineCut
<1>4. a \in Nat /\ y \in Nat /\ a < y
  BY <1>1, <1>3, ShownBounds
<1> SUFFICES ASSUME a \notin ShownOn(t, x), a \notin Edited(t, x)
             PROVE  /\ c # 0 /\ f \in Line(t, x) /\ t[f].kind = "custom"
                    /\ a < f /\ f < y
  BY <1>4
<1>5. c # 0 /\ a < f
  BY <1>2, <1>3, NotShown DEF OfKind, Messages
<1>6. c \in Line(t, x) /\ t[c].kind = "compaction"
  BY <1>1, <1>5, SpeakerShown
<1>7. f \in Line(t, c) /\ t[f].kind \in Messages \ {"toolResult"}
  BY <1>6, SoundFacts DEF Facts, CompactionFact, OfKind
<1>8. f \in Line(t, x) /\ f <= c /\ f \in Nat /\ c \in Nat
  BY <1>1, <1>6, <1>7, LineCut, ShownBounds
<1>9. f <= y
  BY <1>1, <1>4, <1>8 DEF Chosen
<1>10. f \in Line(t, y)
  BY <1>1, <1>8, <1>9, LineCut
<1>11. t[f].kind = "custom"
  BY <1>2, <1>5, <1>7, <1>10 DEF Between, Messages
<1>12. f # y
  BY <1>7
<1> QED  BY <1>4, <1>5, <1>8, <1>9, <1>11, <1>12

-----------------------------------------------------------------------------
(* The properties of one state *)

Holding == Sound(es, covers, carried) /\ leaf \in 1 .. Len(es)

LEMMA PathPlaces ==
  ASSUME NEW t, TreeSound(t), NEW x \in 0 .. Len(t), NEW p, p = ActivePath(t, x)
  PROVE  /\ p \in Seq(Recorded) /\ Len(p) \in Nat /\ DOMAIN p = 1 .. Len(p)
         /\ \A k \in 1 .. Len(p) : p[k].id \in Line(t, x) /\ p[k] = t[p[k].id] /\ p[k].id \in Nat
         /\ \A y \in Line(t, x) : \E k \in 1 .. Len(p) : p[k].id = y /\ p[k] = t[y]
         /\ \A i, j \in 1 .. Len(p) : i < j <=> p[i].id < p[j].id
<1>1. /\ p \in Seq(Recorded) /\ Len(p) \in Nat /\ DOMAIN p = 1 .. Len(p)
      /\ Line(t, x) = {p[k].id : k \in 1 .. Len(p)}
  BY PathSeq, PointsOf
<1>2. Ascends(p) /\ \A k \in 1 .. Len(p) : p[k].id \in 1 .. x /\ p[k] = t[p[k].id]
  BY PathClimbs DEF Climbs
<1>3. \A k \in 1 .. Len(p) : p[k].id \in Nat
  BY <1>2
<1>4. ASSUME NEW i \in 1 .. Len(p), NEW j \in 1 .. Len(p), p[i].id < p[j].id PROVE i < j
  <2>1. i # j
    BY <1>3, <1>4
  <2>2. ~(j < i)
    BY <1>2, <1>3, <1>4 DEF Ascends
  <2> QED  BY <1>1, <2>1, <2>2
<1>5. \A i, j \in 1 .. Len(p) : i < j => p[i].id < p[j].id
  BY <1>2 DEF Ascends
<1> QED  BY <1>1, <1>2, <1>3, <1>4, <1>5

LEMMA LeafFacts ==
  ASSUME Holding
  PROVE  /\ TreeSound(es) /\ leaf \in 0 .. Len(es) /\ Keeps(es, leaf) /\ leaf # 0
         /\ Shown(Path) = ShownOn(es, leaf) /\ Targets(Path) = Edited(es, leaf)
         /\ Len(es) \in Nat /\ DOMAIN es = 1 .. Len(es)
<1>1. TreeSound(es) /\ leaf \in 0 .. Len(es) /\ leaf # 0
  BY SoundPoints DEF Holding, Sound
<1> QED  BY <1>1, SoundFacts, SoundPoints, ShownIs, EditedIs DEF Holding, Path

LEMMA SystemOf ==
  ASSUME Holding
  PROVE  System(Path) = OfKind(es, leaf, {"system"})
<1> DEFINE p == ActivePath(es, leaf)
           r == Records(p)
<1>1. TreeSound(es) /\ leaf \in 0 .. Len(es) /\ Keeps(es, leaf)
  BY LeafFacts
<1>2. Holds(r, es, Told(es, leaf))
  BY <1>1, RecordsIs
<1>3. \A y \in Line(es, leaf) : es[y].id = y
  BY <1>1, ShownBounds
<1>4. Told(es, leaf) \subseteq Line(es, leaf)
  BY <1>1, ShownBounds
<1> HIDE DEF r, p
<1>6. ToSet(r) = {es[y] : y \in Told(es, leaf)}
  <2>1. \A e : e \in ToSet(r) <=> e.id \in Told(es, leaf) /\ e = es[e.id]
    BY <1>2 DEF Holds
  <2> QED  BY <1>3, <1>4, <2>1
<1>7. {IF e.kind = "system" THEN {e.id} ELSE carried[e.id] : e \in ToSet(r)}
        = {IF es[y].kind = "system" THEN {y} ELSE carried[y] : y \in Told(es, leaf)}
  <2>1. \A y \in Told(es, leaf) : es[y].id = y
    BY <1>3, <1>4
  <2> QED  BY <1>6, <2>1
<1>8. System(p) = OfKind(es, leaf, {"system"})
  <2>1. Sound(es, covers, carried)
    BY DEF Holding
  <2>2. UNION {IF es[y].kind = "system" THEN {y} ELSE carried[y] : y \in Told(es, leaf)}
          = OfKind(es, leaf, {"system"})
    BY <1>1, <2>1, SystemTold
  <2>3. System(p) = UNION {IF e.kind = "system" THEN {e.id} ELSE carried[e.id] : e \in ToSet(r)}
    BY DEF System, r
  <2> QED  BY <1>7, <2>2, <2>3
<1> QED  BY <1>8 DEF Path, p

LEMMA SystemHolds ==
  ASSUME Holding
  PROVE  SystemIsCurrent
<1> DEFINE p == ActivePath(es, leaf)
<1>1. TreeSound(es) /\ leaf \in 0 .. Len(es)
  BY LeafFacts
<1>2. \A y \in Line(es, leaf) : es[y].id = y
  BY <1>1, ShownBounds
<1>3. \A e : e \in ToSet(p) <=> e.id \in Line(es, leaf) /\ e = es[e.id]
  BY <1>1, PathIs
<1>4. System(p) = OfKind(es, leaf, {"system"})
  BY SystemOf DEF Path
<1> HIDE DEF p
<1>5. {e.id : e \in {f \in ToSet(p) : f.kind = "system"}} = OfKind(es, leaf, {"system"})
  <2>1. \A y \in Line(es, leaf) : es[y] \in ToSet(p)
    BY <1>2, <1>3
  <2> QED  BY <1>2, <1>3, <2>1 DEF OfKind
<1> QED  BY <1>4, <1>5 DEF SystemIsCurrent, Path, p

LEMMA EditsHold ==
  ASSUME Holding
  PROVE  EditsStick
<1> DEFINE p == Path
<1>1. TreeSound(es) /\ leaf \in 0 .. Len(es) /\ Shown(p) = ShownOn(es, leaf) /\ p = ActivePath(es, leaf)
  BY LeafFacts DEF Path
<1>0. Sound(es, covers, carried)
  BY DEF Holding
<1> HIDE DEF p
<1>2. /\ p \in Seq(Recorded) /\ Len(p) \in Nat /\ DOMAIN p = 1 .. Len(p)
      /\ \A k \in 1 .. Len(p) : p[k].id \in Line(es, leaf) /\ p[k] = es[p[k].id] /\ p[k].id \in Nat
      /\ \A y \in Line(es, leaf) : \E k \in 1 .. Len(p) : p[k].id = y /\ p[k] = es[y]
      /\ \A i, j \in 1 .. Len(p) : i < j <=> p[i].id < p[j].id
  BY <1>1, PathPlaces, SMTT(60)
<1>3. SUFFICES ASSUME NEW i \in 1 .. Len(p), p[i].kind = "context_edit"
               PROVE  /\ p[i].ref \notin Shown(p)
                      /\ \A j \in i + 1 .. Len(p) :
                           p[j].kind = "compaction" /\ p[i].ref \in covers[p[j].id] =>
                             \E k \in 1 .. j - 1 :
                               /\ p[i].ref \in covers[p[k].id]
                               /\ k < i \/ p[k].kind = "branch_summary"
  BY <1>2 DEF EditsStick, p
<1>4. p[i].id \in OfKind(es, leaf, {"context_edit"}) /\ p[i].ref = es[p[i].id].ref
  BY <1>2, <1>3 DEF OfKind
<1>5. p[i].ref \notin Shown(p)
  BY <1>0, <1>1, <1>4, EditedHidden
<1>6. ASSUME NEW j \in i + 1 .. Len(p), p[j].kind = "compaction", p[i].ref \in covers[p[j].id]
      PROVE  \E k \in 1 .. j - 1 : /\ p[i].ref \in covers[p[k].id]
                                   /\ k < i \/ p[k].kind = "branch_summary"
  <2> DEFINE I == p[i].id
             J == p[j].id
  <2>1. j \in 1 .. Len(p) /\ i < j /\ j \in Nat
    BY <1>2
  <2>2. I \in Line(es, leaf) /\ J \in Line(es, leaf) /\ I < J /\ I \in Nat /\ J \in Nat
        /\ es[J].kind = "compaction" /\ es[I].kind = "context_edit"
    BY <1>2, <1>3, <1>6, <2>1
  <2>3. Line(es, J) = {z \in Line(es, leaf) : z <= J}
    BY <1>1, <2>2, LineCut
  <2>4. I \in OfKind(es, J, {"context_edit"}) /\ es[I].ref \in covers[J]
    BY <1>4, <1>6, <2>2, <2>3 DEF OfKind
  <2>5. Facts(es, covers, carried, J)
    BY <1>0, <1>1, <2>2, SoundFacts
  <2>6. PICK k \in Line(es, J) \ {J} :
          es[I].ref \in covers[k] /\ (k < I \/ es[k].kind = "branch_summary")
    BY <2>2, <2>4, <2>5 DEF Facts, CompactionFact
  <2>7. PICK m \in 1 .. Len(p) : p[m].id = k /\ p[m] = es[k]
    BY <1>2, <2>3, <2>6
  <2>8. k < J
    <3>1. k \in Nat /\ k <= J /\ k # J
      BY <1>2, <2>3, <2>6, <2>7
    <3> QED  BY <2>2, <3>1
  <2> HIDE DEF I, J
  <2>9. m < j /\ (m < i \/ p[m].kind = "branch_summary")
    BY <1>2, <2>1, <2>6, <2>7, <2>8 DEF I, J
  <2>10. m \in 1 .. j - 1
    BY <1>2, <2>1, <2>7, <2>9
  <2> QED  BY <1>4, <2>6, <2>7, <2>9, <2>10 DEF I
<1> QED  BY <1>5, <1>6

LEMMA PathHolds ==
  ASSUME Holding
  PROVE  PathIsSpokenOf
<1> DEFINE p == Path
<1>1. /\ TreeSound(es) /\ leaf \in 0 .. Len(es) /\ p = ActivePath(es, leaf)
      /\ Shown(p) = ShownOn(es, leaf) /\ Targets(p) = Edited(es, leaf)
  BY LeafFacts DEF Path
<1>2. \A e : e \in ToSet(p) <=> e.id \in Line(es, leaf) /\ e = es[e.id]
  BY <1>1, PathIs
<1> HIDE DEF p
<1>3. ASSUME NEW e \in ToSet(p), e.kind \in Messages
      PROVE  e.id \in Spoken(Shown(p)) \cup Targets(p)
  <2>1. e.id \in OfKind(es, leaf, Messages)
    BY <1>2, <1>3 DEF OfKind
  <2>2. CASE e.id \in ShownOn(es, leaf) \/ e.id \in Edited(es, leaf)
    BY <1>1, <2>2 DEF Spoken
  <2>3. CASE e.id \notin ShownOn(es, leaf) /\ e.id \notin Edited(es, leaf)
    <3> DEFINE c == Speaker(es, leaf)
    <3>1. c \in ShownOn(es, leaf) /\ e.id \in covers[c]
      BY <1>1, <2>1, <2>3, Accounted DEF Holding
    <3> HIDE DEF c
    <3> QED  BY <1>1, <3>1 DEF Spoken
  <2> QED  BY <2>2, <2>3
<1> QED  BY <1>3 DEF PathIsSpokenOf, p

LEMMA BranchesHold ==
  ASSUME Holding
  PROVE  BranchIsSummarised
<1>1. TreeSound(es) /\ DOMAIN es = 1 .. Len(es) /\ Len(es) \in Nat
  BY LeafFacts
<1> SUFFICES ASSUME NEW i \in 1 .. Len(es), es[i].kind = "branch_summary",
                    NEW e \in ToSet(ActivePath(es, es[i].ref)), e.kind \in Messages,
                    e.id \notin EntryIds(ActivePath(es, es[i].parent))
             PROVE  e.id \in covers[i] \cup Targets(ActivePath(es, es[i].ref))
  BY <1>1 DEF BranchIsSummarised
<1> DEFINE b == es[i].ref
<1>2. Facts(es, covers, carried, i)
  BY DEF Holding, Sound
<1>3. b \in 1 .. i - 1 /\ \A y \in OfKind(es, b, Messages) :
                            y \in Line(es, i) \cup covers[i] \cup Edited(es, b)
  BY <1>2 DEF Facts, BranchFact
<1>4. b \in 0 .. Len(es) /\ b < i /\ b \in Nat /\ i \in Nat
  BY <1>1, <1>3
<1>5. e.id \in Line(es, b) /\ e = es[e.id]
  BY <1>1, <1>4, PathIs
<1>6. e.id \in 1 .. b
  BY <1>1, <1>4, <1>5, LineBounds
<1>7. e.id # i
  BY <1>4, <1>6
<1>8. Line(es, i) = Line(es, es[i].parent) \cup {i}
  BY <1>1, LineParent
<1>9. e.id \in OfKind(es, b, Messages)
  BY <1>5 DEF OfKind
<1>10. e.id \notin Line(es, i)
  BY <1>7, <1>8 DEF Line
<1>11. Targets(ActivePath(es, b)) = Edited(es, b)
  BY <1>1, <1>4, EditedIs
<1> QED  BY <1>3, <1>9, <1>10, <1>11

LEMMA ResultsHold ==
  ASSUME Holding
  PROVE  ResultsKeepCalls
<1> DEFINE p == Path
           c == Context(p)
           h == Speaker(es, leaf)
<1>0. Sound(es, covers, carried)
  BY DEF Holding
<1>1. /\ TreeSound(es) /\ leaf \in 0 .. Len(es) /\ p = ActivePath(es, leaf) /\ Keeps(es, leaf)
      /\ Shown(p) = ShownOn(es, leaf) /\ Targets(p) = Edited(es, leaf)
  BY LeafFacts DEF Path
<1>2. Holds(c, es, ShownOn(es, leaf)) /\ Ordered(c, h)
  BY <1>1, ContextIs
<1>3. /\ c \in Seq(Recorded) /\ DOMAIN c = 1 .. Len(c) /\ Len(c) \in Nat
      /\ ToSet(c) = {c[i] : i \in 1 .. Len(c)}
  BY <1>2, PointsOf DEF Holds, ToSet
<1>4. \A y \in ShownOn(es, leaf) : es[y].id = y /\ y \in Nat /\ y # 0
  BY <1>1, ShownBounds, RecordedIds
<1>5. \A i \in 1 .. Len(c) : c[i].id \in ShownOn(es, leaf) /\ c[i] = es[c[i].id]
  BY <1>2, <1>3 DEF Holds
<1>h. h = 0 \/ es[h].kind = "compaction"
  BY <1>1, SpeakerShown
<1> HIDE DEF p, c, h
<1>6. SUFFICES ASSUME NEW j \in 1 .. Len(c), c[j].kind = "toolResult",
                      c[j].ref \notin Targets(p), ~KeptFromBetween(p, c[j].ref, c[j].id)
               PROVE  \E i \in 1 .. j - 1 : c[i].id = c[j].ref
  BY <1>3 DEF ResultsKeepCalls, p, c
<1> DEFINE y == c[j].id
           a == c[j].ref
<1>7. y \in ShownOn(es, leaf) /\ es[y].kind = "toolResult" /\ a = es[y].ref
  BY <1>5, <1>6
<1>8. a < y /\ a \in ShownOn(es, leaf)
  <2> DEFINE f == es[h].ref
  <2>1. /\ a < y
        /\ \/ a \in ShownOn(es, leaf)
           \/ /\ h # 0 /\ f \in Line(es, leaf) /\ es[f].kind = "custom"
              /\ a < f /\ f < y
    BY <1>0, <1>1, <1>6, <1>7, ResultShown DEF h
  <2>2. CASE h # 0 /\ f \in Line(es, leaf) /\ es[f].kind = "custom" /\ a < f /\ f < y
    <3>1. es[f] \in ToSet(p) /\ es[f].id = f
      BY <1>1, <2>2, PathIs, ShownBounds
    <3>2. Compactions(p) # {} /\ p[LastCompaction(p)] = es[h]
      <4>1. OfKind(es, leaf, {"compaction"}) # {}
        BY <2>2 DEF h, Speaker
      <4> QED  BY <1>1, <4>1, LastSpeaks DEF h
    <3>3. KeptFromBetween(p, a, y)
      BY <2>2, <3>1, <3>2 DEF KeptFromBetween
    <3> QED  BY <1>6, <3>3
  <2> QED  BY <2>1, <2>2
<1>9. es[a] \in ToSet(c) /\ es[a].id = a
  BY <1>2, <1>4, <1>8 DEF Holds
<1>10. PICK i \in 1 .. Len(c) : c[i].id = a
  BY <1>3, <1>9
<1>11. a \in Nat /\ y \in Nat /\ y # h /\ i \in Nat /\ j \in Nat
  BY <1>3, <1>4, <1>7, <1>8, <1>h
<1>12. i # j /\ ~(j < i)
  BY <1>2, <1>8, <1>10, <1>11 DEF Ordered
<1>13. i \in 1 .. j - 1
  BY <1>11, <1>12
<1> QED  BY <1>10, <1>13

LEMMA EndHolds ==
  ASSUME Holding
  PROVE  TheEndIsKept
<1> DEFINE p == Path
           said == {i \in DOMAIN p : p[i].kind \in Messages} \
                   {i \in DOMAIN p : p[i].id \in Targets(p)}
           m == CHOOSE i \in said : \A j \in said : j <= i
<1>0. Sound(es, covers, carried)
  BY DEF Holding
<1>1. /\ TreeSound(es) /\ leaf \in 0 .. Len(es) /\ p = ActivePath(es, leaf) /\ leaf # 0
      /\ Shown(p) = ShownOn(es, leaf) /\ Targets(p) = Edited(es, leaf)
  BY LeafFacts DEF Path
<1>2. /\ p \in Seq(Recorded) /\ Len(p) \in Nat /\ DOMAIN p = 1 .. Len(p)
      /\ \A k \in 1 .. Len(p) : p[k].id \in Line(es, leaf) /\ p[k] = es[p[k].id] /\ p[k].id \in Nat
      /\ \A y \in Line(es, leaf) : \E k \in 1 .. Len(p) : p[k].id = y /\ p[k] = es[y]
      /\ \A i, j \in 1 .. Len(p) : i < j <=> p[i].id < p[j].id
  BY <1>1, PathPlaces, SMTT(60)
<1> HIDE DEF p
<1> SUFFICES ASSUME Last(p).kind = "compaction" PROVE p[m].id \in Shown(p)
  BY DEF TheEndIsKept, p
<1>3. Last(p) = es[leaf]
  <2> DEFINE w == ActivePath(es, es[leaf].parent)
  <2>1. w \in Seq(Recorded)
    BY <1>1, PathSeq
  <2>2. p = Append(w, es[leaf]) /\ es[leaf] \in Recorded
    BY <1>1, SoundPoints DEF TreeSound, Holding
  <2> HIDE DEF w
  <2>3. Len(p) = Len(w) + 1 /\ p[Len(w) + 1] = es[leaf]
    BY <2>1, <2>2, AppendPoints
  <2> QED  BY <2>3 DEF Last
<1>4. leaf \in Line(es, leaf) /\ es[leaf].kind = "compaction"
  BY <1>1, <1>3, LineBounds
<1>5. Facts(es, covers, carried, leaf)
  BY <1>0, <1>1, <1>4, SoundFacts
<1> DEFINE f == es[leaf].ref
<1>6. f \in Line(es, leaf) /\ es[f].kind \in Messages /\ f \notin Edited(es, leaf)
  BY <1>4, <1>5 DEF Facts, CompactionFact, OfKind
<1>7. PICK k \in 1 .. Len(p) : p[k].id = f /\ p[k] = es[f]
  BY <1>2, <1>6
<1>8. k \in said /\ said \subseteq 0 .. Len(p)
  BY <1>1, <1>2, <1>6, <1>7, SMTT(60)
<1>9. m \in said /\ \A j \in said : j <= m
  <2>1. \E i \in said : \A j \in said : j <= i
    <3> HIDE DEF said
    <3> QED  BY <1>2, <1>8, GreatestBelow
  <2> HIDE DEF said
  <2> QED  BY <2>1
<1> DEFINE y == p[m].id
<1>10. /\ m \in 1 .. Len(p) /\ y \in Line(es, leaf) /\ es[y].kind \in Messages
       /\ y \notin Edited(es, leaf) /\ p[m] = es[y]
  BY <1>1, <1>2, <1>9, ZenonT(60)
<1>11. f <= y
  <2>1. k <= m
    BY <1>8, <1>9
  <2> HIDE DEF m, f
  <2>2. k = m \/ k < m
    BY <1>2, <1>10, <2>1
  <2> QED  BY <1>2, <1>7, <1>10, <2>2, SMTT(60)
<1> HIDE DEF m, said, y, f
<1>12. Speaker(es, leaf) = leaf
  <2>1. leaf \in OfKind(es, leaf, {"compaction"})
    BY <1>4 DEF OfKind
  <2>2. leaf <= Speaker(es, leaf) /\ Speaker(es, leaf) \in OfKind(es, leaf, {"compaction"})
    BY <1>1, <2>1, SpeakerIs
  <2>3. Speaker(es, leaf) \in 1 .. leaf
    BY <1>1, <2>2, LineBounds DEF OfKind
  <2> QED  BY <1>1, <2>2, <2>3
<1>13. y \in Chosen(es, leaf)
  BY <1>10, <1>11, <1>12 DEF Chosen, f, Messages
<1>14. y \notin Struck(es, leaf)
  BY <1>1, <1>10, StruckEdited
<1> QED  BY <1>1, <1>10, <1>13, <1>14 DEF Told, ShownOn, Messages, y

-----------------------------------------------------------------------------
(* How a sound tree grows *)

\* An entry that a tree can take as its next.
Follows(t, e) == e \in Recorded /\ e.id = Len(t) + 1 /\ e.parent \in 0 .. Len(t)

LEMMA CountedRooted ==
  ASSUME NEW t \in Seq(Recorded),
         \A i \in 1 .. Len(t) : t[i].id = i /\ t[i].parent \in 0 .. i - 1
  PROVE  Rooted(t)
<1>1. Len(t) \in Nat /\ DOMAIN t = 1 .. Len(t)
  BY PointsOf
<1>2. ASSUME NEW i \in 1 .. Len(t), t[i].parent # NoId
      PROVE  \E j \in 1 .. i - 1 : t[j].id = t[i].parent
  <2>1. t[i].parent \in 1 .. i - 1 /\ t[i].parent \in 1 .. Len(t)
    BY <1>1, <1>2
  <2> QED  BY <1>1, <2>1
<1> QED  BY <1>1, <1>2 DEF Rooted

LEMMA FollowPoints ==
  ASSUME NEW t, TreeSound(t), NEW e, Follows(t, e)
  PROVE  LET u == Append(t, e)
             n == Len(t) + 1
         IN  /\ u \in Seq(Recorded) /\ Len(u) = n /\ n \in Nat /\ Len(t) \in Nat
             /\ u[n] = e /\ \A i \in 1 .. Len(t) : u[i] = t[i]
             /\ \A i \in 1 .. n : i \in 1 .. Len(t) \/ i = n
             /\ \A i \in 1 .. n : u[i].id = i /\ u[i].parent \in 0 .. i - 1
<1> DEFINE u == Append(t, e)
           n == Len(t) + 1
<1>1. /\ t \in Seq(Recorded) /\ Len(t) \in Nat
      /\ \A i \in 1 .. Len(t) : t[i].id = i /\ t[i].parent \in 0 .. i - 1
  BY SoundPoints
<1>2. u \in Seq(Recorded) /\ Len(u) = n /\ u[n] = e /\ \A i \in 1 .. Len(t) : u[i] = t[i]
  BY <1>1, AppendPoints DEF Follows
<1> HIDE DEF u
<1>3. \A i \in 1 .. n : i \in 1 .. Len(t) \/ i = n
  BY <1>1
<1>4. e.id = n /\ e.parent \in 0 .. n - 1
  BY <1>1 DEF Follows
<1> QED  BY <1>1, <1>2, <1>3, <1>4 DEF u

LEMMA TreeGrows ==
  ASSUME NEW t, TreeSound(t), NEW e, Follows(t, e)
  PROVE  LET u == Append(t, e)
         IN  /\ TreeSound(u)
             /\ \A x \in 0 .. Len(t) : Line(u, x) = Line(t, x)
             /\ Line(u, Len(t) + 1) = Line(t, e.parent) \cup {Len(t) + 1}
<1> DEFINE u == Append(t, e)
           n == Len(t) + 1
<1>1. /\ u \in Seq(Recorded) /\ Len(u) = n /\ n \in Nat /\ Len(t) \in Nat
      /\ u[n] = e /\ \A i \in 1 .. Len(t) : u[i] = t[i]
      /\ \A i \in 1 .. n : i \in 1 .. Len(t) \/ i = n
      /\ \A i \in 1 .. n : u[i].id = i /\ u[i].parent \in 0 .. i - 1
  BY FollowPoints
<1>2. t \in Seq(Recorded) /\ e \in Recorded /\ e.id = n /\ e.parent \in 0 .. Len(t)
  BY SoundPoints DEF Follows
<1>3. Rooted(t) /\ Rooted(u)
  BY <1>1, SoundRooted, CountedRooted
<1>4. \A x \in 1 .. Len(t) : x \in EntryIds(t)
  BY <1>2, SoundPoints DEF EntryIds
<1>5. \A r \in Recorded : r.id # NoId
  BY RecordedIds
<1>6. ASSUME NEW x \in 0 .. Len(t) PROVE ActivePath(u, x) = ActivePath(t, x)
  <2>1. x \in EntryIds(t) \cup {NoId}
    BY <1>1, <1>4
  <2> QED  BY <1>2, <1>3, <1>5, <2>1, PathStays
<1>7. ActivePath(u, n) = Append(ActivePath(t, e.parent), e)
  <2>1. e.parent # e.id
    BY <1>1, <1>2
  <2> QED  BY <1>2, <1>3, <1>5, <2>1, PathGrows
<1>8. \A i \in 1 .. Len(t) : t[i].parent \in 0 .. Len(t)
                              /\ ActivePath(t, i) = Append(ActivePath(t, t[i].parent), t[i])
  BY SoundPoints DEF TreeSound
<1> HIDE DEF u
<1>9. TreeSound(u)
  <2>1. ASSUME NEW i \in 1 .. Len(u)
        PROVE  ActivePath(u, i) = Append(ActivePath(u, u[i].parent), u[i])
    <3>1. CASE i \in 1 .. Len(t)
      BY <1>1, <1>6, <1>8, <3>1, SMTT(60)
    <3>2. CASE i = n
      BY <1>1, <1>2, <1>6, <1>7, <3>2
    <3> QED  BY <1>1, <2>1, <3>1, <3>2
  <2> QED  BY <1>1, <2>1 DEF TreeSound
<1>10. \A x \in 0 .. Len(t) : Line(u, x) = Line(t, x)
  BY <1>6 DEF Line
<1>11. Line(u, n) = Line(t, e.parent) \cup {n}
  <2>1. Line(u, n) = Line(u, u[n].parent) \cup {n}
    BY <1>1, <1>9, LineParent
  <2> QED  BY <1>1, <1>2, <1>10, <2>1
<1> QED  BY <1>9, <1>10, <1>11 DEF u

LEMMA KindsStay ==
  ASSUME NEW t, TreeSound(t), NEW e, Follows(t, e), NEW x \in 0 .. Len(t)
  PROVE  /\ \A K : OfKind(Append(t, e), x, K) = OfKind(t, x, K)
         /\ Edited(Append(t, e), x) = Edited(t, x)
<1> DEFINE u == Append(t, e)
<1>1. Line(u, x) = Line(t, x) /\ \A i \in 1 .. Len(t) : u[i] = t[i]
  BY TreeGrows, FollowPoints
<1>2. Line(t, x) \subseteq 1 .. Len(t)
  BY LineBounds
<1> HIDE DEF u
<1>3. \A K : OfKind(u, x, K) = OfKind(t, x, K)
  BY <1>1, <1>2 DEF OfKind
<1>4. \A y \in OfKind(t, x, {"context_edit"}) : u[y] = t[y]
  BY <1>1, <1>2 DEF OfKind
<1>5. Edited(u, x) = Edited(t, x)
  BY <1>3, <1>4 DEF Edited
<1> QED  BY <1>3, <1>5 DEF u

\* What was true of an entry stays true.
LEMMA FactsStay ==
  ASSUME NEW t, TreeSound(t), NEW e, Follows(t, e), NEW x \in 1 .. Len(t),
         NEW cov, NEW car, NEW cov2, NEW car2, Facts(t, cov, car, x),
         \A k \in 1 .. Len(t) : cov2[k] = cov[k] /\ car2[k] = car[k]
  PROVE  Facts(Append(t, e), cov2, car2, x)
<1> DEFINE u == Append(t, e)
<1>1. u[x] = t[x] /\ \A i \in 1 .. Len(t) : u[i] = t[i]
  BY FollowPoints
<1>2. x \in 0 .. Len(t) /\ x \in Nat /\ Len(t) \in Nat
  BY SoundPoints
<1>3. Line(u, x) = Line(t, x) /\ Line(t, x) \subseteq 1 .. Len(t)
  BY <1>2, TreeGrows, LineBounds
<1>4. /\ \A K : OfKind(u, x, K) = OfKind(t, x, K)
      /\ Edited(u, x) = Edited(t, x)
  BY <1>2, KindsStay
<1>5. \A b \in 1 .. x - 1 : /\ \A K : OfKind(u, b, K) = OfKind(t, b, K)
                            /\ Edited(u, b) = Edited(t, b)
  <2> TAKE b \in 1 .. x - 1
  <2>1. b \in 0 .. Len(t)
    BY <1>2
  <2> QED  BY <2>1, KindsStay
<1>6. \A K : OfKind(t, x, K) \subseteq 1 .. Len(t)
  BY <1>3 DEF OfKind
<1> HIDE DEF u
<1>7. EditFact(u, x)
  BY <1>1, <1>4 DEF Facts, EditFact
<1>8. ResultFact(u, x)
  <2>1. \A y \in Line(t, x) : u[y] = t[y]
    BY <1>1, <1>3
  <2> QED  BY <1>1, <1>3, <1>4, <2>1 DEF Facts, ResultFact, Answering
<1>9. CompactionFact(u, cov2, car2, x)
  <2> SUFFICES ASSUME u[x].kind = "compaction" PROVE CompactionFact(u, cov2, car2, x)
    BY DEF CompactionFact
  <2>1. /\ t[x].ref \in OfKind(t, x, Messages \ {"toolResult"}) \ Edited(t, x)
        /\ car[x] = OfKind(t, x, {"system"})
        /\ \A y \in OfKind(t, x, Messages) : y < t[x].ref => y \in cov[x] \cup Edited(t, x)
    BY <1>1 DEF Facts, CompactionFact
  <2>2. ASSUME NEW i \in OfKind(t, x, {"context_edit"}), t[i].ref \in cov[x]
        PROVE  \E k \in Line(t, x) \ {x} :
                 t[i].ref \in cov2[k] /\ (k < i \/ u[k].kind = "branch_summary")
    <3>1. PICK k \in Line(t, x) \ {x} :
            t[i].ref \in cov[k] /\ (k < i \/ t[k].kind = "branch_summary")
      BY <1>1, <2>2 DEF Facts, CompactionFact
    <3> QED  BY <1>1, <1>3, <3>1
  <2>3. \A i \in OfKind(t, x, {"context_edit"}) : u[i] = t[i]
    BY <1>1, <1>6
  <2> QED  BY <1>1, <1>3, <1>4, <2>1, <2>2, <2>3 DEF CompactionFact
<1>10. BranchFact(u, cov2, x)
  BY <1>1, <1>3, <1>4, <1>5 DEF Facts, BranchFact
<1> QED  BY <1>7, <1>8, <1>9, <1>10 DEF Facts, u

LEMMA SoundGrows ==
  ASSUME NEW t, NEW e, NEW cov, NEW car, NEW cov2, NEW car2,
         Sound(t, cov, car), Follows(t, e),
         \A k \in 1 .. Len(t) : cov2[k] = cov[k] /\ car2[k] = car[k],
         Facts(Append(t, e), cov2, car2, Len(t) + 1),
         Bare(Append(t, e), cov2, car2)
  PROVE  Sound(Append(t, e), cov2, car2)
<1> DEFINE u == Append(t, e)
<1>1. TreeSound(t)
  BY DEF Sound
<1>2. Len(u) = Len(t) + 1 /\ \A i \in 1 .. Len(t) + 1 : i \in 1 .. Len(t) \/ i = Len(t) + 1
  BY <1>1, FollowPoints
<1>3. \A x \in 1 .. Len(t) : Facts(u, cov2, car2, x)
  BY <1>1, FactsStay DEF Sound
<1>4. TreeSound(u)
  BY <1>1, TreeGrows
<1> HIDE DEF u
<1> QED  BY <1>2, <1>3, <1>4 DEF Sound, u

\* An entry that speaks of none and carries nothing.
LEMMA PlainGrows ==
  ASSUME NEW t, NEW e, NEW cov, NEW car, Sound(t, cov, car), Follows(t, e),
         Facts(Append(t, e), cov, car, Len(t) + 1)
  PROVE  Sound(Append(t, e), cov, car)
<1> DEFINE u == Append(t, e)
<1>1. TreeSound(t) /\ Bare(t, cov, car)
  BY DEF Sound
<1>2. /\ Len(u) = Len(t) + 1 /\ Len(t) \in Nat
      /\ \A i \in 1 .. Len(t) : u[i] = t[i]
      /\ \A i \in 1 .. Len(t) : i \in 1 .. Len(t) + 1
  BY <1>1, FollowPoints
<1> HIDE DEF u
<1>3. Bare(u, cov, car)
  BY <1>1, <1>2 DEF Bare
<1> QED  BY <1>3, SoundGrows DEF u

LEMMA NoFacts ==
  ASSUME NEW t, NEW cov, NEW car, NEW x,
         t[x].kind \notin {"context_edit", "toolResult", "compaction", "branch_summary"}
  PROVE  Facts(t, cov, car, x)
BY DEF Facts, EditFact, ResultFact, CompactionFact, BranchFact

\* What a path shows does not depend on the entries that are added elsewhere.
LEMMA ShownStays ==
  ASSUME NEW t, TreeSound(t), NEW e, Follows(t, e), NEW x \in 0 .. Len(t)
  PROVE  ShownOn(Append(t, e), x) = ShownOn(t, x)
<1> DEFINE u == Append(t, e)
           c == Speaker(t, x)
<1>1. /\ Line(u, x) = Line(t, x) /\ Line(t, x) \subseteq 1 .. Len(t)
      /\ \A i \in 1 .. Len(t) : u[i] = t[i]
  BY TreeGrows, FollowPoints, LineBounds
<1>2. OfKind(u, x, {"compaction"}) = OfKind(t, x, {"compaction"})
  BY KindsStay
<1> HIDE DEF u
<1>s. TreeSound(u) /\ x \in 0 .. Len(u) /\ Len(t) \in Nat
  <2>1. TreeSound(u) /\ Len(u) = Len(t) + 1 /\ Len(t) \in Nat
    BY TreeGrows, FollowPoints DEF u
  <2> QED  BY <2>1
<1>3. Speaker(u, x) = c
  <2> DEFINE K == OfKind(t, x, {"compaction"})
             d == Speaker(u, x)
  <2>1. /\ K = {} => c = 0
        /\ K # {} => c \in K /\ \A k \in K : k <= c
    BY SpeakerIs
  <2>2. /\ K = {} => d = 0
        /\ K # {} => d \in K /\ \A k \in K : k <= d
    BY <1>2, <1>s, SpeakerIs
  <2>3. K \subseteq 1 .. Len(t)
    BY <1>1 DEF OfKind
  <2> HIDE DEF K, c, d
  <2>4. CASE K # {}
    <3>1. c \in 1 .. Len(t) /\ d \in 1 .. Len(t) /\ c <= d /\ d <= c
      BY <2>1, <2>2, <2>3, <2>4
    <3>2. c = d
      BY <3>1, <1>s
    <3> QED  BY <3>2 DEF c, d
  <2>5. CASE K = {}
    <3>1. c = d
      BY <2>1, <2>2, <2>5
    <3> QED  BY <3>1 DEF c, d
  <2> QED  BY <2>4, <2>5
<1>4. CASE c = 0
  <2>1. Chosen(u, x) = Line(t, x) /\ Chosen(t, x) = Line(t, x)
    <3>1. \A y \in Line(t, x) : 0 <= y
      BY <1>1, SoundPoints
    <3> QED  BY <1>1, <1>3, <1>4, <3>1 DEF Chosen
  <2>2. Struck(u, x) = Struck(t, x)
    BY <1>1, <2>1 DEF Struck
  <2>3. Told(u, x) = Told(t, x)
    BY <1>1, <1>3, <2>1, <2>2 DEF Told
  <2> QED  BY <1>1, <2>1, <2>3 DEF ShownOn, Told, u
<1>5. CASE c # 0
  <2>1. c \in Line(t, x)
    BY <1>5, SpeakerShown
  <2>2. u[c] = t[c]
    BY <1>1, <2>1
  <2>3. Chosen(u, x) = Chosen(t, x)
    BY <1>1, <1>3, <2>2 DEF Chosen
  <2>4. Chosen(t, x) \subseteq 1 .. Len(t)
    BY <1>1 DEF Chosen
  <2>5. Struck(u, x) = Struck(t, x)
    BY <1>1, <2>3, <2>4 DEF Struck
  <2>6. Told(u, x) = Told(t, x)
    BY <1>1, <1>3, <2>3, <2>4, <2>5 DEF Told
  <2>7. Told(t, x) \subseteq 1 .. Len(t)
    BY <2>4 DEF Told
  <2> QED  BY <1>1, <2>6, <2>7 DEF ShownOn, u
<1> QED  BY <1>4, <1>5

-----------------------------------------------------------------------------
(* The invariant, and the actions that keep it *)

\* What a compaction will speak of and keep, and what it carries, ...
CompactionPlanned(t, m) ==
  LET s == ShownOn(t, m.leaf) IN
    /\ m.leaf \in 1 .. Len(t)
    /\ m.first \in s /\ t[m.first].kind \in Messages \ {"toolResult"}
    /\ m.asked = {y \in s : y < m.first \/ t[y].kind = "compaction"}
    /\ m.system = OfKind(t, m.leaf, {"system"})

\* ... and what the summary of a branch will speak of.
BranchPlanned(t, m) ==
  /\ m.leaf \in 1 .. Len(t) /\ m.target \in 1 .. Len(t)
  /\ m.asked = ShownOn(t, m.leaf) \ Line(t, m.target)

Planned ==
  /\ pc = "tools" => plan.calls \in 1 .. 2 /\ Answering(es, leaf, plan.leaf)
  /\ pc \in {"history", "prefix"} => CompactionPlanned(es, plan)
  /\ pc = "tree" => BranchPlanned(es, plan)

Plans == [leaf : Ids \cup {NoId}, target : Ids \cup {NoId}, first : Ids \cup {NoId},
          asked : SUBSET Ids, split : BOOLEAN, system : SUBSET Ids, calls : 0 .. 2]

Awaited ==
  /\ pc \in {"idle", "tools", "history", "prefix", "tree"} /\ plan \in Plans
  /\ pc = "idle" <=> plan = NoPlan

Remembered == covers \in [Ids -> SUBSET Ids] /\ carried \in [Ids -> SUBSET Ids]

\* Inductive invariant.
IInv == Holding /\ Remembered /\ Awaited /\ Planned

LEMMA Typed ==
  ASSUME IInv
  PROVE  TypeOK
<1>1. TreeSound(es) /\ leaf \in 1 .. Len(es)
  BY DEF IInv, Holding, Sound
<1>2. es \in Seq(Recorded) /\ DOMAIN es = 1 .. Len(es) /\ \A i \in 1 .. Len(es) : es[i].id = i
  BY <1>1, SoundPoints
<1>3. Recorded \subseteq EntriesOver(Ids)
  BY DEF Recorded
<1>4. es \in Seq(EntriesOver(Ids))
  BY <1>2, <1>3
<1> QED  BY <1>1, <1>2, <1>4 DEF TypeOK, IInv, Remembered, Awaited, Plans

LEMMA EntryFollows ==
  ASSUME TreeSound(es), Len(es) < MaxEntries,
         NEW parent \in 0 .. Len(es), NEW kind \in EntryKinds, NEW ref \in 0 .. Len(es)
  PROVE  Follows(es, Entry(parent, kind, ref))
<1> DEFINE e == Entry(parent, kind, ref)
<1>1. Len(es) \in Nat /\ MaxEntries \in Nat
  BY SoundPoints, BoundsAssumption
<1>2. e.id = Len(es) + 1 /\ e.parent = parent
  BY DEF Entry, Next1
<1>3. Len(es) + 1 \in Ids /\ parent \in Ids \cup {NoId} /\ ref \in Ids \cup {NoId}
  BY <1>1 DEF Ids
<1>4. e \in Recorded
  BY <1>3 DEF Entry, Next1, Recorded, EntriesOver
<1> QED  BY <1>2, <1>4 DEF Follows

LEMMA PlansStay ==
  ASSUME NEW t, TreeSound(t), NEW e, Follows(t, e), NEW m
  PROVE  /\ CompactionPlanned(t, m) => CompactionPlanned(Append(t, e), m)
         /\ BranchPlanned(t, m) => BranchPlanned(Append(t, e), m)
<1> DEFINE u == Append(t, e)
<1>1. Len(u) = Len(t) + 1 /\ Len(t) \in Nat /\ \A i \in 1 .. Len(t) : u[i] = t[i] /\ i \in 1 .. Len(u)
  <2>1. Len(u) = Len(t) + 1 /\ Len(t) \in Nat /\ \A i \in 1 .. Len(t) : u[i] = t[i]
    BY FollowPoints
  <2> HIDE DEF u
  <2> QED  BY <2>1
<1>2. ASSUME NEW x \in 1 .. Len(t)
      PROVE  /\ ShownOn(u, x) = ShownOn(t, x) /\ ShownOn(t, x) \subseteq 1 .. Len(t)
             /\ Line(u, x) = Line(t, x)
             /\ OfKind(u, x, {"system"}) = OfKind(t, x, {"system"})
  <2>1. x \in 0 .. Len(t)
    BY <1>1
  <2>2. ShownOn(t, x) \subseteq 1 .. Len(t)
    BY <2>1, ShownBounds
  <2> QED  BY <2>1, <2>2, ShownStays, KindsStay, TreeGrows
<1> HIDE DEF u
<1>3. ASSUME CompactionPlanned(t, m) PROVE CompactionPlanned(u, m)
  <2>1. m.leaf \in 1 .. Len(t)
    BY <1>3 DEF CompactionPlanned
  <2>2. \A y \in ShownOn(t, m.leaf) : u[y] = t[y]
    BY <1>1, <1>2, <2>1
  <2> QED  BY <1>1, <1>2, <1>3, <2>1, <2>2 DEF CompactionPlanned
<1>4. ASSUME BranchPlanned(t, m) PROVE BranchPlanned(u, m)
  BY <1>1, <1>2, <1>4 DEF BranchPlanned
<1> QED  BY <1>3, <1>4 DEF u

\* An answer stays the one that is being worked on.
LEMMA AnsweringGrows ==
  ASSUME NEW t, TreeSound(t), NEW e, Follows(t, e), e.kind \in Between,
         NEW a, Answering(t, e.parent, a)
  PROVE  Answering(Append(t, e), Len(t) + 1, a)
<1> DEFINE u == Append(t, e)
           n == Len(t) + 1
<1>1. /\ u[n] = e /\ n \in Nat /\ Len(t) \in Nat
      /\ \A i \in 1 .. Len(t) : u[i] = t[i]
  BY FollowPoints
<1>2. Line(u, n) = Line(t, e.parent) \cup {n}
  BY TreeGrows
<1>3. Line(t, e.parent) \subseteq 1 .. Len(t)
  BY LineBounds DEF Follows
<1> HIDE DEF u
<1>4. \A y \in Line(u, n) : y = n \/ (y \in Line(t, e.parent) /\ u[y] = t[y])
  BY <1>1, <1>2, <1>3
<1>5. a \in OfKind(u, n, {"assistant"})
  BY <1>1, <1>2, <1>3 DEF Answering, OfKind
<1>6. \A y \in Line(u, n) : a < y => u[y].kind \in Between
  BY <1>1, <1>4 DEF Answering
<1> QED  BY <1>5, <1>6 DEF Answering, u

\* An entry is added that needs nothing said of it.
LEMMA AddKeeps ==
  ASSUME IInv, NEW e, Follows(es, e), es' = Append(es, e), leaf' = Len(es) + 1,
         UNCHANGED <<pc, plan, history>>,
         pc = "tools" => e.parent = leaf /\ e.kind \in Between,
         Facts(Append(es, e), covers, carried, Len(es) + 1)
  PROVE  IInv'
<1>1. Sound(es, covers, carried) /\ TreeSound(es)
  BY DEF IInv, Holding, Sound
<1>2. Sound(Append(es, e), covers, carried)
  BY <1>1, PlainGrows
<1>3. Len(Append(es, e)) = Len(es) + 1 /\ Len(es) \in Nat
  BY <1>1, FollowPoints
<1>4. leaf' \in 1 .. Len(es')
  BY <1>3
<1>5. pc = "tools" => Answering(es', leaf', plan.leaf)
  BY <1>1, AnsweringGrows DEF IInv, Planned
<1>6. Planned'
  BY <1>1, <1>5, PlansStay DEF IInv, Planned
<1> QED  BY <1>2, <1>4, <1>6 DEF IInv, Holding, Remembered, Awaited, history

\* Prompts, checkpoints, messages of extensions, new settings.
LEMMA PlainAdd ==
  ASSUME IInv, NEW kind \in {"user", "system", "custom", "change"}, Add(kind, NoId),
         pc = "tools" => kind \in {"custom", "change"},
         UNCHANGED <<pc, plan, history>>
  PROVE  IInv'
<1> DEFINE e == Entry(leaf, kind, NoId)
<1>1. TreeSound(es) /\ leaf \in 0 .. Len(es) /\ NoId \in 0 .. Len(es)
  <2>1. TreeSound(es) /\ leaf \in 1 .. Len(es)
    BY DEF IInv, Holding, Sound
  <2> QED  BY <2>1, SoundPoints
<1>2. Len(es) < MaxEntries /\ es' = Append(es, e) /\ leaf' = Len(es) + 1
  BY DEF Add, Room, Next1
<1>3. Follows(es, e)
  BY <1>1, <1>2, EntryFollows DEF EntryKinds, MessageKinds
<1>4. Append(es, e)[Len(es) + 1] = e
  BY <1>1, <1>3, FollowPoints
<1>5. e.kind = kind /\ e.parent = leaf
  BY DEF Entry
<1> HIDE DEF e
<1>6. Facts(Append(es, e), covers, carried, Len(es) + 1)
  BY <1>4, <1>5, NoFacts
<1>7. pc = "tools" => e.parent = leaf /\ e.kind \in Between
  BY <1>5 DEF Between
<1> QED  BY <1>2, <1>3, <1>6, <1>7, AddKeeps

LEMMA ContextEditKeeps ==
  ASSUME IInv, ContextEdit
  PROVE  IInv'
<1>1. PICK d \in ToSet(ActivePath(es, leaf)) :
        d.kind \in Messages \ {"branch_summary"} /\ Add("context_edit", d.id)
  BY DEF ContextEdit
<1> DEFINE e == Entry(leaf, "context_edit", d.id)
           u == Append(es, e)
           n == Len(es) + 1
<1>2. TreeSound(es) /\ leaf \in 0 .. Len(es) /\ Len(es) \in Nat
  <2>1. TreeSound(es) /\ leaf \in 1 .. Len(es)
    BY DEF IInv, Holding, Sound
  <2> QED  BY <2>1, SoundPoints
<1>3. d.id \in Line(es, leaf) /\ d = es[d.id]
  BY <1>2, PathIs
<1>4. d.id \in 1 .. Len(es)
  BY <1>2, <1>3, LineBounds
<1>5. Len(es) < MaxEntries /\ es' = u /\ leaf' = n
  BY <1>1 DEF Add, Room, Next1
<1>6. Follows(es, e)
  <2>1. d.id \in 0 .. Len(es)
    BY <1>2, <1>4
  <2> QED  BY <1>2, <1>5, <2>1, EntryFollows DEF EntryKinds
<1>7. u[n] = e /\ \A i \in 1 .. Len(es) : u[i] = es[i]
  BY <1>2, <1>6, FollowPoints
<1>8. Line(u, n) = Line(es, leaf) \cup {n}
  <2>1. e.parent = leaf
    BY DEF Entry
  <2> QED  BY <1>2, <1>6, <2>1, TreeGrows
<1>9. e.kind = "context_edit" /\ e.ref = d.id /\ e.parent = leaf
  BY DEF Entry
<1> HIDE DEF e, u
<1>10. EditFact(u, n)
  <2>1. d.id \in Line(u, n) /\ u[d.id] = d
    BY <1>3, <1>4, <1>7, <1>8
  <2> QED  BY <1>1, <1>7, <1>9, <2>1 DEF EditFact, OfKind
<1>11. Facts(u, covers, carried, n)
  BY <1>7, <1>9, <1>10 DEF Facts, ResultFact, CompactionFact, BranchFact
<1>12. pc = "tools" => e.parent = leaf /\ e.kind \in Between
  BY <1>9 DEF Between
<1> QED  BY <1>5, <1>6, <1>11, <1>12, AddKeeps DEF ContextEdit, u

LEMMA AskedIds ==
  ASSUME NEW t, TreeSound(t), NEW x \in 1 .. Len(t)
  PROVE  /\ x \in 0 .. Len(t) /\ x \in Ids
         /\ ShownOn(t, x) \subseteq Ids /\ Line(t, x) \subseteq Ids
<1>1. Len(t) \in Nat /\ \A k \in 1 .. Len(t) : t[k] \in Recorded /\ t[k].id = k
  BY SoundPoints
<1>2. x \in 0 .. Len(t)
  BY <1>1
<1>3. \A k \in 1 .. Len(t) : k \in Ids
  BY <1>1 DEF Recorded
<1>4. ShownOn(t, x) \subseteq 1 .. Len(t) /\ Line(t, x) \subseteq 1 .. Len(t)
  BY <1>2, ShownBounds
<1> QED  BY <1>2, <1>3, <1>4

-----------------------------------------------------------------------------
(* Answers and their results *)

LEMMA AnswerGrows ==
  ASSUME NEW t, NEW cov, NEW car, Sound(t, cov, car), NEW e, Follows(t, e),
         e.kind = "assistant"
  PROVE  Sound(Append(t, e), cov, car) /\ Answering(Append(t, e), Len(t) + 1, Len(t) + 1)
<1> DEFINE u == Append(t, e)
           n == Len(t) + 1
<1>1. TreeSound(t)
  BY DEF Sound
<1>2. u[n] = e /\ Len(u) = n /\ n \in Nat /\ Len(t) \in Nat
  BY <1>1, FollowPoints
<1>3. Line(u, n) = Line(t, e.parent) \cup {n}
  BY <1>1, TreeGrows
<1>4. Line(t, e.parent) \subseteq 1 .. Len(t)
  BY <1>1, LineBounds DEF Follows
<1> HIDE DEF u
<1>5. Facts(u, cov, car, n)
  BY <1>2, NoFacts
<1>6. \A y \in Line(u, n) : ~(n < y)
  BY <1>2, <1>3, <1>4
<1>7. Answering(u, n, n)
  BY <1>2, <1>3, <1>6 DEF Answering, OfKind
<1> QED  BY <1>5, <1>7, PlainGrows DEF u

LEMMA AnswerKeeps ==
  ASSUME IInv, NEW n \in 0 .. 2, Answer(n)
  PROVE  IInv'
<1> DEFINE e == Entry(leaf, "assistant", NoId)
           m == [NoPlan EXCEPT !.leaf = Next1, !.calls = n]
           N == Len(es) + 1
<1>1. Sound(es, covers, carried) /\ TreeSound(es) /\ leaf \in 0 .. Len(es) /\ NoId \in 0 .. Len(es)
  <2>1. Sound(es, covers, carried) /\ TreeSound(es) /\ leaf \in 1 .. Len(es)
    BY DEF IInv, Holding, Sound
  <2> QED  BY <2>1, SoundPoints
<1>2. Len(es) < MaxEntries /\ es' = Append(es, e) /\ leaf' = N
      /\ UNCHANGED <<covers, carried>> /\ pc = "idle"
  BY DEF Answer, Add, Room, Next1, history
<1>3. Follows(es, e)
  BY <1>1, <1>2, EntryFollows DEF EntryKinds, MessageKinds
<1>4. e.kind = "assistant"
  BY DEF Entry
<1> HIDE DEF e
<1>5. Sound(es', covers, carried) /\ Answering(es', N, N)
  BY <1>1, <1>2, <1>3, <1>4, AnswerGrows
<1>6. Len(es') = N /\ N \in Nat /\ N \in Ids /\ N # 0
  <2>1. Len(es') = N /\ Len(es) \in Nat /\ MaxEntries \in Nat
    BY <1>1, <1>2, <1>3, FollowPoints, BoundsAssumption
  <2> QED  BY <1>2, <2>1 DEF Ids
<1>7. \/ n = 0 /\ UNCHANGED <<pc, plan>>
      \/ n # 0 /\ pc' = "tools" /\ plan' = m
  BY DEF Answer
<1>8. m.leaf = N /\ m.calls = n /\ m \in Plans /\ m # NoPlan
  <2>1. NoPlan \in Plans
    BY DEF NoPlan, Plans
  <2>2. m.leaf = N /\ m.calls = n
    BY DEF NoPlan, Next1
  <2>3. NoPlan.leaf = 0
    BY DEF NoPlan
  <2>4. m \in Plans
    BY <1>6, <2>1 DEF Plans, Next1
  <2> QED  BY <1>6, <2>2, <2>3, <2>4
<1> HIDE DEF m
<1>9. Awaited'
  BY <1>2, <1>7, <1>8 DEF IInv, Awaited
<1>10. Planned'
  BY <1>2, <1>5, <1>7, <1>8 DEF Planned
<1>11. Holding'
  BY <1>2, <1>5, <1>6 DEF Holding
<1> QED  BY <1>2, <1>9, <1>10, <1>11 DEF IInv, Remembered

LEMMA ResultGrows ==
  ASSUME NEW t, NEW cov, NEW car, Sound(t, cov, car), Len(t) < MaxEntries,
         NEW x \in 1 .. Len(t), NEW a, Answering(t, x, a), NEW e,
         e = [id |-> Len(t) + 1, parent |-> x, kind |-> "toolResult", ref |-> a]
  PROVE  /\ e \in Recorded
         /\ Sound(Append(t, e), cov, car) /\ Answering(Append(t, e), Len(t) + 1, a)
         /\ Len(Append(t, e)) = Len(t) + 1
<1> DEFINE u == Append(t, e)
           n == Len(t) + 1
<1>1. TreeSound(t) /\ Len(t) \in Nat /\ MaxEntries \in Nat /\ x \in 0 .. Len(t)
  <2>1. TreeSound(t) /\ Len(t) \in Nat /\ MaxEntries \in Nat
    BY SoundPoints, BoundsAssumption DEF Sound
  <2> QED  BY <2>1
<1>2. a \in Ids /\ x \in Ids
  <2>1. a \in Line(t, x)
    BY DEF Answering, OfKind
  <2> QED  BY <1>1, <2>1, AskedIds
<1>3. n \in Ids
  BY <1>1 DEF Ids
<1>4. e \in Recorded /\ Follows(t, e)
  <2>1. e \in Recorded
    BY <1>2, <1>3 DEF Recorded, EntriesOver, EntryKinds, MessageKinds
  <2> QED  BY <1>1, <2>1 DEF Follows
<1>5. e.kind = "toolResult" /\ e.parent = x /\ e.ref = a
  OBVIOUS
<1>6. u[n] = e /\ Len(u) = n
  BY <1>1, <1>4, FollowPoints
<1>7. Answering(u, n, a)
  BY <1>1, <1>4, <1>5, AnsweringGrows DEF Between
<1> HIDE DEF u
<1>8. Facts(u, cov, car, n)
  BY <1>5, <1>6, <1>7 DEF Facts, EditFact, ResultFact, CompactionFact, BranchFact
<1> QED  BY <1>4, <1>6, <1>7, <1>8, PlainGrows DEF u

LEMMA ResultsInTurn ==
  ASSUME NEW S, NEW t \in Seq(S), NEW n \in 1 .. 2, NEW r, \A i \in 1 .. n : r[i] \in S
  PROVE  LET f == [i \in 1 .. n |-> r[i]]
         IN  /\ n = 1 => t \o f = Append(t, r[1])
             /\ n = 2 => t \o f = Append(Append(t, r[1]), r[2])
<1> DEFINE f == [i \in 1 .. n |-> r[i]]
<1>1. ASSUME n = 1 PROVE t \o f = Append(t, r[1])
  <2>1. f = <<r[1]>> /\ r[1] \in S
    BY <1>1
  <2> HIDE DEF f
  <2> QED  BY <2>1, AppendIsConcat
<1>2. ASSUME n = 2 PROVE t \o f = Append(Append(t, r[1]), r[2])
  <2>1. r[1] \in S /\ r[2] \in S
    BY <1>2
  <2>2. f = <<r[1], r[2]>>
    BY <1>2
  <2>3. <<r[1], r[2]>> = Append(<<r[1]>>, r[2]) /\ <<r[1]>> \in Seq(S)
    BY <2>1
  <2> HIDE DEF f
  <2>4. t \o f = Append(t \o <<r[1]>>, r[2])
    BY <2>1, <2>2, <2>3, PrependAppend
  <2>5. t \o <<r[1]>> = Append(t, r[1])
    BY <2>1, AppendIsConcat
  <2> QED  BY <2>4, <2>5
<1> QED  BY <1>1, <1>2 DEF f

\* The results come under whatever was recorded since the answer.
LEMMA ReturnKeeps ==
  ASSUME IInv, ToolsReturn
  PROVE  IInv'
<1> DEFINE n == plan.calls
           a == plan.leaf
           N == Len(es)
           r == [i \in 1 .. 2 |-> [id |-> N + i, parent |-> IF i = 1 THEN leaf ELSE N + i - 1,
                                   kind |-> "toolResult", ref |-> a]]
           t1 == Append(es, r[1])
           t2 == Append(t1, r[2])
<1>1. /\ Sound(es, covers, carried) /\ TreeSound(es) /\ leaf \in 1 .. N
      /\ n \in 1 .. 2 /\ Answering(es, leaf, a)
  BY DEF IInv, Holding, Sound, ToolsReturn, Planned
<1>2. es \in Seq(Recorded) /\ N \in Nat /\ MaxEntries \in Nat
  BY <1>1, SoundPoints, BoundsAssumption
<1>3. /\ N + n <= MaxEntries /\ leaf' = N + n /\ pc' = "idle" /\ plan' = NoPlan
      /\ UNCHANGED <<covers, carried>>
  BY DEF ToolsReturn, history
<1>4. es' = es \o [i \in 1 .. n |-> r[i]]
  <2>1. es' = es \o [i \in 1 .. n |-> [id |-> N + i, parent |-> IF i = 1 THEN leaf ELSE N + i - 1,
                                       kind |-> "toolResult", ref |-> a]]
    BY DEF ToolsReturn
  <2>2. [i \in 1 .. n |-> [id |-> N + i, parent |-> IF i = 1 THEN leaf ELSE N + i - 1,
                           kind |-> "toolResult", ref |-> a]] = [i \in 1 .. n |-> r[i]]
    BY <1>1
  <2> QED  BY <2>1, <2>2
<1>5. /\ r[1] = [id |-> N + 1, parent |-> leaf, kind |-> "toolResult", ref |-> a]
      /\ r[2] = [id |-> N + 2, parent |-> N + 1, kind |-> "toolResult", ref |-> a]
  BY <1>2
<1> HIDE DEF r, N, n, a
<1>6. /\ r[1] \in Recorded /\ Sound(t1, covers, carried) /\ Len(t1) = N + 1
      /\ Answering(t1, N + 1, a)
  <2>1. Len(es) < MaxEntries
    BY <1>1, <1>2, <1>3 DEF N
  <2> QED  BY <1>1, <1>5, <2>1, ResultGrows DEF N
<1> HIDE DEF t1
<1>7. ASSUME n = 2
      PROVE  r[2] \in Recorded /\ Sound(t2, covers, carried) /\ Len(t2) = N + 2
  <2>1. Len(t1) < MaxEntries /\ Len(t1) \in 1 .. Len(t1) /\ Len(t1) + 1 = N + 2
    BY <1>2, <1>3, <1>6, <1>7
  <2>2. r[2] = [id |-> Len(t1) + 1, parent |-> Len(t1), kind |-> "toolResult", ref |-> a]
    BY <1>5, <1>6, <2>1
  <2>3. Answering(t1, Len(t1), a)
    BY <1>6
  <2> QED  BY <1>6, <2>1, <2>2, <2>3, ResultGrows
<1> HIDE DEF t2
<1>8. (n = 1 => es' = t1) /\ (n = 2 => es' = t2)
  <2>1. \A i \in 1 .. n : r[i] \in Recorded
    BY <1>1, <1>6, <1>7
  <2>2. /\ n = 1 => es \o [i \in 1 .. n |-> r[i]] = Append(es, r[1])
        /\ n = 2 => es \o [i \in 1 .. n |-> r[i]] = Append(Append(es, r[1]), r[2])
    BY <1>1, <1>2, <2>1, ResultsInTurn
  <2> QED  BY <1>4, <2>2 DEF t1, t2
<1>9. Sound(es', covers, carried) /\ Len(es') = N + n
  <2>1. CASE n = 1
    BY <1>6, <1>8, <2>1
  <2>2. CASE n = 2
    BY <1>7, <1>8, <2>2
  <2> QED  BY <1>1, <2>1, <2>2
<1>10. leaf' \in 1 .. Len(es')
  BY <1>1, <1>2, <1>3, <1>9
<1>11. NoPlan \in Plans
  BY DEF NoPlan, Plans
<1> QED  BY <1>3, <1>9, <1>10, <1>11 DEF IInv, Holding, Remembered, Awaited, Planned

-----------------------------------------------------------------------------
(* Compaction *)

LEMMA SpokenOf ==
  ASSUME NEW cov, NEW A
  PROVE  \A y : y \in A \cup UNION {cov[id] : id \in A} <=> y \in A \/ \E k \in A : y \in cov[k]
OBVIOUS

\* A summary of all that is before the first entry kept.
LEMMA CompactionGrows ==
  ASSUME NEW t, NEW cov, NEW car, Sound(t, cov, car), NEW m, CompactionPlanned(t, m),
         NEW e, Follows(t, e), e.parent = m.leaf, e.kind = "compaction", e.ref = m.first,
         NEW cov2, NEW car2,
         \A k \in 1 .. Len(t) : cov2[k] = cov[k] /\ car2[k] = car[k],
         \A y : y \in cov2[Len(t) + 1] <=> y \in m.asked \/ \E k \in m.asked : y \in cov[k],
         car2[Len(t) + 1] = m.system
  PROVE  CompactionFact(Append(t, e), cov2, car2, Len(t) + 1)
<1> DEFINE u == Append(t, e)
           n == Len(t) + 1
           x == m.leaf
           f == m.first
<1>1. TreeSound(t) /\ x \in 0 .. Len(t) /\ Len(t) \in Nat /\ n \in Nat
  <2>1. TreeSound(t) /\ x \in 1 .. Len(t)
    BY DEF Sound, CompactionPlanned
  <2> QED  BY <2>1, SoundPoints
<1>2. u[n] = e /\ \A i \in 1 .. Len(t) : u[i] = t[i]
  BY <1>1, FollowPoints
<1>3. Line(u, n) = Line(t, x) \cup {n} /\ Line(t, x) \subseteq 1 .. Len(t)
  BY <1>1, TreeGrows, LineBounds
<1>4. /\ f \in ShownOn(t, x) /\ t[f].kind \in Messages \ {"toolResult"}
      /\ m.asked = {y \in ShownOn(t, x) : y < f \/ t[y].kind = "compaction"}
      /\ m.system = OfKind(t, x, {"system"})
  BY DEF CompactionPlanned
<1>a. m.asked \subseteq ShownOn(t, x)
  BY <1>4
<1>b. ShownOn(t, x) \subseteq Line(t, x) /\ \A y \in Line(t, x) : y \in Nat
  BY <1>1, ShownBounds
<1> HIDE DEF u, n, x, f
<1>5. ASSUME NEW K, "compaction" \notin K PROVE OfKind(u, n, K) = OfKind(t, x, K)
  <2>1. \A y \in Line(t, x) : u[y] = t[y]
    BY <1>2, <1>3
  <2>2. u[n].kind = "compaction"
    BY <1>2
  <2> QED  BY <1>3, <1>5, <2>1, <2>2 DEF OfKind
<1>6. /\ OfKind(u, n, {"context_edit"}) = OfKind(t, x, {"context_edit"})
      /\ OfKind(u, n, {"system"}) = OfKind(t, x, {"system"})
      /\ OfKind(u, n, Messages) = OfKind(t, x, Messages)
      /\ OfKind(u, n, Messages \ {"toolResult"}) = OfKind(t, x, Messages \ {"toolResult"})
  BY <1>5 DEF Messages
<1>7. \A i \in OfKind(t, x, {"context_edit"}) : u[i] = t[i] /\ i \in Line(t, x) /\ i \in Nat
                                                 /\ t[i].kind = "context_edit"
  BY <1>2, <1>3, <1>b DEF OfKind
<1>8. Edited(u, n) = Edited(t, x)
  BY <1>6, <1>7 DEF Edited
<1>9. \A i \in OfKind(t, x, {"context_edit"}) : t[i].ref \notin ShownOn(t, x)
  BY <1>1, EditedHidden
<1>10. f \notin Edited(t, x)
  BY <1>4, <1>9 DEF Edited
<1>11. f \in OfKind(t, x, Messages \ {"toolResult"})
  BY <1>4, <1>b DEF OfKind
<1>12. ASSUME NEW y \in OfKind(t, x, Messages), y < f, y \notin Edited(t, x)
       PROVE  y \in cov2[n]
  <2>1. CASE y \in ShownOn(t, x)
    <3>1. y \in m.asked
      BY <1>4, <1>12, <2>1
    <3> QED  BY <3>1 DEF n
  <2>2. CASE y \notin ShownOn(t, x)
    <3> DEFINE c == Speaker(t, x)
    <3>1. c \in ShownOn(t, x) /\ y \in cov[c] /\ y < c
      BY <1>1, <1>12, <2>2, Accounted
    <3>2. c # 0
      <4>1. y \in Nat
        BY <1>b DEF OfKind
      <4> QED  BY <3>1, <4>1
    <3>3. t[c].kind = "compaction"
      BY <1>1, <3>2, SpeakerShown
    <3> HIDE DEF c
    <3>4. c \in m.asked
      BY <1>4, <3>1, <3>3
    <3> QED  BY <3>1, <3>4 DEF n
  <2> QED  BY <2>1, <2>2
<1>13. ASSUME NEW i \in OfKind(t, x, {"context_edit"}), t[i].ref \in cov2[n]
       PROVE  \E k \in Line(u, n) \ {n} :
                t[i].ref \in cov2[k] /\ (k < i \/ u[k].kind = "branch_summary")
  <2>1. PICK k \in m.asked : t[i].ref \in cov[k]
    <3>1. t[i].ref \notin m.asked
      BY <1>9, <1>a
    <3> QED  BY <1>13, <3>1 DEF n
  <2>2. k \in Line(t, x) /\ k \in 1 .. Len(t) /\ k \in Nat
    BY <1>3, <1>a, <1>b
  <2>3. t[k].kind \in {"compaction", "branch_summary"}
    <3>1. k \in Ids
      BY <1>1, <2>2, ShownBounds, RecordedIds
    <3> QED  BY <2>1, <3>1 DEF Sound, Bare
  <2>4. PICK q \in Line(t, x) : t[i].ref \in cov[q] /\ (q < i \/ t[q].kind = "branch_summary")
    <3>1. CASE t[k].kind = "branch_summary" \/ k < i
      BY <2>1, <2>2, <3>1
    <3>2. CASE t[k].kind = "compaction" /\ ~(k < i)
      <4>1. i <= k /\ i \in Nat /\ i \in Line(t, x) /\ t[i].kind = "context_edit"
        BY <1>7, <2>2, <3>2
      <4>2. i \in Line(t, k)
        BY <1>1, <2>2, <4>1, LineCut
      <4>3. i \in OfKind(t, k, {"context_edit"})
        BY <4>1, <4>2 DEF OfKind
      <4>4. Facts(t, cov, car, k)
        BY <1>1, <2>2, SoundFacts
      <4>5. PICK q \in Line(t, k) \ {k} :
              t[i].ref \in cov[q] /\ (q < i \/ t[q].kind = "branch_summary")
        BY <2>1, <3>2, <4>3, <4>4 DEF Facts, CompactionFact
      <4>6. q \in Line(t, x)
        BY <1>1, <2>2, <4>5, StruckEdited
      <4> QED  BY <4>5, <4>6
    <3> QED  BY <2>3, <3>1, <3>2
  <2>5. q \in 1 .. Len(t)
    BY <1>3, <2>4
  <2>6. q # n /\ q \in Line(u, n) /\ u[q] = t[q] /\ cov2[q] = cov[q]
    BY <1>1, <1>2, <1>3, <2>4, <2>5 DEF n
  <2> QED  BY <2>4, <2>6
<1>14. car2[n] = OfKind(t, x, {"system"}) /\ u[n].ref = f
  BY <1>2, <1>4 DEF n, f
<1>15. CompactionFact(u, cov2, car2, n)
  BY <1>6, <1>7, <1>8, <1>10, <1>11, <1>12, <1>13, <1>14 DEF CompactionFact
<1> QED  BY <1>15 DEF u, n

\* A summary of what the branch shows that the target does not have.
LEMMA BranchGrows ==
  ASSUME NEW t, NEW cov, NEW car, Sound(t, cov, car), NEW m, BranchPlanned(t, m),
         NEW e, Follows(t, e), e.parent = m.target, e.kind = "branch_summary", e.ref = m.leaf,
         NEW cov2,
         \A y : y \in cov2[Len(t) + 1] <=> y \in m.asked \/ \E k \in m.asked : y \in cov[k]
  PROVE  BranchFact(Append(t, e), cov2, Len(t) + 1)
<1> DEFINE u == Append(t, e)
           n == Len(t) + 1
           x == m.leaf
           z == m.target
<1>1. /\ TreeSound(t) /\ x \in 0 .. Len(t) /\ z \in 0 .. Len(t) /\ Len(t) \in Nat
      /\ x \in 1 .. n - 1
  <2>1. TreeSound(t) /\ x \in 1 .. Len(t) /\ z \in 1 .. Len(t)
    BY DEF Sound, BranchPlanned
  <2> QED  BY <2>1, SoundPoints
<1>2. u[n] = e /\ Line(u, n) = Line(t, z) \cup {n}
  BY <1>1, FollowPoints, TreeGrows
<1>3. OfKind(u, x, Messages) = OfKind(t, x, Messages) /\ Edited(u, x) = Edited(t, x)
  BY <1>1, KindsStay
<1>4. m.asked = ShownOn(t, x) \ Line(t, z)
  BY DEF BranchPlanned
<1> HIDE DEF u, n, x, z
<1>5. ASSUME NEW y \in OfKind(t, x, Messages), y \notin Line(t, z), y \notin Edited(t, x)
      PROVE  y \in cov2[n]
  <2>1. CASE y \in ShownOn(t, x)
    BY <1>4, <1>5, <2>1 DEF n
  <2>2. CASE y \notin ShownOn(t, x)
    <3> DEFINE c == Speaker(t, x)
    <3>1. c \in ShownOn(t, x) /\ y \in cov[c] /\ y < c
      BY <1>1, <1>5, <2>2, Accounted
    <3> HIDE DEF c
    <3>2. c \in Line(t, x) /\ y \in Line(t, x) /\ c \in Nat /\ y \in Nat
      BY <1>1, <3>1, ShownBounds DEF OfKind
    <3>3. y \in Line(t, c)
      BY <1>1, <3>1, <3>2, LineCut
    <3>4. c \notin Line(t, z)
      BY <1>1, <1>5, <3>3, StruckEdited
    <3> QED  BY <1>4, <3>1, <3>4 DEF n
  <2> QED  BY <2>1, <2>2
<1>6. u[n].ref = x
  BY <1>2 DEF x
<1> QED  BY <1>1, <1>2, <1>3, <1>5, <1>6 DEF BranchFact, u, n

\* A summary is committed.
LEMMA SummaryKeeps ==
  ASSUME IInv, NEW e, Follows(es, e), e.kind \in {"compaction", "branch_summary"},
         es' = Append(es, e), leaf' = Len(es) + 1,
         pc' = "idle", plan' = NoPlan,
         Remembered',
         \A k \in Ids \ {Len(es) + 1} : covers'[k] = covers[k] /\ carried'[k] = carried[k],
         e.kind # "compaction" => carried'[Len(es) + 1] = {},
         CompactionFact(Append(es, e), covers', carried', Len(es) + 1),
         BranchFact(Append(es, e), covers', Len(es) + 1)
  PROVE  IInv'
<1> DEFINE u == Append(es, e)
           n == Len(es) + 1
<1>1. Sound(es, covers, carried) /\ TreeSound(es) /\ Bare(es, covers, carried)
  BY DEF IInv, Holding, Sound
<1>2. /\ u[n] = e /\ Len(u) = n /\ n \in Nat /\ Len(es) \in Nat
      /\ \A i \in 1 .. Len(es) : u[i] = es[i]
      /\ \A i \in 1 .. n : i \in 1 .. Len(es) \/ i = n
      /\ \A i \in 1 .. Len(es) : i \in 1 .. n /\ i # n
      /\ n \in 1 .. n
  <2>1. /\ u[n] = e /\ Len(u) = n /\ n \in Nat /\ Len(es) \in Nat
        /\ \A i \in 1 .. Len(es) : u[i] = es[i]
    BY <1>1, FollowPoints
  <2> HIDE DEF u
  <2> QED  BY <2>1
<1>3. \A k \in 1 .. Len(es) : k \in Ids
  <2> TAKE k \in 1 .. Len(es)
  <2>1. es[k] \in Recorded /\ es[k].id = k
    BY <1>1, SoundPoints
  <2> QED  BY <2>1 DEF Recorded
<1> HIDE DEF u, n
<1>4. EditFact(u, n) /\ ResultFact(u, n)
  BY <1>2 DEF EditFact, ResultFact
<1>5. Facts(u, covers', carried', n)
  BY <1>4 DEF Facts, u, n
<1>6. Bare(u, covers', carried')
  <2>1. ASSUME NEW x \in Ids
        PROVE  /\ x \notin 1 .. Len(u) \/ u[x].kind \notin {"compaction", "branch_summary"}
                     => covers'[x] = {}
               /\ x \notin 1 .. Len(u) \/ u[x].kind # "compaction" => carried'[x] = {}
    <3>1. CASE x = n
      <4>1. x \in 1 .. Len(u)
        BY <1>2, <3>1
      <4> QED  BY <1>2, <3>1, <4>1 DEF n
    <3>2. CASE x # n
      <4>1. covers'[x] = covers[x] /\ carried'[x] = carried[x]
        BY <3>2 DEF n
      <4>2. x \in 1 .. Len(u) <=> x \in 1 .. Len(es)
        BY <1>2, <3>2
      <4> QED  BY <1>1, <1>2, <4>1, <4>2 DEF Bare
    <3> QED  BY <3>1, <3>2
  <2> QED  BY <2>1 DEF Bare
<1>7. \A k \in 1 .. Len(es) : covers'[k] = covers[k] /\ carried'[k] = carried[k]
  BY <1>2, <1>3 DEF n
<1>8. Sound(u, covers', carried')
  BY <1>1, <1>5, <1>6, <1>7, SoundGrows DEF u, n
<1>9. leaf' \in 1 .. Len(es')
  BY <1>2 DEF u, n
<1>10. NoPlan \in Plans
  BY DEF NoPlan, Plans
<1> QED  BY <1>8, <1>9, <1>10 DEF IInv, Holding, Awaited, Planned, u

LEMMA NothingCommitted ==
  ASSUME IInv, pc' = "idle", plan' = NoPlan, UNCHANGED <<es, leaf, history>>
  PROVE  IInv'
<1>1. NoPlan \in Plans
  BY DEF NoPlan, Plans
<1> QED  BY <1>1 DEF IInv, Holding, Remembered, Awaited, Planned, history

LEMMA DoCompactKeeps ==
  ASSUME IInv, pc \in {"history", "prefix"}, DoCompact
  PROVE  IInv'
<1>1. CASE plan.leaf # leaf
  BY <1>1, NothingCommitted DEF DoCompact
<1>2. CASE plan.leaf = leaf
  <2> DEFINE e == Entry(leaf, "compaction", plan.first)
             n == Len(es) + 1
  <2>1. /\ Sound(es, covers, carried) /\ TreeSound(es) /\ leaf \in 1 .. Len(es)
        /\ Remembered /\ CompactionPlanned(es, plan)
    BY DEF IInv, Holding, Sound, Planned
  <2>2. /\ Len(es) < MaxEntries /\ es' = Append(es, e) /\ leaf' = n
        /\ covers' = [covers EXCEPT ![n] = Spoken(plan.asked)]
        /\ carried' = [carried EXCEPT ![n] = plan.system]
        /\ pc' = "idle" /\ plan' = NoPlan
    BY <1>2 DEF DoCompact, Add, Room, Next1, CarriedSystem
  <2>3. plan.first \in ShownOn(es, leaf)
    BY <1>2, <2>1 DEF CompactionPlanned
  <2>4. leaf \in 0 .. Len(es) /\ Len(es) \in Nat /\ MaxEntries \in Nat
    BY <2>1, AskedIds, SoundPoints, BoundsAssumption
  <2>5. plan.first \in 0 .. Len(es)
    <3>1. plan.first \in Line(es, leaf)
      BY <2>1, <2>3, <2>4, ShownBounds
    <3>2. plan.first \in 1 .. Len(es)
      BY <2>1, <2>4, <3>1, LineBounds
    <3> QED  BY <2>4, <3>2
  <2>6. Follows(es, e)
    BY <2>1, <2>2, <2>4, <2>5, EntryFollows DEF EntryKinds
  <2>7. e.kind = "compaction" /\ e.parent = plan.leaf /\ e.ref = plan.first
    BY <1>2 DEF Entry
  <2> HIDE DEF e
  <2>8. n \in Ids
    BY <2>2, <2>4 DEF Ids
  <2>9. plan.asked \subseteq Ids /\ plan.system \subseteq Ids
    BY DEF IInv, Awaited, Plans
  <2>10. Spoken(plan.asked) \subseteq Ids
    BY <2>1, <2>9 DEF Spoken, Remembered
  <2>11. /\ Remembered'
         /\ covers'[n] = Spoken(plan.asked) /\ carried'[n] = plan.system
         /\ \A k \in Ids \ {n} : covers'[k] = covers[k] /\ carried'[k] = carried[k]
    BY <2>1, <2>2, <2>8, <2>9, <2>10 DEF Remembered
  <2>12. \A k \in 1 .. Len(es) : k \in Ids \ {n}
    <3> TAKE k \in 1 .. Len(es)
    <3>1. k \in Ids
      BY <2>1, AskedIds
    <3> QED  BY <2>4, <3>1
  <2>13. \A y : y \in covers'[n] <=> y \in plan.asked \/ \E k \in plan.asked : y \in covers[k]
    BY <2>11 DEF Spoken
  <2> HIDE DEF n
  <2>14. CompactionFact(Append(es, e), covers', carried', n)
    BY <2>1, <2>6, <2>7, <2>11, <2>12, <2>13, CompactionGrows DEF n
  <2>15. Append(es, e)[n] = e
    BY <2>1, <2>6, FollowPoints DEF n
  <2>16. BranchFact(Append(es, e), covers', n)
    BY <2>7, <2>15 DEF BranchFact
  <2> QED  BY <2>2, <2>6, <2>7, <2>11, <2>14, <2>16, SummaryKeeps DEF n
<1> QED  BY <1>1, <1>2

LEMMA BranchWithSummaryKeeps ==
  ASSUME IInv, BranchWithSummary
  PROVE  IInv'
<1> DEFINE e == Entry(plan.target, "branch_summary", plan.leaf)
           n == Len(es) + 1
<1>1. /\ Sound(es, covers, carried) /\ TreeSound(es) /\ Bare(es, covers, carried)
      /\ Remembered /\ BranchPlanned(es, plan)
  BY DEF IInv, Holding, Sound, Planned, BranchWithSummary
<1>2. /\ Len(es) < MaxEntries /\ es' = Append(es, e) /\ leaf' = n
      /\ covers' = [covers EXCEPT ![n] = Spoken(plan.asked)]
      /\ carried' = carried
      /\ pc' = "idle" /\ plan' = NoPlan
  BY DEF BranchWithSummary, Room, Next1, From
<1>3. /\ plan.leaf \in 0 .. Len(es) /\ plan.target \in 0 .. Len(es)
      /\ Len(es) \in Nat /\ MaxEntries \in Nat
  <2>1. plan.leaf \in 1 .. Len(es) /\ plan.target \in 1 .. Len(es)
    BY <1>1 DEF BranchPlanned
  <2> QED  BY <1>1, <2>1, SoundPoints, BoundsAssumption
<1>4. Follows(es, e)
  BY <1>1, <1>2, <1>3, EntryFollows DEF EntryKinds
<1>5. e.kind = "branch_summary" /\ e.parent = plan.target /\ e.ref = plan.leaf
  BY DEF Entry
<1> HIDE DEF e
<1>6. n \in Ids
  BY <1>2, <1>3 DEF Ids
<1>7. Spoken(plan.asked) \subseteq Ids
  <2>1. plan.asked \subseteq Ids
    BY DEF IInv, Awaited, Plans
  <2> QED  BY <1>1, <2>1 DEF Spoken, Remembered
<1>8. /\ Remembered' /\ covers'[n] = Spoken(plan.asked)
      /\ \A k \in Ids \ {n} : covers'[k] = covers[k] /\ carried'[k] = carried[k]
  BY <1>1, <1>2, <1>6, <1>7 DEF Remembered
<1>9. carried'[n] = {}
  <2>1. n \notin 1 .. Len(es)
    BY <1>3
  <2> QED  BY <1>1, <1>2, <1>6, <2>1 DEF Bare
<1>10. \A y : y \in covers'[n] <=> y \in plan.asked \/ \E k \in plan.asked : y \in covers[k]
  BY <1>8 DEF Spoken
<1> HIDE DEF n
<1>11. BranchFact(Append(es, e), covers', n)
  BY <1>1, <1>4, <1>5, <1>10, BranchGrows DEF n
<1>12. Append(es, e)[n] = e
  BY <1>1, <1>4, FollowPoints DEF n
<1>13. CompactionFact(Append(es, e), covers', carried', n)
  BY <1>5, <1>12 DEF CompactionFact
<1> QED  BY <1>2, <1>4, <1>5, <1>8, <1>9, <1>11, <1>13, SummaryKeeps DEF n

\* Where a context is cut.
LEMMA BoundaryIs ==
  ASSUME NEW S, NEW c \in Seq(S), NEW d \in 1 .. Len(c) + 1
  PROVE  /\ Boundary(c, d) \in Nat
         /\ 1 < Boundary(c, d) => c[Boundary(c, d)].kind # "toolResult"
<1> DEFINE after  == {i \in d .. Len(c) : c[i].kind # "toolResult"}
           before == {i \in 1 .. d - 1 : i <= Len(c) /\ c[i].kind # "toolResult"}
           b == Boundary(c, d)
<1>1. Len(c) \in Nat /\ after \subseteq Nat /\ before \subseteq 0 .. Len(c)
  BY PointsOf
<1>2. CASE after # {}
  <2>1. \E i \in after : \A j \in after : i <= j
    <3> HIDE DEF after
    <3> QED  BY <1>1, <1>2, LeastNatural
  <2>2. b = CHOOSE i \in after : \A j \in after : i <= j
    BY <1>2 DEF Boundary
  <2>3. b \in after
    <3> HIDE DEF after, b
    <3> QED  BY <2>1, <2>2
  <2> QED  BY <1>1, <2>3
<1>3. CASE after = {} /\ before # {}
  <2>1. \E i \in before : \A j \in before : j <= i
    <3> HIDE DEF before
    <3> QED  BY <1>1, <1>3, GreatestBelow
  <2>2. b = CHOOSE i \in before : \A j \in before : j <= i
    BY <1>3 DEF Boundary
  <2>3. b \in before
    <3> HIDE DEF before, b
    <3> QED  BY <2>1, <2>2
  <2> QED  BY <1>1, <2>3
<1>4. CASE after = {} /\ before = {}
  BY <1>4 DEF Boundary
<1> QED  BY <1>2, <1>3, <1>4

\* What is before a place of the context, but for its head, has lower ids.
LEMMA CutPlans ==
  ASSUME NEW t, TreeSound(t), NEW x \in 0 .. Len(t), Keeps(t, x),
         NEW c, c = Context(ActivePath(t, x)),
         NEW b \in 1 .. Len(c), 1 < b, c[b].kind # "toolResult"
  PROVE  LET s == ShownOn(t, x)
             f == c[b].id
         IN  /\ f \in s /\ t[f].kind \in Messages \ {"toolResult"}
             /\ {c[i].id : i \in 1 .. b - 1} = {y \in s : y < f \/ t[y].kind = "compaction"}
<1> DEFINE s == ShownOn(t, x)
           f == c[b].id
           h == Speaker(t, x)
<1>1. Holds(c, t, s) /\ Ordered(c, h)
  BY ContextIs
<1>2. /\ DOMAIN c = 1 .. Len(c) /\ Len(c) \in Nat /\ ToSet(c) = {c[i] : i \in 1 .. Len(c)}
  BY <1>1, PointsOf DEF Holds, ToSet
<1>3. \A i \in 1 .. Len(c) : c[i].id \in s /\ c[i] = t[c[i].id]
  BY <1>1, <1>2 DEF Holds
<1>4. \A y \in s : t[y].id = y /\ y \in Nat /\ y # 0
  <2>1. s \subseteq Line(t, x) /\ \A y \in Line(t, x) : t[y].id = y /\ y \in Nat /\ y \in 1 .. Len(t)
    BY ShownBounds
  <2>2. \A y \in 1 .. Len(t) : y # 0
    BY SoundPoints
  <2> QED  BY <2>1, <2>2
<1>5. ASSUME NEW y \in s PROVE \E j \in 1 .. Len(c) : c[j].id = y
  <2>1. t[y] \in ToSet(c)
    BY <1>1, <1>4 DEF Holds
  <2> QED  BY <1>2, <1>4, <2>1
<1>6. h # 0 => t[h].kind = "compaction"
  BY SpeakerShown
<1>7. \A y \in s : y = h \/ t[y].kind \in Messages
  BY DEF ShownOn, Told
<1> HIDE DEF s, f, h
<1>8. 1 \in 1 .. Len(c) /\ b \in Nat /\ f \in s /\ f # h /\ f \in Nat
  <2>1. 1 \in 1 .. Len(c) /\ b \in Nat
    BY <1>2
  <2>2. f \in s /\ f # h
    BY <1>1, <1>3, <2>1 DEF Ordered, f
  <2> QED  BY <1>4, <2>1, <2>2
<1>9. t[f].kind \in Messages \ {"toolResult"}
  <2>1. t[f] = c[b]
    BY <1>3 DEF f
  <2> QED  BY <1>7, <1>8, <2>1
<1>10. ASSUME NEW i \in 1 .. b - 1
       PROVE  c[i].id \in s /\ (c[i].id < f \/ t[c[i].id].kind = "compaction")
  <2>1. i \in 1 .. Len(c) /\ i < b
    BY <1>2, <1>8
  <2>2. c[i].id = h \/ c[i].id < f
    BY <1>1, <2>1 DEF Ordered, f
  <2>3. c[i].id \in s
    BY <1>3, <2>1
  <2> QED  BY <1>4, <1>6, <2>2, <2>3
<1>11. ASSUME NEW y \in s, y < f \/ t[y].kind = "compaction"
       PROVE  \E i \in 1 .. b - 1 : c[i].id = y
  <2>1. PICK j \in 1 .. Len(c) : c[j].id = y
    BY <1>5
  <2>2. y \in Nat /\ j \in Nat
    BY <1>2, <1>4
  <2>3. j < b
    <3>1. CASE y < f
      <4>1. j # b
        BY <1>8, <2>1, <2>2, <3>1 DEF f
      <4>2. ~(b < j)
        BY <1>1, <1>8, <2>1, <2>2, <3>1 DEF Ordered, f
      <4> QED  BY <1>8, <2>2, <4>1, <4>2
    <3>2. CASE t[y].kind = "compaction"
      <4>1. y = h
        BY <1>7, <3>2 DEF Messages
      <4>2. ~(1 < j)
        BY <1>1, <1>8, <2>1, <4>1 DEF Ordered
      <4> QED  BY <1>8, <2>2, <4>2
    <3> QED  BY <1>11, <3>1, <3>2
  <2>4. j \in 1 .. b - 1
    BY <1>8, <2>1, <2>2, <2>3
  <2> QED  BY <2>1, <2>4
<1>12. {c[i].id : i \in 1 .. b - 1} = {y \in s : y < f \/ t[y].kind = "compaction"}
  BY <1>10, <1>11
<1> QED  BY <1>8, <1>9, <1>12 DEF s, f

\* The plans, by their fields.
CompactionPlan(l, f, a, b, y) ==
  [NoPlan EXCEPT !.leaf = l, !.first = f, !.asked = a, !.split = b, !.system = y]

BranchPlan(l, z, a) == [NoPlan EXCEPT !.leaf = l, !.target = z, !.asked = a]

LEMMA CompactionFields ==
  ASSUME NEW l, NEW f, NEW a, NEW b, NEW y, NEW m, m = CompactionPlan(l, f, a, b, y)
  PROVE  /\ m.leaf = l /\ m.first = f /\ m.asked = a /\ m.split = b /\ m.system = y
         /\ l \in Ids /\ f \in Ids /\ a \subseteq Ids /\ b \in BOOLEAN /\ y \subseteq Ids
              => m \in Plans
<1>1. m.leaf = l /\ m.first = f /\ m.asked = a /\ m.split = b /\ m.system = y
  BY DEF NoPlan, CompactionPlan
<1>2. NoPlan \in Plans
  BY DEF NoPlan, Plans
<1>3. l \in Ids /\ f \in Ids /\ a \subseteq Ids /\ b \in BOOLEAN /\ y \subseteq Ids => m \in Plans
  BY <1>2 DEF Plans, CompactionPlan
<1> QED  BY <1>1, <1>3

LEMMA BranchFields ==
  ASSUME NEW l, NEW z, NEW a, NEW m, m = BranchPlan(l, z, a)
  PROVE  /\ m.leaf = l /\ m.target = z /\ m.asked = a
         /\ l \in Ids /\ z \in Ids /\ a \subseteq Ids => m \in Plans
<1>1. m.leaf = l /\ m.target = z /\ m.asked = a
  BY DEF NoPlan, BranchPlan
<1>2. NoPlan \in Plans
  BY DEF NoPlan, Plans
<1>3. l \in Ids /\ z \in Ids /\ a \subseteq Ids => m \in Plans
  BY <1>2 DEF Plans, BranchPlan
<1> QED  BY <1>1, <1>3

LEMMA PrepareKeeps ==
  ASSUME IInv, PrepareCompaction
  PROVE  IInv'
<1> DEFINE path == ActivePath(es, leaf)
           c    == Context(path)
<1>1. Holding /\ TreeSound(es) /\ leaf \in 1 .. Len(es)
  BY DEF IInv, Holding, Sound
<1>2. leaf \in 0 .. Len(es) /\ Keeps(es, leaf) /\ System(path) = OfKind(es, leaf, {"system"})
  BY <1>1, LeafFacts, SystemOf DEF Path
<1>3. Holds(c, es, ShownOn(es, leaf))
  BY <1>1, <1>2, ContextIs
<1>4. c \in Seq(Recorded)
  BY <1>3 DEF Holds
<1>5. PICK d \in 1 .. Len(c) + 1 :
        LET b == Boundary(c, d)
            start == TurnStart(c, b)
        IN  /\ 1 < b /\ b <= Len(c)
            /\ plan' = [NoPlan EXCEPT !.leaf = leaf, !.first = FirstKept(c, b),
                                      !.asked = Asked(c, b),
                                      !.split = start < b, !.system = System(path)]
            /\ pc' = IF start < b /\ \A i \in 1 .. start - 1 : c[i].kind = "compaction"
                     THEN "prefix" ELSE "history"
            /\ UNCHANGED <<es, leaf, history>>
  BY ZenonT(60) DEF PrepareCompaction
<1> DEFINE b == Boundary(c, d)
           m == [NoPlan EXCEPT !.leaf = leaf, !.first = FirstKept(c, b), !.asked = Asked(c, b),
                               !.split = TurnStart(c, b) < b, !.system = System(path)]
<1>6. /\ 1 < b /\ b <= Len(c) /\ plan' = m /\ pc' \in {"history", "prefix"}
      /\ UNCHANGED <<es, leaf, history>>
  BY <1>5
<1>7. c[b].kind # "toolResult" /\ b \in 1 .. Len(c)
  <2>1. b \in Nat /\ (1 < b => c[b].kind # "toolResult")
    BY <1>4, BoundaryIs
  <2> HIDE DEF c, b
  <2> QED  BY <1>4, <1>6, <2>1, PointsOf
<1> HIDE DEF c, b
<1>8. LET s == ShownOn(es, leaf)
          f == c[b].id
      IN  /\ f \in s /\ es[f].kind \in Messages \ {"toolResult"}
          /\ {c[i].id : i \in 1 .. b - 1} = {y \in s : y < f \/ es[y].kind = "compaction"}
  <2>1. 1 < b
    BY <1>6
  <2>2. c = Context(ActivePath(es, leaf))
    BY DEF c
  <2> QED  BY <1>1, <1>2, <1>7, <2>1, <2>2, CutPlans, SMTT(60)
<1>9. leaf \in Ids /\ ShownOn(es, leaf) \subseteq Ids /\ Line(es, leaf) \subseteq Ids
  BY <1>1, AskedIds
<1>10. /\ m.leaf = leaf /\ m.first = c[b].id /\ m.asked = {c[i].id : i \in 1 .. b - 1}
       /\ m.system = OfKind(es, leaf, {"system"}) /\ m \in Plans
  <2> DEFINE f == FirstKept(c, b)
             a == Asked(c, b)
             g == TurnStart(c, b) < b
             y == System(path)
  <2>1. f = c[b].id /\ a = {c[i].id : i \in 1 .. b - 1} /\ g \in BOOLEAN
    BY DEF FirstKept, Asked
  <2>2. y = OfKind(es, leaf, {"system"})
    BY <1>2
  <2> HIDE DEF f, a, g, y, path
  <2>3. f \in Ids /\ a \subseteq Ids /\ y \subseteq Ids
    BY <1>8, <1>9, <2>1, <2>2 DEF OfKind
  <2>4. m = CompactionPlan(leaf, f, a, g, y)
    BY DEF f, a, g, y, CompactionPlan
  <2> HIDE DEF m
  <2>5. m.leaf = leaf /\ m.first = f /\ m.asked = a /\ m.system = y /\ m \in Plans
    BY <1>9, <2>1, <2>3, <2>4, CompactionFields
  <2> QED  BY <2>1, <2>2, <2>5
<1> HIDE DEF m, path
<1>11. CompactionPlanned(es, m)
  BY <1>1, <1>8, <1>10 DEF CompactionPlanned
<1>12. m # NoPlan
  <2>1. m.leaf # 0
    BY <1>1, <1>10, LeafFacts
  <2> QED  BY <2>1 DEF NoPlan
<1> QED  BY <1>6, <1>10, <1>11, <1>12 DEF IInv, Holding, Remembered, Awaited, Planned, history

-----------------------------------------------------------------------------
(* Branches *)

LEMMA BranchKeeps ==
  ASSUME IInv, NEW target, Branch(target)
  PROVE  IInv'
<1>1. target \in 1 .. Len(es)
  BY LeafFacts DEF IInv, Branch
<1> QED  BY <1>1 DEF IInv, Holding, Remembered, Awaited, Planned, Branch, history

LEMMA SummariseKeeps ==
  ASSUME IInv, SummariseBranch
  PROVE  IInv'
<1> DEFINE shown == {e.id : e \in ToSet(Context(ActivePath(es, leaf)))}
<1>1. Holding /\ TreeSound(es) /\ leaf \in 1 .. Len(es) /\ leaf # 0
      /\ DOMAIN es = 1 .. Len(es) /\ shown = ShownOn(es, leaf)
  <2>1. Holding
    BY DEF IInv
  <2> QED  BY <2>1, LeafFacts DEF Shown, Path, Holding
<1> HIDE DEF shown
<1>2. PICK target \in 1 .. Len(es) :
        plan' = [NoPlan EXCEPT !.leaf = leaf, !.target = target,
                               !.asked = Abandoned(shown, target)]
  BY <1>1 DEF SummariseBranch, shown
<1> DEFINE m == [NoPlan EXCEPT !.leaf = leaf, !.target = target,
                               !.asked = Abandoned(shown, target)]
<1>3. leaf \in Ids /\ target \in Ids /\ ShownOn(es, leaf) \subseteq Ids
  BY <1>1, AskedIds
<1>4. /\ m.leaf = leaf /\ m.target = target /\ m \in Plans
      /\ m.asked = ShownOn(es, leaf) \ Line(es, target)
  <2> DEFINE a == Abandoned(shown, target)
  <2>1. a = ShownOn(es, leaf) \ Line(es, target)
    BY <1>1 DEF Abandoned, Line
  <2> HIDE DEF a
  <2>2. m = BranchPlan(leaf, target, a)
    BY DEF a, BranchPlan
  <2> HIDE DEF m
  <2> QED  BY <1>3, <2>1, <2>2, BranchFields
<1>5. plan' = m /\ pc' = "tree" /\ UNCHANGED <<es, leaf, history>>
  BY <1>2 DEF SummariseBranch
<1> HIDE DEF m
<1>6. BranchPlanned(es, m)
  BY <1>1, <1>4 DEF BranchPlanned
<1>7. m # NoPlan
  BY <1>1, <1>4 DEF NoPlan
<1> QED  BY <1>4, <1>5, <1>6, <1>7 DEF IInv, Holding, Remembered, Awaited, Planned, history

LEMMA ArrivesKeeps ==
  ASSUME IInv, SummaryArrives
  PROVE  IInv'
<1>1. CASE /\ pc = "history" /\ plan.split
           /\ pc' = "prefix"
           /\ UNCHANGED <<es, leaf, plan, history>>
  BY <1>1 DEF IInv, Holding, Remembered, Awaited, Planned, history
<1>2. CASE pc = "history" /\ ~plan.split /\ DoCompact
  BY <1>2, DoCompactKeeps
<1>3. CASE pc = "prefix" /\ DoCompact
  BY <1>3, DoCompactKeeps
<1> QED  BY <1>1, <1>2, <1>3 DEF SummaryArrives

-----------------------------------------------------------------------------
(* The theorems *)

\* The tree of the first checkpoint is the empty one with one entry more.
LEMMA Started ==
  ASSUME Init
  PROVE  IInv
<1> DEFINE e == [id |-> 1, parent |-> NoId, kind |-> "system", ref |-> NoId]
<1>1. es = Append(<< >>, e) /\ Len(<< >>) = 0
  BY DEF Init
<1>2. e \in Recorded
  BY BoundsAssumption DEF Recorded, EntriesOver, EntryKinds, MessageKinds, Ids
<1>3. Remembered /\ Bare(<< >>, covers, carried) /\ leaf = 1
  BY DEF Init, Remembered, Bare
<1>4. << >> \in Seq(Recorded)
  OBVIOUS
<1>5. Sound(<< >>, covers, carried)
  BY <1>1, <1>3, <1>4 DEF Sound, TreeSound
<1>6. Follows(<< >>, e) /\ e.kind = "system"
  BY <1>1, <1>2 DEF Follows
<1> HIDE DEF e
<1>7. Append(<< >>, e)[1] = e /\ Len(Append(<< >>, e)) = 1
  BY <1>1, <1>5, <1>6, FollowPoints DEF Sound
<1>8. Facts(Append(<< >>, e), covers, carried, Len(<< >>) + 1)
  BY <1>1, <1>6, <1>7, NoFacts
<1>9. Sound(es, covers, carried)
  BY <1>1, <1>5, <1>6, <1>8, PlainGrows
<1>10. Awaited /\ Planned
  BY DEF Init, Awaited, Planned, NoPlan, Plans
<1> QED  BY <1>1, <1>3, <1>7, <1>9, <1>10 DEF IInv, Holding

LEMMA StepKeeps ==
  ASSUME IInv, [Next]_vars
  PROVE  IInv'
<1>1. CASE Say
  BY <1>1, PlainAdd DEF Say
<1>2. CASE Checkpoint
  BY <1>2, PlainAdd DEF Checkpoint
<1>3. CASE Inject
  BY <1>3, PlainAdd DEF Inject
<1>4. CASE Change
  BY <1>4, PlainAdd DEF Change
<1>5. ASSUME NEW n \in 0 .. 2, Answer(n) PROVE IInv'
  BY <1>5, AnswerKeeps
<1>6. CASE ContextEdit
  BY <1>6, ContextEditKeeps
<1>7. ASSUME NEW id \in Ids, Branch(id) PROVE IInv'
  BY <1>7, BranchKeeps
<1>8. CASE SummariseBranch
  BY <1>8, SummariseKeeps
<1>9. CASE PrepareCompaction
  BY <1>9, PrepareKeeps
<1>10. CASE SummaryArrives
  BY <1>10, ArrivesKeeps
<1>11. CASE SummaryFails
  BY <1>11, NothingCommitted DEF SummaryFails
<1>12. CASE BranchWithSummary
  BY <1>12, BranchWithSummaryKeeps
<1>13. CASE ToolsReturn
  BY <1>13, ReturnKeeps
<1>14. CASE ToolsAborted
  BY <1>14, NothingCommitted DEF ToolsAborted
<1>15. CASE UNCHANGED vars
  BY <1>15 DEF vars, history, IInv, Holding, Remembered, Awaited, Planned
<1> QED  BY <1>1, <1>2, <1>3, <1>4, <1>5, <1>6, <1>7, <1>8, <1>9, <1>10, <1>11, <1>12, <1>13,
            <1>14, <1>15
         DEF Next

\* Every compaction keeps a message that nothing has removed, carries the
\* checkpoints before it and speaks of the rest; every plan that waits for
\* its summary is still what the path of its leaf asks for, whatever was
\* added since.
THEOREM Invariance == Spec => []IInv
<1>1. Init => IInv
  BY Started
<1>2. IInv /\ [Next]_vars => IInv'
  BY StepKeeps
<1> QED  BY <1>1, <1>2, PTL DEF Spec

\* The model is told of all the checkpoints on the active path, however many
\* compactions have dropped them (do_compact's systemMessage).
THEOREM Current == Spec => []SystemIsCurrent
<1>1. IInv => SystemIsCurrent
  BY SystemHolds DEF IInv
<1> QED  BY <1>1, Invariance, PTL

\* What an edit removed is never shown again, and no later compaction speaks
\* of it that did not inherit it (session_projection.build).
THEOREM Sticking == Spec => []EditsStick
<1>1. IInv => EditsStick
  BY EditsHold DEF IInv
<1> QED  BY <1>1, Invariance, PTL

\* Every message of the active path is shown, spoken of by a summary that is
\* shown, or removed, and a branch summary speaks of all of its branch
\* (run_compact and run_tree).
THEOREM Remembrance == Spec => []NothingForgotten
<1>1. IInv => NothingForgotten
  BY PathHolds, BranchesHold DEF IInv, NothingForgotten
<1> QED  BY <1>1, Invariance, PTL

\* A compaction keeps results with their calls, unless it was told to start at an
\* extension's message recorded between them, and the last message as it is
\* (prepare_compaction, dispatch_tools).
THEOREM CleanCut == Spec => []CutIsClean
<1>1. IInv => CutIsClean
  BY Typed, ResultsHold, EndHolds DEF IInv, CutIsClean
<1> QED  BY <1>1, Invariance, PTL
=============================================================================
