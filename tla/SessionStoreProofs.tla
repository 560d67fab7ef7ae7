------------------------- MODULE SessionStoreProofs -------------------------
(***************************************************************************)
(* Proofs about SessionStore, for every set of files, of names and of      *)
(* appended kinds, every number of entries, and any faults.  They assume   *)
(* what the session module assumes of its callers: the C session is only   *)
(* changed through it, files that are resumed exist, none starts in the    *)
(* version 1 format, and nobody clones a session over its own file.  The   *)
(* code checks none of these; runs of MCSessionStore show what is lost     *)
(* without them.  At the end, proofs about the array of messages of        *)
(* MessageTokens, for every sequence of calls.                             *)
(***************************************************************************)
EXTENDS SessionStore, MessageTokens, RecursionProofs

Plain == ~RawAccess /\ ~ResumeMissing /\ ~CloneOver /\ LegacyPaths = {}

\* Entries as registered: with a uuid.
Recorded == {e \in Entries : e.id \in Ids}

Prefix(s, t) == Len(s) <= Len(t) /\ \A i \in 1 .. Len(s) : s[i] = t[i]

MemoryInv ==
  /\ fileEntries \in Seq(Recorded)
  /\ memory \in Seq(Recorded)
  /\ tracked = Len(memory)

\* A file that is not there holds nothing, and the session's own file never
\* holds anything that the session does not.
FileInv ==
  /\ \A p \in Paths : /\ disk[p].entries \in Seq(Recorded)
                      /\ disk[p].version = 3
                      /\ ~disk[p].exists => disk[p].entries = << >>
  /\ path # NoPath => Prefix(disk[path].entries, fileEntries)

IInv == TypeOK /\ MemoryInv /\ FileInv /\ CursorMatchesFile /\ AckedIsDurable

-----------------------------------------------------------------------------
(* Operators *)

USE IdsAssumption DEF NoId

LEMMA RecordedSeq ==
  ASSUME NEW s \in Seq(Recorded)
  PROVE  s \in Seq(Entries) /\ EntryIds(s) \subseteq Ids
<1>1. Recorded \subseteq Entries
  BY DEF Recorded
<1>2. s \in Seq(Entries)
  BY <1>1, SeqMonotonic
<1>3. \A i \in DOMAIN s : s[i].id \in Ids
  BY LenProperties, ElementOfSeq DEF Recorded
<1> QED
  BY <1>2, <1>3 DEF EntryIds

LEMMA RecordedIds == \A r \in Recorded : r.id # NoId
BY DEF Recorded, Ids

LEMMA FreshType ==
  ASSUME nextId \in 1 .. MaxId, NEW kind \in EntryKinds,
         NEW parent \in Ids \cup {NoId}, NEW ref \in Ids \cup {NoId}
  PROVE  Fresh(kind, parent, ref) \in Recorded
BY DEF Fresh, Recorded, Entries, EntriesOver, Ids

\* Reconciliation finds nothing to do: every append was tracked.
LEMMA ReconciledIsCurrent ==
  ASSUME MemoryInv
  PROVE  Reconciled = Tree(fileEntries, leaf, memory, tracked, nextId)
BY DEF Reconciled, MemoryInv

LEMMA RebuiltType ==
  ASSUME NEW es \in Seq(Recorded), NEW lf, NEW next
  PROVE  LET t == Rebuilt(es, lf, next) IN
           /\ t.es = es /\ t.leaf = lf /\ t.nextId = next
           /\ t.memory \in Seq(Recorded)
           /\ t.tracked = Len(t.memory)
BY ActivePathType, SelectedType DEF Rebuilt, Tree

LEMMA LastIdType ==
  ASSUME NEW es \in Seq(Recorded)
  PROVE  LastId(es) \in Ids \cup {NoId}
<1>1. CASE es = << >>
  BY <1>1 DEF LastId
<1>2. CASE es # << >>
  <2>1. Len(es) \in 1 .. Len(es)
    BY <1>2, LenProperties, EmptySeq
  <2> QED
    BY <1>2, <2>1, ElementOfSeq DEF LastId, Last, Recorded
<1> QED
  BY <1>1, <1>2

LEMMA PrefixAppend ==
  ASSUME NEW S, NEW s \in Seq(S), NEW e \in S
  PROVE  Prefix(s, Append(s, e))
BY AppendProperties, LenProperties DEF Prefix

LEMMA PrefixIds ==
  ASSUME NEW S, NEW s \in Seq(S), NEW t \in Seq(S), Prefix(s, t)
  PROVE  EntryIds(s) \subseteq EntryIds(t)
BY LenProperties DEF Prefix, EntryIds

LEMMA PrefixRefl ==
  ASSUME NEW S, NEW s \in Seq(S)
  PROVE  Prefix(s, s)
BY LenProperties DEF Prefix

LEMMA PrefixTrans ==
  ASSUME NEW S, NEW s \in Seq(S), NEW t \in Seq(S), NEW u \in Seq(S),
         Prefix(s, t), Prefix(t, u)
  PROVE  Prefix(s, u)
<1>1. Len(s) \in Nat /\ Len(t) \in Nat /\ Len(u) \in Nat
  BY LenProperties
<1>2. \A i \in 1 .. Len(s) : i \in 1 .. Len(t)
  BY <1>1 DEF Prefix
<1> QED
  BY <1>1, <1>2 DEF Prefix

-----------------------------------------------------------------------------
(* Steps that touch memory only *)

\* An operation that extends the tree in memory, or moves within it, and
\* writes nothing, keeps the invariant.
LEMMA MemoryStep ==
  ASSUME IInv, MemoryInv', Prefix(fileEntries, fileEntries'),
         leaf' \in Ids \cup {NoId}, nextId' \in 1 .. MaxId + 1,
         UNCHANGED <<running, path, name, cursor, disk, acked>>
  PROVE  IInv'
<1> USE DEF IInv, cursor
<1>1. TypeOK'
  <2>1. fileEntries' \in Seq(Entries) /\ memory' \in Seq(Entries)
    BY RecordedSeq DEF MemoryInv
  <2>2. tracked' \in Nat
    BY LenProperties DEF MemoryInv
  <2> QED
    BY <2>1, <2>2 DEF TypeOK
<1>2. FileInv'
  <2>1. ASSUME path # NoPath
        PROVE  Prefix(disk[path].entries, fileEntries')
    <3>1. path \in Paths /\ disk[path].entries \in Seq(Recorded)
      BY <2>1 DEF TypeOK, FileInv
    <3>2. Prefix(disk[path].entries, fileEntries)
      BY <2>1 DEF FileInv
    <3> QED
      BY <3>1, <3>2, PrefixTrans DEF MemoryInv
  <2> QED
    BY <2>1 DEF FileInv
<1>3. CursorMatchesFile'
  <2> SUFFICES ASSUME savedPath # NoPath, savedPath = path,
                      disk[savedPath].exists
               PROVE  /\ savedCount <= Len(fileEntries')
                      /\ disk[savedPath].entries = SubSeq(fileEntries', 1, savedCount)
                      /\ disk[savedPath].tail = "clean"
    BY DEF CursorMatchesFile
  <2>1. /\ savedCount <= Len(fileEntries)
        /\ disk[savedPath].entries = SubSeq(fileEntries, 1, savedCount)
        /\ disk[savedPath].tail = "clean"
    BY DEF CursorMatchesFile
  <2>2. Len(fileEntries) \in Nat /\ Len(fileEntries') \in Nat /\ savedCount \in Nat
    BY LenProperties DEF TypeOK, MemoryInv
  <2>3. \A i \in 1 .. savedCount : fileEntries[i] = fileEntries'[i]
    BY <2>1, <2>2 DEF Prefix
  <2>4. SubSeq(fileEntries, 1, savedCount) = SubSeq(fileEntries', 1, savedCount)
    <3>1. \A i \in 1 .. savedCount : fileEntries[i] \in Recorded /\ fileEntries'[i] \in Recorded
      BY <2>1, <2>2, <2>3, ElementOfSeq DEF MemoryInv
    <3> DEFINE a == SubSeq(fileEntries, 1, savedCount)
               b == SubSeq(fileEntries', 1, savedCount)
    <3>2. /\ a \in Seq(Recorded) /\ Len(a) = savedCount
          /\ \A i \in 1 .. savedCount : a[i] = fileEntries[i]
      BY <2>2, <3>1, SubSeqProperties
    <3>3. /\ b \in Seq(Recorded) /\ Len(b) = savedCount
          /\ \A i \in 1 .. savedCount : b[i] = fileEntries'[i]
      BY <2>2, <3>1, SubSeqProperties
    <3> HIDE DEF a, b
    <3>4. a = b
      BY <2>3, <3>2, <3>3, SeqEqual
    <3> QED
      BY <3>4 DEF a, b
  <2> QED
    BY <2>1, <2>2, <2>4 DEF Prefix
<1>4. AckedIsDurable'
  BY DEF AckedIsDurable
<1> QED
  BY <1>1, <1>2, <1>3, <1>4

LEMMA Append1Step ==
  ASSUME IInv, HasIds, NEW e \in Recorded, e.id = nextId, Append1(e),
         UNCHANGED <<running, path, name, cursor, disk, acked>>
  PROVE  IInv'
<1>1. nextId \in 1 .. MaxId
  BY DEF IInv, TypeOK, HasIds
<1>2. MemoryInv' /\ Prefix(fileEntries, fileEntries')
  BY AppendProperties, PrefixAppend DEF Append1, IInv, MemoryInv
<1>3. leaf' \in Ids \cup {NoId} /\ nextId' \in 1 .. MaxId + 1
  BY <1>1 DEF Append1, Recorded
<1> QED
  BY <1>2, <1>3, MemoryStep

\* A tree rebuilt around a new leaf from the entries or an extension.
LEMMA RebuiltStep ==
  ASSUME IInv, NEW es \in Seq(Recorded), Prefix(fileEntries, es),
         NEW lf \in Ids \cup {NoId}, NEW next \in 1 .. MaxId + 1,
         SetTree(Rebuilt(es, lf, next)),
         UNCHANGED <<running, path, name, cursor, disk, acked>>
  PROVE  IInv'
<1>1. MemoryInv' /\ fileEntries' = es
  BY RebuiltType DEF SetTree, MemoryInv
<1>2. leaf' = lf /\ nextId' = next
  BY RebuiltType DEF SetTree
<1> QED
  BY <1>1, <1>2, MemoryStep

LEMMA AppendMessageStep ==
  ASSUME IInv, NEW kind \in AppendKinds, AppendMessage(kind)
  PROVE  IInv'
<1>1. Fresh(kind, leaf, NoId) \in Recorded
  BY KindsAssumption, FreshType
     DEF AppendMessage, HasIds, IInv, TypeOK, EntryKinds
<1>2. Fresh(kind, leaf, NoId).id = nextId
  BY DEF Fresh
<1> QED
  BY <1>1, <1>2, Append1Step DEF AppendMessage

LEMMA ContextEditStep ==
  ASSUME IInv, NEW target \in Ids, ContextEdit(target)
  PROVE  IInv'
<1> DEFINE e == Fresh("context_edit", leaf, target)
<1>1. Reconciled = Tree(fileEntries, leaf, memory, tracked, nextId)
  BY ReconciledIsCurrent DEF IInv
<1>2. nextId \in 1 .. MaxId
  BY DEF ContextEdit, HasIds, IInv, TypeOK
<1>3. e \in Recorded /\ e.id = nextId
  <2>1. "context_edit" \in EntryKinds
    BY DEF EntryKinds
  <2>2. leaf \in Ids \cup {NoId}
    BY DEF IInv, TypeOK
  <2>3. e \in Recorded
    BY <1>2, <2>1, <2>2, FreshType
  <2> QED
    BY <2>3 DEF Fresh
<1>4. [e EXCEPT !.id = nextId] = e
  BY DEF Fresh
<1>5. SetTree(Tree(Append(fileEntries, e), e.id, Append(memory, e),
                   Len(memory) + 1, nextId + 1))
  BY <1>1, <1>4 DEF ContextEdit, Tree
<1> HIDE DEF e
<1>6. Append1(e)
  <2>1. Len(Append(memory, e)) = Len(memory) + 1
    BY <1>3, AppendProperties DEF IInv, MemoryInv
  <2> QED
    BY <1>3, <1>5, <2>1 DEF SetTree, Tree, Append1
<1> QED
  BY <1>3, <1>6, Append1Step DEF ContextEdit

LEMMA CompactStep ==
  ASSUME IInv, NEW kept \in Ids, Compact(kept)
  PROVE  IInv'
<1> DEFINE e == Fresh("compaction", leaf, kept)
<1>1. Reconciled = Tree(fileEntries, leaf, memory, tracked, nextId)
  BY ReconciledIsCurrent DEF IInv
<1>2. nextId \in 1 .. MaxId
  BY DEF Compact, HasIds, IInv, TypeOK
<1>3. e \in Recorded /\ e.id = nextId
  <2>1. "compaction" \in EntryKinds
    BY DEF EntryKinds
  <2>2. leaf \in Ids \cup {NoId}
    BY DEF IInv, TypeOK
  <2>3. e \in Recorded
    BY <1>2, <2>1, <2>2, FreshType
  <2> QED
    BY <2>3 DEF Fresh
<1>4. [e EXCEPT !.id = nextId] = e
  BY DEF Fresh
<1>5. SetTree(Rebuilt(Append(fileEntries, e), e.id, nextId + 1))
  BY <1>1, <1>4 DEF Compact, Tree
<1> HIDE DEF e
<1>6. Append(fileEntries, e) \in Seq(Recorded) /\ Prefix(fileEntries, Append(fileEntries, e))
  BY <1>3, AppendProperties, PrefixAppend DEF IInv, MemoryInv
<1>7. e.id \in Ids \cup {NoId} /\ nextId + 1 \in 1 .. MaxId + 1
  BY <1>2, <1>3 DEF Ids
<1> QED
  BY <1>5, <1>6, <1>7, RebuiltStep DEF Compact

LEMMA BranchStep ==
  ASSUME IInv, NEW id \in Ids, Branch(id)
  PROVE  IInv'
<1>1. fileEntries \in Seq(Recorded) /\ nextId \in 1 .. MaxId + 1
  BY DEF IInv, MemoryInv, TypeOK
<1> QED
  BY <1>1, PrefixRefl, RebuiltStep DEF Branch

LEMMA BranchWithSummaryStep ==
  ASSUME IInv, NEW id \in Ids, BranchWithSummary(id)
  PROVE  IInv'
<1> DEFINE e == Fresh("branch_summary", id, NoId)
<1>1. nextId \in 1 .. MaxId
  BY DEF BranchWithSummary, HasIds, IInv, TypeOK
<1>2. e \in Recorded /\ e.id = nextId
  <2>1. "branch_summary" \in EntryKinds
    BY DEF EntryKinds
  <2>2. e \in Recorded
    BY <1>1, <2>1, FreshType
  <2> QED
    BY <2>2 DEF Fresh
<1>3. SetTree(Rebuilt(Append(fileEntries, e), e.id, nextId + 1))
  BY DEF BranchWithSummary
<1> HIDE DEF e
<1>4. Append(fileEntries, e) \in Seq(Recorded) /\ Prefix(fileEntries, Append(fileEntries, e))
  BY <1>2, AppendProperties, PrefixAppend DEF IInv, MemoryInv
<1>5. e.id \in Ids \cup {NoId} /\ nextId + 1 \in 1 .. MaxId + 1
  BY <1>1, <1>2 DEF Ids
<1> QED
  BY <1>3, <1>4, <1>5, RebuiltStep DEF BranchWithSummary

LEMMA ProjectStep ==
  ASSUME IInv, Project
  PROVE  IInv'
<1>1. Reconciled = Tree(fileEntries, leaf, memory, tracked, nextId)
  BY ReconciledIsCurrent DEF IInv
<1>2. UNCHANGED <<fileEntries, leaf, memory, tracked, nextId>>
  BY <1>1 DEF Project, SetTree, Tree
<1>3. MemoryInv' /\ Prefix(fileEntries, fileEntries')
  BY <1>2, PrefixRefl DEF IInv, MemoryInv
<1>4. leaf' \in Ids \cup {NoId} /\ nextId' \in 1 .. MaxId + 1
  BY <1>2 DEF IInv, TypeOK
<1> QED
  BY <1>3, <1>4, MemoryStep DEF Project

-----------------------------------------------------------------------------
(* Saving *)

Current == Tree(fileEntries, leaf, memory, tracked, nextId)

\* What a write may leave in the session's file: a state between what it
\* held and what the session holds, and all of it when the write succeeds.
Written(F, ok) ==
  /\ disk' = [disk EXCEPT ![path] = F]
  /\ F \in Files
  /\ F.entries \in Seq(Recorded) /\ F.version = 3
  /\ ~F.exists => F.entries = << >>
  /\ Prefix(disk[path].entries, F.entries)
  /\ Prefix(F.entries, fileEntries)
  /\ ok => F.exists /\ F.entries = fileEntries /\ F.tail = "clean"

LEMMA FileType ==
  ASSUME NEW es \in Seq(Recorded), NEW nm \in Names \cup {NoName}
  PROVE  /\ File(es, nm) \in Files
         /\ File(es, nm).entries = es /\ File(es, nm).version = 3
         /\ File(es, nm).exists /\ File(es, nm).tail = "clean"
BY RecordedSeq DEF File, NoFile, Files, Tails

LEMMA RewriteResult ==
  ASSUME IInv, path # NoPath, NEW nm \in Names \cup {NoName},
         NEW outcome \in {"ok", "error", "crash"},
         Rewrite(Current, nm, outcome)
  PROVE  \E F : Written(F, outcome = "ok")
<1>1. path \in Paths /\ disk[path] \in Files /\ disk \in [Paths -> Files]
  BY DEF IInv, TypeOK
<1>2. /\ fileEntries \in Seq(Recorded)
      /\ disk[path].entries \in Seq(Recorded) /\ disk[path].version = 3
      /\ ~disk[path].exists => disk[path].entries = << >>
      /\ Prefix(disk[path].entries, fileEntries)
  BY <1>1 DEF IInv, MemoryInv, FileInv
<1>3. Current.es = fileEntries
  BY DEF Current, Tree
<1>4. CASE disk' = [disk EXCEPT ![path] = File(fileEntries, nm)]
  <2>1. Written(File(fileEntries, nm), TRUE)
    BY <1>1, <1>2, <1>4, FileType, PrefixRefl DEF Written
  <2> QED
    BY <2>1 DEF Written
<1>5. CASE disk' = disk /\ outcome # "ok"
  <2>1. disk' = [disk EXCEPT ![path] = disk[path]]
    BY <1>1, <1>5
  <2>2. Written(disk[path], FALSE)
    BY <1>1, <1>2, <2>1, PrefixRefl DEF Written
  <2> QED
    BY <1>5, <2>2
<1> QED
  BY <1>3, <1>4, <1>5 DEF Rewrite

\* On the append path the file ends in a newline, so what is appended
\* extends it without joining its last line.
LEMMA AppendedEntries ==
  ASSUME NEW es \in Seq(Recorded), NEW n \in 0 .. Len(es), NEW f,
         f \in Files, f.tail = "clean", f.entries = SubSeq(es, 1, n),
         NEW k \in 0 .. Len(es) - n, NEW t \in Tails
  PROVE  LET F == Appended(f, SubSeq(es, n + 1, Len(es)), k, t) IN
           /\ F \in Files
           /\ F.exists = f.exists /\ F.version = f.version
           /\ F.entries \in Seq(Recorded)
           /\ Len(F.entries) = n + k
           /\ Prefix(f.entries, F.entries) /\ Prefix(F.entries, es)
           /\ t = "clean" => F.tail = "clean"
<1> DEFINE batch == SubSeq(es, n + 1, Len(es))
           old   == SubSeq(es, 1, n)
           new   == SubSeq(batch, 1, k)
           both  == old \o new
<1>1. Len(es) \in Nat /\ n \in Nat /\ k \in Nat /\ n + k <= Len(es)
  BY LenProperties
<1>2. \A i \in 1 .. Len(es) : es[i] \in Recorded
  BY ElementOfSeq
<1>3. /\ batch \in Seq(Recorded) /\ Len(batch) = Len(es) - n
      /\ \A i \in 1 .. Len(es) - n : batch[i] = es[n + i]
  <2>1. \A i \in n + 1 .. Len(es) : es[i] \in Recorded
    BY <1>1, <1>2
  <2>2. /\ batch \in Seq(Recorded)
        /\ Len(batch) = IF n + 1 <= Len(es) THEN Len(es) - (n + 1) + 1 ELSE 0
        /\ \A i \in 1 .. Len(es) - (n + 1) + 1 : batch[i] = es[n + 1 + i - 1]
    BY <1>1, <2>1, SubSeqProperties
  <2> HIDE DEF batch
  <2> QED
    BY <1>1, <2>2
<1>4. /\ old \in Seq(Recorded) /\ Len(old) = n
      /\ \A i \in 1 .. n : old[i] = es[i]
  <2>1. \A i \in 1 .. n : es[i] \in Recorded
    BY <1>1, <1>2
  <2>2. /\ old \in Seq(Recorded)
        /\ Len(old) = IF 1 <= n THEN n - 1 + 1 ELSE 0
        /\ \A i \in 1 .. n - 1 + 1 : old[i] = es[1 + i - 1]
    BY <1>1, <2>1, SubSeqProperties
  <2> HIDE DEF old
  <2> QED
    BY <1>1, <2>2
<1>5. /\ new \in Seq(Recorded) /\ Len(new) = k
      /\ \A i \in 1 .. k : new[i] = batch[i]
  <2> HIDE DEF batch
  <2>1. \A i \in 1 .. k : batch[i] \in Recorded
    BY <1>1, <1>3, ElementOfSeq
  <2>2. /\ new \in Seq(Recorded)
        /\ Len(new) = IF 1 <= k THEN k - 1 + 1 ELSE 0
        /\ \A i \in 1 .. k - 1 + 1 : new[i] = batch[1 + i - 1]
    BY <1>1, <2>1, SubSeqProperties
  <2> HIDE DEF new
  <2> QED
    BY <1>1, <2>2
<1> HIDE DEF batch, old, new
<1>6. /\ both \in Seq(Recorded) /\ Len(both) = n + k
      /\ \A i \in 1 .. n + k : both[i] = IF i <= n THEN old[i] ELSE new[i - n]
  BY <1>4, <1>5, ConcatProperties, ZenonT(100)
<1>7. \A i \in 1 .. n + k : both[i] = es[i]
  <2> TAKE i \in 1 .. n + k
  <2>1. CASE i <= n
    BY <1>1, <1>4, <1>6, <2>1, SMTT(60)
  <2>2. CASE ~ (i <= n)
    <3>1. i - n \in 1 .. k /\ i - n \in 1 .. Len(es) - n /\ n + (i - n) = i
      BY <1>1, <2>2
    <3> HIDE DEF both
    <3>2. both[i] = batch[i - n]
      BY <1>5, <1>6, <2>2, <3>1
    <3> QED
      BY <1>3, <3>1, <3>2
  <2> QED
    BY <2>1, <2>2
<1> DEFINE F == Appended(f, batch, k, t)
<1>8. F.entries = both /\ F = [f EXCEPT !.entries = both, !.tail = F.tail]
  BY DEF Appended, Files, old, new
<1>9. F.tail \in Tails /\ (t = "clean" => F.tail = "clean")
  BY DEF Appended, Files
<1> HIDE DEF F, both
<1>10. /\ F.entries \in Seq(Recorded) /\ Len(F.entries) = n + k
       /\ Prefix(old, F.entries) /\ Prefix(F.entries, es)
  <2>1. \A i \in 1 .. n : i \in 1 .. n + k
    BY <1>1
  <2> QED
    BY <1>1, <1>4, <1>6, <1>7, <1>8, <2>1 DEF Prefix
<1>11. F \in Files /\ F.exists = f.exists /\ F.version = f.version
  <2>1. F.entries \in Seq(Entries)
    BY <1>10, RecordedSeq
  <2> QED
    BY <1>8, <1>9, <2>1 DEF Files
<1> QED
  BY <1>9, <1>10, <1>11 DEF F, batch, old

LEMMA AppendNewResult ==
  ASSUME IInv, path # NoPath, NEW outcome \in {"ok", "error", "crash"},
         ~MustRewrite(Current), AppendNew(Current, outcome)
  PROVE  \E F : Written(F, outcome = "ok")
<1> DEFINE batch == SubSeq(fileEntries, savedCount + 1, Len(fileEntries))
<1>1. path \in Paths /\ disk[path] \in Files /\ disk \in [Paths -> Files]
      /\ savedCount \in Nat
  BY DEF IInv, TypeOK
<1>2. fileEntries \in Seq(Recorded) /\ Len(fileEntries) \in Nat
      /\ disk[path].version = 3
  BY <1>1, LenProperties DEF IInv, MemoryInv, FileInv
<1>3. Current.es = fileEntries
  BY DEF Current, Tree
<1>4. disk[path].exists /\ savedPath = path
  BY DEF MustRewrite
<1>5. /\ savedCount \in 0 .. Len(fileEntries)
      /\ disk[path].entries = SubSeq(fileEntries, 1, savedCount)
      /\ disk[path].tail = "clean"
  BY <1>1, <1>2, <1>4 DEF IInv, CursorMatchesFile
<1>6. Len(batch) = Len(fileEntries) - savedCount
  <2>1. \A i \in savedCount + 1 .. Len(fileEntries) : fileEntries[i] \in Recorded
    BY <1>1, <1>2, ElementOfSeq
  <2>2. Len(batch) = IF savedCount + 1 <= Len(fileEntries)
                     THEN Len(fileEntries) - (savedCount + 1) + 1 ELSE 0
    BY <1>1, <1>2, <2>1, SubSeqProperties
  <2> HIDE DEF batch
  <2> QED
    BY <1>1, <1>2, <1>5, <2>2
<1>7. PICK k \in 0 .. Len(batch), t \in Tails :
        /\ disk' = [disk EXCEPT ![path] = Appended(disk[path], batch, k, t)]
        /\ outcome = "ok" => k = Len(batch) /\ t = "clean"
  <2>1. Len(batch) \in 0 .. Len(batch) /\ "clean" \in Tails
    BY <1>1, <1>5, <1>6, <1>2 DEF Tails
  <2>2. PICK c \in IF outcome = "ok" THEN {<<Len(batch), "clean">>} ELSE Cuts(Len(batch)) :
          disk' = [disk EXCEPT ![path] = Appended(disk[path], batch, c[1], c[2])]
    BY <1>3 DEF AppendNew
  <2> HIDE DEF batch
  <2>3. CASE outcome = "ok"
    <3>1. c = <<Len(batch), "clean">>
      BY <2>2, <2>3
    <3>2. c[1] = Len(batch) /\ c[2] = "clean"
      BY <3>1
    <3>3. disk' = [disk EXCEPT ![path] = Appended(disk[path], batch, Len(batch), "clean")]
      BY <2>2, <3>2
    <3> QED
      BY <2>1, <3>3
  <2>4. CASE outcome # "ok"
    <3>1. c[1] \in 0 .. Len(batch) /\ c[2] \in Tails
      BY <2>2, <2>4 DEF Cuts
    <3> QED
      BY <2>2, <2>4, <3>1
  <2> QED
    BY <2>3, <2>4
<1> DEFINE F == Appended(disk[path], batch, k, t)
<1>8. k \in 0 .. Len(fileEntries) - savedCount
  BY <1>6
<1>9. /\ F \in Files
      /\ F.exists /\ F.version = 3
      /\ F.entries \in Seq(Recorded)
      /\ Len(F.entries) = savedCount + k
      /\ Prefix(disk[path].entries, F.entries) /\ Prefix(F.entries, fileEntries)
      /\ t = "clean" => F.tail = "clean"
  <2>1. /\ F \in Files
        /\ F.exists = disk[path].exists /\ F.version = disk[path].version
        /\ F.entries \in Seq(Recorded)
        /\ Len(F.entries) = savedCount + k
        /\ Prefix(disk[path].entries, F.entries) /\ Prefix(F.entries, fileEntries)
        /\ t = "clean" => F.tail = "clean"
    <3> HIDE DEF F
    <3> QED
      BY <1>1, <1>2, <1>5, <1>8, AppendedEntries, ZenonT(60) DEF F
  <2> HIDE DEF F
  <2> QED
    BY <1>2, <1>4, <2>1
<1>10. outcome = "ok" => F.entries = fileEntries /\ F.tail = "clean"
  <2> SUFFICES ASSUME outcome = "ok" PROVE F.entries = fileEntries /\ F.tail = "clean"
    OBVIOUS
  <2>1. k = Len(fileEntries) - savedCount /\ t = "clean"
    BY <1>6, <1>7
  <2> HIDE DEF F
  <2>2. Len(F.entries) = Len(fileEntries)
    BY <1>1, <1>2, <1>9, <2>1
  <2>3. F.entries = fileEntries
    BY <1>2, <1>9, <2>2, SeqEqual DEF Prefix
  <2> QED
    BY <1>9, <2>1, <2>3
<1> HIDE DEF F, batch
<1>11. Written(F, outcome = "ok")
  BY <1>7, <1>9, <1>10 DEF Written, F
<1> QED
  BY <1>11

LEMMA WriteResult ==
  ASSUME IInv, path # NoPath, NEW nm \in Names \cup {NoName},
         NEW outcome \in {"ok", "error", "crash"},
         Write(Current, nm, outcome)
  PROVE  \E F : Written(F, outcome = "ok")
<1>1. path \in Paths /\ disk[path] \in Files /\ disk \in [Paths -> Files]
      /\ savedCount \in Nat
  BY DEF IInv, TypeOK
<1>2. CASE MustRewrite(Current) /\ Rewrite(Current, nm, outcome)
  BY <1>2, RewriteResult
<1>3. CASE ~MustRewrite(Current) /\ AppendNew(Current, outcome)
  BY <1>3, AppendNewResult
<1>4. CASE ~MustRewrite(Current) /\ Len(Current.es) = savedCount /\ UNCHANGED disk
  <2>1. disk' = [disk EXCEPT ![path] = disk[path]]
    BY <1>1, <1>4
  <2>2. Current.es = fileEntries /\ fileEntries \in Seq(Recorded)
    BY DEF Current, Tree, IInv, MemoryInv
  <2>3. savedPath = path /\ disk[path].exists
    BY <1>4 DEF MustRewrite
  <2>4. disk[path].entries = SubSeq(fileEntries, 1, savedCount) /\ disk[path].tail = "clean"
    BY <2>3 DEF IInv, CursorMatchesFile
  <2>5. disk[path].entries = fileEntries
    BY <1>4, <2>2, <2>4, SubSeqFull
  <2>6. disk[path].version = 3
    BY <1>1 DEF IInv, FileInv
  <2>7. Written(disk[path], TRUE)
    BY <1>1, <2>1, <2>2, <2>3, <2>4, <2>5, <2>6, PrefixRefl DEF Written
  <2> QED
    BY <2>7 DEF Written
<1> QED
  BY <1>2, <1>3, <1>4 DEF Write

-----------------------------------------------------------------------------
(* Steps that touch files *)

FilesOK ==
  /\ disk \in [Paths -> Files]
  /\ \A p \in Paths : /\ disk[p].entries \in Seq(Recorded)
                      /\ disk[p].version = 3
                      /\ ~disk[p].exists => disk[p].entries = << >>

LEMMA FileChange ==
  ASSUME IInv, NEW p \in Paths, NEW F \in Files,
         F.entries \in Seq(Recorded), F.version = 3,
         ~F.exists => F.entries = << >>,
         disk' = [disk EXCEPT ![p] = F]
  PROVE  /\ FilesOK'
         /\ disk'[p] = F
         /\ \A q \in Paths \ {p} : disk'[q] = disk[q]
<1>1. disk \in [Paths -> Files]
  BY DEF IInv, TypeOK
<1>2. disk'[p] = F /\ \A q \in Paths \ {p} : disk'[q] = disk[q]
  BY <1>1
<1>3. disk' \in [Paths -> Files]
  BY <1>1
<1>4. ASSUME NEW q \in Paths
      PROVE  /\ disk'[q].entries \in Seq(Recorded)
             /\ disk'[q].version = 3
             /\ ~disk'[q].exists => disk'[q].entries = << >>
  <2>1. CASE q = p
    BY <1>2, <2>1
  <2>2. CASE q # p
    BY <1>2, <2>2 DEF IInv, FileInv
  <2> QED
    BY <2>1, <2>2
<1> QED
  BY <1>2, <1>3, <1>4 DEF FilesOK

LEMMA StopStep ==
  ASSUME IInv, LoseVolatile, FilesOK', nextId' \in 1 .. MaxId + 1,
         acked' = acked, AckedIsDurable'
  PROVE  IInv'
<1>1. fileEntries' \in Seq(Recorded) /\ memory' \in Seq(Recorded) /\ tracked' = Len(memory')
  BY EmptySeq DEF LoseVolatile
<1>2. TypeOK'
  <2>1. fileEntries' \in Seq(Entries) /\ memory' \in Seq(Entries)
    BY <1>1, RecordedSeq
  <2>2. disk' \in [Paths -> Files] /\ acked' \in [Paths -> SUBSET Ids]
    BY DEF FilesOK, IInv, TypeOK
  <2> QED
    BY <2>1, <2>2 DEF LoseVolatile, TypeOK
<1>3. FileInv' /\ CursorMatchesFile'
  BY DEF LoseVolatile, FilesOK, FileInv, CursorMatchesFile
<1> QED
  BY <1>1, <1>2, <1>3 DEF IInv, MemoryInv

LEMMA SaveStep ==
  ASSUME IInv, NEW nm \in Names \cup {NoName},
         NEW outcome \in {"ok", "error", "crash"}, SaveAs(nm, outcome)
  PROVE  IInv'
<1>1. Reconciled = Current
  BY ReconciledIsCurrent DEF IInv, Current
<1>2. /\ Current.es = fileEntries /\ Current.leaf = leaf
      /\ Current.memory = memory /\ Current.tracked = tracked
      /\ Current.nextId = nextId
  BY DEF Current, Tree
<1>3. /\ path # NoPath /\ path \in Paths
      /\ disk \in [Paths -> Files]
      /\ acked \in [Paths -> SUBSET Ids]
      /\ fileEntries \in Seq(Recorded) /\ Len(fileEntries) \in Nat
      /\ disk[path].entries \in Seq(Recorded)
  BY LenProperties DEF SaveAs, IInv, TypeOK, MemoryInv, FileInv
<1>4. Write(Current, nm, outcome)
  BY <1>1 DEF SaveAs
<1>5. PICK F : Written(F, outcome = "ok")
  BY <1>3, <1>4, WriteResult
<1>6. FilesOK' /\ disk'[path] = F /\ \A q \in Paths \ {path} : disk'[q] = disk[q]
  BY <1>3, <1>5, FileChange DEF Written
<1>7. EntryIds(disk[path].entries) \subseteq EntryIds(disk'[path].entries)
  BY <1>3, <1>5, <1>6, PrefixIds DEF Written
<1>8. \A p \in Paths : acked[p] \subseteq EntryIds(disk'[p].entries)
  <2> TAKE p \in Paths
  <2>1. acked[p] \subseteq EntryIds(disk[p].entries)
    BY DEF IInv, AckedIsDurable
  <2>2. CASE p = path
    BY <1>7, <2>1, <2>2
  <2>3. CASE p # path
    BY <1>6, <2>1, <2>3
  <2> QED
    BY <2>2, <2>3
<1>9. CASE outcome = "crash"
  <2>1. LoseVolatile /\ nextId' = nextId /\ acked' = acked
    BY <1>1, <1>2, <1>9 DEF SaveAs
  <2>2. AckedIsDurable'
    BY <1>8, <2>1 DEF AckedIsDurable
  <2>3. nextId' \in 1 .. MaxId + 1
    BY <2>1 DEF IInv, TypeOK
  <2> QED
    BY <1>6, <2>1, <2>2, <2>3, StopStep
<1>10. CASE outcome # "crash"
  <2>1. /\ SetTree(Current) /\ SaveCursor(Current, outcome)
        /\ name' = nm /\ running' = running /\ path' = path
    BY <1>1, <1>10 DEF SaveAs
  <2>2. UNCHANGED <<fileEntries, leaf, memory, tracked, nextId>>
    BY <1>2, <2>1 DEF SetTree
  <2>3. MemoryInv'
    BY <2>2 DEF IInv, MemoryInv
  <2>4. FileInv'
    <3>1. Prefix(F.entries, fileEntries)
      BY <1>5 DEF Written
    <3> QED
      BY <1>6, <2>1, <2>2, <3>1 DEF FileInv, FilesOK
  <2>5. CASE outcome = "ok"
    <3>1. /\ savedPath' = path /\ savedCount' = Len(fileEntries)
          /\ acked' = [acked EXCEPT ![path] = @ \cup EntryIds(fileEntries)]
      BY <1>1, <1>2, <2>1, <2>5 DEF SaveAs, SaveCursor
    <3>2. F.exists /\ F.entries = fileEntries /\ F.tail = "clean"
      BY <1>5, <2>5 DEF Written
    <3>3. CursorMatchesFile'
      BY <1>3, <1>6, <2>1, <2>2, <3>1, <3>2, SubSeqFull DEF CursorMatchesFile
    <3>4. EntryIds(fileEntries) \subseteq Ids
      BY <1>3, RecordedSeq
    <3>5. acked' \in [Paths -> SUBSET Ids]
      BY <1>3, <3>1, <3>4
    <3>6. AckedIsDurable'
      <4> SUFFICES ASSUME NEW p \in Paths
                   PROVE  acked'[p] \subseteq EntryIds(disk'[p].entries)
        BY DEF AckedIsDurable
      <4>1. CASE p = path
        BY <1>3, <1>6, <1>8, <3>1, <3>2, <4>1
      <4>2. CASE p # path
        BY <1>3, <1>8, <3>1, <4>2
      <4> QED
        BY <4>1, <4>2
    <3>7. TypeOK'
      BY <1>3, <1>6, <2>1, <2>2, <3>1, <3>5 DEF IInv, TypeOK, FilesOK
    <3> QED
      BY <2>3, <2>4, <3>3, <3>6, <3>7 DEF IInv
  <2>6. CASE outcome # "ok"
    <3>1. savedPath' = NoPath /\ savedCount' = 0 /\ acked' = acked
      BY <1>1, <2>1, <2>6 DEF SaveAs, SaveCursor
    <3>2. CursorMatchesFile' /\ AckedIsDurable'
      BY <1>8, <3>1 DEF CursorMatchesFile, AckedIsDurable
    <3>3. TypeOK'
      BY <1>3, <1>6, <2>1, <2>2, <3>1 DEF IInv, TypeOK, FilesOK
    <3> QED
      BY <2>3, <2>4, <3>2, <3>3 DEF IInv
  <2> QED
    BY <2>5, <2>6
<1> QED
  BY <1>9, <1>10

\* Without version 1 files a load takes the file's records as they are.
LEMMA LoadedType ==
  ASSUME IInv, NEW f \in Files, f.entries \in Seq(Recorded), f.version = 3
  PROVE  LET t == Loaded(f) IN
           /\ t.es = f.entries /\ t.leaf = LastId(f.entries)
           /\ t.nextId = nextId
           /\ t.memory \in Seq(Recorded) /\ t.tracked = Len(t.memory)
<1> DEFINE t == [EmptyTree(nextId) EXCEPT !.es   = f.entries,
                                          !.leaf = LastId(f.entries)]
<1>1. /\ t.es = f.entries /\ t.leaf = LastId(f.entries) /\ t.nextId = nextId
      /\ t.memory = << >> /\ t.tracked = 0
  BY DEF EmptyTree, Tree
<1>2. t.memory \in Seq(Recorded) /\ t.tracked = Len(t.memory)
  BY <1>1, EmptySeq
<1>3. Loaded(f) = IF t.memory = << >> /\ t.es # << >>
                  THEN Rebuilt(t.es, t.leaf, t.nextId) ELSE t
  BY DEF Loaded
<1> HIDE DEF t
<1> QED
  BY <1>1, <1>2, <1>3, RebuiltType

LEMMA LoadStep ==
  ASSUME IInv, NEW p \in Paths, Load(p)
  PROVE  IInv'
<1> DEFINE t == Loaded(disk[p])
           F == [disk[p] EXCEPT !.tail = "clean"]
<1>1. /\ disk[p] \in Files /\ disk[p].entries \in Seq(Recorded)
      /\ disk[p].version = 3 /\ disk[p].exists
      /\ nextId \in 1 .. MaxId + 1 /\ acked \in [Paths -> SUBSET Ids]
  BY DEF IInv, TypeOK, FileInv, Load
<1>2. /\ t.es = disk[p].entries /\ t.leaf = LastId(disk[p].entries)
      /\ t.nextId = nextId
      /\ t.memory \in Seq(Recorded) /\ t.tracked = Len(t.memory)
  BY <1>1, LoadedType
<1>3. /\ SetTree(t) /\ savedPath' = p /\ savedCount' = Len(t.es)
      /\ running' = TRUE /\ path' = p /\ name' = disk[p].name
      /\ disk' = [disk EXCEPT ![p] = F] /\ acked' = acked
  BY DEF Load, Repaired
<1>4. /\ F \in Files /\ F.entries = disk[p].entries /\ F.version = 3
      /\ F.exists /\ F.tail = "clean"
  BY <1>1 DEF Files, Tails
<1>5. FilesOK' /\ disk'[p] = F /\ \A q \in Paths \ {p} : disk'[q] = disk[q]
  <2> HIDE DEF F
  <2> QED
    BY <1>1, <1>3, <1>4, FileChange
<1> HIDE DEF F, t
<1>6. MemoryInv' /\ fileEntries' = disk[p].entries
  BY <1>1, <1>2, <1>3 DEF SetTree, MemoryInv
<1>7. Len(disk[p].entries) \in Nat
  BY <1>1, LenProperties
<1>8. FileInv' /\ CursorMatchesFile'
  BY <1>1, <1>2, <1>3, <1>4, <1>5, <1>6, <1>7, PrefixRefl, SubSeqFull
     DEF FileInv, FilesOK, CursorMatchesFile
<1>9. AckedIsDurable'
  <2> SUFFICES ASSUME NEW q \in Paths
               PROVE  acked[q] \subseteq EntryIds(disk'[q].entries)
    BY <1>3 DEF AckedIsDurable
  <2>1. disk'[q].entries = disk[q].entries
    BY <1>4, <1>5
  <2> QED
    BY <2>1 DEF IInv, AckedIsDurable
<1>10. TypeOK'
  <2>1. fileEntries' \in Seq(Entries) /\ memory' \in Seq(Entries) /\ tracked' \in Nat
    BY <1>6, RecordedSeq, LenProperties DEF MemoryInv
  <2>2. leaf' \in Ids \cup {NoId} /\ nextId' = nextId
    BY <1>1, <1>2, <1>3, LastIdType DEF SetTree
  <2>3. name' \in Names \cup {NoName}
    BY <1>1, <1>3 DEF Files
  <2> QED
    BY <1>1, <1>2, <1>3, <1>5, <1>7, <2>1, <2>2, <2>3 DEF TypeOK, FilesOK
<1> QED
  BY <1>6, <1>8, <1>9, <1>10 DEF IInv

LEMMA LoadFailsStep ==
  ASSUME IInv, NEW p \in Paths, LoadFails(p)
  PROVE  IInv'
<1>1. /\ disk[p] \in Files /\ disk[p].entries \in Seq(Recorded)
      /\ nextId \in 1 .. MaxId + 1
  BY DEF IInv, TypeOK, FileInv
<1>2. /\ fileEntries' = disk[p].entries /\ leaf' = LastId(disk[p].entries)
      /\ memory' = << >> /\ tracked' = 0 /\ nextId' = nextId
  BY DEF LoadFails, SetTree, EmptyTree, Tree
<1>3. MemoryInv'
  BY <1>1, <1>2, EmptySeq DEF MemoryInv
<1>4. path' = p /\ disk' = disk /\ acked' = acked /\ savedPath' = NoPath /\ savedCount' = 0
      /\ running' = running /\ name' = disk[p].name
  BY DEF LoadFails
<1>5. FileInv' /\ CursorMatchesFile' /\ AckedIsDurable'
  BY <1>1, <1>2, <1>4, PrefixRefl
     DEF IInv, FileInv, CursorMatchesFile, AckedIsDurable
<1>6. TypeOK'
  <2>1. fileEntries' \in Seq(Entries) /\ memory' \in Seq(Entries)
    BY <1>3, RecordedSeq DEF MemoryInv
  <2>2. leaf' \in Ids \cup {NoId}
    BY <1>1, <1>2, LastIdType
  <2>3. name' \in Names \cup {NoName}
    BY <1>1, <1>4 DEF Files
  <2> QED
    BY <1>2, <1>4, <2>1, <2>2, <2>3 DEF IInv, TypeOK
<1> QED
  BY <1>3, <1>5, <1>6 DEF IInv

LEMMA NewSessionStep ==
  ASSUME IInv, NEW p \in Paths, NewSession(p)
  PROVE  IInv'
<1>1. /\ fileEntries' = << >> /\ leaf' = NoId /\ memory' = << >>
      /\ tracked' = 0 /\ nextId' = nextId
  BY DEF NewSession, SetTree, EmptyTree, Tree
<1>2. /\ ~disk[p].exists /\ running' = TRUE /\ path' = p /\ name' = NoName
      /\ UNCHANGED <<savedPath, savedCount, disk, acked>>
  BY DEF NewSession, cursor
<1>3. MemoryInv'
  BY <1>1, EmptySeq DEF MemoryInv
<1>4. disk[p].entries = << >>
  BY <1>2 DEF IInv, FileInv
<1>5. FileInv'
  BY <1>1, <1>2, <1>4, EmptySeq, PrefixRefl DEF IInv, FileInv
<1>6. CursorMatchesFile' /\ AckedIsDurable'
  BY <1>2 DEF IInv, CursorMatchesFile, AckedIsDurable
<1>7. TypeOK'
  BY <1>1, <1>2, <1>3, RecordedSeq DEF IInv, TypeOK, MemoryInv
<1> QED
  BY <1>3, <1>5, <1>6, <1>7 DEF IInv

\* What a fork writes are registered entries.
LEMMA ForkEntriesType ==
  ASSUME IInv, NEW k \in Nat, k <= Len(memory)
  PROVE  ~Bodiless(Current, k) /\ ForkEntries(Current, k) \in Seq(Recorded)
<1>1. fileEntries \in Seq(Recorded) /\ memory \in Seq(Recorded) /\ Len(memory) \in Nat
  BY LenProperties DEF IInv, MemoryInv
<1>2. Current.es = fileEntries /\ Current.leaf = leaf /\ Current.memory = memory
  BY DEF Current, Tree
<1>3. ~Bodiless(Current, k)
  <2> SUFFICES ASSUME 0 < k, k < Len(memory)
               PROVE  memory[k].id # NoId
    BY <1>2 DEF Bodiless
  <2>1. memory[k] \in Recorded
    BY <1>1, ElementOfSeq
  <2> QED
    BY <2>1 DEF Recorded, Ids
<1> QED
  BY <1>1, <1>2, <1>3, ActivePathType, EmptySeq DEF ForkEntries

LEMMA ForkStep ==
  ASSUME Plain, IInv, NEW p \in Paths, NEW k \in 0 .. MaxId, Fork(k, p)
  PROVE  IInv'
<1> DEFINE es == ForkEntries(Current, k)
<1>1. Reconciled = Current
  BY ReconciledIsCurrent DEF IInv, Current
<1>2. /\ Current.es = fileEntries /\ Current.leaf = leaf
      /\ Current.memory = memory /\ Current.tracked = tracked
      /\ Current.nextId = nextId
  BY DEF Current, Tree
<1>3. k \in Nat /\ k <= Len(memory)
  BY <1>1, <1>2 DEF Fork
<1>4. ~Bodiless(Current, k) /\ es \in Seq(Recorded)
  BY <1>3, ForkEntriesType
<1>5. /\ disk' = [disk EXCEPT ![p] = File(es, NoName)]
      /\ acked' = [acked EXCEPT ![p] = EntryIds(es)]
      /\ p # path
      /\ UNCHANGED <<running, path, name, savedPath, savedCount>>
  BY <1>1 DEF Fork, cursor, Plain
<1>6. UNCHANGED <<fileEntries, leaf, memory, tracked, nextId>>
  <2>1. nextId \in Nat
    BY DEF IInv, TypeOK
  <2>2. SetTree([Current EXCEPT !.nextId = nextId + 0])
    BY <1>1, <1>2, <1>4 DEF Fork
  <2>3. [Current EXCEPT !.nextId = nextId + 0] = Current
    BY <2>1 DEF Current, Tree
  <2> QED
    BY <1>2, <2>2, <2>3 DEF SetTree
<1> HIDE DEF es
<1>7. FilesOK' /\ disk'[p] = File(es, NoName) /\ \A q \in Paths \ {p} : disk'[q] = disk[q]
  <2> DEFINE G == File(es, NoName)
  <2>1. /\ G \in Files /\ G.entries \in Seq(Recorded) /\ G.version = 3
        /\ ~G.exists => G.entries = << >>
    BY <1>4, FileType
  <2>2. disk' = [disk EXCEPT ![p] = G]
    BY <1>5
  <2> HIDE DEF G
  <2>3. FilesOK' /\ disk'[p] = G /\ \A q \in Paths \ {p} : disk'[q] = disk[q]
    BY <2>1, <2>2, FileChange
  <2> QED
    BY <2>3 DEF G
<1>8. disk'[p].entries = es /\ EntryIds(es) \subseteq Ids
  BY <1>4, <1>7, FileType, RecordedSeq
<1>9. acked \in [Paths -> SUBSET Ids] /\ path \in Paths \cup {NoPath}
  BY DEF IInv, TypeOK
<1>10. MemoryInv' /\ FileInv'
  BY <1>5, <1>6, <1>7, <1>9 DEF IInv, MemoryInv, FileInv, FilesOK
<1>11. CursorMatchesFile'
  BY <1>5, <1>6, <1>7, <1>9 DEF IInv, CursorMatchesFile
<1>12. AckedIsDurable'
  <2> SUFFICES ASSUME NEW q \in Paths
               PROVE  acked'[q] \subseteq EntryIds(disk'[q].entries)
    BY DEF AckedIsDurable
  <2>1. CASE q = p
    BY <1>5, <1>8, <1>9, <2>1
  <2>2. CASE q # p
    BY <1>5, <1>7, <1>9, <2>2 DEF IInv, AckedIsDurable
  <2> QED
    BY <2>1, <2>2
<1>13. TypeOK'
  <2>1. acked' \in [Paths -> SUBSET Ids]
    BY <1>5, <1>8, <1>9
  <2> QED
    BY <1>5, <1>6, <1>7, <2>1 DEF IInv, TypeOK, FilesOK
<1> QED
  BY <1>10, <1>11, <1>12, <1>13 DEF IInv

LEMMA DeleteStep ==
  ASSUME IInv, NEW p \in Paths, Delete(p)
  PROVE  IInv'
<1>1. UNCHANGED <<running, fileEntries, leaf, memory, tracked, path, name,
                  savedPath, savedCount, nextId>>
  BY DEF Delete, volatile, tree, cursor
<1>2. disk' = [disk EXCEPT ![p] = NoFile] /\ acked' = [acked EXCEPT ![p] = {}]
  BY DEF Delete
<1>3. /\ NoFile \in Files /\ NoFile.entries = << >> /\ NoFile.version = 3
      /\ ~NoFile.exists /\ << >> \in Seq(Recorded)
  BY EmptySeq DEF NoFile, Files, Tails
<1>4. FilesOK' /\ disk'[p] = NoFile /\ \A q \in Paths \ {p} : disk'[q] = disk[q]
  BY <1>2, <1>3, FileChange, ZenonT(60)
<1>5. acked \in [Paths -> SUBSET Ids] /\ path \in Paths \cup {NoPath}
      /\ fileEntries \in Seq(Recorded)
  BY DEF IInv, TypeOK, MemoryInv
<1>6. FileInv'
  <2>1. ASSUME path # NoPath
        PROVE  Prefix(disk'[path].entries, fileEntries)
    <3>1. CASE path = p
      BY <1>3, <1>4, <1>5, <3>1, LenProperties, EmptySeq DEF Prefix
    <3>2. CASE path # p
      BY <1>4, <1>5, <2>1, <3>2 DEF IInv, FileInv
    <3> QED
      BY <3>1, <3>2
  <2> QED
    BY <1>1, <1>4, <2>1 DEF FileInv, FilesOK
<1>7. CursorMatchesFile'
  BY <1>1, <1>3, <1>4, <1>5 DEF IInv, CursorMatchesFile
<1>8. AckedIsDurable'
  <2> SUFFICES ASSUME NEW q \in Paths
               PROVE  acked'[q] \subseteq EntryIds(disk'[q].entries)
    BY DEF AckedIsDurable
  <2>1. CASE q = p
    BY <1>2, <1>5, <2>1
  <2>2. CASE q # p
    BY <1>2, <1>4, <1>5, <2>2 DEF IInv, AckedIsDurable
  <2> QED
    BY <2>1, <2>2
<1>9. TypeOK'
  <2>1. acked' \in [Paths -> SUBSET Ids]
    BY <1>2, <1>5
  <2> QED
    BY <1>1, <1>4, <2>1 DEF IInv, TypeOK, FilesOK
<1> QED
  BY <1>1, <1>6, <1>7, <1>8, <1>9 DEF IInv, MemoryInv

LEMMA ExitStep ==
  ASSUME IInv, Exit
  PROVE  IInv'
<1>1. FilesOK /\ nextId \in 1 .. MaxId + 1
  BY DEF IInv, TypeOK, FileInv, FilesOK
<1>2. FilesOK' /\ nextId' \in 1 .. MaxId + 1 /\ AckedIsDurable'
  BY <1>1 DEF Exit, FilesOK, IInv, AckedIsDurable
<1> QED
  BY <1>2, StopStep DEF Exit

-----------------------------------------------------------------------------
LEMMA InitHolds ==
  ASSUME Plain, Init
  PROVE  IInv
<1>1. disk = [p \in Paths |-> NoFile]
  BY DEF Init, Plain
<1>2. /\ NoFile \in Files /\ NoFile.entries = << >> /\ NoFile.version = 3
      /\ << >> \in Seq(Recorded) /\ << >> \in Seq(Entries) /\ Len(<< >>) = 0
  BY EmptySeq DEF NoFile, Files, Tails
<1>3. TypeOK
  <2>1. disk \in [Paths -> Files]
    BY <1>1, <1>2
  <2>2. acked \in [Paths -> SUBSET Ids]
    BY DEF Init
  <2>3. nextId \in 1 .. MaxId + 1
    BY DEF Init
  <2> QED
    BY <1>2, <2>1, <2>2, <2>3 DEF Init, TypeOK
<1>4. MemoryInv /\ FileInv /\ CursorMatchesFile
  BY <1>1, <1>2 DEF Init, MemoryInv, FileInv, CursorMatchesFile
<1>5. AckedIsDurable
  BY DEF Init, AckedIsDurable
<1> QED
  BY <1>3, <1>4, <1>5 DEF IInv

LEMMA StepHolds ==
  ASSUME Plain, IInv, [Next]_vars
  PROVE  IInv'
<1>1. ASSUME NEW kind \in AppendKinds, AppendMessage(kind) PROVE IInv'
  BY <1>1, AppendMessageStep
<1>2. ASSUME NEW id \in Ids, ContextEdit(id) \/ Compact(id) PROVE IInv'
  BY <1>2, ContextEditStep, CompactStep
<1>3. ASSUME NEW id \in Ids, Branch(id) \/ BranchWithSummary(id) PROVE IInv'
  BY <1>3, BranchStep, BranchWithSummaryStep
<1>4. CASE Project
  BY <1>4, ProjectStep
<1>5. CASE RawAppend \/ RawClear
  BY <1>5 DEF RawAppend, RawClear, Plain
<1>6. ASSUME NEW o \in Outcomes, Save(o) PROVE IInv'
  <2>1. o \in {"ok", "error", "crash"} /\ name \in Names \cup {NoName}
    BY DEF Outcomes, IInv, TypeOK
  <2> QED
    BY <1>6, <2>1, SaveStep DEF Save
<1>7. ASSUME NEW o \in Outcomes, NEW nm \in Names, CmdName(nm, o) PROVE IInv'
  <2>1. o \in {"ok", "error", "crash"}
    BY DEF Outcomes
  <2> QED
    BY <1>7, <2>1, SaveStep DEF CmdName
<1>8. ASSUME NEW p \in Paths, Load(p) \/ LoadFails(p) \/ LoadMissing(p) PROVE IInv'
  BY <1>8, LoadStep, LoadFailsStep DEF LoadMissing, Plain
<1>9. ASSUME NEW p \in Paths, NewSession(p) \/ Delete(p) PROVE IInv'
  BY <1>9, NewSessionStep, DeleteStep
<1>10. ASSUME NEW p \in Paths, NEW k \in 0 .. MaxId, Fork(k, p) PROVE IInv'
  BY <1>10, ForkStep
<1>11. CASE Exit
  BY <1>11, ExitStep
<1>12. CASE UNCHANGED vars
  BY <1>12 DEF vars, volatile, tree, cursor, IInv, TypeOK, MemoryInv, FileInv,
              CursorMatchesFile, AckedIsDurable
<1> QED
  BY <1>1, <1>2, <1>3, <1>4, <1>5, <1>6, <1>7, <1>8, <1>9, <1>10, <1>11, <1>12
     DEF Next

\* The inductive invariant: the state is well typed, every message in the C
\* session is registered and tracked, and the session's own file holds a
\* prefix of its entries - exactly savedCount of them, newline-terminated,
\* while the cursor names it.
THEOREM Invariance ==
  ASSUME Plain
  PROVE  Spec => []IInv
<1>1. Init => IInv
  BY InitHolds
<1>2. IInv /\ [Next]_vars => IInv'
  BY StepHolds
<1> QED
  BY <1>1, <1>2, PTL DEF Spec

\* What a save acknowledged stays in its file, through any sequence of torn
\* appends, failed writes, crashes, repairs, switches, forks and branches, until
\* the file is removed or another session is copied over it.
THEOREM Durability ==
  ASSUME Plain
  PROVE  Spec => []AckedIsDurable
<1>1. IInv => AckedIsDurable
  BY DEF IInv
<1> QED
  BY <1>1, Invariance, PTL

\* The append-only fast path continues exactly where the file ends, whatever
\* was done to this and other files in between, a clone over it excepted.
THEOREM CursorSound ==
  ASSUME Plain
  PROVE  Spec => []CursorMatchesFile
<1>1. IInv => CursorMatchesFile
  BY DEF IInv
<1> QED
  BY <1>1, Invariance, PTL

\* Every state of the store is well typed.
THEOREM TypeCorrect ==
  ASSUME Plain
  PROVE  Spec => []TypeOK
<1>1. IInv => TypeOK
  BY DEF IInv
<1> QED
  BY <1>1, Invariance, PTL

-----------------------------------------------------------------------------
(* The refinement: every step is one of DurableLog, or changes nothing     *)
(* that it sees.                                                           *)

Contents == [p \in Paths |-> disk[p].entries]

Unseen == UNCHANGED <<path, fileEntries, Contents>>

LEMMA PrefixCut ==
  ASSUME NEW S, NEW s \in Seq(S), NEW t \in Seq(S), Prefix(s, t)
  PROVE  s = SubSeq(t, 1, Len(s)) /\ Log!IsPrefix(s, t)
<1> DEFINE c == SubSeq(t, 1, Len(s))
<1>1. Len(s) \in Nat /\ Len(t) \in Nat /\ Len(s) <= Len(t)
  BY LenProperties DEF Prefix
<1>2. \A i \in 1 .. Len(s) : t[i] \in S
  BY <1>1, ElementOfSeq
<1>3. /\ c \in Seq(S) /\ Len(c) = Len(s)
      /\ \A i \in 1 .. Len(s) : c[i] = t[i]
  BY <1>1, <1>2, SubSeqProperties
<1> HIDE DEF c
<1>4. s = c
  BY <1>3, SeqEqual DEF Prefix
<1>5. SubSeq(s, 1, Len(s)) = s
  BY SubSeqFull
<1> QED
  BY <1>1, <1>4, <1>5 DEF c, Log!IsPrefix

\* One more record at the end of the log.
LEMMA AppendAdds ==
  ASSUME IInv, NEW e, fileEntries' = Append(fileEntries, e),
         UNCHANGED <<path, disk>>
  PROVE  Log!Add
<1> DEFINE S == Recorded \cup {e}
           es == fileEntries
<1>1. es \in Seq(S)
  BY SeqMonotonic DEF IInv, MemoryInv
<1>2. /\ Append(es, e) \in Seq(S) /\ Len(Append(es, e)) = Len(es) + 1
      /\ Prefix(es, Append(es, e))
  BY <1>1, AppendProperties, PrefixAppend
<1>3. Log!IsPrefix(es, Append(es, e))
  BY <1>1, <1>2, PrefixCut
<1> QED
  BY <1>2, <1>3 DEF Log!Add

\* Everything that records something in memory.
LEMMA MemoryImplements ==
  ASSUME IInv,
         \/ \E kind \in AppendKinds : AppendMessage(kind)
         \/ \E id \in Ids : ContextEdit(id) \/ Compact(id) \/ BranchWithSummary(id)
  PROVE  Log!Add
<1>1. Reconciled = Tree(fileEntries, leaf, memory, tracked, nextId)
  BY ReconciledIsCurrent DEF IInv
<1>2. UNCHANGED <<path, disk>>
  BY DEF AppendMessage, ContextEdit, Compact, BranchWithSummary
<1>3. \E e : fileEntries' = Append(fileEntries, e)
  <2>1. ASSUME NEW kind \in AppendKinds, AppendMessage(kind)
        PROVE  fileEntries' = Append(fileEntries, Fresh(kind, leaf, NoId))
    BY <2>1 DEF AppendMessage, Append1
  <2>2. ASSUME NEW id \in Ids, ContextEdit(id)
        PROVE  fileEntries' = Append(fileEntries, [Fresh("context_edit", leaf, id) EXCEPT !.id = nextId])
    BY <1>1, <2>2 DEF ContextEdit, SetTree, Tree
  <2>3. ASSUME NEW id \in Ids, Compact(id)
        PROVE  fileEntries' = Append(fileEntries, [Fresh("compaction", leaf, id) EXCEPT !.id = nextId])
    BY <1>1, <2>3 DEF Compact, SetTree, Rebuilt, Tree
  <2>4. ASSUME NEW id \in Ids, BranchWithSummary(id)
        PROVE  fileEntries' = Append(fileEntries, Fresh("branch_summary", id, NoId))
    BY <2>4 DEF BranchWithSummary, SetTree, Rebuilt, Tree
  <2> QED
    BY <2>1, <2>2, <2>3, <2>4
<1> QED
  BY <1>2, <1>3, AppendAdds

\* Moving within the tree, and projecting it, record nothing.
LEMMA MoveImplements ==
  ASSUME IInv, Project \/ \E id \in Ids : Branch(id)
  PROVE  Unseen
<1>1. Reconciled = Tree(fileEntries, leaf, memory, tracked, nextId)
  BY ReconciledIsCurrent DEF IInv
<1> QED
  BY <1>1 DEF Project, Branch, SetTree, Rebuilt, Tree, Unseen, Contents

\* What a change of one file does to the contents.
LEMMA ContentsChange ==
  ASSUME IInv, NEW p \in Paths, NEW F, disk' = [disk EXCEPT ![p] = F]
  PROVE  Contents' = [Contents EXCEPT ![p] = F.entries]
BY DEF IInv, TypeOK, Contents

LEMMA SaveImplements ==
  ASSUME IInv, NEW nm \in Names \cup {NoName},
         NEW outcome \in {"ok", "error", "crash"}, SaveAs(nm, outcome)
  PROVE  Log!Save \/ Log!SaveFails \/ Log!SaveDies
<1>1. Reconciled = Current
  BY ReconciledIsCurrent DEF IInv, Current
<1>2. /\ path # NoPath /\ path \in Paths
      /\ fileEntries \in Seq(Recorded) /\ Len(fileEntries) \in Nat
      /\ disk[path].entries \in Seq(Recorded)
  BY LenProperties DEF SaveAs, IInv, TypeOK, MemoryInv, FileInv
<1>3. Write(Current, nm, outcome)
  BY <1>1 DEF SaveAs
<1>4. PICK F : Written(F, outcome = "ok")
  BY <1>2, <1>3, WriteResult
<1> DEFINE n == Len(F.entries)
<1>5. /\ F.entries \in Seq(Recorded) /\ Prefix(disk[path].entries, F.entries)
      /\ Prefix(F.entries, fileEntries)
      /\ outcome = "ok" => F.entries = fileEntries
      /\ disk' = [disk EXCEPT ![path] = F]
  BY <1>4 DEF Written
<1>6. /\ F.entries = SubSeq(fileEntries, 1, n)
      /\ Log!IsPrefix(disk[path].entries, F.entries)
  BY <1>2, <1>5, PrefixCut
<1>7. n \in 0 .. Len(fileEntries)
  BY <1>2, <1>5, LenProperties DEF Prefix
<1>8. Contents' = [Contents EXCEPT ![path] = F.entries]
  BY <1>2, <1>5, ContentsChange
<1>9. Log!Put(n)
  <2>1. Contents[path] = disk[path].entries
    BY <1>2 DEF Contents
  <2> QED
    BY <1>2, <1>6, <1>8, <2>1 DEF Log!Put, Contents
<1>10. CASE outcome = "crash"
  BY <1>7, <1>9, <1>10 DEF SaveAs, LoseVolatile, Log!SaveDies, Log!Stop
<1>11. CASE outcome # "crash"
  <2>1. UNCHANGED <<path, fileEntries>>
    BY <1>1, <1>11 DEF SaveAs, SetTree, Current, Tree
  <2> QED
    BY <1>7, <1>9, <2>1 DEF Log!SaveFails
<1> QED
  BY <1>10, <1>11

LEMMA OpenImplements ==
  ASSUME IInv, NEW p \in Paths, Load(p) \/ LoadFails(p) \/ NewSession(p)
  PROVE  Log!Open(p)
<1>1. disk[p] \in Files /\ disk[p].entries \in Seq(Recorded) /\ disk[p].version = 3
  BY DEF IInv, TypeOK, FileInv
<1>2. path' = p
  BY DEF Load, LoadFails, NewSession
<1>3. fileEntries' = disk[p].entries /\ Contents' = Contents
  <2>1. CASE Load(p)
    <3>1. fileEntries' = disk[p].entries
      BY <1>1, <2>1, LoadedType DEF Load, SetTree
    <3>2. disk' = [disk EXCEPT ![p] = [disk[p] EXCEPT !.tail = "clean"]]
      BY <2>1 DEF Load, Repaired
    <3>3. [disk[p] EXCEPT !.tail = "clean"].entries = disk[p].entries
      BY <1>1 DEF Files
    <3>4. Contents' = [Contents EXCEPT ![p] = disk[p].entries]
      BY <3>2, <3>3, ContentsChange
    <3>5. Contents' = Contents
      BY <3>4 DEF Contents
    <3> QED
      BY <3>1, <3>5
  <2>2. CASE LoadFails(p)
    BY <2>2 DEF LoadFails, SetTree, EmptyTree, Tree, Contents
  <2>3. CASE NewSession(p)
    <3>1. disk[p].entries = << >>
      BY <2>3 DEF NewSession, IInv, FileInv
    <3> QED
      BY <2>3, <3>1 DEF NewSession, SetTree, EmptyTree, Tree, Contents
  <2> QED
    BY <2>1, <2>2, <2>3
<1> QED
  BY <1>2, <1>3 DEF Log!Open, Contents

LEMMA FileImplements ==
  ASSUME Plain, IInv, NEW p \in Paths,
         Delete(p) \/ \E k \in 0 .. MaxId : Fork(k, p)
  PROVE  Log!Copy(p) \/ Log!Delete(p)
<1>1. CASE Delete(p)
  <2>1. disk' = [disk EXCEPT ![p] = NoFile] /\ NoFile.entries = << >>
    BY <1>1 DEF Delete, NoFile
  <2>2. Contents' = [Contents EXCEPT ![p] = << >>]
    BY <2>1, ContentsChange
  <2> QED
    BY <1>1, <2>2 DEF Delete, volatile, tree, Log!Delete, Contents
<1>2. ASSUME NEW k \in 0 .. MaxId, Fork(k, p)
      PROVE  Log!Copy(p)
  <2>1. Reconciled = Current
    BY ReconciledIsCurrent DEF IInv, Current
  <2>2. fileEntries' = fileEntries /\ path' = path /\ p # path
    BY <1>2, <2>1 DEF Fork, SetTree, Current, Tree, Plain
  <2>3. \E F : disk' = [disk EXCEPT ![p] = F]
    BY <1>2 DEF Fork
  <2>4. \E es : Contents' = [Contents EXCEPT ![p] = es]
    BY <2>3, ContentsChange
  <2>5. Contents' = [Contents EXCEPT ![p] = Contents'[p]]
    BY <2>4 DEF Contents
  <2> QED
    BY <2>2, <2>5 DEF Log!Copy, Contents
<1> QED
  BY <1>1, <1>2

LEMMA StepImplements ==
  ASSUME Plain, IInv, [Next]_vars
  PROVE  [Log!Next]_(Log!vars)
<1> SUFFICES Log!Next \/ Unseen
  BY DEF Unseen, Contents, Log!vars
<1>1. ASSUME NEW kind \in AppendKinds, AppendMessage(kind) PROVE Log!Next
  BY <1>1, MemoryImplements DEF Log!Next
<1>2. ASSUME NEW id \in Ids, ContextEdit(id) \/ Compact(id) \/ BranchWithSummary(id)
      PROVE  Log!Next
  BY <1>2, MemoryImplements DEF Log!Next
<1>3. ASSUME Project \/ \E id \in Ids : Branch(id) PROVE Unseen
  BY <1>3, MoveImplements
<1>4. CASE RawAppend \/ RawClear
  BY <1>4 DEF RawAppend, RawClear, Plain
<1>5. ASSUME NEW o \in Outcomes, NEW nm \in Names \cup {NoName}, SaveAs(nm, o)
      PROVE  Log!Next
  <2>1. o \in {"ok", "error", "crash"}
    BY DEF Outcomes
  <2> QED
    BY <1>5, <2>1, SaveImplements DEF Log!Next
<1>6. ASSUME NEW o \in Outcomes, Save(o) \/ \E nm \in Names : CmdName(nm, o)
      PROVE  Log!Next
  <2>1. name \in Names \cup {NoName}
    BY DEF IInv, TypeOK
  <2> QED
    BY <1>5, <1>6, <2>1 DEF Save, CmdName
<1>7. ASSUME NEW p \in Paths, Load(p) \/ LoadFails(p) \/ LoadMissing(p) \/ NewSession(p)
      PROVE  Log!Next
  BY <1>7, OpenImplements DEF LoadMissing, Plain, Log!Next
<1>8. ASSUME NEW p \in Paths, Delete(p) \/ \E k \in 0 .. MaxId : Fork(k, p)
      PROVE  Log!Next
  BY <1>8, FileImplements DEF Log!Next
<1>9. ASSUME Exit PROVE Log!Next
  BY <1>9 DEF Exit, LoseVolatile, Log!Exit, Log!Stop, Log!Next
<1>10. ASSUME UNCHANGED vars PROVE Unseen
  BY <1>10 DEF vars, volatile, tree, Unseen, Contents
<1> QED
  BY <1>1, <1>2, <1>3, <1>4, <1>6, <1>7, <1>8, <1>9, <1>10 DEF Next

\* The store keeps the promise of DurableLog: a save leaves the file equal
\* to the session's log, one that fails or dies leaves a log between what the
\* file held and what the session holds, opening reads back exactly that, and
\* only removing a file, or a copy of another log over it, shortens it.
THEOREM KeepsLog ==
  ASSUME Plain
  PROVE  Spec => ImplementsLog
<1>1. Init => Log!Init
  <2>1. Init => disk = [p \in Paths |-> NoFile]
    BY DEF Init, Plain
  <2> QED
    BY <2>1 DEF Init, Log!Init, NoFile
<1>2. IInv /\ [Next]_vars => [Log!Next]_(Log!vars)
  BY StepImplements
<1> QED
  BY <1>1, <1>2, Invariance, PTL DEF Spec, ImplementsLog, Log!Spec

-----------------------------------------------------------------------------
(* The trees: every entry's parent is there before it.                     *)

\* Entries whose uuid was drawn before n.
DrawnBy(n) == {e \in Recorded : e.id < n}

\* A rooted tree of entries drawn before n.
Grown(es, n) == es \in Seq(DrawnBy(n)) /\ Rooted(es)

TreeInv ==
  /\ Grown(fileEntries, nextId)
  /\ leaf \in EntryIds(fileEntries) \cup {NoId}
  /\ \A p \in Paths : Grown(disk[p].entries, nextId)

LEMMA GrownType ==
  ASSUME NEW n, NEW es, Grown(es, n)
  PROVE  es \in Seq(Recorded) /\ Rooted(es)
<1>1. DrawnBy(n) \subseteq Recorded
  BY DEF DrawnBy
<1> QED  BY <1>1, SeqMonotonic DEF Grown

LEMMA GrownLater ==
  ASSUME NEW n \in Nat, NEW m \in Nat, n <= m, NEW es, Grown(es, n)
  PROVE  Grown(es, m)
<1>1. DrawnBy(n) \subseteq DrawnBy(m)
  BY DEF DrawnBy, Recorded, Ids
<1> QED  BY <1>1, SeqMonotonic DEF Grown

LEMMA GrownEmpty ==
  ASSUME NEW n
  PROVE  Grown(<< >>, n)
<1>1. << >> \in Seq(DrawnBy(n)) /\ DOMAIN << >> = {}
  BY EmptySeq
<1> QED  BY <1>1 DEF Grown, Rooted

\* A new record below one that is there.
LEMMA GrownAppend ==
  ASSUME NEW n \in Ids, NEW es, Grown(es, n), NEW e \in Recorded, e.id = n,
         e.parent \in EntryIds(es) \cup {NoId}
  PROVE  Grown(Append(es, e), n + 1) /\ e.id \in EntryIds(Append(es, e))
<1> DEFINE a == Append(es, e)
           L == Len(es)
<1>1. n \in Nat /\ DrawnBy(n) \subseteq DrawnBy(n + 1) /\ e \in DrawnBy(n + 1)
  BY DEF DrawnBy, Recorded, Ids
<1>2. es \in Seq(DrawnBy(n)) /\ es \in Seq(DrawnBy(n + 1))
  BY <1>1, SeqMonotonic DEF Grown
<1>3. /\ L \in Nat /\ DOMAIN es = 1 .. L
      /\ \A i \in 1 .. L : es[i] \in DrawnBy(n)
  BY <1>2, PointsOf
<1>4. /\ a \in Seq(DrawnBy(n + 1)) /\ DOMAIN a = 1 .. L + 1
      /\ a[L + 1] = e /\ \A i \in 1 .. L : a[i] = es[i]
  BY <1>1, <1>2, AppendPoints
<1> HIDE DEF a
<1>5. ASSUME NEW i \in 1 .. L + 1
      PROVE  a[i].parent = NoId \/ \E j \in 1 .. i - 1 : a[j].id = a[i].parent
  <2>1. CASE i = L + 1
    <3>1. SUFFICES ASSUME e.parent # NoId PROVE \E j \in 1 .. i - 1 : a[j].id = e.parent
      BY <1>4, <2>1
    <3>2. PICK j \in 1 .. L : es[j].id = e.parent
      BY <1>3, <3>1 DEF EntryIds
    <3>3. j \in 1 .. i - 1 /\ a[j] = es[j]
      BY <1>3, <1>4, <2>1
    <3> QED  BY <3>2, <3>3
  <2>2. CASE i # L + 1
    <3>1. i \in 1 .. L /\ a[i] = es[i]
      BY <1>3, <1>4, <2>2
    <3>2. es[i].parent = NoId \/ \E j \in 1 .. i - 1 : es[j].id = es[i].parent
      BY <1>3, <3>1 DEF Grown, Rooted
    <3>3. \A j \in 1 .. i - 1 : a[j] = es[j]
      BY <1>3, <1>4, <3>1
    <3> QED  BY <3>1, <3>2, <3>3
  <2> QED  BY <2>1, <2>2
<1>6. ASSUME NEW i \in 1 .. L + 1, NEW j \in 1 .. L + 1, a[i].id = a[j].id
      PROVE  i = j
  <2>1. \A k \in 1 .. L + 1 : k = L + 1 \/ k \in 1 .. L
    BY <1>3
  <2>2. \A k \in 1 .. L : a[k].id # a[L + 1].id
    BY <1>1, <1>3, <1>4, SMTT(60) DEF DrawnBy, Recorded, Ids
  <2>3. \A k, h \in 1 .. L : es[k].id = es[h].id => k = h
    BY <1>3 DEF Grown, Rooted
  <2> QED  BY <1>4, <1>6, <2>1, <2>2, <2>3
<1>7. e.id \in EntryIds(a)
  <2>1. L + 1 \in 1 .. L + 1
    BY <1>3
  <2> QED  BY <1>4, <2>1 DEF EntryIds
<1>8. Rooted(a)
  BY <1>4, <1>5, <1>6 DEF Rooted
<1>9. Grown(a, n + 1)
  BY <1>4, <1>8 DEF Grown
<1> QED  BY <1>7, <1>9 DEF a

\* A save that is cut short leaves a rooted tree.
LEMMA GrownPrefix ==
  ASSUME NEW n, NEW t, Grown(t, n), NEW s \in Seq(Recorded), Prefix(s, t)
  PROVE  Grown(s, n)
<1>1. /\ Len(t) \in Nat /\ DOMAIN t = 1 .. Len(t)
      /\ \A i \in 1 .. Len(t) : t[i] \in DrawnBy(n)
  BY PointsOf DEF Grown
<1>2. Len(s) \in Nat /\ DOMAIN s = 1 .. Len(s) /\ s \in [1 .. Len(s) -> Recorded]
  BY LenProperties
<1>3. \A i \in 1 .. Len(s) : i \in 1 .. Len(t) /\ s[i] = t[i]
  BY <1>1, <1>2 DEF Prefix
<1>4. s \in Seq(DrawnBy(n))
  <2>1. s \in [1 .. Len(s) -> DrawnBy(n)]
    BY <1>1, <1>2, <1>3
  <2> QED  BY <1>2, <2>1
<1>5. ASSUME NEW i \in 1 .. Len(s)
      PROVE  s[i].parent = NoId \/ \E j \in 1 .. i - 1 : s[j].id = s[i].parent
  <2>1. t[i].parent = NoId \/ \E j \in 1 .. i - 1 : t[j].id = t[i].parent
    BY <1>1, <1>3 DEF Grown, Rooted
  <2>2. \A j \in 1 .. i - 1 : j \in 1 .. Len(s)
    BY <1>2
  <2> QED  BY <1>3, <2>1, <2>2
<1>6. \A i, j \in 1 .. Len(s) : s[i].id = s[j].id => i = j
  BY <1>1, <1>3, SMTT(60) DEF Grown, Rooted
<1>7. Rooted(s)
  BY <1>2, <1>5, <1>6 DEF Rooted
<1> QED  BY <1>4, <1>7 DEF Grown

\* A fork of a branch is a rooted tree.
LEMMA GrownPath ==
  ASSUME NEW n, NEW es, Grown(es, n), NEW lf
  PROVE  Grown(ActivePath(es, lf), n)
<1>1. es \in Seq(DrawnBy(n)) /\ es \in Seq(Recorded) /\ Rooted(es)
  BY GrownType DEF Grown
<1>2. Rooted(ActivePath(es, lf))
  BY <1>1, RecordedIds, PathRooted
<1> QED  BY <1>1, <1>2, ActivePathType DEF Grown

LEMMA LastIdIn ==
  ASSUME NEW es \in Seq(Recorded)
  PROVE  LastId(es) \in EntryIds(es) \cup {NoId}
<1>1. CASE es = << >>
  BY <1>1 DEF LastId
<1>2. CASE es # << >>
  <2>1. Len(es) \in DOMAIN es
    BY <1>2, LenProperties, EmptySeq
  <2> QED  BY <1>2, <2>1 DEF LastId, Last, EntryIds
<1> QED  BY <1>1, <1>2


-----------------------------------------------------------------------------
(* What each step does to the trees and to the C session                   *)

Adds(e) ==
  /\ e \in Recorded /\ e.id = nextId /\ nextId \in Ids
  /\ e.parent \in EntryIds(fileEntries) \cup {NoId}
  /\ fileEntries' = Append(fileEntries, e) /\ leaf' = e.id
  /\ nextId' = nextId + 1 /\ disk' = disk
  /\ \/ e.parent = leaf /\ e.kind # "compaction" /\ memory' = Append(memory, e)
     \/ memory' = Selected(ActivePath(fileEntries', leaf'))

Moves ==
  /\ fileEntries' = fileEntries /\ leaf' \in EntryIds(fileEntries)
  /\ memory' = Selected(ActivePath(fileEntries', leaf'))
  /\ nextId' = nextId /\ disk' = disk

Opens(p) ==
  /\ fileEntries' = disk[p].entries /\ leaf' = LastId(disk[p].entries)
  /\ memory' = Selected(ActivePath(fileEntries', leaf')) \/ LoadFails(p)
  /\ nextId' = nextId
  /\ \A q \in Paths : disk'[q].entries = disk[q].entries

Stays   == fileEntries' = fileEntries /\ leaf' = leaf /\ memory' = memory
Empties == fileEntries' = << >> /\ leaf' = NoId /\ memory' = << >>

Rests ==
  /\ Stays \/ Empties
  /\ nextId' = nextId
  /\ \A p \in Paths : Grown(disk'[p].entries, nextId)

LEMMA NextIdLeft ==
  ASSUME IInv, HasIds
  PROVE  nextId \in Ids /\ nextId \in 1 .. MaxId
BY DEF IInv, TypeOK, HasIds, Ids

LEMMA RebuiltMirrors ==
  ASSUME NEW es, NEW lf, NEW next, SetTree(Rebuilt(es, lf, next))
  PROVE  /\ fileEntries' = es /\ leaf' = lf /\ nextId' = next
         /\ memory' = Selected(ActivePath(fileEntries', leaf'))
BY DEF SetTree, Rebuilt, Tree

LEMMA AppendMessageAdds ==
  ASSUME IInv, TreeInv, NEW kind \in AppendKinds, AppendMessage(kind)
  PROVE  \E e : Adds(e)
<1> DEFINE e == Fresh(kind, leaf, NoId)
<1>1. nextId \in Ids /\ nextId \in 1 .. MaxId
  BY NextIdLeft DEF AppendMessage
<1>2. kind \in EntryKinds /\ kind # "compaction"
  BY KindsAssumption DEF EntryKinds, MessageKinds
<1>3. leaf \in Ids \cup {NoId} /\ leaf \in EntryIds(fileEntries) \cup {NoId}
  BY DEF IInv, TypeOK, TreeInv
<1>4. e \in Recorded
  BY <1>1, <1>2, <1>3, FreshType
<1>5. e.id = nextId /\ e.parent = leaf /\ e.kind = kind
  BY DEF Fresh
<1>6. Append1(e) /\ disk' = disk
  BY DEF AppendMessage
<1> HIDE DEF e
<1>7. Adds(e)
  BY <1>1, <1>2, <1>3, <1>4, <1>5, <1>6 DEF Append1, Adds
<1> QED  BY <1>7

LEMMA ContextEditAdds ==
  ASSUME IInv, TreeInv, NEW target \in Ids, ContextEdit(target)
  PROVE  \E e : Adds(e)
<1> DEFINE e == Fresh("context_edit", leaf, target)
<1>1. Reconciled = Tree(fileEntries, leaf, memory, tracked, nextId)
  BY ReconciledIsCurrent DEF IInv
<1>2. nextId \in Ids /\ nextId \in 1 .. MaxId
  BY NextIdLeft DEF ContextEdit
<1>3. leaf \in Ids \cup {NoId} /\ leaf \in EntryIds(fileEntries) \cup {NoId}
  BY DEF IInv, TypeOK, TreeInv
<1>4. "context_edit" \in EntryKinds
  BY DEF EntryKinds
<1>5. e \in Recorded
  BY <1>2, <1>3, <1>4, FreshType
<1>6. e.id = nextId /\ e.parent = leaf /\ e.kind # "compaction" /\ [e EXCEPT !.id = nextId] = e
  BY DEF Fresh
<1>7. /\ SetTree(Tree(Append(fileEntries, e), e.id, Append(memory, e),
                      Len(memory) + 1, nextId + 1))
      /\ disk' = disk
  BY <1>1, <1>6 DEF ContextEdit, Tree
<1> HIDE DEF e
<1>8. Adds(e)
  BY <1>2, <1>3, <1>5, <1>6, <1>7 DEF SetTree, Tree, Adds
<1> QED  BY <1>8

LEMMA CompactAdds ==
  ASSUME IInv, TreeInv, NEW kept \in Ids, Compact(kept)
  PROVE  \E e : Adds(e)
<1> DEFINE e == Fresh("compaction", leaf, kept)
<1>1. Reconciled = Tree(fileEntries, leaf, memory, tracked, nextId)
  BY ReconciledIsCurrent DEF IInv
<1>2. nextId \in Ids /\ nextId \in 1 .. MaxId
  BY NextIdLeft DEF Compact
<1>3. leaf \in Ids \cup {NoId} /\ leaf \in EntryIds(fileEntries) \cup {NoId}
  BY DEF IInv, TypeOK, TreeInv
<1>4. "compaction" \in EntryKinds
  BY DEF EntryKinds
<1>5. e \in Recorded
  BY <1>2, <1>3, <1>4, FreshType
<1>6. e.id = nextId /\ e.parent = leaf /\ [e EXCEPT !.id = nextId] = e
  BY DEF Fresh
<1>7. SetTree(Rebuilt(Append(fileEntries, e), e.id, nextId + 1)) /\ disk' = disk
  BY <1>1, <1>6 DEF Compact, Tree
<1> HIDE DEF e
<1>8. Adds(e)
  BY <1>2, <1>3, <1>5, <1>6, <1>7, RebuiltMirrors DEF Adds
<1> QED  BY <1>8

LEMMA BranchWithSummaryAdds ==
  ASSUME IInv, TreeInv, NEW id \in Ids, BranchWithSummary(id)
  PROVE  \E e : Adds(e)
<1> DEFINE e == Fresh("branch_summary", id, NoId)
<1>1. nextId \in Ids /\ nextId \in 1 .. MaxId
  BY NextIdLeft DEF BranchWithSummary
<1>2. "branch_summary" \in EntryKinds
  BY DEF EntryKinds
<1>3. e \in Recorded
  BY <1>1, <1>2, FreshType
<1>4. e.id = nextId /\ e.parent = id
  BY DEF Fresh
<1>5. /\ SetTree(Rebuilt(Append(fileEntries, e), e.id, nextId + 1))
      /\ disk' = disk /\ id \in EntryIds(fileEntries)
  BY DEF BranchWithSummary
<1> HIDE DEF e
<1>6. Adds(e)
  BY <1>1, <1>3, <1>4, <1>5, RebuiltMirrors DEF Adds
<1> QED  BY <1>6

LEMMA BranchMoves ==
  ASSUME NEW id \in Ids, Branch(id)
  PROVE  Moves
BY RebuiltMirrors DEF Branch, Moves

LEMMA ProjectRests ==
  ASSUME IInv, TreeInv, Project
  PROVE  Rests
<1>1. Reconciled = Tree(fileEntries, leaf, memory, tracked, nextId)
  BY ReconciledIsCurrent DEF IInv
<1>2. Stays /\ nextId' = nextId /\ disk' = disk
  BY <1>1 DEF Project, SetTree, Tree, Stays
<1> QED  BY <1>2 DEF Rests, TreeInv

LEMMA SaveRests ==
  ASSUME IInv, TreeInv, NEW nm \in Names \cup {NoName},
         NEW outcome \in {"ok", "error", "crash"}, SaveAs(nm, outcome)
  PROVE  Rests
<1>1. Reconciled = Current
  BY ReconciledIsCurrent DEF IInv, Current
<1>2. path # NoPath /\ path \in Paths /\ disk \in [Paths -> Files]
  BY DEF SaveAs, IInv, TypeOK
<1>3. Write(Current, nm, outcome)
  BY <1>1 DEF SaveAs
<1>4. PICK F : Written(F, outcome = "ok")
  BY <1>2, <1>3, WriteResult
<1>5. /\ F.entries \in Seq(Recorded) /\ Prefix(F.entries, fileEntries)
      /\ disk' = [disk EXCEPT ![path] = F]
  BY <1>4 DEF Written
<1>6. Grown(F.entries, nextId)
  BY <1>5, GrownPrefix DEF TreeInv
<1>7. \A p \in Paths : Grown(disk'[p].entries, nextId)
  BY <1>2, <1>5, <1>6 DEF TreeInv
<1>8. /\ Current.es = fileEntries /\ Current.leaf = leaf
      /\ Current.memory = memory /\ Current.nextId = nextId
  BY DEF Current, Tree
<1>9. CASE outcome = "crash"
  <2>1. LoseVolatile /\ nextId' = nextId
    BY <1>1, <1>8, <1>9 DEF SaveAs
  <2> QED  BY <1>7, <2>1 DEF LoseVolatile, Empties, Rests
<1>10. CASE outcome # "crash"
  <2>1. SetTree(Current)
    BY <1>1, <1>10 DEF SaveAs
  <2> QED  BY <1>7, <1>8, <2>1 DEF SetTree, Stays, Rests
<1> QED  BY <1>9, <1>10


LEMMA EmptyMirror ==
  ASSUME NEW lf
  PROVE  Selected(ActivePath(<< >>, lf)) = << >>
<1>1. << >> \in Seq({})
  BY EmptySeq
<1>2. ActivePath(<< >>, lf) \in Seq({})
  BY <1>1, ActivePathType
<1>3. ASSUME NEW s \in Seq({}) PROVE s = << >>
  <2>1. Len(s) \in Nat /\ \A i \in 1 .. Len(s) : s[i] \in {}
    BY PointsOf
  <2> QED  BY <2>1, EmptySeq
<1>4. ActivePath(<< >>, lf) = << >>
  BY <1>2, <1>3
<1>5. Compactions(<< >>) = {}
  BY DEF Compactions
<1> QED  BY <1>4, <1>5 DEF Selected

LEMMA LoadedMirrors ==
  ASSUME NEW f \in Files, f.version = 3
  PROVE  LET t == Loaded(f) IN
           /\ t.es = f.entries /\ t.leaf = LastId(f.entries) /\ t.nextId = nextId
           /\ t.memory = Selected(ActivePath(f.entries, LastId(f.entries)))
<1> DEFINE t == [EmptyTree(nextId) EXCEPT !.es   = f.entries,
                                          !.leaf = LastId(f.entries)]
           S == Selected(ActivePath(f.entries, LastId(f.entries)))
<1>1. /\ t.es = f.entries /\ t.leaf = LastId(f.entries) /\ t.nextId = nextId
      /\ t.memory = << >>
  BY DEF EmptyTree, Tree
<1>2. Loaded(f) = IF t.memory = << >> /\ t.es # << >>
                  THEN Rebuilt(t.es, t.leaf, t.nextId) ELSE t
  BY DEF Loaded
<1> HIDE DEF t
<1>3. CASE f.entries = << >>
  <2>1. S = << >>
    BY <1>3, EmptyMirror
  <2> QED  BY <1>1, <1>2, <1>3, <2>1
<1>4. CASE f.entries # << >>
  <2>1. Loaded(f) = Rebuilt(f.entries, LastId(f.entries), nextId)
    BY <1>1, <1>2, <1>4
  <2> QED  BY <2>1 DEF Rebuilt, Tree
<1> QED  BY <1>3, <1>4

LEMMA LoadOpens ==
  ASSUME IInv, NEW p \in Paths, Load(p) \/ LoadFails(p)
  PROVE  Opens(p)
<1>1. disk \in [Paths -> Files] /\ disk[p] \in Files /\ disk[p].version = 3
  BY DEF IInv, TypeOK, FileInv
<1>2. CASE Load(p)
  <2>1. SetTree(Loaded(disk[p])) /\ disk' = [disk EXCEPT ![p] = Repaired(disk[p])]
    BY <1>2 DEF Load
  <2>2. /\ fileEntries' = disk[p].entries /\ leaf' = LastId(disk[p].entries)
        /\ nextId' = nextId
        /\ memory' = Selected(ActivePath(disk[p].entries, LastId(disk[p].entries)))
    BY <1>1, <2>1, LoadedMirrors DEF SetTree
  <2>3. Repaired(disk[p]).entries = disk[p].entries
    BY <1>1 DEF Repaired, Files
  <2>4. ASSUME NEW q \in Paths PROVE disk'[q].entries = disk[q].entries
    <3>1. CASE q = p
      BY <1>1, <2>1, <2>3, <3>1
    <3>2. CASE q # p
      BY <1>1, <2>1, <3>2
    <3> QED  BY <3>1, <3>2
  <2> QED  BY <2>2, <2>4 DEF Opens
<1>3. CASE LoadFails(p)
  BY <1>3 DEF LoadFails, SetTree, EmptyTree, Tree, Opens
<1> QED  BY <1>2, <1>3

LEMMA NewSessionRests ==
  ASSUME TreeInv, NEW p \in Paths, NewSession(p) \/ Exit
  PROVE  Rests
<1>1. Empties /\ nextId' = nextId /\ disk' = disk
  BY DEF NewSession, Exit, LoseVolatile, SetTree, EmptyTree, Tree, Empties
<1> QED  BY <1>1 DEF Rests, TreeInv

LEMMA DeleteRests ==
  ASSUME IInv, TreeInv, NEW p \in Paths, Delete(p)
  PROVE  Rests
<1>1. disk' = [disk EXCEPT ![p] = NoFile] /\ NoFile.entries = << >>
      /\ disk \in [Paths -> Files]
  BY DEF Delete, NoFile, IInv, TypeOK
<1>2. Grown(NoFile.entries, nextId)
  BY <1>1, GrownEmpty
<1>3. \A q \in Paths : Grown(disk'[q].entries, nextId)
  BY <1>1, <1>2 DEF TreeInv
<1> QED  BY <1>3 DEF Delete, volatile, tree, Stays, Rests

LEMMA ForkRests ==
  ASSUME IInv, TreeInv, NEW p \in Paths, NEW k \in 0 .. MaxId, Fork(k, p)
  PROVE  Rests
<1> DEFINE es == ForkEntries(Current, k)
<1>1. Reconciled = Current
  BY ReconciledIsCurrent DEF IInv, Current
<1>2. /\ Current.es = fileEntries /\ Current.leaf = leaf
      /\ Current.memory = memory /\ Current.tracked = tracked
      /\ Current.nextId = nextId
  BY DEF Current, Tree
<1>3. k \in Nat /\ k <= Len(memory)
  BY <1>1, <1>2 DEF Fork
<1>4. ~Bodiless(Current, k)
  BY <1>3, ForkEntriesType
<1>5. Grown(es, nextId)
  <2>1. es = << >> \/ \E lf : es = ActivePath(fileEntries, lf)
    BY <1>2, <1>4 DEF ForkEntries
  <2> QED  BY <2>1, GrownEmpty, GrownPath DEF TreeInv
<1>6. disk' = [disk EXCEPT ![p] = File(es, NoName)] /\ disk \in [Paths -> Files]
  BY <1>1 DEF Fork, IInv, TypeOK
<1>7. Stays /\ nextId' = nextId
  <2>1. nextId \in Nat
    BY DEF IInv, TypeOK
  <2>2. SetTree([Current EXCEPT !.nextId = nextId + 0])
    BY <1>1, <1>2, <1>4 DEF Fork
  <2>3. [Current EXCEPT !.nextId = nextId + 0] = Current
    BY <2>1 DEF Current, Tree
  <2> QED  BY <1>2, <2>2, <2>3 DEF SetTree, Stays
<1> HIDE DEF es
<1>8. File(es, NoName).entries = es
  BY DEF File, NoFile
<1>9. ASSUME NEW q \in Paths PROVE Grown(disk'[q].entries, nextId)
  <2>1. CASE q = p
    BY <1>5, <1>6, <1>8, <2>1
  <2>2. CASE q # p
    BY <1>6, <2>2 DEF TreeInv
  <2> QED  BY <2>1, <2>2
<1> QED  BY <1>7, <1>9 DEF Rests

\* Every step is one of these.
LEMMA StepEffect ==
  ASSUME Plain, IInv, TreeInv, [Next]_vars
  PROVE  (\E e : Adds(e)) \/ Moves \/ (\E p \in Paths : Opens(p)) \/ Rests
<1> DEFINE Goal == (\E e : Adds(e)) \/ Moves \/ (\E p \in Paths : Opens(p)) \/ Rests
<1>1. ASSUME NEW kind \in AppendKinds, AppendMessage(kind) PROVE Goal
  BY <1>1, AppendMessageAdds
<1>2. ASSUME NEW id \in Ids, ContextEdit(id) \/ Compact(id) PROVE Goal
  BY <1>2, ContextEditAdds, CompactAdds
<1>3. ASSUME NEW id \in Ids, Branch(id) \/ BranchWithSummary(id) PROVE Goal
  BY <1>3, BranchMoves, BranchWithSummaryAdds
<1>4. ASSUME Project PROVE Goal
  BY <1>4, ProjectRests
<1>5. ASSUME RawAppend \/ RawClear PROVE Goal
  BY <1>5 DEF RawAppend, RawClear, Plain
<1>6. ASSUME NEW o \in Outcomes, NEW nm \in Names \cup {NoName}, SaveAs(nm, o)
      PROVE  Goal
  <2>1. o \in {"ok", "error", "crash"}
    BY DEF Outcomes
  <2> QED  BY <1>6, <2>1, SaveRests
<1>7. ASSUME NEW o \in Outcomes, Save(o) \/ \E nm \in Names : CmdName(nm, o)
      PROVE  Goal
  <2>1. name \in Names \cup {NoName}
    BY DEF IInv, TypeOK
  <2> HIDE DEF Goal
  <2> QED  BY <1>6, <1>7, <2>1 DEF Save, CmdName
<1>8. ASSUME NEW p \in Paths, Load(p) \/ LoadFails(p) PROVE Goal
  BY <1>8, LoadOpens
<1>9. ASSUME NEW p \in Paths, LoadMissing(p) PROVE Goal
  BY <1>9 DEF LoadMissing, Plain
<1>10. ASSUME NEW p \in Paths, NewSession(p) \/ Delete(p) \/ \E k \in 0 .. MaxId : Fork(k, p)
       PROVE  Goal
  BY <1>10, NewSessionRests, DeleteRests, ForkRests
<1>11. ASSUME Exit PROVE Rests
  <2>1. Empties /\ nextId' = nextId /\ disk' = disk
    BY <1>11 DEF Exit, LoseVolatile, Empties
  <2> QED  BY <2>1 DEF Rests, TreeInv
<1>12. ASSUME UNCHANGED vars PROVE Rests
  BY <1>12 DEF vars, volatile, tree, Stays, Rests, TreeInv
<1> HIDE DEF Goal
<1>13. ASSUME Next PROVE Goal
  <2>1. ASSUME Exit PROVE Goal
    BY <1>11, <2>1 DEF Goal
  <2> QED
    BY <1>1, <1>2, <1>3, <1>4, <1>5, <1>7, <1>8, <1>9, <1>10, <1>13, <2>1 DEF Next
<1> QED  BY <1>12, <1>13 DEF Goal

LEMMA TreeKept ==
  ASSUME Plain, IInv, TreeInv, [Next]_vars
  PROVE  TreeInv'
<1>1. nextId \in Nat
  BY DEF IInv, TypeOK
<1>2. ASSUME NEW e, Adds(e) PROVE TreeInv'
  <2>1. Grown(fileEntries', nextId') /\ leaf' \in EntryIds(fileEntries')
    BY <1>2, GrownAppend DEF Adds, TreeInv
  <2>2. \A p \in Paths : Grown(disk'[p].entries, nextId')
    <3>1. disk' = disk /\ nextId' \in Nat /\ nextId <= nextId'
      BY <1>1, <1>2 DEF Adds
    <3> QED  BY <1>1, <3>1, GrownLater DEF TreeInv
  <2> QED  BY <2>1, <2>2 DEF TreeInv
<1>3. CASE Moves
  BY <1>3 DEF Moves, TreeInv
<1>4. ASSUME NEW p \in Paths, Opens(p) PROVE TreeInv'
  <2>1. disk[p].entries \in Seq(Recorded)
    BY DEF IInv, FileInv
  <2> QED  BY <1>4, <2>1, LastIdIn DEF Opens, TreeInv
<1>5. CASE Rests
  <2>1. Grown(<< >>, nextId)
    BY GrownEmpty
  <2> QED  BY <1>5, <2>1 DEF Rests, Stays, Empties, TreeInv
<1> QED  BY <1>2, <1>3, <1>4, <1>5, StepEffect

LEMMA InitTrees ==
  ASSUME Plain, Init
  PROVE  TreeInv
<1>1. fileEntries = << >> /\ leaf = NoId /\ disk = [p \in Paths |-> NoFile]
      /\ NoFile.entries = << >>
  BY DEF Init, Plain, NoFile
<1> QED  BY <1>1, GrownEmpty DEF TreeInv


\* The second inductive invariant: every tree is rooted, its uuids were drawn,
\* and the leaf is one of its entries.
THEOREM TreesGrow ==
  ASSUME Plain
  PROVE  Spec => []TreeInv
<1>1. Init => TreeInv
  BY InitTrees
<1>2. IInv /\ TreeInv /\ [Next]_vars => TreeInv'
  BY TreeKept
<1> QED  BY <1>1, <1>2, Invariance, PTL DEF Spec

\* No walk from a leaf ever stops at a hole, in memory or in any file, through
\* torn appends, crashes, forks of compacted sessions over any other file, and
\* deletions.
THEOREM RootedTrees ==
  ASSUME Plain
  PROVE  Spec => []TreesAreRooted
<1>1. TreeInv => TreesAreRooted
  BY DEF TreeInv, Grown, TreesAreRooted
<1> QED  BY <1>1, TreesGrow, PTL

-----------------------------------------------------------------------------
(* The C session mirrors the active path                                   *)

\* The projection of the path stays in the C session.
LEMMA MirrorKept ==
  ASSUME Plain, IInv, TreeInv, [Next]_vars, Mirrors(memory, fileEntries, leaf)
  PROVE  Mirrors(memory', fileEntries', leaf') \/ \E p \in Paths : LoadFails(p)
<1>1. fileEntries \in Seq(Recorded) /\ Rooted(fileEntries) /\ nextId \in Nat
  BY DEF IInv, MemoryInv, TreeInv, Grown, TypeOK
<1>2. ASSUME NEW e, Adds(e) PROVE Mirrors(memory', fileEntries', leaf')
  <2>1. CASE memory' = Selected(ActivePath(fileEntries', leaf'))
    BY <2>1 DEF Mirrors
  <2>2. CASE e.parent = leaf /\ e.kind # "compaction" /\ memory' = Append(memory, e)
    <3>1. e \in Recorded /\ fileEntries' = Append(fileEntries, e) /\ leaf' = e.id
      BY <1>2 DEF Adds
    <3>2. Rooted(Append(fileEntries, e))
      BY <1>2, GrownAppend DEF Adds, TreeInv, Grown
    <3>3. e.parent # e.id
      <4>1. \A i \in DOMAIN fileEntries : fileEntries[i].id < nextId
        <5>1. fileEntries \in Seq(DrawnBy(nextId))
          BY DEF TreeInv, Grown
        <5> QED  BY <5>1, PointsOf DEF DrawnBy
      <4>2. e.id = nextId /\ nextId # NoId /\ e.parent \in EntryIds(fileEntries) \cup {NoId}
        BY <1>2 DEF Adds, Ids
      <4>3. nextId \notin EntryIds(fileEntries)
        BY <1>1, <4>1 DEF EntryIds
      <4> QED  BY <4>2, <4>3
    <3>4. ActivePath(fileEntries', leaf') = Append(ActivePath(fileEntries, leaf), e)
      BY <1>1, <2>2, <3>1, <3>2, <3>3, RecordedIds, PathGrows
    <3>5. ActivePath(fileEntries, leaf) \in Seq(Recorded)
      BY <1>1, ActivePathType
    <3>6. Selected(ActivePath(fileEntries', leaf')) = Append(Selected(ActivePath(fileEntries, leaf)), e)
      BY <2>2, <3>1, <3>4, <3>5, SelectedGrows
    <3> QED  BY <2>2, <3>6 DEF Mirrors
  <2> QED  BY <1>2, <2>1, <2>2 DEF Adds
<1>3. CASE Moves
  BY <1>3 DEF Moves, Mirrors
<1>4. ASSUME NEW p \in Paths, Opens(p)
      PROVE  Mirrors(memory', fileEntries', leaf') \/ \E q \in Paths : LoadFails(q)
  BY <1>4 DEF Opens, Mirrors
<1>5. CASE Rests
  BY <1>5, EmptyMirror DEF Rests, Stays, Empties, Mirrors
<1> QED  BY <1>2, <1>3, <1>4, <1>5, StepEffect

\* The C session is the projection of the active path, and stays it through every
\* branch, compaction, reload, fork and save; only a load that fails leaves it.
THEOREM Mirrored ==
  ASSUME Plain
  PROVE  Spec => MemoryMirrorsPath
<1>1. IInv /\ TreeInv /\ [Next]_vars =>
        [\A array \in {memory'}, es \in {fileEntries'}, id \in {leaf'} :
           Mirrors(memory, fileEntries, leaf) =>
             Mirrors(array, es, id) \/ \E p \in Paths : LoadFails(p)]_tree
  BY MirrorKept
<1> QED  BY <1>1, Invariance, TreesGrow, PTL DEF Spec, MemoryMirrorsPath

-----------------------------------------------------------------------------
(* The array of messages and its sums. *)

Arrays == [estimates : Seq(Nat), prefix : Seq(Int), capacity : Nat]

\* Each sum is the one before it and an estimate; there is room for all of them.
SumsOK(s) ==
  /\ s \in Arrays
  /\ Len(s.estimates) <= s.capacity
  /\ s.capacity > 0 => Len(s.prefix) = s.capacity + 1 /\ s.prefix[1] = 0
  /\ \A i \in 1 .. Len(s.estimates) : s.prefix[i + 1] = s.prefix[i] + s.estimates[i]

LEMMA ArrayFields ==
  ASSUME NEW s \in Arrays
  PROVE  /\ s.estimates \in Seq(Nat) /\ s.prefix \in Seq(Int) /\ s.capacity \in Nat
         /\ Len(s.estimates) \in Nat /\ Len(s.prefix) \in Nat
         /\ s.estimates = << >> <=> Len(s.estimates) = 0
         /\ \A i \in 1 .. Len(s.prefix) : s.prefix[i] \in Int
         /\ \A i \in 1 .. Len(s.estimates) : s.estimates[i] \in Nat
<1>1. s.estimates \in Seq(Nat) /\ s.prefix \in Seq(Int) /\ s.capacity \in Nat
  BY DEF Arrays
<1>2. /\ Len(s.estimates) \in Nat /\ \A i \in 1 .. Len(s.estimates) : s.estimates[i] \in Nat
      /\ s.estimates = << >> <=> Len(s.estimates) = 0
  BY <1>1
<1>3. Len(s.prefix) \in Nat /\ \A i \in 1 .. Len(s.prefix) : s.prefix[i] \in Int
  BY <1>1
<1> QED
  BY <1>1, <1>2, <1>3

LEMMA ClearedOK == SumsOK(Cleared)
<1>1. << >> \in Seq(Nat) /\ << >> \in Seq(Int) /\ Len(<< >>) = 0
  OBVIOUS
<1>2. Cleared \in Arrays
  BY <1>1 DEF Cleared, Arrays
<1>3. Cleared.estimates = << >> /\ Cleared.capacity = 0
  BY DEF Cleared
<1> QED
  BY <1>1, <1>2, <1>3 DEF SumsOK

\* Where the numbers of two rows joined come from.
LEMMA JoinInts ==
  ASSUME NEW x \in Seq(Int), NEW y \in Seq(Int)
  PROVE  /\ x \o y \in Seq(Int) /\ Len(x \o y) = Len(x) + Len(y)
         /\ \A i \in 1 .. Len(x) : (x \o y)[i] = x[i]
<1>1. x \o y \in Seq(Int) /\ Len(x \o y) = Len(x) + Len(y)
  BY ConcatPoints
<1>2. \A i \in 1 .. Len(x) : (x \o y)[i] = x[i]
  BY ConcatPoints
<1> QED
  BY <1>1, <1>2

\* After the arrays were moved there is room for one more.
LEMMA EnlargedOK ==
  ASSUME NEW s, SumsOK(s)
  PROVE  /\ SumsOK(Enlarged(s))
         /\ Enlarged(s).estimates = s.estimates
         /\ Len(s.estimates) < Enlarged(s).capacity
<1> DEFINE n == Len(s.estimates)
           capacity == IF s.capacity = 0 THEN FirstCapacity ELSE 2 * s.capacity
           known == IF s.estimates = << >> THEN <<0>> ELSE SubSeq(s.prefix, 1, n + 1)
           rest == [i \in 1 .. capacity + 1 - Len(known) |-> Unset]
           new == known \o rest
           t == [s EXCEPT !.capacity = capacity, !.prefix = new]
<1>1. /\ s \in Arrays /\ n \in Nat /\ s.capacity \in Nat /\ n <= s.capacity
      /\ s.estimates = << >> <=> n = 0
      /\ s.prefix \in Seq(Int) /\ s.estimates \in Seq(Nat)
  BY ArrayFields DEF SumsOK
<1>2. CASE n < s.capacity
  BY <1>1, <1>2 DEF Enlarged
<1>3. CASE ~(n < s.capacity)
  <2>1. n = s.capacity
    BY <1>1, <1>3
  <2>2. capacity \in Nat /\ capacity >= n + 1
    BY <1>1, <2>1, CapacityAssumption, SMTT(60)
  <2>3. Enlarged(s) = t
    BY <1>3 DEF Enlarged
  <2>4. /\ known \in Seq(Int) /\ Len(known) = n + 1 /\ known[1] = 0
        /\ n > 0 => \A i \in 1 .. n + 1 : known[i] = s.prefix[i]
    <3>1. CASE n = 0
      <4>1. known = <<0>>
        BY <1>1, <3>1
      <4> QED
        BY <3>1, <4>1
    <3>2. CASE n # 0
      <4>1. known = SubSeq(s.prefix, 1, n + 1)
        BY <1>1, <3>2
      <4>2. Len(s.prefix) = n + 1 /\ s.prefix[1] = 0
        BY <1>1, <2>1, <3>2 DEF SumsOK
      <4>3. /\ SubSeq(s.prefix, 1, n + 1) \in Seq(Int)
            /\ Len(SubSeq(s.prefix, 1, n + 1)) = n + 1
            /\ \A i \in 1 .. n + 1 : SubSeq(s.prefix, 1, n + 1)[i] = s.prefix[i]
        BY <1>1, <4>2, SMTT(60)
      <4>4. 1 \in 1 .. n + 1
        BY <1>1
      <4> HIDE DEF known, n
      <4> QED
        BY <4>1, <4>2, <4>3, <4>4
    <3> QED
      BY <3>1, <3>2
  <2> HIDE DEF known, capacity
  <2>5. capacity + 1 - Len(known) \in Nat
    BY <1>1, <2>2, <2>4
  <2>6. rest \in Seq(Int) /\ Len(rest) = capacity + 1 - Len(known)
    BY <2>5 DEF Unset
  <2> HIDE DEF rest
  <2>7. /\ new \in Seq(Int) /\ Len(new) = capacity + 1
        /\ \A i \in 1 .. n + 1 : new[i] = known[i]
    <3>1. /\ new \in Seq(Int) /\ Len(new) = Len(known) + Len(rest)
          /\ \A i \in 1 .. Len(known) : new[i] = known[i]
      <4>1. known \in Seq(Int) /\ rest \in Seq(Int)
        BY <2>4, <2>6
      <4> HIDE DEF new
      <4>2. /\ known \o rest \in Seq(Int) /\ Len(known \o rest) = Len(known) + Len(rest)
            /\ \A i \in 1 .. Len(known) : (known \o rest)[i] = known[i]
        BY <4>1, JoinInts
      <4>3. new = known \o rest
        BY DEF new
      <4> QED
        BY <4>2, <4>3
    <3> QED
      BY <2>2, <2>4, <2>5, <2>6, <3>1
  <2> HIDE DEF new
  <2>8. t \in Arrays /\ t.estimates = s.estimates /\ t.prefix = new /\ t.capacity = capacity
    BY <1>1, <2>2, <2>7 DEF Arrays
  <2> HIDE DEF t
  <2>9. ASSUME NEW i \in 1 .. n PROVE new[i + 1] = new[i] + s.estimates[i]
    <3>1. i \in 1 .. n + 1 /\ i + 1 \in 1 .. n + 1 /\ n > 0
      BY <1>1, SMTT(60)
    <3>2. new[i] = s.prefix[i] /\ new[i + 1] = s.prefix[i + 1]
      BY <2>4, <2>7, <3>1
    <3> QED
      BY <3>2 DEF SumsOK
  <2>10. new[1] = 0
    <3>1. 1 \in 1 .. n + 1
      BY <1>1
    <3> QED
      BY <2>4, <2>7, <3>1
  <2>11. SumsOK(t)
    <3> HIDE DEF n
    <3>1. Len(t.estimates) = n
      BY <2>8 DEF n
    <3> QED
      BY <1>1, <2>2, <2>7, <2>8, <2>9, <2>10, <3>1 DEF SumsOK
  <2> QED
    BY <1>1, <2>2, <2>3, <2>8, <2>11
<1> QED
  BY <1>2, <1>3

LEMMA PushedOK ==
  ASSUME NEW s, SumsOK(s), NEW e \in Nat
  PROVE  SumsOK(Pushed(s, e))
<1> DEFINE g == Enlarged(s)
           n == Len(g.estimates)
           all == Append(g.estimates, e)
           new == [g.prefix EXCEPT ![n + 2] = g.prefix[n + 1] + e]
           t == [g EXCEPT !.estimates = all, !.prefix = new]
<1>1. SumsOK(g) /\ n < g.capacity
  BY EnlargedOK
<1>2. Pushed(s, e) = t
  BY DEF Pushed
<1> HIDE DEF g
<1>3. /\ g \in Arrays /\ n \in Nat /\ g.capacity \in Nat
      /\ g.prefix \in Seq(Int) /\ g.estimates \in Seq(Nat)
  BY <1>1, ArrayFields DEF SumsOK
<1>4. Len(g.prefix) = g.capacity + 1 /\ g.prefix[1] = 0
  BY <1>1, <1>3 DEF SumsOK
<1>5. n + 1 \in 1 .. Len(g.prefix) /\ n + 2 \in 1 .. Len(g.prefix)
  <2> HIDE DEF n
  <2> QED
    BY <1>1, <1>3, <1>4, SMTT(60)
<1>6. g.prefix[n + 1] + e \in Int
  BY <1>3, <1>5, ArrayFields, SMTT(60)
<1>7. /\ new \in Seq(Int) /\ Len(new) = Len(g.prefix) /\ new[n + 2] = g.prefix[n + 1] + e
      /\ \A i \in 1 .. Len(g.prefix) : i # n + 2 => new[i] = g.prefix[i]
  <2> HIDE DEF n
  <2> QED
    BY <1>3, <1>5, <1>6, SMTT(60)
<1>8. /\ all \in Seq(Nat) /\ Len(all) = n + 1 /\ all[n + 1] = e
      /\ \A i \in 1 .. n : all[i] = g.estimates[i]
  BY <1>3, AppendPoints
<1> HIDE DEF all, new
<1>9. t \in Arrays /\ t.estimates = all /\ t.prefix = new /\ t.capacity = g.capacity
  BY <1>3, <1>7, <1>8 DEF Arrays
<1> HIDE DEF t
<1>10. ASSUME NEW i \in 1 .. n + 1 PROVE new[i + 1] = new[i] + all[i]
  <2>1. CASE i = n + 1
    <3>1. n + 1 # n + 2 /\ i + 1 = n + 2
      BY <1>3, <2>1
    <3> QED
      BY <1>5, <1>7, <1>8, <2>1, <3>1
  <2>2. CASE i # n + 1
    <3>1. i \in 1 .. n /\ i # n + 2 /\ i + 1 # n + 2
      <4> HIDE DEF n
      <4> QED
        BY <1>3, <2>2
    <3>2. i \in 1 .. Len(g.prefix) /\ i + 1 \in 1 .. Len(g.prefix)
      <4> HIDE DEF n
      <4> QED
        BY <1>3, <1>5, <3>1, SMTT(60)
    <3>3. g.prefix[i + 1] = g.prefix[i] + g.estimates[i]
      BY <1>1, <3>1 DEF SumsOK
    <3> QED
      BY <1>7, <1>8, <3>1, <3>2, <3>3
  <2> QED
    BY <2>1, <2>2
<1>11. new[1] = 0
  <2>1. 1 # n + 2 /\ 1 \in 1 .. Len(g.prefix)
    BY <1>3, <1>5
  <2> QED
    BY <1>4, <1>7, <2>1
<1>12. SumsOK(t)
  <2>1. Len(t.estimates) = n + 1 /\ n + 1 <= g.capacity
    BY <1>1, <1>3, <1>8, <1>9
  <2> HIDE DEF n
  <2> QED
    BY <1>4, <1>7, <1>9, <1>10, <1>11, <2>1 DEF SumsOK
<1> QED
  BY <1>2, <1>12

LEMMA CalledOK ==
  ASSUME NEW s, SumsOK(s), NEW call \in Calls
  PROVE  SumsOK(Called(s, call))
<1>1. CASE call = "clear"
  BY <1>1, ClearedOK DEF Called
<1>2. CASE call = "oom"
  BY <1>2, EnlargedOK DEF Called
<1>3. CASE call \notin {"clear", "oom"}
  <2>1. Lengths[call] \in Nat
    BY <1>3 DEF Calls, Lengths
  <2>2. EstimateTokens(Lengths[call]) \in Nat
    BY <2>1 DEF EstimateTokens
  <2>3. CalibrateTokens(EstimateTokens(Lengths[call])) \in Nat
    BY <2>2 DEF CalibrateTokens
  <2> QED
    BY <1>3, <2>3, PushedOK DEF Called
<1> QED
  BY <1>1, <1>2, <1>3

LEMMA SessionOK ==
  ASSUME NEW calls, Len(calls) \in Nat, \A i \in 1 .. Len(calls) : calls[i] \in Calls
  PROVE  SumsOK(SessionOf(calls))
<1> DEFINE N == Len(calls)
           Good == {s \in Arrays : SumsOK(s)}
           step == [p \in (1 .. N) \X Good |-> Called(p[2], calls[p[1]])]
           Eqn(f) == f = [n \in 0 .. N |-> IF n = 0 THEN Cleared ELSE Called(f[n - 1], calls[n])]
           after == CHOOSE f : Eqn(f)
<1>1. \A s : s \in Good <=> SumsOK(s)
  BY DEF SumsOK
<1> HIDE DEF Good
<1>2. Cleared \in Good
  BY <1>1, ClearedOK
<1>3. step \in [(1 .. N) \X Good -> Good]
  <2>1. ASSUME NEW p \in (1 .. N) \X Good PROVE Called(p[2], calls[p[1]]) \in Good
    BY <1>1, <2>1, CalledOK
  <2> QED
    BY <2>1
<1>4. PICK g : IteratesIn(g, N, Good, Cleared, step)
  <2>1. N \in Nat
    BY DEF N
  <2> HIDE DEF step, N
  <2>2. \E f : IteratesIn(f, N, Good, Cleared, step)
    BY <1>2, <1>3, <2>1, IterationIn
  <2> QED
    BY <2>2
<1>5. \A n \in 1 .. N : g[n] = Called(g[n - 1], calls[n])
  <2> TAKE n \in 1 .. N
  <2>1. n - 1 \in 0 .. N
    OBVIOUS
  <2>2. <<n, g[n - 1]>> \in (1 .. N) \X Good
    BY <1>4, <2>1 DEF IteratesIn
  <2> QED
    BY <1>4, <2>2 DEF IteratesIn
<1>6. Eqn(g)
  <2>1. \A n \in 0 .. N : n # 0 => n \in 1 .. N
    OBVIOUS
  <2>2. \A n \in 0 .. N : g[n] = IF n = 0 THEN Cleared ELSE Called(g[n - 1], calls[n])
    <3> HIDE DEF N, step
    <3> QED
      BY <1>4, <1>5, <2>1 DEF IteratesIn
  <2> QED
    BY <1>4, <2>2 DEF IteratesIn
<1>7. Eqn(after)
  <2> HIDE DEF Eqn
  <2> QED
    BY <1>6
<1>8. \A n \in 0 .. N : SumsOK(after[n])
  <2> DEFINE X == [n \in 0 .. N |-> Good]
  <2>1. /\ 0 \in 0 .. N /\ \A n \in 1 .. N : n \in 0 .. N /\ n # 0 /\ n - 1 \in 0 .. N
    OBVIOUS
  <2>2. after[0] = Cleared /\ \A n \in 1 .. N : after[n] = Called(after[n - 1], calls[n])
    <3> HIDE DEF after, N
    <3> QED
      BY <1>7, <2>1
  <2>3. after[0] \in X[0]
    BY <1>2, <2>1, <2>2
  <2>4. ASSUME NEW n \in 1 .. N, after[n - 1] \in X[n - 1] PROVE after[n] \in X[n]
    <3> HIDE DEF after
    <3> QED
      BY <1>1, <2>1, <2>2, <2>4, CalledOK
  <2>5. \A n \in 0 .. N : after[n] \in X[n]
    <3>1. N \in Nat
      OBVIOUS
    <3> HIDE DEF X, N, after
    <3> QED
      BY <2>3, <2>4, <3>1, Induct
  <2> HIDE DEF after
  <2> QED
    BY <1>1, <2>5
<1>9. SessionOf(calls) = after[N]
  BY DEF SessionOf
<1> QED
  <2>1. N \in 0 .. N
    OBVIOUS
  <2> HIDE DEF after, N
  <2> QED
    BY <1>8, <1>9, <2>1

\* The sum of the estimates is the last one of any function that adds them up.
LEMMA AddedLast ==
  ASSUME NEW es \in Seq(Nat), NEW sum \in [0 .. Len(es) -> Int],
         sum[0] = 0, \A k \in 1 .. Len(es) : sum[k] = sum[k - 1] + es[k]
  PROVE  Added(es) = sum[Len(es)]
<1> DEFINE N == Len(es)
           Eqn(f) == f = [k \in 0 .. N |-> IF k = 0 THEN 0 ELSE f[k - 1] + es[k]]
           all == CHOOSE f : Eqn(f)
<1>1. N \in Nat
  OBVIOUS
<1>2. \A k \in 0 .. N : k # 0 => k \in 1 .. N
  OBVIOUS
<1>3. \A k \in 0 .. N : sum[k] = IF k = 0 THEN 0 ELSE sum[k - 1] + es[k]
  <2> HIDE DEF N
  <2>1. \A k \in 1 .. N : sum[k] = sum[k - 1] + es[k]
    BY DEF N
  <2> QED
    BY <1>2, <2>1
<1>4. Eqn(sum)
  <2>1. sum = [k \in 0 .. N |-> sum[k]]
    OBVIOUS
  <2> HIDE DEF N
  <2> QED
    BY <1>3, <2>1
<1>5. Eqn(all)
  <2> HIDE DEF Eqn
  <2> QED
    BY <1>4
<1> DEFINE X == [k \in 0 .. N |-> {sum[k]}]
<1>6. \A k \in 0 .. N : all[k] \in X[k]
  <2>1. /\ 0 \in 0 .. N /\ \A k \in 1 .. N : k \in 0 .. N /\ k # 0 /\ k - 1 \in 0 .. N
    BY <1>1
  <2>2. all[0] = 0 /\ \A k \in 1 .. N : all[k] = all[k - 1] + es[k]
    <3> HIDE DEF all, N
    <3> QED
      BY <1>5, <2>1
  <2>3. all[0] \in X[0]
    BY <2>1, <2>2
  <2>4. ASSUME NEW k \in 1 .. N, all[k - 1] \in X[k - 1] PROVE all[k] \in X[k]
    <3> HIDE DEF all
    <3>1. k \in 0 .. N /\ k - 1 \in 0 .. N /\ all[k] = all[k - 1] + es[k]
      BY <2>1, <2>2
    <3>2. all[k - 1] = sum[k - 1]
      BY <2>4, <3>1
    <3> QED
      BY <3>1, <3>2
  <2> HIDE DEF X, N, all
  <2> QED
    BY <1>1, <2>3, <2>4, Induct
<1>7. Added(es) = all[N]
  BY DEF Added
<1>8. N \in 0 .. N
  BY <1>1
<1> HIDE DEF all, N
<1>9. all[N] = sum[N]
  BY <1>6, <1>8
<1> QED
  BY <1>7, <1>9 DEF N

\* What the sums are of: the estimates from the k-th on.
LEMMA RestIs ==
  ASSUME NEW s, SumsOK(s), NEW n, n = Len(s.estimates), n > 0, NEW k \in 1 .. n + 1
  PROVE  Added(SubSeq(s.estimates, k, n)) = s.prefix[n + 1] - s.prefix[k]
<1> DEFINE es == SubSeq(s.estimates, k, n)
           N == n + 1 - k
           sum == [j \in 0 .. N |-> s.prefix[k + j] - s.prefix[k]]
<1>1. /\ s \in Arrays /\ n \in Nat /\ s.estimates \in Seq(Nat) /\ s.capacity \in Nat
      /\ Len(s.prefix) = s.capacity + 1 /\ n <= s.capacity
  BY ArrayFields DEF SumsOK
<1>2. \A i \in 1 .. n + 1 : i \in 1 .. Len(s.prefix) /\ s.prefix[i] \in Int
  <2>1. \A i \in 1 .. n + 1 : i \in 1 .. Len(s.prefix)
    BY <1>1
  <2> QED
    BY <1>1, <2>1, ArrayFields
<1>3. /\ es \in Seq(Nat) /\ Len(es) = N
      /\ \A j \in 1 .. N : k + j - 1 \in k .. n /\ es[j] = s.estimates[k + j - 1]
  <2>1. k \in Nat \ {0} /\ n \in 0 .. Len(s.estimates) /\ k <= n + 1
    BY <1>1
  <2> QED
    BY <1>1, <2>1, SubSeqPoints, SMTT(60)
<1>4. N \in Nat
  BY <1>1
<1>5. sum \in [0 .. N -> Int]
  <2>1. ASSUME NEW j \in 0 .. N PROVE s.prefix[k + j] - s.prefix[k] \in Int
    <3>1. k + j \in 1 .. n + 1
      BY <1>1
    <3> QED
      BY <1>2, <3>1, SMTT(60)
  <2> QED
    BY <2>1
<1>6. sum[0] = 0
  <2>1. 0 \in 0 .. N /\ k + 0 = k
    BY <1>4
  <2>2. s.prefix[k] \in Int
    BY <1>2
  <2>3. sum[0] = s.prefix[k + 0] - s.prefix[k]
    BY <2>1
  <2> QED
    BY <2>1, <2>2, <2>3
<1>7. ASSUME NEW j \in 1 .. N PROVE sum[j] = sum[j - 1] + es[j]
  <2>1. /\ j \in 0 .. N /\ j - 1 \in 0 .. N /\ k + j - 1 \in 1 .. n
        /\ k + (j - 1) = k + j - 1 /\ (k + j - 1) + 1 = k + j
        /\ k + j \in 1 .. n + 1 /\ k + j - 1 \in 1 .. n + 1
    BY <1>1, <1>4
  <2>2. s.prefix[k + j] = s.prefix[k + j - 1] + s.estimates[k + j - 1]
    BY <2>1 DEF SumsOK
  <2>3. es[j] = s.estimates[k + j - 1] /\ es[j] \in Nat
    <3> HIDE DEF es, N
    <3>1. j \in 1 .. Len(es)
      BY <1>3
    <3> QED
      BY <1>3, <3>1, SMTT(60)
  <2>4. s.prefix[k + j] \in Int /\ s.prefix[k + j - 1] \in Int /\ s.prefix[k] \in Int
    BY <1>2, <2>1
  <2>5. sum[j] = s.prefix[k + j] - s.prefix[k] /\ sum[j - 1] = s.prefix[k + j - 1] - s.prefix[k]
    BY <2>1
  <2>6. \A a, b, c \in Int, e \in Nat : a = b + e => a - c = (b - c) + e
    OBVIOUS
  <2> DEFINE a == s.prefix[k + j]
             b == s.prefix[k + j - 1]
             c == s.prefix[k]
             e == es[j]
  <2>7. a = b + e
    BY <2>2, <2>3
  <2>8. a \in Int /\ b \in Int /\ c \in Int /\ e \in Nat
    BY <2>3, <2>4
  <2>9. sum[j] = a - c /\ sum[j - 1] = b - c
    BY <2>5
  <2> HIDE DEF sum, a, b, c, e
  <2>10. a - c = (b - c) + e
    BY <2>6, <2>7, <2>8
  <2> QED
    BY <2>9, <2>10 DEF e
<1>8. Added(es) = sum[N]
  <2> HIDE DEF es, sum, N
  <2> QED
    BY <1>3, <1>5, <1>6, <1>7, AddedLast
<1>9. N \in 0 .. N /\ k + N = n + 1
  BY <1>1, <1>4
<1> QED
  BY <1>8, <1>9

\* Estimates are not negative: the sums climb.
LEMMA SumsClimb ==
  ASSUME NEW s, SumsOK(s), NEW n, n = Len(s.estimates), n > 0
  PROVE  \A i, j \in 1 .. n + 1 : i <= j => s.prefix[i] <= s.prefix[j]
<1>1. /\ s \in Arrays /\ n \in Nat /\ s.estimates \in Seq(Nat) /\ s.capacity \in Nat
      /\ Len(s.prefix) = s.capacity + 1 /\ n <= s.capacity
  BY ArrayFields DEF SumsOK
<1>2. \A i \in 1 .. n + 1 : s.prefix[i] \in Int
  <2>1. \A i \in 1 .. n + 1 : i \in 1 .. Len(s.prefix)
    BY <1>1
  <2> QED
    BY <1>1, <2>1, ArrayFields
<1>3. \A i \in 1 .. n : s.estimates[i] \in Nat
  BY <1>1, SMTT(60)
<1> TAKE i \in 1 .. n + 1
<1> DEFINE X == [k \in 0 .. n |-> {v \in Int : i <= k + 1 => s.prefix[i] <= v}]
           f == [k \in 0 .. n |-> s.prefix[k + 1]]
<1>4. f[0] \in X[0]
  <2>1. 0 \in 0 .. n /\ 0 + 1 = 1 /\ 1 \in 1 .. n + 1 /\ (i <= 1 => i = 1)
    BY <1>1
  <2> QED
    BY <1>2, <2>1
<1>5. ASSUME NEW k \in 1 .. n, f[k - 1] \in X[k - 1] PROVE f[k] \in X[k]
  <2>1. /\ k \in 0 .. n /\ k - 1 \in 0 .. n /\ (k - 1) + 1 = k
        /\ k \in 1 .. n + 1 /\ k + 1 \in 1 .. n + 1
    BY <1>1
  <2>2. f[k - 1] = s.prefix[k] /\ f[k] = s.prefix[k + 1]
    BY <2>1
  <2>3. i <= k => s.prefix[i] <= s.prefix[k]
    BY <1>5, <2>1, <2>2
  <2>4. s.prefix[k + 1] = s.prefix[k] + s.estimates[k] /\ s.estimates[k] \in Nat
    BY <1>3 DEF SumsOK
  <2>5. s.prefix[i] \in Int /\ s.prefix[k] \in Int /\ s.prefix[k + 1] \in Int
    BY <1>2, <2>1
  <2>6. i <= k + 1 => i <= k \/ i = k + 1
    BY <1>1
  <2>7. i <= k + 1 => s.prefix[i] <= s.prefix[k + 1]
    BY <2>3, <2>4, <2>5, <2>6, SMTT(60)
  <2> QED
    BY <2>1, <2>2, <2>5, <2>7
<1>6. \A k \in 0 .. n : f[k] \in X[k]
  <2> HIDE DEF f, X
  <2> QED
    BY <1>1, <1>4, <1>5, Induct
<1> TAKE j \in 1 .. n + 1
<1>7. j - 1 \in 0 .. n /\ (j - 1) + 1 = j
  BY <1>1
<1>8. f[j - 1] = s.prefix[j]
  BY <1>7
<1> QED
  BY <1>6, <1>7, <1>8

-----------------------------------------------------------------------------
(* The binary search. *)

Ranges(n) == [lo : 0 .. n, hi : 0 .. n]

\* What the search looks for is in the range.
Around(s, n, threshold, r) ==
  /\ r \in Ranges(n) /\ r.lo <= r.hi
  /\ \A i \in 0 .. n : i < r.lo => s.prefix[i + 1] < threshold
  /\ s.prefix[r.hi + 1] >= threshold

LEMMA NarrowedOK ==
  ASSUME NEW s, SumsOK(s), NEW n, n = Len(s.estimates), n > 0, NEW threshold \in Int,
         NEW r, Around(s, n, threshold, r)
  PROVE  LET t == Narrowed(s, threshold, r) IN
         /\ Around(s, n, threshold, t)
         /\ t.hi - t.lo <= r.hi - r.lo
         /\ r.lo < r.hi => t.hi - t.lo < r.hi - r.lo
<1> DEFINE mid == r.lo + (r.hi - r.lo) \div 2
           t == Narrowed(s, threshold, r)
<1>1. n \in Nat /\ r.lo \in 0 .. n /\ r.hi \in 0 .. n /\ r.lo <= r.hi /\ r \in Ranges(n)
  BY ArrayFields DEF SumsOK, Around, Ranges
<1>2. CASE r.lo >= r.hi
  <2>1. t = r
    BY <1>2 DEF Narrowed
  <2> HIDE DEF t
  <2> QED
    BY <1>1, <1>2, <2>1 DEF t
<1>3. CASE ~(r.lo >= r.hi)
  <2>1. mid \in 0 .. n /\ r.lo <= mid /\ mid < r.hi
    <3>1. r.hi - r.lo >= 1 /\ r.hi - r.lo \in Nat
      BY <1>1, <1>3
    <3>2. (r.hi - r.lo) \div 2 \in Nat /\ (r.hi - r.lo) \div 2 < r.hi - r.lo
      BY <3>1
    <3> QED
      BY <1>1, <3>2, SMTT(60)
  <2> HIDE DEF mid
  <2>2. mid + 1 \in 0 .. n
    BY <1>1, <2>1
  <2>3. \A i \in 1 .. n + 1 : s.prefix[i] \in Int
    <3>1. /\ s \in Arrays /\ s.capacity \in Nat /\ Len(s.prefix) = s.capacity + 1 /\ n <= s.capacity
      BY <1>1, ArrayFields DEF SumsOK
    <3>2. \A i \in 1 .. n + 1 : i \in 1 .. Len(s.prefix)
      BY <1>1, <3>1
    <3> QED
      BY <3>1, <3>2, ArrayFields
  <2>4. CASE s.prefix[mid + 1] < threshold
    <3>1. t = [r EXCEPT !.lo = mid + 1]
      BY <1>3, <2>4 DEF Narrowed, mid
    <3>2. t \in Ranges(n) /\ t.lo = mid + 1 /\ t.hi = r.hi
      BY <1>1, <2>2, <3>1 DEF Ranges
    <3>3. ASSUME NEW i \in 0 .. n, i < mid + 1 PROVE s.prefix[i + 1] < threshold
      <4>1. i + 1 \in 1 .. n + 1 /\ mid + 1 \in 1 .. n + 1 /\ i + 1 <= mid + 1
        BY <1>1, <2>1, <3>3
      <4>2. s.prefix[i + 1] <= s.prefix[mid + 1]
        BY <4>1, SumsClimb
      <4> QED
        BY <2>3, <2>4, <4>1, <4>2, SMTT(60)
    <3>4. s.prefix[t.hi + 1] >= threshold
      BY <3>2 DEF Around
    <3> HIDE DEF t
    <3> QED
      BY <1>1, <2>1, <2>2, <3>2, <3>3, <3>4 DEF Around, t
  <2>5. CASE ~(s.prefix[mid + 1] < threshold)
    <3>1. t = [r EXCEPT !.hi = mid]
      BY <1>3, <2>5 DEF Narrowed, mid
    <3>2. t \in Ranges(n) /\ t.lo = r.lo /\ t.hi = mid
      BY <1>1, <2>1, <3>1 DEF Ranges
    <3>3. s.prefix[mid + 1] >= threshold
      <4>1. mid + 1 \in 1 .. n + 1
        BY <1>1, <2>1
      <4> QED
        BY <2>3, <2>5, <4>1
    <3>4. \A i \in 0 .. n : i < t.lo => s.prefix[i + 1] < threshold
      BY <3>2 DEF Around
    <3> HIDE DEF t
    <3> QED
      BY <1>1, <2>1, <3>2, <3>3, <3>4 DEF Around, t
  <2> QED
    BY <2>4, <2>5
<1> QED
  BY <1>2, <1>3

\* The search finds the first sum that is not below the threshold.
LEMMA SearchIs ==
  ASSUME NEW s, SumsOK(s), NEW n, n = Len(s.estimates), n > 0, NEW threshold \in Int,
         s.prefix[n + 1] >= threshold
  PROVE  /\ Search(s, threshold) \in 0 .. n
         /\ s.prefix[Search(s, threshold) + 1] >= threshold
         /\ \A i \in 0 .. n : i < Search(s, threshold) => s.prefix[i + 1] < threshold
<1> DEFINE start == [lo |-> 0, hi |-> n]
           Good == {r \in Ranges(n) : Around(s, n, threshold, r)}
           step == [p \in (1 .. n) \X Good |-> Narrowed(s, threshold, p[2])]
           Eqn(f) == f = [k \in 0 .. n |-> IF k = 0 THEN start ELSE Narrowed(s, threshold, f[k - 1])]
           after == CHOOSE f : Eqn(f)
<1>1. \A r : r \in Good <=> Around(s, n, threshold, r)
  BY DEF Around
<1>2. n \in Nat
  BY ArrayFields DEF SumsOK
<1> HIDE DEF Good
<1>3. start \in Good
  <2>1. start \in Ranges(n) /\ start.lo = 0 /\ start.hi = n
    BY <1>2 DEF Ranges
  <2>2. \A i \in 0 .. n : ~(i < 0)
    BY <1>2
  <2> HIDE DEF start
  <2> QED
    BY <1>1, <1>2, <2>1, <2>2 DEF Around
<1> HIDE DEF start
<1>4. step \in [(1 .. n) \X Good -> Good]
  <2>1. ASSUME NEW p \in (1 .. n) \X Good PROVE Narrowed(s, threshold, p[2]) \in Good
    BY <1>1, <2>1, NarrowedOK
  <2> QED
    BY <2>1
<1>5. PICK g : IteratesIn(g, n, Good, start, step)
  <2> HIDE DEF step
  <2>1. \E f : IteratesIn(f, n, Good, start, step)
    BY <1>2, <1>3, <1>4, IterationIn
  <2> QED
    BY <2>1
<1>6. \A k \in 1 .. n : g[k] = Narrowed(s, threshold, g[k - 1])
  <2> TAKE k \in 1 .. n
  <2>1. k - 1 \in 0 .. n
    BY <1>2
  <2>2. <<k, g[k - 1]>> \in (1 .. n) \X Good
    BY <1>5, <2>1 DEF IteratesIn
  <2> QED
    BY <1>5, <2>2 DEF IteratesIn
<1>7. Eqn(g)
  <2>1. \A k \in 0 .. n : k # 0 => k \in 1 .. n
    BY <1>2
  <2>2. \A k \in 0 .. n : g[k] = IF k = 0 THEN start ELSE Narrowed(s, threshold, g[k - 1])
    <3> HIDE DEF step
    <3> QED
      BY <1>5, <1>6, <2>1 DEF IteratesIn
  <2> QED
    BY <1>5, <2>2 DEF IteratesIn
<1>8. Eqn(after)
  <2> HIDE DEF Eqn
  <2> QED
    BY <1>7
<1> DEFINE Closer(k) == {r \in Good : r.hi - r.lo <= n - k}
           X == [k \in 0 .. n |-> Closer(k)]
<1>9. \A k \in 0 .. n : after[k] \in X[k]
  <2>1. /\ 0 \in 0 .. n /\ \A k \in 1 .. n : k \in 0 .. n /\ k # 0 /\ k - 1 \in 0 .. n
    BY <1>2
  <2>2. after[0] = start /\ \A k \in 1 .. n : after[k] = Narrowed(s, threshold, after[k - 1])
    <3> HIDE DEF after
    <3> QED
      BY <1>8, <2>1
  <2>3. after[0] \in X[0]
    <3>1. start \in Closer(0)
      BY <1>2, <1>3 DEF start
    <3> HIDE DEF after, Closer
    <3> QED
      BY <2>1, <2>2, <3>1
  <2>4. ASSUME NEW k \in 1 .. n, after[k - 1] \in X[k - 1] PROVE after[k] \in X[k]
    <3> DEFINE r == after[k - 1]
               t == Narrowed(s, threshold, r)
    <3> HIDE DEF after
    <3>1. after[k] = t /\ r \in Closer(k - 1)
      BY <2>1, <2>2, <2>4
    <3>2. /\ Around(s, n, threshold, r)
          /\ Around(s, n, threshold, t)
          /\ t.hi - t.lo <= r.hi - r.lo
          /\ r.lo < r.hi => t.hi - t.lo < r.hi - r.lo
      BY <1>1, <3>1, NarrowedOK
    <3> HIDE DEF t, r
    <3>3. /\ r.lo \in Nat /\ r.hi \in Nat /\ r.lo <= r.hi
          /\ t.lo \in Nat /\ t.hi \in Nat /\ t.lo <= t.hi
      BY <1>2, <3>2 DEF Around, Ranges
    <3>4. t.hi - t.lo <= n - k
      <4>1. r.hi - r.lo <= n - (k - 1)
        BY <3>1
      <4> QED
        BY <1>2, <3>2, <3>3, <4>1, SMTT(60)
    <3> QED
      BY <1>1, <2>1, <3>1, <3>2, <3>4
  <2> HIDE DEF X, after
  <2> QED
    BY <1>2, <2>3, <2>4, Induct
<1>10. Search(s, threshold) = after[n].lo
  BY DEF Search, start
<1> HIDE DEF after
<1> DEFINE r == after[n]
<1>11. Around(s, n, threshold, r) /\ r.hi - r.lo <= n - n
  <2>1. n \in 0 .. n
    BY <1>2
  <2> QED
    BY <1>1, <1>9, <2>1
<1> HIDE DEF r
<1>12. r.lo \in 0 .. n /\ r.hi = r.lo
  BY <1>2, <1>11 DEF Around, Ranges
<1> QED
  BY <1>10, <1>11, <1>12 DEF Around, r

-----------------------------------------------------------------------------
(* What is kept. *)

LEMMA LargestIs ==
  ASSUME NEW S, NEW m \in S, S \subseteq Int, \A j \in S : j <= m
  PROVE  Largest(S) = m
<1>1. PICK i \in S : \A j \in S : j <= i
  OBVIOUS
<1>2. Largest(S) \in S /\ \A j \in S : j <= Largest(S)
  BY <1>1 DEF Largest
<1>3. Largest(S) \in Int /\ m \in Int /\ Largest(S) <= m /\ m <= Largest(S)
  BY <1>2
<1> QED
  BY <1>3

LEMMA EmptyAdded == Added(<< >>) = 0
<1> DEFINE sum == [k \in 0 .. 0 |-> 0]
<1>1. << >> \in Seq(Nat) /\ Len(<< >>) = 0 /\ sum \in [0 .. 0 -> Int] /\ sum[0] = 0
  OBVIOUS
<1>2. \A k \in 1 .. Len(<< >>) : sum[k] = sum[k - 1] + << >>[k]
  BY <1>1
<1> HIDE DEF sum
<1>3. sum \in [0 .. Len(<< >>) -> Int]
  BY <1>1
<1> QED
  BY <1>1, <1>2, <1>3, AddedLast

LEMMA EmptyKept ==
  ASSUME NEW s, SumsOK(s), NEW n, n = Len(s.estimates), n = 0
  PROVE  /\ \A k \in Int : k = 1 => Added(SubSeq(s.estimates, k, n)) = 0
         /\ \A start : TokenEstimateFrom(s, start) = 0
         /\ \A asked : KeepRecent(s, asked) = 0
<1>1. s.estimates = << >>
  BY ArrayFields DEF SumsOK
<1>2. SubSeq(<< >>, 1, 0) = << >>
  OBVIOUS
<1>3. \A k \in Int : k = 1 => Added(SubSeq(s.estimates, k, n)) = 0
  BY <1>1, <1>2, EmptyAdded
<1>4. \A start : TokenEstimateFrom(s, start) = 0
  BY DEF TokenEstimateFrom
<1>5. \A asked : KeepRecent(s, asked) = 0
  BY DEF KeepRecent, KeepRecentByTokens
<1> QED
  BY <1>3, <1>4, <1>5

LEMMA KeptIs ==
  ASSUME NEW s, SumsOK(s), NEW n, n = Len(s.estimates), n > 0, NEW target \in Nat
  PROVE  LET rest(k) == Added(SubSeq(s.estimates, k, n))
             fit == {k \in 0 .. n : rest(n - k + 1) <= target}
         IN  KeepRecentByTokens(s, target) = Smaller(n, Larger(1, Largest(fit)))
<1> DEFINE rest(k) == Added(SubSeq(s.estimates, k, n))
           fit == {k \in 0 .. n : rest(n - k + 1) <= target}
           total == s.prefix[n + 1]
           found == Search(s, total - target)
<1>1. n \in Nat
  BY ArrayFields DEF SumsOK
<1>2. \A i \in 1 .. n + 1 : s.prefix[i] \in Int
  <2>1. /\ s \in Arrays /\ s.capacity \in Nat /\ Len(s.prefix) = s.capacity + 1 /\ n <= s.capacity
    BY <1>1, ArrayFields DEF SumsOK
  <2>2. \A i \in 1 .. n + 1 : i \in 1 .. Len(s.prefix)
    BY <1>1, <2>1
  <2> QED
    BY <2>1, <2>2, ArrayFields
<1>3. \A k \in 0 .. n : n - k + 1 \in 1 .. n + 1 /\ rest(n - k + 1) = total - s.prefix[n - k + 1]
  <2> TAKE k \in 0 .. n
  <2> DEFINE q == n - k + 1
  <2>1. q \in 1 .. n + 1
    BY <1>1
  <2> HIDE DEF q
  <2>2. Added(SubSeq(s.estimates, q, n)) = s.prefix[n + 1] - s.prefix[q]
    BY <2>1, RestIs
  <2> QED
    BY <2>1, <2>2 DEF q
<1>4. n + 1 \in 1 .. n + 1 /\ 1 \in 1 .. n + 1 /\ total \in Int /\ s.prefix[1] = 0
  <2>1. s.capacity \in Nat /\ n <= s.capacity
    BY ArrayFields DEF SumsOK
  <2>2. s.capacity > 0
    BY <1>1, <2>1
  <2>3. s.prefix[1] = 0
    BY <2>2 DEF SumsOK
  <2>4. n + 1 \in 1 .. n + 1 /\ 1 \in 1 .. n + 1
    BY <1>1
  <2> QED
    BY <1>2, <2>3, <2>4
<1> HIDE DEF total, rest
<1>5. \A k \in 0 .. n : k \in fit <=> total - s.prefix[n - k + 1] <= target
  BY <1>3
<1>6. fit \subseteq Int /\ fit \subseteq 0 .. n
  BY <1>1
<1> HIDE DEF fit
<1>7. CASE target >= total
  <2>1. n \in 0 .. n /\ n - n + 1 = 1
    BY <1>1
  <2>2. n \in fit
    BY <1>4, <1>5, <1>7, <2>1
  <2>3. \A j \in fit : j <= n
    BY <1>1, <1>6
  <2>4. Largest(fit) = n
    BY <1>6, <2>2, <2>3, LargestIs
  <2>5. Smaller(n, Larger(1, n)) = n
    BY <1>1 DEF Smaller, Larger
  <2>6. KeepRecentByTokens(s, target) = n
    BY <1>7 DEF KeepRecentByTokens, total
  <2> QED
    BY <2>4, <2>5, <2>6 DEF fit, rest
<1>8. CASE ~(target >= total)
  <2>1. total - target \in Int /\ s.prefix[n + 1] >= total - target
    BY <1>4 DEF total
  <2> DEFINE threshold == total - target
  <2>2. /\ found \in 0 .. n
        /\ s.prefix[found + 1] >= threshold
        /\ \A i \in 0 .. n : i < found => s.prefix[i + 1] < threshold
    <3> HIDE DEF threshold
    <3>1. threshold \in Int /\ s.prefix[n + 1] >= threshold
      BY <2>1 DEF threshold
    <3>2. /\ Search(s, threshold) \in 0 .. n
          /\ s.prefix[Search(s, threshold) + 1] >= threshold
          /\ \A i \in 0 .. n : i < Search(s, threshold) => s.prefix[i + 1] < threshold
      BY <3>1, SearchIs
    <3>3. found = Search(s, threshold)
      BY DEF threshold
    <3> HIDE DEF found
    <3> QED
      BY <3>2, <3>3
  <2>3. KeepRecentByTokens(s, target) = n - Smaller(n, found + 1) + 1
    BY <1>8 DEF KeepRecentByTokens, total
  <2> HIDE DEF found
  <2>4. n - found \in 0 .. n /\ n - (n - found) + 1 = found + 1 /\ found + 1 \in 1 .. n + 1
    BY <1>1, <2>2
  <2>5. n - found \in fit
    <3>1. total - s.prefix[found + 1] <= target
      BY <1>2, <1>4, <2>2, <2>4, SMTT(60)
    <3> QED
      BY <1>5, <2>4, <3>1
  <2>6. ASSUME NEW j \in fit PROVE j <= n - found
    <3>1. j \in 0 .. n /\ j \in Nat
      BY <1>1, <1>6
    <3> SUFFICES ASSUME ~(j <= n - found) PROVE FALSE
      OBVIOUS
    <3>2. n - j \in 0 .. n /\ n - j < found /\ (n - j) + 1 = n - j + 1 /\ n - j + 1 \in 1 .. n + 1
      BY <1>1, <2>2, <3>1
    <3>3. s.prefix[n - j + 1] < threshold
      BY <2>2, <3>2
    <3>4. total - s.prefix[n - j + 1] <= target
      BY <1>5, <3>1
    <3> QED
      BY <1>2, <1>4, <3>2, <3>3, <3>4, SMTT(60)
  <2>7. Largest(fit) = n - found
    BY <1>6, <2>5, <2>6, LargestIs
  <2>8. n - Smaller(n, found + 1) + 1 = Smaller(n, Larger(1, n - found))
    <3>1. CASE found = n
      <4>1. Smaller(n, found + 1) = n /\ Larger(1, n - found) = 1 /\ Smaller(n, 1) = 1
        BY <1>1, <3>1 DEF Smaller, Larger
      <4> QED
        BY <1>1, <4>1
    <3>2. CASE found # n
      <4>1. found + 1 \in 1 .. n /\ n - found \in 1 .. n
        BY <1>1, <2>2, <3>2
      <4>2. Smaller(n, found + 1) = found + 1 /\ Larger(1, n - found) = n - found
        BY <1>1, <4>1 DEF Smaller, Larger
      <4>3. Smaller(n, n - found) = n - found
        BY <1>1, <4>1 DEF Smaller
      <4> QED
        BY <1>1, <2>2, <4>2, <4>3
    <3> QED
      BY <3>1, <3>2
  <2> QED
    BY <2>3, <2>7, <2>8 DEF fit, rest
<1> QED
  BY <1>7, <1>8

-----------------------------------------------------------------------------
(* Every text. *)

TextIs == text \in Seq(UNION Alphabets) /\ alphabet \in Alphabets

LEMMA TextType == TextSpec => []TextIs
<1>1. TextInit => TextIs
  BY DEF TextInit, TextIs
<1>2. TextIs /\ [TextNext]_textVars => TextIs'
  BY DEF TextIs, TextNext, textVars
<1> QED
  BY <1>1, <1>2, PTL DEF TextSpec

LEMMA TextAdds == TextIs => TokensAdd
<1> SUFFICES ASSUME TextIs, Over(Calls) PROVE TokensAdd
  BY DEF TokensAdd
<1> DEFINE s == SessionOf(text)
           n == Len(s.estimates)
           rest(k) == Added(SubSeq(s.estimates, k, n))
<1>1. SumsOK(s)
  <2>1. Len(text) \in Nat /\ DOMAIN text = 1 .. Len(text)
    BY DEF TextIs
  <2> QED
    BY <2>1, SessionOK DEF Over
<1> HIDE DEF s
<1>2. n \in Nat /\ n <= s.capacity
  BY <1>1, ArrayFields DEF SumsOK
<1>3. ASSUME NEW start \in 0 .. n + 1
      PROVE  TokenEstimateFrom(s, start) = rest(Larger(1, start))
  <2>1. CASE n = 0
    <3>1. Larger(1, start) = 1
      BY <1>2, <2>1 DEF Larger
    <3>2. rest(1) = 0
      BY <1>1, <2>1, EmptyKept
    <3>3. TokenEstimateFrom(s, start) = 0
      BY <1>1, <2>1, EmptyKept
    <3> HIDE DEF rest
    <3> QED
      BY <3>1, <3>2, <3>3
  <2>2. CASE n # 0
    <3> DEFINE k == Larger(1, start)
    <3>1. n > 0 /\ k \in 1 .. n + 1 /\ (start > n => k = n + 1)
      BY <1>2, <2>2 DEF Larger
    <3>2. rest(k) = s.prefix[n + 1] - s.prefix[k]
      <4> HIDE DEF k
      <4> QED
        BY <1>1, <3>1, RestIs
    <3>3. CASE start > n
      <4>1. TokenEstimateFrom(s, start) = 0
        BY <3>3 DEF TokenEstimateFrom
      <4>2. s.prefix[n + 1] \in Int
        <5>1. /\ s \in Arrays /\ s.capacity \in Nat /\ Len(s.prefix) = s.capacity + 1
          BY <1>1, <1>2, <3>1, ArrayFields DEF SumsOK
        <5>2. n + 1 \in 1 .. Len(s.prefix)
          BY <1>2, <5>1
        <5> QED
          BY <5>1, <5>2, ArrayFields
      <4>3. rest(k) = s.prefix[n + 1] - s.prefix[n + 1]
        <5>1. k = n + 1
          BY <3>1, <3>3
        <5> HIDE DEF k, rest
        <5> QED
          BY <3>2, <5>1
      <4> HIDE DEF rest
      <4> QED
        BY <4>1, <4>2, <4>3
    <3>4. CASE ~(start > n)
      <4>1. TokenEstimateFrom(s, start) = s.prefix[n + 1] - s.prefix[Larger(1, start)]
        BY <2>2, <3>4 DEF TokenEstimateFrom
      <4> HIDE DEF rest
      <4> QED
        BY <3>2, <4>1
    <3> QED
      BY <3>3, <3>4
  <2> QED
    BY <2>1, <2>2
<1>4. ASSUME NEW asked \in -1 .. rest(1) + 1
      PROVE  LET fit == {k \in 0 .. n : rest(n - k + 1) <= Larger(0, asked)}
             IN  KeepRecent(s, asked) = Smaller(n, Larger(1, Largest(fit)))
  <2> DEFINE target == Larger(0, asked)
             fit == {k \in 0 .. n : rest(n - k + 1) <= target}
  <2>1. target \in Nat
    BY DEF Larger
  <2>2. KeepRecent(s, asked) = KeepRecentByTokens(s, target)
    BY DEF KeepRecent
  <2>3. CASE n = 0
    <3>1. KeepRecent(s, asked) = 0
      BY <1>1, <2>3, EmptyKept
    <3>2. rest(1) = 0
      BY <1>1, <2>3, EmptyKept
    <3> HIDE DEF rest, target
    <3>3. 0 \in fit
      BY <2>1, <2>3, <3>2
    <3>4. \A j \in fit : j <= 0
      BY <2>3
    <3>5. fit \subseteq Int
      OBVIOUS
    <3>6. Largest(fit) = 0
      <4> HIDE DEF fit
      <4> QED
        BY <3>3, <3>4, <3>5, LargestIs
    <3>7. Smaller(0, Larger(1, 0)) = 0
      BY DEF Smaller, Larger
    <3> QED
      BY <2>3, <3>1, <3>6, <3>7 DEF target
  <2>4. CASE n # 0
    <3>1. n > 0
      BY <1>2, <2>4
    <3> HIDE DEF target
    <3>2. KeepRecentByTokens(s, target) = Smaller(n, Larger(1, Largest(fit)))
      BY <1>1, <2>1, <3>1, KeptIs, SMTT(60)
    <3> QED
      BY <2>2, <3>2 DEF target
  <2> QED
    BY <2>3, <2>4
<1> QED
  BY <1>2, <1>3, <1>4 DEF TokensAdd, s

\* Through any calls that append messages, fail to, or clear the session, the sums
\* of the C session's array give the tokens from a message on, and the binary search
\* keeps as many of the last messages as fit and one at least: for any number of
\* messages and any first capacity.
THEOREM TokensTrue == TextSpec => []TokensAdd
<1>1. TextIs => TokensAdd
  BY TextAdds
<1> QED
  BY <1>1, TextType, PTL
=============================================================================
