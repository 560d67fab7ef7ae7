---------------------------- MODULE SessionStore ----------------------------
(***************************************************************************)
(* Persistence of a psi session: the in-memory tree of session_manager.lua,*)
(* its mirror in the C session (psi.session_messages), the save cursor, and*)
(* the JSONL files, with I/O errors, torn appends, crashes and restarts.   *)
(*                                                                         *)
(* The code's last_entry_id equals leaf_id between any two operations      *)
(* modelled here, so one variable stands for both.  entry_by_id and        *)
(* children_by_parent are functions of file_entries.  A file is its header,*)
(* the sequence of records a reader accepts, and the state of its last     *)
(* line: "clean" when it ends in a newline, "valid" when the last record   *)
(* lacks it, "junk" when unparsable bytes do.  Terminated unparsable lines *)
(* are skipped by every reader and so leave no trace.                      *)
(***************************************************************************)
EXTENDS SessionTree, FiniteSets

CONSTANTS
  Paths,         \* session files
  LegacyPaths,   \* those that start as version 1 files
  Names,         \* display names given to /name
  AppendKinds,   \* kinds of message the agent appends
  MaxId,         \* bound on the uuids drawn in a behaviour
  RawAccess,     \* extensions call psi.session_append / psi.session_clear
  ResumeMissing, \* /resume and --session may name a file that is not there
  CloneOver,     \* /clone may name the session's own file
  Faults         \* writes may fail or be cut short by a crash

NoPath == "no path"
NoName == "no name"

ASSUME PathsAssumption ==
  /\ NoPath \notin Paths
  /\ LegacyPaths \subseteq Paths
ASSUME IdsAssumption == MaxId \in Nat \ {0}
ASSUME KindsAssumption == AppendKinds \subseteq MessageKinds
ASSUME SwitchAssumption ==
  /\ RawAccess \in BOOLEAN
  /\ ResumeMissing \in BOOLEAN
  /\ CloneOver \in BOOLEAN
  /\ Faults \in BOOLEAN

Ids     == 1 .. MaxId
Entries == EntriesOver(Ids)
Tails   == {"clean", "valid", "junk"}

VARIABLES
  running,     \* a psi process is up
  fileEntries, \* file_entries
  leaf,        \* leaf_id
  memory,      \* the C session's message array, as entry records
  tracked,     \* tracked_memory_count
  path,        \* psi.session_path()
  name,        \* display_name
  savedPath,   \* last_saved_path
  savedCount,  \* last_saved_count
  disk,        \* [Paths -> file]
  nextId,      \* the next unused uuid
  acked        \* history: ids a successful save reported, per file

cursor   == <<savedPath, savedCount>>
tree     == <<fileEntries, leaf, memory, tracked>>
volatile == <<running, tree, path, name, cursor>>
vars     == <<volatile, disk, nextId, acked>>

-----------------------------------------------------------------------------
(* Files *)

NoFile == [exists |-> FALSE, version |-> 3, name |-> NoName,
           entries |-> << >>, tail |-> "clean"]

File(es, nm) == [NoFile EXCEPT !.exists = TRUE, !.entries = es, !.name = nm]

Files == [exists : BOOLEAN, version : {1, 3}, name : Names \cup {NoName},
          entries : Seq(Entries), tail : Tails]

LegacyLine == [id |-> NoId, parent |-> NoId, kind |-> "v1", ref |-> NoId]
LegacyFile == [File(<<LegacyLine>>, NoName) EXCEPT !.version = 1]

\* O_APPEND of the first k records of batch, ending in tail t.  Bytes put
\* after an unterminated line join it: a valid last record and the first
\* new record become one unparsable line.
Appended(f, batch, k, t) ==
  LET kept    == IF f.tail = "valid" /\ (k > 0 \/ t = "junk")
                 THEN Front(f.entries) ELSE f.entries
      first   == IF f.tail = "clean" THEN 1 ELSE 2
      touched == k > 0 \/ t # "clean"
  IN  [f EXCEPT !.entries = kept \o SubSeq(batch, first, k),
                !.tail    = IF touched THEN t ELSE f.tail]

\* The lengths and tails a cut-short append of n records can leave.
Cuts(n) == {c \in (0 .. n) \X Tails :
              /\ c[2] = "valid" => c[1] > 0
              /\ c[2] = "junk"  => c[1] < n}

-----------------------------------------------------------------------------
(* In-memory tree *)

LastId(es) == IF es = << >> THEN NoId ELSE Last(es).id

RawMessage == [id |-> NoId, parent |-> NoId, kind |-> "raw", ref |-> NoId]

\* Mutant: messages the tree already holds are registered again.
AllRegistered(es, known) == es

\* The records of es that reconcile_memory_entries registers.
Registrable(es, known) == SelectSeq(es, LAMBDA m : m.id \notin known)

\* How many of the first n records of es draw a uuid when they are registered.
Drawn(es, n) == Cardinality({i \in 1 .. n : es[i].id = NoId})

\* A message without a body gets a fresh uuid and a null parent from
\* to_disk_entry.
Registered(es) ==
  [i \in DOMAIN es |-> IF es[i].id = NoId
                       THEN [es[i] EXCEPT !.id = nextId + Drawn(es, i) - 1] ELSE es[i]]

Tree(es, lf, mem, n, next) ==
  [es |-> es, leaf |-> lf, memory |-> mem, tracked |-> n, nextId |-> next]

EmptyTree(next) == Tree(<< >>, NoId, << >>, 0, next)

\* rebuild_active_path: reload the C session from the active path.
Rebuilt(es, lf, next) ==
  LET selected == Selected(ActivePath(es, lf))
  IN  Tree(es, lf, selected, Len(selected), next)

\* reconcile_memory_entries: what save, projection and fork do first.
Reconciled ==
  LET new == Registrable(memory, EntryIds(fileEntries))
      es  == fileEntries \o Registered(new)
  IN  IF Len(memory) = tracked
      THEN Tree(fileEntries, leaf, memory, tracked, nextId)
      ELSE IF memory = << >> THEN EmptyTree(nextId)
      ELSE Rebuilt(es, IF new = << >> THEN leaf ELSE LastId(es),
                   nextId + Drawn(new, Len(new)))

SetTree(t) ==
  /\ fileEntries' = t.es
  /\ leaf'        = t.leaf
  /\ memory'      = t.memory
  /\ tracked'     = t.tracked
  /\ nextId'      = t.nextId

\* append_v1_entry for each line of a version 1 file: a v1 message becomes
\* a fresh child of the leaf, but a message record in the current format
\* has no top-level role and becomes an empty custom message without an
\* id, which only the C session sees.  Other record types are registered.
LegacyLoaded(lines) ==
  LET step[i \in 0 .. Len(lines)] ==
        IF i = 0 THEN EmptyTree(nextId)
        ELSE LET t     == step[i - 1]
                 line  == lines[i]
                 child == [line EXCEPT !.id = t.nextId, !.parent = t.leaf]
                 mem   == Append(t.memory, child)
             IN  CASE line.kind = "v1" ->
                        Tree(Append(t.es, child), child.id, mem,
                             Len(mem), t.nextId + 1)
                   [] line.kind \in MessageKinds \cup {"raw"} ->
                        [t EXCEPT !.memory = Append(@, RawMessage)]
                   [] OTHER ->
                        [t EXCEPT !.es = Append(@, line), !.leaf = line.id]
  IN  step[Len(lines)]

\* M.load's loop over the lines, then rebuild_active_path if only the tree
\* was filled.
Loaded(f) ==
  LET t == IF f.version = 1 THEN LegacyLoaded(f.entries)
           ELSE [EmptyTree(nextId) EXCEPT !.es   = f.entries,
                                          !.leaf = LastId(f.entries)]
  IN  IF t.memory = << >> /\ t.es # << >>
      THEN Rebuilt(t.es, t.leaf, t.nextId) ELSE t

-----------------------------------------------------------------------------
Init ==
  /\ running = FALSE
  /\ fileEntries = << >> /\ leaf = NoId /\ memory = << >> /\ tracked = 0
  /\ path = NoPath /\ name = NoName
  /\ savedPath = NoPath /\ savedCount = 0
  /\ disk = [p \in Paths |-> IF p \in LegacyPaths THEN LegacyFile ELSE NoFile]
  /\ nextId = 1
  /\ acked = [p \in Paths |-> {}]

\* Process exit, orderly or not: only the files survive.
LoseVolatile ==
  /\ running' = FALSE
  /\ fileEntries' = << >> /\ leaf' = NoId /\ memory' = << >> /\ tracked' = 0
  /\ path' = NoPath /\ name' = NoName
  /\ savedPath' = NoPath /\ savedCount' = 0

Exit == running /\ LoseVolatile /\ UNCHANGED <<disk, nextId, acked>>

-----------------------------------------------------------------------------
(* Appends: stamp_entry, append_body and track_memory_append *)

Fresh(kind, parent, ref) ==
  [id |-> nextId, parent |-> parent, kind |-> kind, ref |-> ref]

HasIds == nextId <= MaxId

Append1(e) ==
  /\ fileEntries' = Append(fileEntries, e)
  /\ leaf'        = e.id
  /\ memory'      = Append(memory, e)
  /\ tracked'     = Len(memory')
  /\ nextId'      = nextId + 1

AppendMessage(kind) ==
  /\ running /\ HasIds
  /\ Append1(Fresh(kind, leaf, NoId))
  /\ UNCHANGED <<running, path, name, cursor, disk, acked>>

\* append_context_edit refuses a target off the active branch.
ContextEdit(target) ==
  /\ running /\ HasIds
  /\ LET t == Reconciled IN
       /\ t.nextId <= MaxId
       /\ \E i \in DOMAIN ActivePath(t.es, t.leaf) :
            LET e == ActivePath(t.es, t.leaf)[i] IN
              e.id = target /\ e.kind \in MessageKinds \ {"system"}
       /\ LET e == [Fresh("context_edit", t.leaf, target)
                      EXCEPT !.id = t.nextId]
          IN  SetTree(Tree(Append(t.es, e), e.id, Append(t.memory, e),
                           Len(t.memory) + 1, t.nextId + 1))
  /\ UNCHANGED <<running, path, name, cursor, disk, acked>>

\* do_compact: a compaction entry under the leaf that keeps the messages
\* from `kept` on, then rebuild_active_path.
Compact(kept) ==
  /\ running /\ HasIds
  /\ LET t == Reconciled IN
       /\ t.nextId <= MaxId
       /\ \E i \in 2 .. Len(t.memory) : t.memory[i].id = kept
       /\ LET e == [Fresh("compaction", t.leaf, kept) EXCEPT !.id = t.nextId]
          IN  SetTree(Rebuilt(Append(t.es, e), e.id, t.nextId + 1))
  /\ UNCHANGED <<running, path, name, cursor, disk, acked>>

Branch(id) ==
  /\ running
  /\ id \in EntryIds(fileEntries)
  /\ SetTree(Rebuilt(fileEntries, id, nextId))
  /\ UNCHANGED <<running, path, name, cursor, disk, acked>>

\* Mutant: the summary is appended to the abandoned branch's context.
BranchAppended(id) ==
  /\ running /\ HasIds
  /\ id \in EntryIds(fileEntries)
  /\ Append1(Fresh("branch_summary", id, NoId))
  /\ UNCHANGED <<running, path, name, cursor, disk, acked>>

BranchWithSummary(id) ==
  /\ running /\ HasIds
  /\ id \in EntryIds(fileEntries)
  /\ LET e == Fresh("branch_summary", id, NoId)
     IN  SetTree(Rebuilt(Append(fileEntries, e), e.id, nextId + 1))
  /\ UNCHANGED <<running, path, name, cursor, disk, acked>>

\* M.projection called on its own, as prepare_checkpoint does.
Project ==
  /\ running
  /\ Reconciled.nextId <= MaxId + 1
  /\ SetTree(Reconciled)
  /\ UNCHANGED <<running, path, name, cursor, disk, acked>>

\* psi.session_append and psi.session_clear called past the session module.
RawAppend ==
  /\ RawAccess /\ running
  /\ Len(memory) < MaxId
  /\ memory' = Append(memory, RawMessage)
  /\ UNCHANGED <<running, fileEntries, leaf, tracked, path, name, cursor,
                 disk, nextId, acked>>

RawClear ==
  /\ RawAccess /\ running
  /\ memory' = << >>
  /\ acked' = IF path = NoPath THEN acked ELSE [acked EXCEPT ![path] = {}]
  /\ UNCHANGED <<running, fileEntries, leaf, tracked, path, name, cursor,
                 disk, nextId>>

-----------------------------------------------------------------------------
(* M.save *)

Outcomes == {"ok"} \cup (IF Faults THEN {"error", "crash"} ELSE {})

\* write_entry_file through psi.file_write_atomic: all or nothing.
Rewrite(t, nm, outcome) ==
  \E renamed \in CASE outcome = "ok"    -> {TRUE}
                   [] outcome = "error" -> {FALSE}
                   [] OTHER             -> BOOLEAN :
    disk' = IF renamed THEN [disk EXCEPT ![path] = File(t.es, nm)] ELSE disk

\* Mutant: the batch starts at the last saved entry, not after it.
AppendTwice(t, outcome) ==
  LET batch == SubSeq(t.es, savedCount, Len(t.es))
      n     == Len(batch)
  IN  \E c \in IF outcome = "ok" THEN {<<n, "clean">>} ELSE Cuts(n) :
        disk' = [disk EXCEPT ![path] = Appended(@, batch, c[1], c[2])]

\* append_entry_file through psi.file_append: any prefix may reach the file.
AppendNew(t, outcome) ==
  LET batch == SubSeq(t.es, savedCount + 1, Len(t.es))
      n     == Len(batch)
  IN  \E c \in IF outcome = "ok" THEN {<<n, "clean">>} ELSE Cuts(n) :
        disk' = [disk EXCEPT ![path] = Appended(@, batch, c[1], c[2])]

MustRewrite(t) ==
  \/ path # savedPath
  \/ Len(t.es) < savedCount
  \/ savedCount = 0
  \/ ~disk[path].exists

Write(t, nm, outcome) ==
  \/ MustRewrite(t) /\ Rewrite(t, nm, outcome)
  \/ /\ ~MustRewrite(t)
     /\ Len(t.es) = savedCount
     /\ outcome = "ok"
     /\ UNCHANGED disk
  \/ /\ ~MustRewrite(t)
     /\ Len(t.es) # savedCount
     /\ AppendNew(t, outcome)

\* Mutant: a failed save leaves the cursor alone.
SaveCursorKept(t, outcome) ==
  IF outcome = "ok"
  THEN savedPath' = path /\ savedCount' = Len(t.es)
  ELSE UNCHANGED cursor

\* Success moves the cursor to the end; failure clears it, so that the
\* next save rewrites the file.
SaveCursor(t, outcome) ==
  IF outcome = "ok"
  THEN savedPath' = path /\ savedCount' = Len(t.es)
  ELSE savedPath' = NoPath /\ savedCount' = 0

SaveAs(nm, outcome) ==
  /\ running
  /\ path # NoPath
  /\ LET t == Reconciled IN
       /\ t.nextId <= MaxId + 1
       /\ Write(t, nm, outcome)
       /\ acked' = IF outcome = "ok"
                   THEN [acked EXCEPT ![path] = @ \cup EntryIds(t.es)]
                   ELSE acked
       /\ IF outcome = "crash"
          THEN LoseVolatile /\ nextId' = t.nextId
          ELSE /\ SetTree(t)
               /\ SaveCursor(t, outcome)
               /\ name' = nm
               /\ UNCHANGED <<running, path>>

Save(outcome) == SaveAs(name, outcome)

\* The /name command: set_display_name, then save.
CmdName(nm, outcome) == nm # name /\ SaveAs(nm, outcome)

-----------------------------------------------------------------------------
(* Opening, replacing and copying sessions *)

\* Mutant: the missing final newline is not added.
NotRepaired(f) == f

\* The newline M.load appends to a file whose last line lacks it; one that
\* ends in unparsable bytes gets a terminated, skipped line.
Repaired(f) == [f EXCEPT !.tail = "clean"]

\* M.load of an existing file: the tree, then the missing final newline,
\* then the cursor.
Load(p) ==
  /\ disk[p].exists
  /\ LET t == Loaded(disk[p]) IN
       /\ t.nextId <= MaxId + 1
       /\ SetTree(t)
       /\ savedPath' = p /\ savedCount' = Len(t.es)
  /\ running' = TRUE /\ path' = p /\ name' = disk[p].name
  /\ disk' = [disk EXCEPT ![p] = Repaired(@)]
  /\ UNCHANGED acked

\* The repair cannot be written: load returns false with the tree filled
\* and the C session empty; a running frontend carries on from there.
LoadFails(p) ==
  /\ Faults /\ running
  /\ disk[p].exists /\ disk[p].tail # "clean"
  /\ disk[p].version = 3
  /\ SetTree([EmptyTree(nextId) EXCEPT !.es   = disk[p].entries,
                                       !.leaf = LastId(disk[p].entries)])
  /\ path' = p /\ name' = disk[p].name
  /\ savedPath' = NoPath /\ savedCount' = 0
  /\ UNCHANGED <<running, disk, acked>>

\* M.load of a path that is not there: the tree is emptied, but the C
\* session and the display name are not.
LoadMissing(p) ==
  /\ ResumeMissing
  /\ ~disk[p].exists
  /\ fileEntries' = << >> /\ leaf' = NoId /\ tracked' = 0
  /\ running' = TRUE /\ path' = p
  /\ savedPath' = NoPath /\ savedCount' = 0
  /\ UNCHANGED <<memory, name, disk, nextId, acked>>

\* Bootstrap without a file, and /new: everything is emptied and the path
\* is a new one.  The save cursor is left as it was.
NewSession(p) ==
  /\ ~disk[p].exists /\ p # path /\ acked[p] = {}
  /\ SetTree(EmptyTree(nextId))
  /\ running' = TRUE /\ path' = p /\ name' = NoName
  /\ UNCHANGED <<cursor, disk, acked>>

\* M.fork(k, p): the path to the k-th message of the C session, or to the leaf
\* when k counts them all, is written to p, whatever p held: /fork makes up a
\* new name, but /clone, which copies the whole path, takes any.  If the k-th
\* message has no id, the first k messages themselves are written.  A fork that
\* cannot be written is Project.
Bodiless(t, k) == 0 < k /\ k < Len(t.memory) /\ t.memory[k].id = NoId

\* Mutant: the C session's messages are written, not the tree path.
ForkMemory(t, k) == SubSeq(t.memory, 1, k)

ForkEntries(t, k) ==
  IF k = Len(t.memory) THEN ActivePath(t.es, t.leaf)
  ELSE IF k = 0 THEN << >>
  ELSE IF Bodiless(t, k) THEN Registered(SubSeq(t.memory, 1, k))
  ELSE ActivePath(t.es, t.memory[k].id)

Fork(k, p) ==
  /\ running
  /\ LET t == Reconciled IN
       /\ k <= Len(t.memory)
       /\ p = path => CloneOver /\ k = Len(t.memory)
       /\ LET n == t.nextId + (IF Bodiless(t, k) THEN Drawn(t.memory, k) ELSE 0) IN
            /\ n <= MaxId + 1
            /\ SetTree([t EXCEPT !.nextId = n])
       /\ disk' = [disk EXCEPT ![p] = File(ForkEntries(t, k), NoName)]
       /\ acked' = [acked EXCEPT ![p] = EntryIds(ForkEntries(t, k))]
  /\ UNCHANGED <<running, path, name, cursor>>

\* Someone removes a session file.
Delete(p) ==
  /\ disk[p].exists
  /\ disk' = [disk EXCEPT ![p] = NoFile]
  /\ acked' = [acked EXCEPT ![p] = {}]
  /\ UNCHANGED <<volatile, nextId>>

-----------------------------------------------------------------------------
Next ==
  \/ \E kind \in AppendKinds : AppendMessage(kind)
  \/ \E id \in Ids : ContextEdit(id) \/ Compact(id)
  \/ \E id \in Ids : Branch(id) \/ BranchWithSummary(id)
  \/ Project
  \/ RawAppend \/ RawClear
  \/ \E o \in Outcomes : Save(o)
  \/ \E o \in Outcomes, nm \in Names : CmdName(nm, o)
  \/ \E p \in Paths : Load(p) \/ LoadFails(p) \/ LoadMissing(p)
  \/ \E p \in Paths : NewSession(p) \/ Delete(p)
  \/ \E p \in Paths, k \in 0 .. MaxId : Fork(k, p)
  \/ Exit

Spec == Init /\ [][Next]_vars

-----------------------------------------------------------------------------
(* Properties *)

\* Type invariant.
TypeOK ==
  /\ running \in BOOLEAN
  /\ fileEntries \in Seq(Entries)
  /\ leaf \in Ids \cup {NoId}
  /\ memory \in Seq(Entries)
  /\ tracked \in Nat
  /\ path \in Paths \cup {NoPath}
  /\ name \in Names \cup {NoName}
  /\ savedPath \in Paths \cup {NoPath}
  /\ savedCount \in Nat
  /\ disk \in [Paths -> Files]
  /\ nextId \in 1 .. MaxId + 1
  /\ acked \in [Paths -> SUBSET Ids]

\* Whatever a save reported as written can be read back from the file, in
\* every later state: after failed and torn appends, crashes, repairs on
\* load, session switches and forks; until somebody removes the file, or
\* copies another session over it, which /clone does without a question.
AckedIsDurable ==
  \A p \in Paths : acked[p] \subseteq EntryIds(disk[p].entries)

\* While the cursor names a file, the file ends in a newline and holds
\* exactly the entries the cursor counts, so the append-only fast path
\* neither repeats nor skips a record nor joins two lines.  A clone over the
\* session's own file breaks this (CloneOver, see SaveTellsTheTruth).
CursorMatchesFile ==
  savedPath # NoPath /\ savedPath = path /\ disk[savedPath].exists =>
    /\ savedCount <= Len(fileEntries)
    /\ disk[savedPath].entries = SubSeq(fileEntries, 1, savedCount)
    /\ disk[savedPath].tail = "clean"

\* In memory and in every file no parent is missing and no uuid is used twice,
\* so the walk from a leaf to its root never stops at a hole.  Crashes that cut
\* an append short, and forks of a compacted session over other sessions, must
\* keep it so.  (It does not hold of messages that come past the session
\* module, nor when a missing file is opened: the C session is then registered
\* in its own order, a compaction before its parent.)
TreesAreRooted ==
  Rooted(fileEntries) /\ \A p \in Paths : disk[p].version = 1 \/ Rooted(disk[p].entries)

\* Taking back what came past the session module, in any order of raw appends,
\* clears, missing files, old files and reloads, keeps the state well typed and
\* registers nothing twice: in memory and in every file a uuid stands for one
\* record.
Unique(es) ==
  \A i, j \in DOMAIN es : es[i].id = es[j].id /\ es[i].id # NoId => i = j
UuidsAreUnique ==
  /\ TypeOK
  /\ Unique(fileEntries) /\ Unique(memory) /\ \A p \in Paths : Unique(disk[p].entries)

\* Said of M.save, session_manager.lua:1206: true means "wrote the file (or all
\* entries were already on disk; no-op)".
SaveTellsTheTruth ==
  [][Save("ok") => EntryIds(fileEntries') \subseteq EntryIds(disk'[path].entries)]_vars

\* The C session that the status line, token counts, /fork and /clone read
\* is the projection of the active path, and stays it through every branch,
\* compaction, reload and save; only a load that fails leaves it behind.
Mirrors(array, es, id) == array = Selected(ActivePath(es, id))
MemoryMirrorsPath ==
  [][\A array \in {memory'}, es \in {fileEntries'}, id \in {leaf'} :
       Mirrors(memory, fileEntries, leaf) =>
         Mirrors(array, es, id) \/ \E p \in Paths : LoadFails(p)]_tree

\* The store implements the log of DurableLog.
Log == INSTANCE DurableLog WITH
         log     <- fileEntries,
         content <- [p \in Paths |-> disk[p].entries]

ImplementsLog == Log!Spec
=============================================================================
