---------------------------- MODULE SessionTree ----------------------------
(***************************************************************************)
(* The session tree of lua/psi/session_manager.lua and its reduction to a  *)
(* model context in lua/psi/session_projection.lua, as operators on a      *)
(* sequence of entries.                                                    *)
(*                                                                         *)
(* An entry is a record                                                    *)
(*     [id, parent, kind, ref]                                             *)
(* kind folds the entry type and the message role together, because the    *)
(* code only ever tells these cases apart: "custom" is a message added by  *)
(* an extension, "change" a new model or thinking level.  ref is           *)
(* firstKeptEntryId of a compaction and targetId of a context edit; where  *)
(* a module tells them, fromId of a branch summary and the answer a tool   *)
(* result belongs to; else NoId.  A uuid is a number from Ids; text, usage *)
(* and timestamps are left out.                                            *)
(***************************************************************************)
EXTENDS Naturals, Sequences, SequencesExt

NoId == 0

MessageKinds == {"user", "assistant", "toolResult", "system"}
EntryKinds   == MessageKinds \cup
                {"compaction", "branch_summary", "context_edit", "custom", "change",
                 "raw", "v1"}

EntriesOver(ids) ==
  [id : ids \cup {NoId}, parent : ids \cup {NoId}, kind : EntryKinds,
   ref : ids \cup {NoId}]

EntryIds(es) == {es[i].id : i \in DOMAIN es}

\* Every entry's parent comes before it, and no uuid is used twice.
Rooted(es) ==
  \A i \in DOMAIN es :
    /\ es[i].parent = NoId \/ \E j \in 1 .. i - 1 : es[j].id = es[i].parent
    /\ \A j \in DOMAIN es : es[j].id = es[i].id => j = i

\* entry_by_id[id]: registering an id again overwrites the slot, so the
\* last entry with that id is the one found.
Lookup(es, id) ==
  es[CHOOSE i \in DOMAIN es :
       /\ es[i].id = id
       /\ \A j \in DOMAIN es : es[j].id = id => j <= i]

\* active_entries_for_leaf: follow parentId from the leaf until it is null,
\* unknown, or already seen, and return the entries root first.
ClimbStep(es, leaf, path) ==
  LET next == IF path = << >> THEN leaf ELSE path[1].parent
  IN  IF next \in EntryIds(es) \ EntryIds(path)
      THEN <<Lookup(es, next)>> \o path
      ELSE path

Climb(es, leaf) ==
  LET up[n \in 0 .. Len(es)] ==
        IF n = 0 THEN << >> ELSE ClimbStep(es, leaf, up[n - 1])
  IN  up

ActivePath(es, leaf) == Climb(es, leaf)[Len(es)]

Compactions(path) == {i \in DOMAIN path : path[i].kind = "compaction"}

LastCompaction(path) ==
  CHOOSE i \in Compactions(path) : \A j \in Compactions(path) : j <= i

\* The entries of a sequence that are in a set, in their order.
Only(es, T) ==
  LET scan[n \in 0 .. Len(es)] ==
        IF n = 0 THEN << >>
        ELSE IF es[n] \in T THEN Append(scan[n - 1], es[n])
        ELSE scan[n - 1]
  IN  scan[Len(es)]

\* System messages older than a compaction are folded into it.
WithoutSystem(es) == Only(es, {e \in ToSet(es) : e.kind # "system"})

\* The entries before the compaction at c that it keeps: those from its
\* firstKeptEntryId on.
Kept(path, c) ==
  LET starts == {i \in 1 .. c - 1 : path[i].id = path[c].ref}
      first  == CHOOSE i \in starts : \A j \in starts : i <= j
  IN  IF starts = {} THEN << >>
      ELSE WithoutSystem(SubSeq(path, first, c - 1))

\* M.build, first half: the entries of the path that the last compaction
\* on it leaves selected.
Selected(path) ==
  IF Compactions(path) = {} THEN path
  ELSE LET c == LastCompaction(path)
       IN  <<path[c]>> \o Kept(path, c) \o SubSeq(path, c + 1, Len(path))
=============================================================================
