---------------------------- MODULE SessionContext ----------------------------
(***************************************************************************)
(* What the model is shown of a session: compactions and branch summaries, *)
(* which are planned, then written by a provider while the frontend and    *)
(* extensions go on, and then committed (run_compact and run_tree of       *)
(* lua/psi/agent_session.lua, with the parts of session_manager.lua,       *)
(* session_projection.lua and prompt.lua that they use).  Tools run in the *)
(* same way, between the answer that calls them and its results            *)
(* (dispatch_tools of provider_loop.lua).                                  *)
(*                                                                         *)
(* A summary speaks of the entries whose records were in its request;      *)
(* that the provider says something of each of them is assumed.  A summary *)
(* that an extension supplies needs no await, and is one that arrives at   *)
(* once.  Context edits are removals.                                      *)
(***************************************************************************)
EXTENDS SessionTree, FiniteSets

CONSTANTS
  MaxEntries, \* bound: entries of the tree
  MaxForks,   \* bound: entries with several children, when a branch starts
  MaxAsides,  \* bound: those that are neither conversation nor summaries
  Cap         \* [EntryKinds -> bound on the entries of the kind]

ASSUME BoundsAssumption ==
  /\ MaxEntries \in Nat \ {0} /\ {MaxForks, MaxAsides} \subseteq Nat
  /\ Cap \in [EntryKinds -> Nat]

Ids == 1 .. MaxEntries

VARIABLES
  es,      \* file_entries; the n-th entry has uuid n
  leaf,    \* leaf_id
  pc,      \* "idle", or what is awaited: the "tools" of an answer, or a
           \* summary, "history" or "prefix" of a compaction, "tree" of a branch
  plan,    \* what was read before the await; for tools, the answer as the
           \* leaf of then, and the number of its calls
  covers,  \* history: [Ids -> the entries that the summary speaks of]
  carried  \* [Ids -> the system messages folded into systemMessage]

vars == <<es, leaf, pc, plan, covers, carried>>
history == <<covers, carried>>

Messages == {"user", "assistant", "toolResult", "custom", "branch_summary"}

NoPlan == [leaf |-> NoId, target |-> NoId, first |-> NoId, asked |-> {},
           split |-> FALSE, system |-> {}, calls |-> 0]

\* The first turn has checkpointed the system prompt.
Init ==
  /\ es = <<[id |-> 1, parent |-> NoId, kind |-> "system", ref |-> NoId]>>
  /\ leaf = 1 /\ pc = "idle" /\ plan = NoPlan
  /\ covers = [id \in Ids |-> {}] /\ carried = [id \in Ids |-> {}]

-----------------------------------------------------------------------------
(* The projection of a path: session_projection.build and records. *)

Targets(entries) == {entries[i].ref : i \in {j \in DOMAIN entries : entries[j].kind = "context_edit"}}

\* Mutant: only edits made since the compaction count.
RemovedSince(path) ==
  IF Compactions(path) = {} THEN Targets(path)
  ELSE Targets(SubSeq(path, LastCompaction(path), Len(path)))

\* Edits count if the projection selects them.
Removed(path) == Targets(Selected(path))

\* The entries that yield a message.  A compaction speaks only at the head.
Records(path) ==
  LET shown   == Selected(path)
      removed == Removed(path)
      Speaks(e) ==
        \/ e.kind \in Messages \cup {"system"} /\ e.id \notin removed
        \/ e.kind = "compaction" /\ e.id = shown[1].id
  IN  Only(shown, {e \in ToSet(shown) : Speaks(e)})

\* context_messages.
Context(path) == WithoutSystem(Records(path))

\* system_state: a fold of the projection's system messages, the first of
\* which may be the one a compaction carries.
System(path) ==
  UNION {IF e.kind = "system" THEN {e.id} ELSE carried[e.id] : e \in ToSet(Records(path))}

\* The entries a summary speaks of whose request holds these.
Spoken(ids) == ids \cup UNION {covers[id] : id \in ids}

-----------------------------------------------------------------------------
(* Entries. *)

Next1 == Len(es) + 1

Asides == {"system", "custom", "change", "context_edit"}

Count(kinds) == Cardinality({i \in DOMAIN es : es[i].kind \in kinds})

Room(kind) ==
  /\ Len(es) < MaxEntries
  /\ Count({kind}) < Cap[kind]
  /\ kind \in Asides => Count(Asides) < MaxAsides

Entry(parent, kind, ref) == [id |-> Next1, parent |-> parent, kind |-> kind, ref |-> ref]

Children(id) == {i \in DOMAIN es : es[i].parent = id}

MayFork(id) ==
  \/ Children(id) = {}
  \/ Cardinality({i \in DOMAIN es : Cardinality(Children(i)) > 1}) < MaxForks

\* append_body under the leaf.
Add(kind, ref) ==
  /\ Room(kind)
  /\ es' = Append(es, Entry(leaf, kind, ref))
  /\ leaf' = Next1

\* A turn's prompt.  No turn starts while something is awaited.
Say == pc = "idle" /\ Add("user", NoId) /\ UNCHANGED <<pc, plan, history>>

\* prepare_checkpoint, when the system prompt changed: only turns call it.
Checkpoint == pc = "idle" /\ Add("system", NoId) /\ UNCHANGED <<pc, plan, history>>

\* An answer is recorded, then its n tool calls start.  (Here and below, the
\* only element of a set is a value that TLC computes once.)
Answer(n) ==
  /\ pc = "idle"
  /\ \E context \in {Context(ActivePath(es, leaf))} :
       context # << >> /\ Last(context).kind # "assistant"
  /\ Add("assistant", NoId)
  /\ IF n = 0 THEN UNCHANGED <<pc, plan>>
     ELSE pc' = "tools" /\ plan' = [NoPlan EXCEPT !.leaf = Next1, !.calls = n]
  /\ UNCHANGED history

\* All the calls returned: their results are appended together, under the leaf
\* of now.
ToolsReturn ==
  LET result(i) == [id |-> Len(es) + i, parent |-> IF i = 1 THEN leaf ELSE Len(es) + i - 1,
                    kind |-> "toolResult", ref |-> plan.leaf]
  IN /\ pc = "tools" /\ Len(es) + plan.calls <= MaxEntries
     /\ es' = es \o [i \in 1 .. plan.calls |-> result(i)]
     /\ leaf' = Len(es) + plan.calls
     /\ pc' = "idle" /\ plan' = NoPlan
     /\ UNCHANGED history

\* An abort while tools run: no result is recorded, not even of those done.
ToolsAborted ==
  /\ pc = "tools"
  /\ pc' = "idle" /\ plan' = NoPlan
  /\ UNCHANGED <<es, leaf, history>>

\* An extension adds a message, at any time: also while a summary is awaited,
\* or tools run.
Inject == Add("custom", NoId) /\ UNCHANGED <<pc, plan, history>>

\* set_thinking_level and set_model, also from the keyboard while something is
\* awaited.
Change == Add("change", NoId) /\ UNCHANGED <<pc, plan, history>>

\* append_context_edit: the target is a message on the active path.
ContextEdit ==
  /\ Room("context_edit")
  /\ \E e \in ToSet(ActivePath(es, leaf)) :
       e.kind \in Messages \ {"branch_summary"} /\ Add("context_edit", e.id)
  /\ UNCHANGED <<pc, plan, history>>

-----------------------------------------------------------------------------
(* Compaction. *)

\* Mutant: results at the boundary are kept without their call.
BoundaryAsDesired(c, desired) == IF desired > Len(c) THEN Len(c) ELSE desired

\* Where the kept part of the context starts: past the results at the
\* desired place or, if nothing is left then, before them.
Boundary(c, desired) ==
  LET after  == {i \in desired .. Len(c) : c[i].kind # "toolResult"}
      before == {i \in 1 .. desired - 1 : i <= Len(c) /\ c[i].kind # "toolResult"}
  IN  IF after # {} THEN CHOOSE i \in after : \A j \in after : i <= j
      ELSE IF before # {} THEN CHOOSE i \in before : \A j \in before : j <= i
      ELSE 1

\* The turn that the boundary splits starts at the last prompt before it.
TurnStart(c, first) ==
  LET prompts == {i \in 1 .. first - 1 : c[i].kind = "user"}
  IN  IF c[first].kind = "user" \/ prompts = {} THEN first
      ELSE CHOOSE i \in prompts : \A j \in prompts : j <= i

\* Mutant: the previous summary is not part of the request.
AskedAfresh(c, first) == {c[i].id : i \in {j \in 1 .. first - 1 : c[j].kind # "compaction"}}

\* What the requests of a compaction hold: the messages before the boundary,
\* in two requests when a turn is split, and the previous summary.
Asked(c, first) == {c[i].id : i \in 1 .. first - 1}

\* Mutant: the entry after the boundary is taken for the first one kept.
FirstKeptLate(c, first) == IF first = Len(c) THEN NoId ELSE c[first + 1].id

FirstKept(c, first) == c[first].id

\* prepare_compaction, for any number of messages or tokens to keep.
PrepareCompaction ==
  /\ pc = "idle"
  /\ \E c \in {Context(ActivePath(es, leaf))} : \E desired \in 1 .. Len(c) + 1 :
       LET first == Boundary(c, desired)
           start == TurnStart(c, first)
       IN /\ c # << >> /\ Last(c).kind # "compaction"
          /\ 1 < first /\ first <= Len(c)
          /\ plan' = [NoPlan EXCEPT !.leaf = leaf, !.first = FirstKept(c, first),
                                    !.asked = Asked(c, first), !.split = start < first,
                                    !.system = System(ActivePath(es, leaf))]
          /\ pc' = IF start < first /\ \A i \in 1 .. start - 1 : c[i].kind = "compaction"
                   THEN "prefix" ELSE "history"
          /\ UNCHANGED <<es, leaf, history>>

\* Mutant: the system message is left to the kept entries.
CarriedNothing == carried' = carried

CarriedSystem == carried' = [carried EXCEPT ![Next1] = plan.system]

\* do_compact, which refuses a session that moved on.
DoCompact ==
  /\ IF plan.leaf # leaf THEN UNCHANGED <<es, leaf, history>>
     ELSE /\ Add("compaction", plan.first)
          /\ covers' = [covers EXCEPT ![Next1] = Spoken(plan.asked)]
          /\ CarriedSystem
  /\ pc' = "idle" /\ plan' = NoPlan

\* A summary of a compaction arrives; the last one is committed at once.
SummaryArrives ==
  \/ /\ pc = "history" /\ plan.split
     /\ pc' = "prefix"
     /\ UNCHANGED <<es, leaf, plan, history>>
  \/ pc = "history" /\ ~plan.split /\ DoCompact
  \/ pc = "prefix" /\ DoCompact

\* Mutant: the plan is kept for another try.
SummaryFailsForNow ==
  /\ pc \notin {"idle", "tools"}
  /\ pc' = "idle"
  /\ UNCHANGED <<es, leaf, plan, history>>

\* The provider fails, an extension cancels, or the abort signal is up.
SummaryFails ==
  /\ pc \notin {"idle", "tools"}
  /\ pc' = "idle" /\ plan' = NoPlan
  /\ UNCHANGED <<es, leaf, history>>

-----------------------------------------------------------------------------
(* Branches. *)

\* run_tree without a summary, or when there is nothing to summarise: branch.
Branch(target) ==
  /\ pc = "idle" /\ target \in DOMAIN es \ {leaf} /\ MayFork(target)
  /\ leaf' = target
  /\ UNCHANGED <<es, pc, plan, history>>

\* branch_entries_to_summarize: the records of the context on the leaf's
\* side of the common ancestor.
Abandoned(shown, target) == shown \ EntryIds(ActivePath(es, target))

\* run_tree with a summary, up to the await.
SummariseBranch ==
  /\ pc = "idle" /\ Room("branch_summary")
  /\ \E shown \in {{e.id : e \in ToSet(Context(ActivePath(es, leaf)))}} :
       \E target \in DOMAIN es :
         /\ MayFork(target)
         /\ Abandoned(shown, target) # {}
         /\ plan' = [NoPlan EXCEPT !.leaf = leaf, !.target = target,
                                   !.asked = Abandoned(shown, target)]
  /\ pc' = "tree"
  /\ UNCHANGED <<es, leaf, history>>

\* Mutant: fromId is the leaf at the time of the commit.
FromNow == leaf

From == plan.leaf

\* branch_with_summary, which takes no notice of what happened meanwhile.
BranchWithSummary ==
  /\ pc = "tree"
  /\ Room("branch_summary")
  /\ es' = Append(es, Entry(plan.target, "branch_summary", From))
  /\ leaf' = Next1
  /\ covers' = [covers EXCEPT ![Next1] = Spoken(plan.asked)]
  /\ pc' = "idle" /\ plan' = NoPlan
  /\ UNCHANGED carried

-----------------------------------------------------------------------------
Next ==
  \/ Say \/ Checkpoint \/ Inject \/ Change
  \/ (\E n \in 0 .. 2 : Answer(n)) \/ ToolsReturn \/ ToolsAborted
  \/ ContextEdit \/ (\E id \in Ids : Branch(id))
  \/ SummariseBranch \/ PrepareCompaction \/ SummaryArrives \/ SummaryFails \/ BranchWithSummary

Spec == Init /\ [][Next]_vars

-----------------------------------------------------------------------------
Path == ActivePath(es, leaf)
Shown(path) == {e.id : e \in ToSet(Context(path))}

\* Type invariant.
TypeOK ==
  /\ es \in Seq(EntriesOver(Ids)) /\ \A i \in DOMAIN es : es[i].id = i
  /\ leaf \in {NoId} \cup DOMAIN es
  /\ pc \in {"idle", "tools", "history", "prefix", "tree"}
  /\ plan \in [leaf : Ids \cup {NoId}, target : Ids \cup {NoId}, first : Ids \cup {NoId},
               asked : SUBSET Ids, split : BOOLEAN, system : SUBSET Ids, calls : 0 .. 2]
  /\ pc = "idle" <=> plan = NoPlan
  /\ covers \in [Ids -> SUBSET Ids] /\ carried \in [Ids -> SUBSET Ids]

\* The system prompt and tool declarations in force are those that all the
\* checkpoints of the active path add up to, though compactions drop them
\* from the kept entries.
SystemIsCurrent ==
  LET path == Path
  IN System(path) = {e.id : e \in {f \in ToSet(path) : f.kind = "system"}}

\* A message removed by an edit stays out: it is not shown after a later
\* compaction, and none speaks of it that did not inherit it from a summary
\* older than the edit or from the summary of a branch.
EditsStick ==
  LET path == Path IN
    \A i \in DOMAIN path : path[i].kind = "context_edit" =>
      /\ path[i].ref \notin Shown(path)
      /\ \A j \in i + 1 .. Len(path) :
           path[j].kind = "compaction" /\ path[i].ref \in covers[path[j].id] =>
             \E k \in 1 .. j - 1 :
               /\ path[i].ref \in covers[path[k].id]
               /\ k < i \/ path[k].kind = "branch_summary"

\* The compaction in force keeps the path from an extension's message on that
\* was recorded while the tools ran, after their answer and before the result.
KeptFromBetween(path, answer, result) ==
  /\ Compactions(path) # {}
  /\ \E e \in ToSet(path) : /\ e.kind = "custom" /\ e.id = path[LastCompaction(path)].ref
                            /\ answer < e.id /\ e.id < result

\* A result is shown after the answer it belongs to, unless an edit removed that:
\* wherever the boundary is asked for, a compaction takes the results with their
\* answer.  Only an extension's message among them can be the first one kept,
\* and then the results after it are shown without their answer.
ResultsKeepCalls ==
  LET path == Path
      c    == Context(path)
  IN \A j \in DOMAIN c : c[j].kind = "toolResult" =>
       \/ c[j].ref \in Targets(path) \cup {c[i].id : i \in 1 .. j - 1}
       \/ KeptFromBetween(path, c[j].ref, c[j].id)

\* A compaction that was just made kept the last message as it was.
TheEndIsKept ==
  LET path == Path
      said == {i \in DOMAIN path : path[i].kind \in Messages} \
              {i \in DOMAIN path : path[i].id \in Targets(path)}
  IN path # << >> /\ Last(path).kind = "compaction" =>
       path[CHOOSE i \in said : \A j \in said : j <= i].id \in Shown(path)

\* A compaction cuts the history where it may.
CutIsClean == TypeOK /\ ResultsKeepCalls /\ TheEndIsKept

\* A branch summary speaks of everything on the branch it says it comes
\* from, up to fromId, that the branch it is put on does not show itself.
BranchIsSummarised ==
  \A i \in DOMAIN es : es[i].kind = "branch_summary" =>
    LET branch == ActivePath(es, es[i].ref)
        rest   == EntryIds(ActivePath(es, es[i].parent))
    IN \A e \in ToSet(branch) :
         e.kind \in Messages /\ e.id \notin rest => e.id \in covers[i] \cup Targets(branch)

\* Through any number of compactions, branches and summaries of branches,
\* every message of the active path is shown to the model, spoken of by a
\* summary that is shown, or was removed by an edit on the path.
PathIsSpokenOf ==
  LET path == Path
  IN {e.id : e \in {f \in ToSet(path) : f.kind \in Messages}}
       \subseteq Spoken(Shown(path)) \cup Targets(path)

\* Neither a compaction nor a change of branch forgets anything.
NothingForgotten == PathIsSpokenOf /\ BranchIsSummarised
=============================================================================
