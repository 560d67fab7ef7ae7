# A verification project for psi

psi is a coding agent: a C host (process handles, HTTP, the terminal, the Lua
VM) that runs a single-threaded Lua program (the agent loop, sessions, tools,
the terminal UI).  Paths below are relative to the repository root; `lua/` is
short for `lua/psi/`.  PROJECT.json maps every definition to the lines it
models.

1. [The system](#1-the-system)
2. [The modules](#2-the-modules)
3. [The runs](#3-the-runs)
4. [Fairness](#4-fairness)
5. [The proofs](#5-the-proofs)
6. [Where code and documents disagree](#6-where-code-and-documents-disagree)
7. [What is not modelled](#7-what-is-not-modelled)
8. [Plan](#8-plan)

## 1. The system

| component | state | operations | what is hard |
|---|---|---|---|
| session store (`lua/session_manager.lua`, `session_projection.lua`) | entry tree, leaf, C session array, tracked count, save cursor, JSONL files | append, branch, compact, edit, save, load, fork, /new, /name | torn appends, failed writes, crashes; a cursor and a mirror that can go stale |
| agent session and context (`agent_session.lua`, `context.lua`, `prompt.lua`) | the plan of a compaction or a branch summary while the summary is awaited | run_compact, run_tree, prepare_checkpoint | state read before a long await and used after it |
| provider loop (`provider_loop.lua`, `transform_messages.lua`) | attempt count, partial message, tool calls in flight | run_turn: request, stream, retry, dispatch tools, persist; replay | abort at every await; tool calls without results |
| agent queues (`agent_control.lua`) | steering and follow-up queues | push, drain, remove, restore | input queued while a turn runs must neither be lost nor repeated |
| runtime lifecycle (`agent_session_runtime.lua`) | started, closed, session file | bootstrap, switch, turn, compact, shutdown | paired session events over failed loads and switches |
| scheduler (`sched.lua`) | coroutines, deadlines | run, run_all | an error in one task while its siblings are suspended |
| file mutation queue (`file_mutation_queue.lua`) | a FIFO of waiters per path | with_path | mutual exclusion and progress by polling |
| HTTP stream (`src/core/http_async.c`) | chunk queue, reservations, status, a helper thread | push, poll, finish | two threads, bounded queue, abort racing completion |
| process handles (`src/core/process.c`, `tool_shell.lua`) | pid, reaped, aborted, captured bytes | begin, poll, finish, terminate | exit racing output, escalation to SIGKILL |
| C session array (`src/core/session.c`) | message array, token prefix sums | append, clear | sums that move with the array; a message that cannot be copied |
| file primitives (`src/lua/vm.c`) | the file system | atomic write, append, write, read, mkdir | other processes, failing calls, kills and power cuts between any two system calls |
| terminal: ownership and frames (`src/runtime/tui_mode.c`, `src/lua/vm.c`) | termios, screen modes, redirected descriptors, the render cache | enter, leave, suspend, resume, editor, picker, render | failures half way; a cache of a screen that others write to |
| keyboard input (`src/lua/vm.c`) | none between keys | read key, read paste | one key's bytes arrive apart |
| text layout, reading by pages, paths (`src/lua/vm.c`, `src/core/wcwidth.c`) | none | wrap, clip, pad; slice, range, prefix; expand, resolve, join, parent | boundaries: clusters, widths, blocks, caps, separators |
| event bus, trust, settings, credentials | handler lists, JSON stores | emit, read-modify-write | handlers that fail, stores shared between processes |
| provider adapters, stream parsers | one stream's partial message | parse, serialise | data conversion only |
| terminal UI (`tui_*.lua`) | screen, editor, busy flag | input, render | commands refused or queued while a turn runs |
| command line, VM bindings | none of their own | dispatch | - |

**Interaction.**  Everything in Lua runs in one OS thread.  Long operations are
coroutines driven by `sched.run`; they yield at awaits (a chunk of a stream, a
child process, a timer).  Between two yields nothing else runs, except that the
host's tick hook runs at every yield: it reads the keyboard, queues input, sets
the abort flag, and may itself append to the session (a change of the thinking
level does).  Extensions run in event handlers and tool hooks and may append
messages.  The only second thread is the HTTP helper, which shares one
mutex-protected queue with the Lua thread.  The rest of the concurrency is with
the outside: child processes, the file system, a crash at any point.

**What makes each part correct.**

* The store: what a save reported is on disk and stays readable; a file never
  holds anything but a prefix of the session's log; the C session is always the
  projection of the active path; trees have no holes.
* The context: no message of the active path silently leaves what the model is
  shown or told of; what an edit removed stays removed.
* The turn: the model sees every tool call with exactly one result; queued
  input is said once, in order; nothing starts after an abort and it ends.
* The mutation queue: one writer per file, first come first served, everybody
  served.
* The stream: bytes are delivered once and in order, and a stream reported as
  complete is complete.
* Processes: what is reported about output and exit is true, an aborted call
  comes back, and what it leaves behind is accounted for.
* Files: a file replaced atomically is whole whenever it is looked at, what an
  append reported is on the disk, and a result says what happened.
* The frontend: a typed message is said once or can still be seen, a session
  stays the same under an operation, an abort reaches the operation it was meant
  for, and the events of sessions pair up.
* The terminal: whoever else gets it finds it as it was, and while psi has it
  the screen shows the last frame.
* The text functions: nothing of a text, a page, a path, a key or an argument is
  lost or made up, at any boundary.

## 2. The modules

| module | models | kind |
|---|---|---|
| `SessionTree` | entries, active path, projection | operators |
| `SessionStore` | session_manager.lua over files | state machine |
| `DurableLog` | what the store promises | abstract specification |
| `SessionContext` | compaction and branch summaries across awaits | state machine |
| `ProviderTurn` | provider_loop.lua, agent_control.lua, transform_messages.lua | state machine |
| `MutationQueue` | file_mutation_queue.lua under sched.run_all | state machine |
| `HttpStream` | http_async.c | two threads |
| `ByteStream` | what a stream promises | abstract specification |
| `ProcessHandle` | process.c and the loop of tool_shell.lua | host and child processes |
| `CommandLines` | the command line that process.c gives to CreateProcess | functions |
| `HostFiles` | the file primitives of vm.c, by system calls | processes, a disk and power |
| `Terminal` | tui_mode.c and the render cache of vm.c | state machine |
| `Frontend` | the loop of tui_runtime.lua around agent_session_runtime.lua, and agent_control.lua | state machine |
| `Texts` | every text over an alphabet | enumeration |
| `TextLayout` | clusters, widths, wrapping | functions |
| `FilePages`, `HostPaths`, `Keys` | reading by pages, paths, keyboard input | functions |
| `MessageTokens` | the C session array and its token sums | functions |
| `MC*` | instances for TLC | constants |
| `*Proofs` | theorems | proofs |

`SessionStore` and `SessionContext` both extend `SessionTree`: the first looks
at how a tree and its projection get to disk and back, the second at what the
projection tells the model.  `SessionStore` implements `DurableLog` and
`HttpStream` implements `ByteStream`, through refinement mappings at the end of
the detailed modules.  `ProviderTurn` sees a transfer only as far as
`ByteStream` promises it: chunks in order, then a verdict.  `HostFiles` opens
what `SessionStore` takes as one step: its `ReplacedWhole` is why a rewrite may
be all or nothing there, and its short writes are why an append may stop after
any prefix.  `Frontend` and `ProviderTurn` meet at the queues: one sees a turn's
slices and what its requests hold, the other only when a turn takes an item, and
where the messages come from and go to over many turns.
The modules over `Texts` state what one call returns, as invariants
of a text that grows by a character at a time; one run checks them all.

### SessionTree

An entry is `[id, parent, kind, ref]`.  Text, usage and timestamps are left out.
`ActivePath` is `active_entries_for_leaf`, cycle check included; `Selected` is
the first half of `session_projection.build`: the last compaction on the path
comes first, then what it keeps, without system messages, then what follows.

### SessionStore

| variable | code |
|---|---|
| `fileEntries`, `leaf` | `file_entries`, `leaf_id` (`last_entry_id` is equal to it between operations) |
| `memory` | the C session's array |
| `tracked` | `tracked_memory_count` |
| `path`, `name` | `psi.session_path()`, `display_name` |
| `savedPath`, `savedCount` | `last_saved_path`, `last_saved_count` |
| `disk` | each file: header, accepted records, state of its last line |
| `acked` | history: what successful saves reported, per file |

An action is one exported function, with everything it calls: `save`
reconciles the C session into the tree, chooses between the append-only path
and a rewrite, writes, and moves or clears the cursor.  A write succeeds, fails
with an error after any prefix of the batch reached the file, or ends with the
process.  A file's last line may be terminated ("clean"), a whole record
without its newline ("valid"), or rubbish ("junk"); appending after an
unterminated record joins two lines and loses both, which is what the newline
repair in `load` and the cleared cursor after a failure are for.
`write_entry_file` goes through `file_write_atomic` and is all or nothing.
`Fork` is `fork` and `/clone`: it replaces any file it is told to, and its entries
count as given up in `acked`.  Switches say what a run leaves out: `RawAccess`
(extensions calling `psi.session_append` and `psi.session_clear` directly),
`ResumeMissing`, `LegacyPaths` (version 1 files), `CloneOver` (a clone over the
session's own file), `Faults`.

### SessionContext

`run_compact` and `run_tree` read the session, ask a provider for a summary,
and commit it.  `pc` says which summary is awaited: the history of a
compaction, the prefix of a split turn, or a branch; `plan` is what was read
before.  `covers` and `carried` record, for each summary entry, whose records
were in the request it answers, and which system messages its `systemMessage`
folds.  `Answer` records an answer alone; its tools then run (`pc = "tools"`),
and their results are appended together under the leaf of then (`ToolsReturn`) or
not at all (`ToolsAborted`).  Prompts, answers, checkpoints and branches happen
when nothing is awaited; an extension's message or edit and a change of model or
thinking level at any time, between a call and its results too.  The boundary is
chosen for any number of messages or tokens to keep, then repaired as the code
does it.

### ProviderTurn

The turn is a coroutine and an action is one slice of it: read what has
arrived, look at the abort signal, and go on to the next yield.  `LoopTop`,
`Stop`, `Dispatch`, `Settle` and `Finish` are the parts slices are made of.
Between slices `Transfer` advances the stream, `Queue`, `Withdraw` and `Abort`
are the keyboard, `Inject` an extension.  An answer is a chunk of text and a
chunk per tool call, so that an answer can be cut anywhere.  `Replay` is
`transform_messages.replay_session`: it is a pure function of the transcript
and is what the properties about requests are stated over.

### MutationQueue

Tasks call `with_path` under `run_all`.  A step is a slice between two yields.
The lock table is keyed by the real path where there is one, by the spelling
otherwise; a waiter polls its `ready` flag; `release` hands the lock to the
oldest waiter.  `MainCall` is a call from outside any coroutine.

### HttpStream and ByteStream

A step is a critical section on `h->mu` or what a thread does between two of
them.  `Reserve`, `Link` and `PushFail` are the write callback; `Perform` is the
return of `curl_easy_perform`; `Exit` the thread's last critical section.  On
the main thread `Poll`, `TimeOut`, `Resume`, `Join` and `JoinFails` are
`psi_http_stream_poll`, `Finish` and `Joined` are `psi_http_stream_finish`, `Drop`
is the collector.

### ProcessHandle

The host polls a child's process group, reads its pipe, signals it and reaps
it.  The group is the child and a process it may leave behind; each writes,
falls silent, closes its output or dies, and some ignore SIGTERM.  Time is
`waited_ms` in ticks.

### HostFiles

A step is a system call.  Each process makes calls of the kinds its workload
has: `OpenTemp`, `WriteSome`, `Sync`, `CloseTemp`, `Rename` and `SyncDir` are
`psi_vm_write_file_atomic`; `OpenFile` to `CloseFile` an append or a plain write;
`OpenRead`, `Size` and `Read` a whole-file read; `NextDir`, `Stat` and `Mkdir` one
directory of `psi_vm_mkdir_p`.  A content is a sequence of halves, so that a
write can be short.  `data` is what processes see, `durable` what was synced;
`dirs` are the states of the directory that a power cut may leave, and a cut
keeps, of what was written to an inode and not synced, any part from the start.
Outside are the file system and the other processes: POSIX rename and fsync
are modelled from how the code uses them.

### Terminal

`phase` is who has the terminal: psi's C code on the way in or out, its loop, the
shell after Ctrl-Z, an editor, or nobody.  `modes` are the private modes that
are on, `out` where descriptors 1 and 2 point; `altFlag` and `hasOriginal` are the
statics of tui_mode.c.  `RenderLines` redraws what differs from `cache`; `DrawRaw`,
`Write` and `RenderFrame` draw past it, and `HandlerFails` is a message on stderr.
`frame` is history: what the last render was asked to show.  Lines are model
values, and the screen does not scroll.  `Killed` is a signal or a crash in any
phase; psi handles none and restores through `atexit` alone.  `LeaveTerminal` may
find that `tcsetattr` fails, which the code does not look at (`stuck`).

### Frontend

| variable | code |
|---|---|
| `phase` | how far `Runtime:turn` has come, or which other operation waits: `state.busy` and the stack |
| `running`, `abort` | `state.running`, the flag of `psi.abort_trigger` and `abort_reset` |
| `line` | the argument of `Runtime:turn` until `run_turn` appends it |
| `editor`, `nav` | `state.input`; `queue_nav_index`, `queue_nav_id`, `queue_nav_draft` |
| `steering`, `followUps` | the queues of agent_control.lua |
| `said`, `typed` | the user's messages in the transcript; a counter |
| `session`, `runtime` | id and path of the session; `started` and `closed` of the runtime |
| `again`, `gone`, `browsed`, `upset`, `pressed`, `quitting`, `events` | history |

An operation runs on the stack of the key that started it, and the host's tick
handles keys in each of its awaits: so the actions of the keyboard interleave
with `PreEnds`, `Take`, `TurnEnds`, `RecoverEnds`, `Ends` and `Crash`, which are the
operation's own.  The phases of a turn are the compaction before it ("pre"), the
requests ("turn"), the compaction after an overflow ("recover"), the second
attempt ("again") and the compaction after it ("post").  A text is the set of the
messages it is made of, so that joining texts with line breaks is a union and
erasing is removal; every message is a number.  An item's id, which the code
takes from a counter, is one of its messages, which no other item has while both
are queued unless it was shown before (`browsed`).  `gone` collects what was given
up by name: erased, replaced by an edit, dropped, or on its way into a turn that
broke.

### Texts and the functions over it

A character is a class, and each class stands for what the code tells apart: in
`TextLayout` narrow, wide, combining, joining, regional and Indic code points,
blanks, breaks and escape sequences with their parameters; in `Keys` bytes, and
silences between them that are too long inside a sequence or anywhere; in
`FilePages` line breaks and bytes; in `HostPaths` separators, dots, `~` and `@`; in
`MessageTokens` a text is a sequence of calls on the C session; in `CommandLines`
arguments, or the bytes of UTF-8.  The definitions follow the loops of the code
with folds, or with recursive functions where they are proved about; the
properties compare them with what they should return, said without loops.

## 3. The runs

| run | instance | what it shows |
|---|---|---|
| `store_durable` | 2 files, 3 entries, all write faults and crashes, forks and clones over any file but the session's own | acknowledged entries stay readable until their file is removed or replaced; the cursor never lies; no tree has a hole; the C session stays the projection of the active path; the store implements `DurableLog` |
| `store_raw` | 2 files, one of them of version 1, 2 entries, raw access, missing files, faults, names | reconciliation and reloading keep the state typed and register nothing twice |
| `store_cloned` (violated) | 1 file, 2 entries, clones over the session's own file | the next save reports entries as written that are not in the file |
| `context_kept` | 7 entries, 2 compactions, 1 branch summary, 1 fork | see below |
| `turn_calls` | 2 requests, 4 items, 1 retry, up to 2 calls an answer | see below |
| `queue_order` | 3 tasks, 2 files, 3 names, 2 yields | exclusion, FIFO, everybody served |
| `http_stream` | 6 chunks, limits of 7 and 3 | the pipeline is whole; `ByteStream` is implemented; every stream closes |
| `process_calls` | 2 processes, pipe of 2, 3 kept | see below |
| `terminal_frames` | 3 rows, frames of 1 and 2 lines | see below |
| `texts` | texts of up to 5 characters over 13 alphabets | see below |
| `frontend` | 2 messages, 1 operation besides the turn, 1 file, 2 new ids | see below |
| `host_files` | 2 processes, 3 calls, 6 workloads, 2 directories, 1 power cut | see below |

`store_durable`, `store_raw`: the files and what the state is trusted for.  Rooted
trees are asked for only where nobody works past the session module: raw appends
and missing files do make holes (section 6).

`context_kept`: `NothingForgotten` (every message of the active path is shown,
spoken of by a summary that is shown, or edited out, and a branch summary speaks
of the branch up to its `fromId`), `SystemIsCurrent` (the checkpoints in force add
up to those of the path), `EditsStick` (what an edit removed is neither shown nor
told anew), `CutIsClean` (results keep their calls, unless what is kept starts at an
extension's message between them, and the end of the path is kept).

`turn_calls`: `CallsAreAnswered` (a request shows each call with one result, and
the results of a batch are recorded all or none), `QueuedOnce` (what is queued is
said once, in order, and a follow-up only when the turn would end),
`AnswersAreWhole` (a retry follows
nothing that was shown, and what is recorded as a complete answer is one unless
an abort cut it), `AbortEnds` (nothing starts after an abort, and the turn ends).

`process_calls`: `ResultIsTrue` (status and truncation are told truly),
`CallsReturn` (a silent or detached daemon does not hold a call, and finish gets
out of an abort), `TreeDies` (what survives an abort ignores SIGTERM).

`terminal_frames`: `OutsideIsRestored` (whenever anybody else has the terminal it
is cooked, no mode is on and stdout is on it, but for two ways out that the code
does not cover: a kill while psi has it, and, for the line discipline, a
`tcsetattr` that fails on leaving), `InsideIsOwned` (while the loop
runs it is psi's, and bracketed paste is on unless a picker came first),
`FrameIsShown` (after a render the screen shows the frame, and no output is held
back with nothing to release it).

`texts`: `LayoutIsTrue` (wrapping, clipping and padding lose
nothing and keep to the width), `PagesCover` (pages, read one after the other,
are the file), `PathsLead` (a parent leads to its file, and what is resolved is
where it says), `KeysAreTrue` (every key read was typed, in order, and what is
left of a sequence that was cut short is not typed), `TokensAdd` (the sums are
those of the estimates, and what is kept is the longest end that fits),
`CommandIsTold` (the arguments arrive as they were given, and valid UTF-8 as the
same text).

`host_files`: `ReplacedWhole`, `AppendsSurvive` (an acknowledged append is on the
disk once and in order, and at the path until a later call replaces it, or one that
had begun when the append did), `ResultsAreTrue` (a success did what it says, a read
gives a whole content, a failure had a cause and leaves nothing behind).

`frontend`: `MessagesAreKept` (a typed message is in the editor, in a draft, in the
queue or in the transcript unless it was given up by name; it is said once unless
it was shown from the queue and sent from there; while a position in the queue is
shown, an edit goes to the item it shows unless `/queue` changed the queue),
`SessionStandsStill` (no session is opened, switched or made while an operation
waits), `AbortIsOwn` (an operation is aborted if and only if somebody aborted it),
`EventsPair` (one shutdown for each opening, naming the session that is left),
`QuitLeaves` (`/quit` gets out of any operation).

**Why the bounds are enough.**

* Store: two entries make a batch that can be cut in the middle, joined to
  another or repeated, and a third makes a batch after a failed one; a second
  file is what a stale cursor, `/new` and a fork need.  The mirror is a step
  property, so that two messages and a compaction that keeps one show a
  projection that drops and reorders; four entries show no more, and what they
  say of a context is in `context_kept`.  More files or entries repeat these
  cases; the proofs cover them.
* Context: a second compaction of a context that starts with a first one, with
  a message kept from before it; a turn of a prompt, a call and two results to
  cut anywhere, with a message between call and results; an entry added while either is awaited; a branch that leaves a
  compaction behind, and returns.  At most one aside (an edit, a checkpoint
  after the initial one, an extension's message, a changed level) per tree.
* Turn: a request that goes on after tools and one that ends the turn; a batch
  of two parallel calls, and two batches; four items put one in each queue, a
  prompt before and one after.  A retry and its exhaustion need one retry.
* Queue: a holder and two waiters are what FIFO order is about; two spellings
  of one file and another file.
* HTTP: six chunks, one of them too large for what is left, meet both limits
  from below, exactly and from above.
* Process: a pipe that is full, partly read and empty; an output below, at and
  beyond what is kept; each step of the escalation once.
* Terminal: a row above, in and below a frame of one line, and frames that grow,
  shrink and move by one; one drawn text and the blank one, since the cache
  compares a row with what it was before.
* Files: a writer, and another that comes between any two of its steps; a third
  call after either; a content of two halves is the shortest that can be cut.
  The workloads are those that meet on one path in the code.
* Frontend: one message in the editor, a draft or a turn and another in the queue,
  and two in the queue, are what positions, drains and restores are about; a
  session that is left and one that is opened, by file, by id and by `/new`.  With
  three messages a search of 16 million states met no violation; it is too large
  to repeat on every run, and what it could add is proved (`Kept`).
* Texts: five characters hold a break with two on either side, a ZWJ sequence, a
  conjunct, a style opened, wrapped over and closed, an escape sequence with a
  silence in it, a character of four bytes and one more.  Widths 1 to 3 are below,
  at and above that of a wide character; a block of 2 and caps below 4 put every
  boundary inside a text.  An alphabet has the classes that act on one another.

Deadlock checking is off everywhere: each system may stop (bounds reached, all
tasks done, streams and handles closed).  Progress is stated as liveness.

## 4. Fairness

* `MutationQueue`: weak fairness of every task's step, because `run_all` resumes
  every unfinished coroutine in each pass of its loop.  Nothing is assumed of
  calls from outside.
* `ProviderTurn`: weak fairness of the turn's slices (the scheduler resumes the
  turn until it returns) and of tools returning (a tool that waits polls the
  signal).  None of the transfer, the user or extensions: an aborted turn must
  end although the server sends nothing.  That finish gets out of a stalled
  transfer is `StreamCloses` of `HttpStream`.
* `HttpStream`: weak fairness of both threads.  That the helper always gets out
  of `perform` rests on curl's connect and low-speed limits and on the xferinfo
  callback.  The reader who gives up (`Drop`) and the abort are not fair.
* `ProcessHandle`: the frontend goes on polling, and a fatal signal that was sent
  takes effect.  Children are not fair: they may write, sleep or live for ever.
* `Frontend`: weak fairness of the operation's own steps while the abort signal is
  up, because every await of it polls the signal, and of leaving, because the loop
  looks at `state.running`.  An operation that nobody aborts may wait for ever, and
  nothing is assumed of the keyboard.
* `SessionStore`, `SessionContext`, `Terminal`, `HostFiles` and the modules over `Texts`
  have safety properties only: a user may leave, a process may be killed.

## 5. The proofs

All theorems hold for every value of the constants, under the named
assumptions of the modules.

* `RecursionProofs`: what the recursive functions of the model return.
  It shows for functions defined by a step on 1..n that an invariant of the step
  holds of the result, by cutting at the least counterexample (the library's
  induction theorems take an operator and cannot be used with these provers),
  and from that what the operators of `SessionTree` do: `ActivePathType`, that the walk
  to the root returns a sequence of the tree's own entries; `PathGrows` and
  `PathStays`, how paths change when the tree grows; `OnlyIs`, what a filter leaves.
* `SessionStoreProofs.Invariance`, `TypeCorrect`, `Durability`, `CursorSound`,
  `KeepsLog`.
  Durability alone is not inductive: whether a save may skip what the cursor
  counts depends on what the file holds, and whether a rewrite may replace a
  file depends on the session holding all of it.  The inductive invariant is
  `IInv == TypeOK /\ MemoryInv /\ FileInv /\ CursorMatchesFile /\ AckedIsDurable`.
  `MemoryInv`: entries and C session are sequences of registered entries and
  every message is tracked, so that reconciliation finds nothing to add.
  `FileInv`: every file holds registered entries in the current format, a file
  that is not there holds none, and the session's own file holds a prefix of
  the session's entries.  There is one lemma per operation, and below them one
  for appending to the log (`MemoryStep`) and one for a change of a file.
  `KeepsLog` is the refinement of `DurableLog`, from the same invariant: what records
  something in memory is `Add`, moving in the tree is no step, a save writes a log
  between the file's and the session's (`Written`), whatever becomes of it, and the
  repair of a torn file on loading changes nothing that a reader sees.
  `RootedTrees` proves `TreesAreRooted` from a second invariant, `TreeInv`: every tree
  holds entries whose uuids were drawn before (so that the next one is fresh), and the
  leaf is one of them.  A torn append leaves a prefix of a rooted tree, which is
  rooted (`GrownPrefix`), and a fork writes a path, which is rooted because the walk
  climbs strictly towards the start of a rooted tree and cannot stop before a root
  (`WalkStep`, `PathRooted`).  `Mirrored` proves `MemoryMirrorsPath`: appending to the
  C session is the same as projecting anew, since the path of the new leaf is the old
  path and the new entry (`PathGrows`), and what a projection selects grows by the
  entry too unless it is a compaction (`SelectedGrows`).
  All of these assume `Plain`: no raw access to the C session, resumed files exist,
  no version 1 files, no clone over the session's own file.  The code does lose
  entries without these (section 6).  A fork over any other file is in the proofs:
  what was acknowledged there is given up with the file, as with its removal.
  `TokensTrue`, of the C session's array, is `TokensAdd` for any number of messages and
  any first capacity (`CapacityAssumption`: not 0, or doubling it gives no room).  The
  invariant of the calls is `SumsOK`: each sum is the one before it and an estimate, and
  there is room for all.  So the tokens from a message on are a difference of two sums
  (`RestIs`), the sums never fall (`SumsClimb`), and the binary search, seen as the passes
  of its loop (`Narrowed`), stays around the first sum that is not below the threshold
  (`Around`) and ends at it (`SearchIs`).
* `SessionContextProofs.Current`, `Sticking`, `Remembrance`, `CleanCut`: for any number
  of entries, compactions, branches, edits and forks, all four properties of
  `context_kept`.  None is inductive, because what a path shows depends on
  compactions made long ago on parts of it.  The proof first turns sequences into
  sets: in a tree whose ids count its entries the ids grow along a path
  (`PathClimbs`), so that a path is the set `Line` of its ids, the path to an entry of a
  path is a part of it (`LineCut`), and what a projection shows (`ShownOn`) and in which
  order is told by ids alone (`SelectedIs`, `RecordsIs`, `ContextIs`).  The invariant then
  says of each entry what was true when it was made, and stays true because
  the path to it never changes (`FactsStay`): an edit removes a message of its own path
  (`EditFact`); a result follows its answer, with nothing between them but other
  results and what was added while the tools ran (`ResultFact`, `Between`); a
  compaction starts at a message that nothing removed and is no result, carries
  every checkpoint before it, and speaks of each earlier message or finds it
  edited out (`CompactionFact`); a branch summary does the same for its branch
  (`BranchFact`).  `Planned` adds that a plan which waits for its summary is still what the
  path of its leaf asks for.  A message that is not shown is then before what the
  last compaction keeps, and that compaction speaks of it (`Accounted`).  `CleanCut`
  has an exception, because the code has it: an extension's message among the
  results may be the first that is kept (section 6).
  `EditsStick` came out of this in another form than before: a summary may speak of
  a removed message if it inherited it from a summary older than the edit or from
  that of a branch.  The second way needs eight entries, one more than the run has.
* `TurnProofs` is about the turn and what its tools run: `ProviderTurn`,
  `ProcessHandle` and `MutationQueue`.
  `CallsAnswered` proves `CallsAreAnswered`, for any answers, retries, queues and
  lengths of the transcript, when no extension adds a message while tools run (`Quiet`).
  The hypothesis is that of the run, and the code fails without it (section 6).  What
  a request shows is computed from the transcript by two recursive functions, so the
  invariant speaks of the transcript and a lemma carries it over.  `Grouped`: every
  result stands in the group that follows its answer, all of its calls in their order.
  `CallsOnce`: no call is in two answers or twice in one.  `ToolsOK`: while tools
  run, the last message is the answer that called them, so that their results join
  it; `StreamOK` says how much of an answer may have been read and sent.
  The replay is then followed message by message (`ShownTo`): what it has put out is
  closed off (`Owned`, `Answered`) but for the calls it holds as pending, of which the
  first k have their results (`Settled`) and stand in the transcript right after their
  answer (`Along`); `Missing` gives the stand-ins for the others when the next
  message, or the end, comes.
  `QueuedSaid` proves `QueuedOnce` with no hypothesis.  `Placed` says which items were
  said, are in either queue, or were taken back: four sets that share nothing and
  make up 1..`items`, each kind in order.  That a drain takes the head of a queue and
  leaves the rest is the lemma it rests on (`Splits`).  In which turn a follow-up is said
  needs what a slice adds: steering items only (`Steers`), or what goes on
  after a stop (`GoesOn`).  `AnswersWhole` proves `AnswersAreWhole`, also with no
  hypothesis: a retry is only decided on with nothing read and nothing sent.
  `ResultTrue` proves `ResultIsTrue`, for any limits.  It is not inductive: a signal
  could be the child's own.  `HandleInv` adds that a signal is only sent by an abort, that
  the cause is told by the child's death, and that what is kept is the output
  up to the limit (`BufferOK`).
  `Exclusion`, `TypeCorrect`: for any number of tasks, files
  and names, with or without calls from outside coroutines.  Mutual exclusion
  is not inductive: handing a lock over could let in a task that is queued
  twice or on another key, and a call could find the lock of an owner free.
  `IInv` adds that the tasks in a queue are distinct, wait for that key and are
  not ready (`QueuesOfWaiters`), that whoever owns a key has its lock held
  (`OwnersHoldLocks`), and two facts about single tasks.
  `OneWriter` proves `OneWriterPerFile` when every file exists (`Existing = Files`):
  then a task's key is its file's whatever name it came by (`KeyedByFile`).
  `FirstCome`: only the head of a queue is ever told to go, and it leaves the queue by it.
* `HttpStreamProofs`: for any chunks, sizes and limits.  `Whole` proves
  `PipelineIsWhole`.  By itself it is not inductive: a chunk could be linked twice, be
  linked while another is copied, or arrive after a failure.  `HelperShape` says
  what each step of the helper has behind it, and `ReaderShape` that the reader
  holds chunks only between a detach and the join.
  `Implements` is the refinement of `ByteStream`: each step of the helper, the
  reader and an abort is an abstract step or a stutter.  It is the join that
  delivers, the end of the helper that gives the verdict.  The concatenation of what
  sits in reader, queue and helper is the abstract stream in flight, and the lemmas
  on `Cat` say that moving chunks between them leaves it as it is.
  `Sound` proves `QueueIsSound`.  The bound on what is queued is not inductive: a poll
  may detach the queue and zero its account between the reservation of a chunk and
  its linking, and the room of that chunk is given out twice.  `Accounts` says that
  the account is off by one chunk at most, and only then.
* `TerminalProofs`: for every screen, frame and order of suspends, failures and
  exits.  `GivenBack`: whoever else gets the terminal finds it restored, unless psi
  was killed while it had it, or the `tcsetattr` of leaving failed (`Left`).  The
  invariant adds what makes leaving safe: the termios are known as long as the
  tty may be raw, and the flag is set as long as a mode is on that only the
  alternate-screen sequence turns off.  `OwnedInside` proves `InsideIsOwned` with
  `Owned`, which adds that the loop starts raw and with no mode on.  `Shown` proves
  `FrameIsShown` with `Picture`: as long as nobody else had the screen, every row the
  cache vouches for shows the line it has there, the rows beyond it hold no line of
  an older frame, and an update is open only while a frame is being drawn.
  `CommandTrue` is about command lines: `CommandIsTold` for arguments and bytes of any
  length.  In the quotes of an argument, what the program has read and the
  backslashes that the loop holds back are the argument so far (`Quoting`); a pass
  keeps that, whatever character it reads (`EscapeRead`), so a quoted argument is read
  as it was given (`QuotedRead`), and with `Sound`, that a line may end where it does, so
  is every line (`LineRead`).  For UTF-16, each branch of the decoder either reads a
  sequence that Unicode allows and encodes back to the same bytes, or stands where
  there is none (`CodeIs`).  The loop keeps that the bytes so far are such sequences
  and the units say them (`AllRead`), or that the bytes of U+FFFD show where the input has
  no sequence (`NotAllRead`, `ReadStep`): so the text is the same exactly if it was well
  formed, since the bytes of U+FFFD are a sequence and would have been read
  (`NotReadWhole`).
* `HostFilesProofs.Replaced`: for any processes, number of calls, depth and power
  cuts, `ReplacedWhole`.  That the path names a whole version is not inductive:
  a rename could bring in a file that was not written out, and a cut undo what
  was not synced.  `IInv` adds that each call is its process's own
  (`CallsOwned`), that a file nobody has made is empty (`UnbornEmpty`), how much of
  a temporary file is written and synced at each step of its call
  (`StagedWhole`), that what is durable is a prefix of what is there
  (`SyncedFirst`), and that every state the directory may be left in names a
  whole and synced version (`WholeAtPath`).  The proof has a lemma for what a
  call may write that does not own the file (`OnlyOpenWritten`, `OthersKept`).
  `Survive` and `Reported` prove `AppendsSurvive` and `ResultsAreTrue`, from
  `Books == IInv /\ Ledger /\ (~Truncates => Contents)`.  `Ledger` is about calls: what
  each has answered, which temporary names are its own, and that the file at the
  path was put there by a call no older than those that opened it, or by one that was
  running beside them.  `Contents` is about bytes: every content is the version it
  started from and halves that were appended to it, each append's in order
  (`Origins`); a reader's buffer is a part of one content from its start
  (`Readers`, `GotWhole`); and an append's halves are where it put them
  (`Progress`, `Done`).  Both need that nobody truncates.
  `PagesTrue` is about reading: `PagesCover` for any file, block, limit and cap.  After
  the bytes up to `c.at` the loop has, of the lines asked for, the bytes that are among
  them and fit, knows whether any did not, and is in the line the next byte is in
  (`Fits`); a pass keeps that (`TakeFits`), so the loop does (`TakenFits`), and a page
  is what was asked for (`SliceCovers`).  Ranges rest on `ReadTo`: what was read is
  the file up to where the next range begins, and each moves that on (`RangesCover`).
  It assumes what `SizesAssumption` says of the sizes: the limits are positive.
* `FrontendProofs`: for any operations, files and ids and any number of messages.
  `StandsStill` needs no invariant: whatever changes the session asks that nothing
  is in flight.  `OwnAbort` and `Pairs` are inductive with a few words about the
  phases: a session is only in use after the boot, and is closed once, on leaving.
  `MessagesKept` proves `MessagesAreKept`, and `Kept` its first part `NothingLost`.  The
  invariant `KeptInv` adds that a draft is only held while a position is shown, and
  a line only until it is appended: otherwise a drain would drop a draft, and a
  turn that returns its prompt.  Each action has a lemma that says in which place
  the message is next; they rest on lemmas about the messages of a queue that is
  joined, cut, or changed in one item.
  That a message is said once follows from `PlacesInv`: editor, draft, the turn's
  argument, transcript and the two queues share no message (`Apart`), nor do two items of a
  queue (`Spread`), unless it was shown from the queue and sent (`browsed`); and no place
  holds a number that was not typed yet (`Known`).  `PositionShown` is about edits: the
  position shown holds the item that `nav` names unless `/queue` changed the queue.

Only model-checked: liveness (out of the provers' reach: `ServedInOrder`,
`AbortEnds`, `StreamCloses`, `CallsReturn`, `TreeDies`, `QuitLeaves`), and the functions
over `Texts` but for `TokensAdd`, `PagesCover` and `CommandIsTold`: they compute over data
of any length, and each needs an invariant of its own loops.

`OneWriterPerFile` is checked and proved with all files existing: it fails when a
file comes into being between two calls (section 6).

## 6. Where code and documents disagree

Kept as a run that TLC finds violated, with the quoted line in PROJECT.json:
`store_cloned`.  `/clone` over the session's own file rewrites it with the active
path and leaves the save cursor as it was (`lua/session_manager.lua`:1836).  After a
branch the cursor counts more than the file has, and the next save returns true
without writing anything.

Met while modelling and described here only:

* The picker of a chat or of a resumed session leaves its temporary screen with the
  sequence that also turns bracketed paste off, for the rest of the session
  (`lua/tui_runtime.lua`:164, 6094); `src/runtime/tui_mode.c`:276 says that it is
  "Enabled at the terminal boundary so inline chat mode (no alt screen) is
  covered."  `InsideIsOwned` does not ask for it after a picker.
* `track_memory_append` counts a raw message that it never registered
  (`lua/session_manager.lua`:1416), so that no save reconciles it and it never
  reaches the file; :1155 says that raw appends make the count diverge, "which sends
  save() through the full reconciliation path."
* An answer cut by an abort between two polls is recorded with the stop reason
  of a whole one (`lua/provider_loop.lua`:386); `docs/port-status.md`:27 has
  "aborted" recorded on each content block.  `AnswersAreWhole` excuses an abort.
* What a shell command wrote just before its exit was noticed may be missing,
  without a truncation mark: the pipe is not read again after `waitpid`
  (`src/core/process.c`:1234, `lua/tool_shell.lua`:253).
* An aborted command that keeps writing and ignores SIGTERM is only killed when
  it falls silent, since a read that gives bytes looks at nothing else
  (`src/core/process.c`:1154, 1388).  `CallsReturn` leaves such processes out.

* A message that an extension records while tools run separates the calls from
  their results; the replay fills in an error result for each call and keeps the
  real one too (`lua/transform_messages.lua`:258, 298; `docs/extensions.md`:390
  allows such messages).  `CallsAreAnswered` is therefore checked with
  messages added at any other time (`InjectIn`).  Such a message may also be the
  first that a compaction keeps: the snap (`lua/session_manager.lua`:2004) only moves
  the boundary off a result, and `tests/lua/compaction/snaps_past_orphan_tool_result.lua`
  tests no more.  The results after it are then shown without their answer, and
  the replay drops those of unknown calls (`lua/transform_messages.lua`:245).
  `CutIsClean` excepts them (`KeptFromBetween`).
* `/clone <path>` replaces the session file that is there without a question
  (`lua/slash_commands.lua`:1968): what a save acknowledged in it is gone.
  `AckedIsDurable` counts it as given up.
* A missing file that is opened keeps the C session of before
  (`lua/session_manager.lua`:1714).  If that was compacted, reconciliation registers
  it in the order of the C session, the compaction first (:1174): its parent and its
  `firstKept` come after it, or are missing.  Core callers open a missing file only
  at the start, with an empty C session.  Rooted trees are checked and proved
  without missing files.
* psi has no handler for SIGTERM or SIGHUP in the TUI and restores the terminal
  through `atexit` only (`src/runtime/tui_mode.c`:331): a kill or a crash in the loop
  leaves raw mode, bracketed paste and, in alternate-screen mode, screen and mouse as
  they are.  A `tcsetattr` that fails on leaving is not noticed, and its flag is
  cleared (:291), so that the tty stays raw and nobody tries again.
* Entries appended to a version 1 file have no effect on a reload: the file still
  starts with a version 1 header, so that its later records are read as old ones
  (`lua/session_manager.lua`:1790).  The comment at :1786 has the file hold exactly
  the session's messages; the load has converted them.  `TreesAreRooted` leaves
  such files out.
* `/name` on a session whose entries are all saved is not written: the
  append-only path sees no new entry and leaves the header alone
  (`lua/session_manager.lua`:1253).
* `session_clear` called directly leaves the cursor, so that a later save
  compares counts that belong to another log and reports success (:1160, :1206);
  loading a missing path keeps the former C session (:1714); a fork of a
  compacted session at a kept message writes another context than the one shown
  (:1845).  Core callers avoid all three.
* Two spellings of a file that does not exist yet are two locks
  (`lua/file_mutation_queue.lua`:30).  `queue_order` has all files existing.  A call
  from outside a coroutine on a held lock queues a waiter that nobody resumes,
  and raises (:54); the lock is then handed to nobody, and later callers wait for
  ever.
* In one-at-a-time mode two steering items can precede one answer, since the
  queue is drained at the end of the tools and again on top of the loop
  (`lua/provider_loop.lua`:467).
* Items queued while a turn fails or during the compaction that follows a turn
  stay in the queue until the next prompt
  (`lua/agent_session_runtime.lua`:237-247); `docs/extensions.md`:369 says
  follow-ups are delivered when the turn ends.
* `run_tree` looks neither at the leaf nor at the abort signal after its await
  (`lua/agent_session.lua`:457): entries added meanwhile are on neither side of
  the summary, and an aborted summary that still arrives is committed.
  `do_compact` does look, and so a change of model or thinking level during a
  compaction makes it refuse its own result.
* The SIGTERM grace period is measured from the start of `finish` and not from
  the abort (`src/core/process.c`:1403-1409): aborted late, a command gets SIGTERM
  and SIGKILL together.
* The chunk queue of a stream may exceed its limit by one chunk, and has no
  limit after a join that failed for want of memory (`src/core/http_async.c`).
* `run_all` abandons the other tasks when `on_done` raises (`lua/sched.lua`:206);
  nothing bounds the number of tool iterations of a turn
  (`lua/provider_loop.lua`:337, by design).
* Wrapping (`src/lua/vm.c`): a combining mark right after a blank is dropped with
  the blank at a wrap (:2300), though `tests/smoke.py`:961 wants the text
  preserved; an index of 0 in an extended colour, and a reset followed by other
  parameters, are taken for a reset of everything (:1777); a ZWJ at the end of a
  run takes the next byte in, an escape too; an indentation wider than the width
  stays; a break at the end of a styled text makes one more row.
  The properties of `TextLayout` say which texts they except for this.
* A page of lines cut by the cap on bytes does not give the rest of its lines, and
  no later page does (`src/lua/vm.c`:2589), while the notice of
  `lua/tools/read.lua`:68 counts them as shown and says where to go on.
* Paths: `~//x` is `/x` (`src/lua/vm.c`:160); a backslash separates on POSIX too, so
  that `mkdir_parent` makes a directory for part of a name (:311); `path_expand` is
  documented to return an absolute form (:4976) and leaves relative paths
  relative; `path_join` is documented to normalise duplicates (:4974) and only
  avoids adding one.
* Files: an append that creates its file does not sync the directory; a failing
  sync of the directory after a rename is ignored (`src/lua/vm.c`:2839, 2846), and
  EINVAL of fsync is a success (:2811, 2911).
* Keys: after a sequence that was cut short only its next byte is discarded, so
  that a slow `ESC [ A` may type `A`; a paste whose end marker is interrupted takes
  in what follows; the byte that overflows the buffer is lost; a byte that should
  continue a UTF-8 character and does not is taken with it (`src/lua/vm.c`:1164).
* `/new` (`lua/slash_commands.lua`:674-687) emits neither `session-shutdown` nor
  `session-start`, though `docs/architecture.md`:426 and `docs/extensions.md`:492
  promise one start for each loaded or freshly created session; and
  loading a file that exists but cannot be opened emits no start, while the
  session is shut down with an event (`lua/agent_session_runtime.lua`:67-80).
  `EventsPair` counts that opening and lets `/new` rename the session.
* A failed switch leaves the half-loaded session in use, with no shutdown event
  later (`lua/agent_session_runtime.lua`:309-317).
* Queued items that a failed turn left, or that were typed during the compaction
  after a turn, are said in the next turn, whatever session that is in.
* A text shown from the queue and sent at the prompt is said again when the queue
  is drained: the position outlives the turn, and the item stays in the queue
  (`lua/tui_runtime.lua`:4046-4075, 5056-5100).  A text typed while an old position
  is held is replaced by the draft when the queue is restored or drained (:4030).
  An edit of an item that the turn takes is dropped (:4467-4499).  A turn that
  breaks during the compaction before it loses the message it was to append
  (`lua/agent_session_runtime.lua`:249-269).  `again`, `gone` and `browsed` account for these.
* A double Ctrl-C, and an extension's action of kind "quit", stop the loop without
  aborting the operation in flight (`lua/tui_runtime.lua`:4819, 5232-5237), and psi
  leaves when it returns; only `/quit` aborts it (:4701).
* A failed save is not reported when the turn failed as well
  (`lua/tui_runtime.lua`:4569-4592), and the abort signal stays up after an operation
  until the next one begins, so that calls at the prompt may be cut short.

## 7. What is not modelled

* **Event bus, trust, settings, credentials**: handlers are seen only as
  extensions that append messages; the JSON stores come last in the plan.
* **Provider adapters, stream parsers, projection to wire formats**: data
  conversion.  A stream is chunks and a verdict.
* **Tools** apart from the shell tool's process and the mutation queue: file I/O
  and text search, one call each.
* **Terminal UI, command line, VM bindings**: what a frame is made of, the editor,
  menus, most commands, argument parsing and dispatch.  The keyboard is seen as
  bytes (`Keys`) and as what it can do to messages, sessions and the operation in
  flight (`Frontend`), not as the editing between them.  The pickers that block the
  loop and the result of a save are not in `Frontend`; nor is the queue in the
  plain command-line frontend, which has no keyboard while it works.
* The rest of `vm.c`: bindings that move values between C and Lua, JSON
  conversion, directory listing and text search, one call each.  `wcwidth.c` is
  tables, seen as the classes of characters they define.
* **Buffered HTTP, TLS setup**: one blocking call; configuration.
* Within modelled parts: message bodies and token estimates (where a compaction
  cuts is any place they could choose), model choice, a child's stdin, the Windows branches (but for the command line),
  scrolling of an inline screen, and allocation failures in `process.c`.
* A second psi process on the same session file: the store has one process.  The
  code takes no lock and reads nothing again before it writes: a full rewrite (after
  a failed save, of a deleted file, or of a session opened while empty) drops what
  the other process appended, and an append after the other's torn one joins its
  line (`lua/session_manager.lua`:1046, 1206-1250).

## 8. Plan

Done: `SessionTree`, `SessionStore`, `DurableLog`, `SessionContext`,
`ProviderTurn`, `MutationQueue`, `HttpStream`, `ByteStream`, `ProcessHandle`,
`HostFiles`, `Terminal`, `Frontend`, `Texts` and the modules over it, with the
theorems of section 5.

Next, models:

1. Two processes on one session file, as two instances of `SessionStore`'s
   variables over one disk, and what a rewrite takes from the other.
2. The JSON stores: locked read-modify-write between processes.

Next, proofs:

1. The other functions over `Texts`, one at a time, as it was done for
   `TokensAdd`, `PagesCover` and `CommandIsTold`:
   loops as recursive functions over their passes, and an invariant of the pass.
