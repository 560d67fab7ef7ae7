------------------------------- MODULE Frontend -------------------------------
(***************************************************************************)
(* The loop of lua/psi/tui_runtime.lua around the runtime of               *)
(* agent_session_runtime.lua: what the keyboard may do while an operation  *)
(* waits, the editor and the queue as places where a message may be, and   *)
(* the sessions that come and go with their events.                        *)
(*                                                                         *)
(* An operation runs on the stack of the key that started it.  Whenever it *)
(* yields, sched.run calls the host's tick, and the tick handles keys: so  *)
(* every action of the keyboard is also one between two slices of the      *)
(* operation in `phase'.                                                   *)
(***************************************************************************)
EXTENDS Integers, Sequences, SequencesExt

CONSTANTS
  Operations,  \* operations other than a turn: "compact", "btw", "tree", "shell"
  Files,       \* session files that may be loaded; each is its own id
  Ids,         \* ids of new sessions
  MaxTyped     \* bound: messages typed

ASSUME BoundAssumption == MaxTyped \in Nat

VARIABLES
  phase,     \* the operation in flight, and how far Runtime:turn has come
  running,   \* state.running
  abort,     \* the abort signal
  pressed,   \* history: it was triggered during the operation in flight
  quitting,  \* history: /quit was typed
  line,      \* the message that Runtime:turn has yet to append
  editor,    \* state.input; a text is the set of messages it is made of
  nav,       \* queue_nav_index, queue_nav_id and queue_nav_draft
  steering,  \* agent_control's queues: [id, text]
  followUps,
  said,      \* the user's messages that were appended
  again,     \* history: those that were appended more than once
  typed,     \* messages typed so far
  gone,      \* history: messages given up by name, see Forget
  browsed,   \* history: messages shown by a position in the queue
  upset,     \* history: /queue changed the queue under the position
  session,   \* id and path of the session in use
  runtime,   \* Runtime.started and Runtime.closed
  events     \* history: openings less shutdowns, and the id last heard of

control == <<phase, running, abort, pressed, quitting, line>>
input == <<editor, nav>>
queues == <<steering, followUps>>
told == <<again, gone, browsed, upset>>
sessions == <<session, runtime, events>>
vars == <<control, input, queues, said, typed, told, sessions>>

NoNav == [index |-> 0, id |-> 0, draft |-> {}]
NoSession == [id |-> "", path |-> ""]

Turn == {"pre", "turn", "recover", "again", "post"}
Busy == phase \in Turn \cup Operations
AtPrompt == phase = "idle" /\ running

\* The names of the operations are not those of the phases.
ASSUME OperationsAssumption == Operations \cap ({"boot", "idle", "left"} \cup Turn) = {}

Pending == steering \o followUps
Messages(queue) == UNION {queue[i].text : i \in DOMAIN queue}

Init ==
  /\ phase = "boot" /\ running = TRUE
  /\ abort = FALSE /\ pressed = FALSE /\ quitting = FALSE
  /\ line = {} /\ editor = {} /\ nav = NoNav
  /\ steering = << >> /\ followUps = << >>
  /\ said = {} /\ typed = 0
  /\ again = {} /\ gone = {} /\ browsed = {} /\ upset = FALSE
  /\ session = NoSession /\ runtime = [started |-> FALSE, closed |-> FALSE]
  /\ events = [open |-> 0, id |-> ""]

-----------------------------------------------------------------------------
(* The editor and the position in the queue. *)

\* A history: what was in text is given up, unless it is still queued.
Forget(text) == gone' = gone \cup (text \ Messages(Pending))

\* reset_queue_navigation, with its restore_draft: what is in the editor next.
Reset(restore, text) ==
  /\ nav' = NoNav
  /\ editor' = IF restore /\ nav.index # 0 THEN nav.draft ELSE text

\* navigate_queue, when nothing is queued: the draft comes back.
NothingQueued ==
  /\ Pending = << >>
  /\ Reset(TRUE, editor)
  /\ IF nav.index # 0 THEN Forget(editor) ELSE gone' = gone
  /\ UNCHANGED queues

\* Text typed into what is there.
Type ==
  /\ phase = "idle" => running
  /\ phase \notin {"boot", "left"} /\ typed < MaxTyped
  /\ typed' = typed + 1 /\ editor' = editor \cup {typed'}
  /\ UNCHANGED <<control, nav, queues, said, told, sessions>>

\* clear_buffer; the position in the queue stays.
ClearBuffer ==
  /\ AtPrompt \/ Busy
  /\ editor # {} /\ editor' = {} /\ Forget(editor)
  /\ UNCHANGED <<control, nav, queues, said, typed, again, browsed, upset, sessions>>

\* navigate_queue; keys reach it only while something is in flight.
Navigate(previous) ==
  LET count == Len(Pending)
      shown == nav.index \in 1 .. count
      index == IF ~shown THEN IF previous THEN count ELSE 1
               ELSE IF previous THEN IF nav.index = 1 THEN count ELSE nav.index - 1
               ELSE IF nav.index = count THEN 1 ELSE nav.index + 1
  IN /\ Busy
     /\ \/ NothingQueued /\ UNCHANGED <<browsed, upset>>
        \/ /\ count # 0
           /\ nav' = [index |-> index, id |-> Pending[index].id,
                      draft |-> IF nav.index = 0 THEN editor ELSE nav.draft]
           /\ editor' = Pending[index].text
           /\ IF nav.index = 0 THEN gone' = gone ELSE Forget(editor)
           /\ browsed' = browsed \cup Pending[index].text
           /\ upset' = FALSE /\ UNCHANGED queues
     /\ UNCHANGED <<control, said, typed, again, sessions>>

\* restore_queued_message: the queue comes back, and the draft with it.
Restored ==
  /\ editor' = Messages(Pending) \cup (IF nav.index # 0 THEN nav.draft ELSE editor)
  /\ nav' = NoNav /\ steering' = << >> /\ followUps' = << >>
  /\ IF nav.index # 0 THEN Forget(editor) ELSE gone' = gone

\* The restore key, at the prompt too.
Restore ==
  /\ AtPrompt \/ Busy
  /\ Pending # << >> /\ Restored
  /\ UNCHANGED <<control, said, typed, again, browsed, upset, sessions>>

\* Mutant: what was queued is dropped.
AbortDropping ==
  /\ Busy
  /\ abort' = TRUE /\ pressed' = TRUE
  /\ steering' = << >> /\ followUps' = << >>
  /\ UNCHANGED <<phase, running, quitting, line, input, said, typed, told, sessions>>

\* abort_active_turn.
Abort ==
  /\ Busy
  /\ abort' = TRUE /\ pressed' = TRUE
  /\ IF Pending # << >> THEN Restored ELSE UNCHANGED <<input, queues, gone>>
  /\ UNCHANGED <<phase, running, quitting, line, said, typed, again, browsed, upset, sessions>>

-----------------------------------------------------------------------------
(* Enter. *)

\* append_user.
Say(text) == said' = said \cup text /\ again' = again \cup (said \cap text)

\* Mutant: the abort signal is left as it was.
BeginAsIs(next) == phase' = next /\ pressed' = FALSE /\ UNCHANGED <<running, abort, quitting>>

\* The head of every operation: busy, and the abort signal down.
Begin(next) ==
  phase' = next /\ abort' = FALSE /\ pressed' = FALSE /\ UNCHANGED <<running, quitting>>

\* submit at the prompt, as far as Runtime:turn's first await: a compaction
\* over the threshold, or the request.
Submit ==
  /\ AtPrompt /\ editor # {}
  /\ editor' = {}
  /\ \/ Begin("pre") /\ line' = editor /\ UNCHANGED <<said, again>>
     \/ Begin("turn") /\ line' = {} /\ Say(editor)
  /\ UNCHANGED <<nav, queues, typed, gone, browsed, upset, sessions>>

\* Replaces the text of one item, where it is.
Replaced(queue, i, text) == [j \in DOMAIN queue |->
  IF j = i THEN [queue[j] EXCEPT !.text = text] ELSE queue[j]]

\* submit during a turn: queue_current_input replaces the item the position
\* is on, or queues a new one.
QueueInput(kind) ==
  /\ phase \in Turn /\ editor # {}
  /\ IF nav.index \in 1 .. Len(Pending)
     THEN LET old == Pending[nav.index].text
              i == nav.index - Len(steering)
          IN /\ IF i > 0 THEN followUps' = Replaced(followUps, i, editor) /\ UNCHANGED steering
                ELSE steering' = Replaced(steering, nav.index, editor) /\ UNCHANGED followUps
             /\ Reset(TRUE, {})
             /\ gone' = gone \cup (old \ editor)
     ELSE LET item == [id |-> CHOOSE message \in editor : TRUE, text |-> editor]
          IN /\ IF kind = "steering"
                THEN steering' = Append(steering, item) /\ UNCHANGED followUps
                ELSE followUps' = Append(followUps, item) /\ UNCHANGED steering
             /\ Reset(FALSE, {})
             /\ Forget(nav.draft)
  /\ UNCHANGED <<control, said, typed, again, browsed, upset, sessions>>

\* /queue steer and /queue follow-up, at any time.
QueueByCommand(kind) ==
  /\ AtPrompt \/ Busy
  /\ editor = {} /\ typed < MaxTyped
  /\ typed' = typed + 1
  /\ LET item == [id |-> typed', text |-> {typed'}]
     IN IF kind = "steering"
        THEN steering' = Append(steering, item) /\ UNCHANGED followUps
        ELSE followUps' = Append(followUps, item) /\ UNCHANGED steering
  /\ upset' = (nav.index # 0)
  /\ UNCHANGED <<control, input, said, again, gone, browsed, sessions>>

\* /queue drop.
Drop(i) ==
  /\ AtPrompt \/ Busy
  /\ editor = {} /\ i \in DOMAIN Pending
  /\ LET j == i - Len(steering)
     IN IF j > 0 THEN followUps' = RemoveAt(followUps, j) /\ UNCHANGED steering
        ELSE steering' = RemoveAt(steering, i) /\ UNCHANGED followUps
  /\ gone' = gone \cup Pending[i].text
  /\ upset' = (nav.index # 0)
  /\ UNCHANGED <<control, input, said, typed, again, browsed, sessions>>

\* /queue edit, which leaves the item where it is.
Edit(i) ==
  /\ AtPrompt \/ Busy
  /\ editor = {} /\ i \in DOMAIN Pending /\ typed < MaxTyped
  /\ typed' = typed + 1
  /\ LET j == i - Len(steering)
     IN IF j > 0 THEN followUps' = Replaced(followUps, j, {typed'}) /\ UNCHANGED steering
        ELSE steering' = Replaced(steering, i, {typed'}) /\ UNCHANGED followUps
  /\ gone' = gone \cup Pending[i].text
  /\ UNCHANGED <<control, input, said, again, browsed, upset, sessions>>

\* /queue clear.
ClearQueues(kinds) ==
  /\ AtPrompt \/ Busy
  /\ editor = {} /\ Pending # << >>
  /\ steering' = IF "steering" \in kinds THEN << >> ELSE steering
  /\ followUps' = IF "follow-up" \in kinds THEN << >> ELSE followUps
  /\ gone' = gone \cup (Messages(Pending) \ Messages(steering' \o followUps'))
  /\ upset' = (nav.index # 0)
  /\ UNCHANGED <<control, input, said, typed, again, browsed, sessions>>

-----------------------------------------------------------------------------
(* The operation: Runtime:turn and the others. *)

Becomes(next) ==
  /\ phase' = next /\ pressed' = (pressed /\ next \notin {"idle", "left"})
  /\ UNCHANGED <<running, abort, quitting>>

\* auto_compact over the threshold is over, however it ended: run_turn
\* appends the message.
PreEnds ==
  /\ phase = "pre" /\ Becomes("turn")
  /\ Say(line) /\ line' = {}
  /\ UNCHANGED <<input, queues, typed, gone, browsed, upset, sessions>>

\* Mutant: the position stays where it was when an item is taken.
FollowPositionNot(left) == UNCHANGED <<input, gone>>

\* observer_queued_user: the position follows its item, and goes with it.
FollowPosition(left) ==
  LET at == {i \in DOMAIN left : left[i].id = nav.id}
  IN IF nav.index = 0 THEN UNCHANGED <<input, gone>>
     ELSE IF at # {}
     THEN /\ nav' = [nav EXCEPT !.index = CHOOSE i \in at : \A j \in at : i <= j]
          /\ UNCHANGED <<editor, gone>>
     ELSE /\ Reset(TRUE, editor)
          /\ gone' = gone \cup (editor \ (Messages(Pending) \cup nav.draft))

\* append_steering and, when there is none, append_follow_ups: one item or
\* all of them, as the mode says.
Take ==
  /\ phase \in {"turn", "again"} /\ Pending # << >>
  /\ LET queue == IF steering # << >> THEN steering ELSE followUps
     IN \E n \in {1, Len(queue)} :
          LET rest == SubSeq(queue, n + 1, Len(queue))
          IN /\ Say(Messages(SubSeq(queue, 1, n)))
             /\ IF steering # << >> THEN steering' = rest /\ UNCHANGED followUps
                ELSE followUps' = rest /\ UNCHANGED steering
             /\ FollowPosition(IF steering # << >> THEN rest \o followUps ELSE rest)
  /\ UNCHANGED <<control, typed, browsed, upset, sessions>>

\* run_turn or continue_turn returns.  It succeeds when nothing is queued;
\* the first failure may be an overflow.
TurnEnds ==
  /\ phase \in {"turn", "again"}
  /\ \/ Becomes("idle")
     \/ Pending = << >> /\ Becomes("post")
     \/ phase = "turn" /\ Becomes("recover")
  /\ UNCHANGED <<line, input, queues, said, typed, told, sessions>>

\* auto_compact after an overflow; when it succeeds there is one more attempt.
RecoverEnds ==
  /\ phase = "recover"
  /\ Becomes("idle") \/ Becomes("again")
  /\ UNCHANGED <<line, input, queues, said, typed, told, sessions>>

\* The last compaction, or another operation, returns.
Ends ==
  /\ phase \in {"post"} \cup Operations
  /\ Becomes("idle")
  /\ UNCHANGED <<line, input, queues, said, typed, told, sessions>>

\* An error of the turn, caught by Runtime:turn.
Crash ==
  /\ phase \in Turn
  /\ Becomes("idle")
  /\ line' = {} /\ gone' = gone \cup line
  /\ UNCHANGED <<input, queues, said, typed, again, browsed, upset, sessions>>

Proceed == PreEnds \/ TurnEnds \/ RecoverEnds \/ Ends

-----------------------------------------------------------------------------
(* Commands and sessions. *)

\* Mutant: /new is not among them.
StoppedLess == {"resume", "import"}

\* The names that busy_command_warning stops, of those that matter here.
Stopped == {"new", "clear", "resume", "import"}

\* A command is typed into an empty editor; the name is looked at first.
Commands(name) ==
  /\ AtPrompt \/ (Busy /\ name \notin Stopped)
  /\ editor = {}

\* /compact, /btw, /tree and !.
Operate(kind) ==
  /\ AtPrompt /\ editor = {}
  /\ Begin(kind)
  /\ UNCHANGED <<line, input, queues, said, typed, told, sessions>>

\* A new session, which has its own path.
Fresh(id) == [id |-> id, path |-> id]

\* /new: a session without an event.
New ==
  /\ Commands("new")
  /\ \E id \in Ids \ {session.id} : session' = Fresh(id) /\ events' = [events EXCEPT !.id = id]
  /\ UNCHANGED <<control, input, queues, said, typed, told, runtime>>

Opened(before, id) == [open |-> before.open + 1, id |-> id]
Shut(before) == [before EXCEPT !.open = @ - 1]

\* Runtime:_load, after the events before.  A file that is missing is taken
\* for a new session, and so is one that exists and cannot be opened, but
\* then nobody is told: that opening is counted all the same.  The last way
\* is a file whose last line could not be ended.
Load(file, id, before) ==
  \/ /\ session' \in {[id |-> file, path |-> file], [id |-> id, path |-> file]}
     /\ events' = Opened(before, session'.id)
     /\ runtime' = [started |-> TRUE, closed |-> FALSE]
  \/ /\ session' = [id |-> file, path |-> file]
     /\ events' = before
     /\ runtime' = [started |-> FALSE, closed |-> FALSE]

\* Runtime:bootstrap: a given or chosen file, a new session, or neither.
Bootstrap ==
  /\ phase = "boot"
  /\ \E id \in Ids :
       \/ \E file \in Files : Load(file, id, events)
       \/ /\ session' = Fresh(id) /\ events' = Opened(events, id)
          /\ runtime' = [started |-> TRUE, closed |-> FALSE]
       \/ UNCHANGED sessions
  /\ Becomes(IF runtime'.started THEN "idle" ELSE "left")
  /\ UNCHANGED <<line, input, queues, said, typed, told>>

\* Mutant: the session that is left is not announced.
SwitchQuietly(file) ==
  /\ Commands("resume") /\ ~Busy
  /\ Load(file, session.id, events)
  /\ UNCHANGED <<control, input, queues, said, typed, told>>

\* Runtime:switch_session, for /resume and /import; handle_command stops the
\* action of both while busy.
Switch(file) ==
  /\ Commands("resume") /\ ~Busy
  /\ Load(file, session.id,
          IF runtime.started /\ ~runtime.closed THEN Shut(events) ELSE events)
  /\ UNCHANGED <<control, input, queues, said, typed, told>>

\* Mutant: the operation is left alone.
QuitPolitely ==
  /\ Commands("quit")
  /\ running' = FALSE /\ quitting' = TRUE
  /\ UNCHANGED <<phase, abort, pressed, line, input, queues, said, typed, told, sessions>>

\* /quit, which aborts what is in flight.
Quit ==
  /\ Commands("quit")
  /\ running' = FALSE /\ quitting' = TRUE
  /\ abort' = (abort \/ Busy) /\ pressed' = (pressed \/ Busy)
  /\ UNCHANGED <<phase, line, input, queues, said, typed, told, sessions>>

\* The quit key, a second Ctrl-C or an extension's action: the loop stops after
\* the operation in flight, which goes on.
Close ==
  /\ AtPrompt \/ Busy
  /\ editor = {} /\ running /\ running' = FALSE
  /\ UNCHANGED <<phase, abort, pressed, quitting, line, input, queues, said, typed, told,
                 sessions>>

\* The end of M.run: Runtime:shutdown.
Leave ==
  /\ phase = "idle" /\ ~running
  /\ Becomes("left")
  /\ IF runtime.started /\ ~runtime.closed
     THEN runtime' = [runtime EXCEPT !.closed = TRUE] /\ events' = Shut(events)
     ELSE UNCHANGED <<runtime, events>>
  /\ UNCHANGED <<line, input, queues, said, typed, told, session>>

-----------------------------------------------------------------------------
Next ==
  \/ Bootstrap \/ Type \/ ClearBuffer \/ Restore \/ Abort \/ Submit
  \/ \E previous \in BOOLEAN : Navigate(previous)
  \/ \E kind \in {"steering", "follow-up"} : QueueInput(kind) \/ QueueByCommand(kind)
  \/ \E i \in 1 .. MaxTyped : Drop(i) \/ Edit(i)
  \/ \E kinds \in (SUBSET {"steering", "follow-up"}) \ {{}} : ClearQueues(kinds)
  \/ Take \/ Proceed \/ Crash
  \/ \E kind \in Operations : Operate(kind)
  \/ New \/ (\E file \in Files : Switch(file))
  \/ Quit \/ Close \/ Leave

\* Every await looks at the signal, so that what was aborted goes on to its
\* end; and the loop looks at state.running.
Spec ==
  /\ Init /\ [][Next]_vars
  /\ WF_vars(abort /\ Proceed) /\ WF_vars(Leave)

-----------------------------------------------------------------------------
(* Properties. *)

\* Type invariant; the messages are those typed so far.
TypeOK ==
  /\ phase \in {"boot", "idle", "left"} \cup Turn \cup Operations
  /\ {running, abort, pressed, quitting, upset} \subseteq BOOLEAN
  /\ typed \in 0 .. MaxTyped
  /\ {line, editor, nav.draft, said, again, gone, browsed} \subseteq SUBSET (1 .. typed)
  /\ nav \in [index : Nat, id : Nat, draft : SUBSET Nat]
  /\ {steering, followUps} \subseteq Seq([id : 1 .. typed, text : SUBSET (1 .. typed)])
  /\ session \in [id : Files \cup Ids \cup {""}, path : Files \cup Ids \cup {""}]
  /\ runtime \in [started : BOOLEAN, closed : BOOLEAN]
  /\ events \in [open : Int, id : Files \cup Ids \cup {""}]

\* The session does not change under an operation: what a turn, a compaction
\* or a summary began in one session it also ends in it, although commands
\* run in its awaits.
SessionStandsStill == [][session' # session => ~Busy /\ ~Busy']_vars

\* Where a message may be.
Held == editor \cup nav.draft \cup Messages(Pending) \cup line \cup said

\* A message that was typed is in the editor, in a draft, in the queue or in
\* the transcript, through aborts, restores, drains and failures, unless it
\* was given up: erased, replaced, dropped, in an edit of an item that was
\* taken meanwhile, or on its way into a turn that broke.
NothingLost == 1 .. typed \subseteq Held \cup gone

\* What is typed is kept; it is said once, unless a position of the queue
\* showed it and it was sent from there; and while a position is shown, an
\* edit goes to the item it shows, unless /queue changed the queue since.
MessagesAreKept ==
  /\ TypeOK /\ NothingLost
  /\ again \subseteq browsed
  /\ nav.index \in 1 .. Len(Pending) => upset \/ Pending[nav.index].id = nav.id

\* An operation is aborted if and only if somebody aborted it: the signal of
\* an earlier one does not reach it, and its own is not lost.
AbortIsOwn == Busy => (abort <=> pressed)

\* Every opening of a session is followed by one shutdown before the next
\* one, and before the frontend is left; a shutdown names the session that
\* was opened, or made by /new since.  So extensions can pair the events,
\* except that an opening that failed to read its file has none.
EventsPair ==
  /\ events.open = IF runtime.started /\ ~runtime.closed THEN 1 ELSE 0
  /\ events.open = 1 => events.id = session.id
  /\ phase = "left" => events.open = 0

\* After /quit the frontend is left, however long the operation in flight
\* would have taken.
QuitLeaves == quitting ~> phase = "left"
=============================================================================
