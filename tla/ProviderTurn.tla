----------------------------- MODULE ProviderTurn -----------------------------
(***************************************************************************)
(* lua/psi/provider_loop.lua (one turn), agent_control.lua (the queues     *)
(* that feed it) and transform_messages.lua (what a request replays).      *)
(*                                                                         *)
(* The turn is a coroutine; an action of it is the slice between two       *)
(* yields.  Between slices the frontend queues input or aborts, the        *)
(* transfer goes on, and tools and extensions run.  An answer is a piece   *)
(* of text and then its tool calls, each one chunk of the stream.          *)
(***************************************************************************)
EXTENDS Integers, Sequences, SequencesExt, FiniteSets

CONSTANTS
  Answers,      \* what the model may answer: sequences of execution modes,
                \* one for each tool call
  BadAnswers,   \* those whose stream ends in an error event
  MaxRetries,   \* retries of a transient failure
  DrainsAll,    \* the queue mode is "all", not "one-at-a-time"
  SavesPartial, \* the provider has its own save_failed_partial
  InjectIn,     \* where the turn may be when an extension adds a message
  MaxItems,     \* bound: messages by the user and by extensions
  MaxRequests   \* bound: requests opened

Modes == {"parallel", "sequential"}
ASSUME AnswersAssumption ==
  Answers # {} /\ Answers \subseteq Seq(Modes) /\ BadAnswers \subseteq Answers
ASSUME BoundsAssumption == {MaxRetries, MaxItems, MaxRequests} \subseteq Nat

VARIABLES
  log,       \* the transcript
  steering,  \* queued items, oldest first
  followUps,
  abort,     \* the abort signal
  turn,      \* where the turn is: "idle" when there is none
  attempt,   \* retries made
  stream,    \* the transfer: what was sent, what was read, how it ended
  tools,     \* the calls being dispatched
  items,     \* items so far
  called,    \* tool calls so far
  requests,  \* requests opened so far
  withdrawn  \* items taken back from a queue

turnVars == <<log, steering, followUps, abort, turn, attempt, stream, tools, items,
          called, requests, withdrawn>>
queues == <<steering, followUps, withdrawn>>
counters == <<items, called, requests>>

Users == {"prompt", "steering", "follow-up", "injected"}

\* ref: the item of a user's message, the call of a result.  calls: those of
\* an answer.  whole: the answer holds everything that was sent.
Message(role, ref, calls, stop, whole) ==
  [role |-> role, ref |-> ref, calls |-> calls, stop |-> stop, whole |-> whole]
FromUser(kind, item) == Message(kind, item, << >>, "none", TRUE)
Result(call) == Message("result", call, << >>, "none", TRUE)

Chunks(answer) == 1 + Len(answer)

NoStream == [answer |-> << >>, sent |-> 0, got |-> 0, status |-> "none"]
NoTools == [calls |-> << >>, modes |-> << >>, cursor |-> 0, running |-> {}, ends |-> {}]

TurnInit ==
  /\ log = << >> /\ steering = << >> /\ followUps = << >>
  /\ abort = FALSE /\ turn = "idle" /\ attempt = 0
  /\ stream = NoStream /\ tools = NoTools
  /\ items = 0 /\ called = 0 /\ requests = 0 /\ withdrawn = {}

-----------------------------------------------------------------------------
(* What a request shows the model: transform_messages.replay_session. *)

Failed(m) == m.role = "assistant" /\ m.stop # "stop"

Replayed(out, pending, seen, known) ==
  [out |-> out, pending |-> pending, seen |-> seen, known |-> known]

\* The calls that have no result, in their order.
Missing(pending, seen) ==
  LET upTo[n \in 0 .. Len(pending)] ==
        IF n = 0 THEN << >>
        ELSE IF pending[n] \in seen THEN upTo[n - 1]
        ELSE Append(upTo[n - 1], pending[n])
  IN  upTo[Len(pending)]

\* flush_synthetic_results: a stand-in for every call without a result.
Flush(r) ==
  LET missing == Missing(r.pending, r.seen)
  IN  Replayed(r.out \o [i \in DOMAIN missing |-> Result(missing[i])], << >>, {}, r.known)

\* Mutant: a user's message does not wait for the calls before it.
ReplayUnflushed(r, m) ==
  IF Failed(m) \/ m.role = "result" THEN [r EXCEPT !.out = Append(@, m)]
  ELSE [(IF m.role = "assistant" THEN Flush(r) ELSE r)
          EXCEPT !.out = Append(@, m), !.pending = m.calls]

\* replay_session, for one message.
ReplayOne(r, m) ==
  IF Failed(m) THEN r
  ELSE IF m.role = "result"
  THEN IF m.ref \in r.known
       THEN Replayed(Append(r.out, m), r.pending, r.seen \cup {m.ref}, r.known)
       ELSE r
  ELSE Replayed(Append(Flush(r).out, m), m.calls, {}, r.known \cup ToSet(m.calls))

Replay(l) ==
  LET after[n \in 0 .. Len(l)] ==
        IF n = 0 THEN Replayed(<< >>, << >>, {}, {}) ELSE ReplayOne(after[n - 1], l[n])
  IN  Flush(after[Len(l)]).out

-----------------------------------------------------------------------------
(* The queues. *)

\* How many items are taken: all of them, or the oldest one.
Share(q) == IF DrainsAll \/ q = << >> THEN Len(q) ELSE 1

\* Mutant: the item stays in the queue.
DrainedKept(q) == [taken |-> SubSeq(q, 1, Share(q)), rest |-> q]

\* drain.
Drained(q) == [taken |-> SubSeq(q, 1, Share(q)), rest |-> SubSeq(q, Share(q) + 1, Len(q))]

Said(kind, taken) == [i \in DOMAIN taken |-> FromUser(kind, taken[i])]

-----------------------------------------------------------------------------
(* The turn.  The operators below are the parts a slice is made of: l is   *)
(* the transcript so far in the slice, s and f the queues.                 *)

Finish(l, s, f) ==
  /\ log' = l /\ steering' = s /\ followUps' = f
  /\ turn' = "idle" /\ attempt' = 0
  /\ stream' = NoStream /\ tools' = NoTools
  /\ UNCHANGED requests

Open ==
  /\ requests < MaxRequests
  /\ requests' = requests + 1
  /\ turn' = "stream"
  /\ \E answer \in Answers :
       stream' = [answer |-> answer, sent |-> 0, got |-> 0, status |-> "open"]
  /\ tools' = NoTools

\* The head of run_turn's loop: steering goes in, and a request opens or
\* fails to.
LoopTop(aborted, l, s, f) ==
  LET q  == Drained(s)
      l2 == l \o Said("steering", q.taken)
  IN IF aborted THEN Finish(l, s, f)
     ELSE \/ Finish(l2, q.rest, f)
          \/ Open /\ log' = l2 /\ steering' = q.rest /\ followUps' = f /\ attempt' = 0

\* Mutant: follow-ups go in before steering.
StopFollowing(l) ==
  LET f == Drained(followUps)
  IN IF followUps # << >> THEN LoopTop(abort, l \o Said("follow-up", f.taken), steering, f.rest)
     ELSE Finish(l, steering, followUps)

\* The agent would stop here: go on if something is queued.
Stop(l) ==
  LET s == Drained(steering)
      f == Drained(followUps)
  IN IF steering # << >>
     THEN LoopTop(abort, l \o Said("steering", s.taken), s.rest, followUps)
     ELSE IF followUps # << >>
     THEN LoopTop(abort, l \o Said("follow-up", f.taken), steering, f.rest)
     ELSE Finish(l, steering, followUps)

\* The next batch: a sequential call alone, else all parallel calls in a row.
Batch(modes, k) ==
  IF modes[k] = "sequential" THEN {k}
  ELSE {i \in k .. Len(modes) : \A j \in k .. i : modes[j] = "parallel"}

\* dispatch_tools, up to its first yield.
Dispatch(l, ids, modes) ==
  IF abort THEN Finish(l, steering, followUps)
  ELSE /\ log' = l
       /\ turn' = "tools"
       /\ tools' = [calls |-> ids, modes |-> modes, cursor |-> 1,
                    running |-> Batch(modes, 1), ends |-> {}]
       /\ stream' = NoStream
       /\ UNCHANGED <<steering, followUps, attempt, requests>>

\* What becomes of a request that is not retried, by how it ended and by how
\* much of the answer was read.
Settle(how, got) ==
  LET answer == stream.answer
      ids    == [i \in 1 .. got - 1 |-> called + i]
      With(stop) == Append(log, Message("assistant", 0, ids, stop, got = Chunks(stream.answer)))
  IN CASE how = "failed" ->
            Finish(IF got = 0 THEN log ELSE With(IF abort THEN "aborted" ELSE "error"),
                   steering, followUps)
       [] how \in {"busy", "refused"} ->
            Finish(IF SavesPartial THEN log ELSE With("error"), steering, followUps)
       [] how = "ok" /\ answer \in BadAnswers /\ got = Chunks(answer) ->
            Finish(With("error"), steering, followUps)
       [] OTHER ->
            IF ids = << >> THEN Stop(With("stop"))
            ELSE Dispatch(With("stop"), ids, SubSeq(answer, 1, got - 1))

\* Mutant: a request is retried although a part of its answer was shown.
RetriesShown(how, got) == ~abort /\ attempt < MaxRetries /\ how \in {"failed", "busy"}

\* Mutant: the retries are not counted.
RetriesForever(how, got) == ~abort /\ got = 0 /\ how \in {"failed", "busy"}

Retries(how, got) ==
  /\ ~abort
  /\ got = 0
  /\ attempt < MaxRetries
  /\ how \in {"failed", "busy"}

\* http_stream_finish was called: how it ended is final.
Conclude(how, got) ==
  IF Retries(how, got)
  THEN /\ turn' = "backoff"
       /\ attempt' = attempt + 1
       /\ stream' = [stream EXCEPT !.status = how, !.got = 0]
       /\ UNCHANGED <<log, steering, followUps, tools, requests, called>>
  ELSE /\ Settle(how, got)
       /\ called' = called + (IF got = 0 THEN 0 ELSE got - 1)

\* How a transfer may turn out when it is waited for.
Ends ==
  IF stream.status # "open" THEN {stream.status}
  ELSE {"ok", "failed"} \cup (IF stream.sent = 0 THEN {"busy", "refused"} ELSE {})

\* Mutant: the signal is looked at once the transfer is over.
InterruptedLate == abort /\ stream.status # "open"

Interrupted == abort

\* A slice of the poll loop: a read, and then a look at the signal.  An
\* abort waits for the transfer, and what is sent meanwhile is dropped.
Receive ==
  /\ turn = "stream"
  /\ Interrupted \/ stream.sent > stream.got \/ stream.status # "open"
  /\ IF Interrupted \/ (stream.status # "open" /\ stream.sent = stream.got)
     THEN \E how \in Ends : Conclude(how, stream.sent)
     ELSE /\ stream' = [stream EXCEPT !.got = stream.sent]
          /\ UNCHANGED <<log, steering, followUps, turn, attempt, tools, requests, called>>
  /\ UNCHANGED <<abort, items, withdrawn>>

\* The sleep before a retry is over, or was cut short.
Backoff ==
  /\ turn = "backoff"
  /\ IF abort THEN Settle(stream.status, 0)
     ELSE \/ Finish(log, steering, followUps)
          \/ Open /\ UNCHANGED <<log, steering, followUps, attempt>>
  /\ UNCHANGED <<abort, items, called, withdrawn>>

\* Mutant: the last call's result is left out.
ResultsOfSome(ends) ==
  LET done == SelectSeq(tools.calls, LAMBDA c : c # Last(tools.calls))
  IN LoopTop(abort, log \o [i \in DOMAIN done |-> Result(done[i])], steering, followUps)

\* Every call was dispatched: the results go in, in the order of the calls.
Results(ends) ==
  LET l == log \o [i \in DOMAIN tools.calls |-> Result(tools.calls[i])]
  IN IF ends = DOMAIN tools.calls THEN Stop(l) ELSE LoopTop(abort, l, steering, followUps)

\* Mutant: the signal is not looked at between batches.
ContinuesAlways(batch, next) == TRUE

\* The signal is looked at after a parallel batch and before each next one.
Continues(batch, next) ==
  ~abort \/ (next > Len(tools.calls) /\ \A i \in batch : tools.modes[i] = "sequential")

\* A tool returns; the last of its batch lets the turn go on.  Its result
\* may ask for the turn to end.
FinishTool(i) ==
  \E ends \in {tools.ends, tools.ends \cup {i}} :
    LET running == tools.running \ {i}
        batch   == Batch(tools.modes, tools.cursor)
        next    == tools.cursor + Cardinality(batch)
    IN /\ turn = "tools"
       /\ i \in tools.running
       /\ IF running # {}
          THEN /\ tools' = [tools EXCEPT !.running = running, !.ends = ends]
               /\ UNCHANGED <<log, steering, followUps, turn, attempt, stream, requests>>
          ELSE IF ~Continues(batch, next)
          THEN Finish(log, steering, followUps)
          ELSE IF next > Len(tools.calls)
          THEN Results(ends)
          ELSE /\ tools' = [tools EXCEPT !.cursor = next, !.ends = ends,
                                         !.running = Batch(tools.modes, next)]
               /\ UNCHANGED <<log, steering, followUps, turn, attempt, stream, requests>>
       /\ UNCHANGED <<abort, items, called, withdrawn>>

-----------------------------------------------------------------------------
(* What happens between slices. *)

\* A prompt is submitted: the signal is reset and the turn starts.
Prompt ==
  /\ turn = "idle"
  /\ items < MaxItems
  /\ items' = items + 1
  /\ abort' = FALSE
  /\ LoopTop(FALSE, Append(log, FromUser("prompt", items')), steering, followUps)
  /\ UNCHANGED <<called, withdrawn>>

\* The transfer goes on: a chunk arrives, or it ends.
Transfer ==
  /\ turn = "stream"
  /\ stream.status = "open"
  /\ \/ /\ stream.sent < Chunks(stream.answer)
        /\ stream' = [stream EXCEPT !.sent = @ + 1]
     \/ /\ stream.sent = Chunks(stream.answer)
        /\ stream' = [stream EXCEPT !.status = "ok"]
     \/ /\ stream.sent = 0
        /\ \E how \in {"busy", "refused"} : stream' = [stream EXCEPT !.status = how]
     \/ stream' = [stream EXCEPT !.status = "failed"]
  /\ UNCHANGED <<log, abort, turn, attempt, tools>> /\ UNCHANGED <<queues, counters>>

\* Input typed while the turn runs is queued.
Queue ==
  /\ turn # "idle"
  /\ items < MaxItems
  /\ items' = items + 1
  /\ \/ steering' = Append(steering, items') /\ UNCHANGED followUps
     \/ followUps' = Append(followUps, items') /\ UNCHANGED steering
  /\ UNCHANGED <<log, abort, turn, attempt, stream, tools, called, requests, withdrawn>>

\* remove_pending: one item, counted over both queues.
Withdraw ==
  /\ \/ \E i \in DOMAIN steering :
          /\ steering' = RemoveAt(steering, i)
          /\ withdrawn' = withdrawn \cup {steering[i]}
          /\ UNCHANGED followUps
     \/ \E i \in DOMAIN followUps :
          /\ followUps' = RemoveAt(followUps, i)
          /\ withdrawn' = withdrawn \cup {followUps[i]}
          /\ UNCHANGED steering
  /\ UNCHANGED <<log, abort, turn, attempt, stream, tools>> /\ UNCHANGED counters

\* Escape: the queued items go back to the editor and the signal is set.
Abort ==
  /\ turn # "idle"
  /\ ~abort
  /\ abort' = TRUE
  /\ withdrawn' = withdrawn \cup ToSet(steering) \cup ToSet(followUps)
  /\ steering' = << >> /\ followUps' = << >>
  /\ UNCHANGED <<log, turn, attempt, stream, tools>> /\ UNCHANGED counters

\* An extension adds a message to the transcript.
Inject ==
  /\ turn \in InjectIn
  /\ items < MaxItems
  /\ items' = items + 1
  /\ log' = Append(log, FromUser("injected", items'))
  /\ UNCHANGED <<abort, turn, attempt, stream, tools, called, requests>> /\ UNCHANGED queues

CallIndexes == UNION {DOMAIN answer : answer \in Answers}

Slice == Receive \/ Backoff \/ \E i \in DOMAIN tools.calls : FinishTool(i)

TurnNext == Slice \/ Prompt \/ Transfer \/ Queue \/ Withdraw \/ Abort \/ Inject

\* The scheduler resumes the turn as long as there is one, and tools return:
\* those that wait poll the signal.
TurnSpec ==
  /\ TurnInit /\ [][TurnNext]_turnVars
  /\ WF_turnVars(Receive) /\ WF_turnVars(Backoff)
  /\ \A i \in CallIndexes : WF_turnVars(FinishTool(i))

-----------------------------------------------------------------------------
Pending == ToSet(steering) \cup ToSet(followUps)

\* Type invariant.
TurnTypeOK ==
  /\ \A i \in DOMAIN log :
       /\ log[i].role \in Users \cup {"assistant", "result"}
       /\ log[i].ref \in Nat /\ log[i].calls \in Seq(1 .. called)
       /\ log[i].stop \in {"none", "stop", "aborted", "error"}
       /\ log[i].whole \in BOOLEAN
  /\ steering \in Seq(1 .. items) /\ followUps \in Seq(1 .. items)
  /\ abort \in BOOLEAN
  /\ turn \in {"idle", "stream", "backoff", "tools"}
  /\ attempt \in 0 .. MaxRetries
  /\ stream.answer \in Answers \cup {<< >>}
  /\ stream.got \in 0 .. stream.sent /\ stream.sent \in 0 .. Chunks(stream.answer)
  /\ stream.status \in {"none", "open", "ok", "failed", "busy", "refused"}
  /\ tools.running \subseteq DOMAIN tools.calls /\ tools.ends \subseteq DOMAIN tools.calls
  /\ items \in 0 .. MaxItems /\ requests \in 0 .. MaxRequests /\ called \in Nat
  /\ withdrawn \subseteq 1 .. items

\* Whatever was interrupted or failed before, a request shows the model every
\* tool call with exactly one result, right after the answer that made it,
\* and no result of a call it does not show.
ShownWithResults ==
  LET shown == Replay(log) IN
    /\ \A i \in DOMAIN shown : shown[i].role = "assistant" =>
         LET n == Len(shown[i].calls) IN
           /\ i + n <= Len(shown)
           /\ {shown[j].ref : j \in i + 1 .. i + n} = ToSet(shown[i].calls)
           /\ \A j \in i + 1 .. i + n : shown[j].role = "result"
    /\ \A j \in DOMAIN shown : shown[j].role = "result" =>
         \E i \in 1 .. j - 1 :
           shown[i].role = "assistant" /\ j <= i + Len(shown[i].calls)

\* The results of an answer's calls are recorded all together, in the order
\* of the calls and right after the answer, or not at all.
RecordedTogether ==
  \A i \in DOMAIN log : log[i].role = "assistant" =>
    LET ids == log[i].calls
        of  == {j \in DOMAIN log : log[j].role = "result" /\ log[j].ref \in ToSet(ids)}
    IN \/ of = {}
       \/ /\ log[i].stop = "stop"
          /\ of = i + 1 .. i + Len(ids)
          /\ \A k \in DOMAIN ids : log[i + k].ref = ids[k]

\* Calls and results stay together, in the transcript and in every request.
CallsAreAnswered == TurnTypeOK /\ ShownWithResults /\ RecordedTogether

\* What was said of a kind is in the order it was queued in, and before what
\* is queued.
InOrder(kind, queue) ==
  /\ \A i, j \in DOMAIN log :
       i < j /\ log[i].role = kind /\ log[j].role = kind => log[i].ref < log[j].ref
  /\ \A i \in DOMAIN log, j \in DOMAIN queue : log[i].role = kind => log[i].ref < queue[j]
  /\ \A i, j \in DOMAIN queue : i < j => queue[i] < queue[j]

\* Every queued item is in one place: still queued, taken back by the user,
\* or said once in the transcript; and a queue is said in its order.
InOnePlace ==
  LET spoken == {log[i].ref : i \in {j \in DOMAIN log : log[j].role \in Users}}
  IN /\ InOrder("steering", steering)
     /\ InOrder("follow-up", followUps)
     /\ spoken \cup Pending \cup withdrawn = 1 .. items
     /\ spoken \cap Pending = {} /\ withdrawn \cap (spoken \cup Pending) = {}

\* A follow-up is said only when the agent would otherwise stop: nothing is
\* left to steer with, and the last answer either made no call or had all
\* its results ask for the end.
FollowUpsWait ==
  [][\A i \in DOMAIN log' \ DOMAIN log : log'[i].role = "follow-up" =>
       /\ steering = << >>
       /\ log'[i - 1].role # "steering"
       /\ log'[i - 1].role = "assistant" => log'[i - 1].calls = << >>
       /\ log'[i - 1].role = "result" =>
            tools.ends \cup tools.running = DOMAIN tools.calls]_turnVars

\* What is queued is said once, in its order, and in its turn.
QueuedOnce == [][InOnePlace']_turnVars /\ FollowUpsWait

\* A turn that is aborted ends; and once the signal is up no request is opened
\* and no tool is started.
AbortEnds ==
  /\ abort ~> turn = "idle"
  /\ [][abort /\ abort' => /\ requests' = requests
                           /\ tools'.running \subseteq tools.running]_turnVars

\* The user reads every text once and whole: a retried request had shown
\* nothing, and an answer recorded as complete holds everything the model sent.
\* The exception is an abort that catches the transfer as it ends; see README.
AnswersAreWhole ==
  [][/\ attempt' > attempt => stream.sent = 0
     /\ \A i \in DOMAIN log' \ DOMAIN log :
          log'[i].role = "assistant" /\ log'[i].stop = "stop" => log'[i].whole \/ abort]_turnVars
=============================================================================
