---------------------------- MODULE ProcessHandle ----------------------------
(***************************************************************************)
(* src/core/process.c on POSIX: begin / poll / finish of a child process   *)
(* group, driven by the loop of tool_shell.lua's stream.  A step is a      *)
(* system call or the calls that nothing can come between.                 *)
(*                                                                         *)
(* The group is the child, "sh", and a process it may leave behind, "bg".  *)
(* Each writes to the pipe, falls silent with the pipe open, closes its    *)
(* end ("detached") or dies; some ignore SIGTERM.  Output is counted in    *)
(* pieces.  After finish has closed the pipe, writing is an exit or        *)
(* nothing (SIGPIPE, EPIPE).                                               *)
(***************************************************************************)
EXTENDS Naturals, Sequences, SequencesExt

CONSTANTS
  PipeMax,  \* bound: pieces in the pipe
  Kept,     \* PSI_PROCESS_OUTPUT_MAX_BYTES, in pieces
  Escalate, \* PSI_PROCESS_ABORT_ESCALATE_MS, in ticks
  GiveUp,   \* PSI_PROCESS_ABORT_WAIT_LIMIT_MS, in ticks
  Deadline  \* the tool call has a timeout

ASSUME HandleBounds == {PipeMax, Kept, Escalate, GiveUp} \subseteq Nat
ASSUME EscalateAssumption == Escalate < GiveUp /\ Deadline \in BOOLEAN

Procs == {"sh", "bg"}
Alive == {"writing", "silent", "detached"}

VARIABLES
  state,     \* [Procs -> "unborn", a member of Alive, or "dead"]
  stubborn,  \* the processes that ignore SIGTERM
  termed,    \* those that were sent SIGTERM
  killed,    \* those that were sent SIGKILL
  cause,     \* how sh died: "none", "exit" or "signal"
  pipe,      \* what is in the pipe, by writer
  asked,     \* the abort signal
  stage,     \* "loop" and "poll": before a poll and before a read; "again":
             \* the read would block; "reap", "wait": in finish; "closed"
  aborted,   \* h->aborted
  reaped,    \* h->reaped
  waited,    \* waited_ms, in ticks, not counted beyond GiveUp
  output,    \* pieces handed to the caller, not counted beyond Kept + 1
  kept,      \* h->output_length
  truncated, \* h->truncated
  status     \* the exit status: "none", "aborted", "exit" or "signal"

group == <<state, stubborn, cause>>
handle == <<reaped, waited, output, kept, truncated, status>>
handleVars == <<group, termed, killed, pipe, asked, stage, aborted, handle>>

AtMost(n, max) == IF n > max THEN max ELSE n

HandleInit ==
  /\ state = [p \in Procs |-> IF p = "sh" THEN "writing" ELSE "unborn"]
  /\ stubborn \in SUBSET Procs
  /\ termed = {} /\ killed = {} /\ cause = "none"
  /\ pipe = << >> /\ asked = FALSE /\ stage = "loop"
  /\ aborted = FALSE /\ reaped = FALSE /\ waited = 0
  /\ output = 0 /\ kept = 0 /\ truncated = FALSE /\ status = "none"

-----------------------------------------------------------------------------
(* The processes. *)

Doomed(p) == p \in killed \/ (p \in termed /\ p \notin stubborn)

host == <<termed, killed, asked, stage, aborted, handle>>

Become(p, s) == state' = [state EXCEPT ![p] = s]

WriteOut(p) ==
  /\ state[p] = "writing" /\ stage \in {"loop", "poll", "again"}
  /\ Len(pipe) < PipeMax
  /\ pipe' = Append(pipe, p)
  /\ UNCHANGED <<group, host>>

Quieten(p) ==
  /\ \/ state[p] = "writing" /\ Become(p, "silent")
     \/ state[p] \in {"writing", "silent"} /\ Become(p, "detached")
  /\ UNCHANGED <<stubborn, cause, pipe, host>>

Dies(p, how) ==
  /\ state[p] \in Alive
  /\ Become(p, "dead")
  /\ cause' = IF p = "sh" THEN how ELSE cause
  /\ UNCHANGED <<stubborn, pipe, host>>

Exit(p) == Dies(p, "exit")
Fall(p) == Doomed(p) /\ Dies(p, "signal")

Spawn ==
  /\ state["sh"] \in Alive /\ ~Doomed("sh") /\ state["bg"] = "unborn"
  /\ Become("bg", "writing")
  /\ UNCHANGED <<stubborn, cause, pipe, host>>

Ask ==
  /\ ~asked /\ stage # "closed"
  /\ asked' = TRUE
  /\ UNCHANGED <<group, pipe, termed, killed, stage, aborted, handle>>

-----------------------------------------------------------------------------
(* The host. *)

Group == {p \in Procs : state[p] \in Alive}

\* Mutant: only the child is signalled.
SigtermChild == aborted' = TRUE /\ termed' = termed \cup (Group \cap {"sh"})

\* Mutant: the flag is not set.
SigtermUnmarked == aborted' = aborted /\ termed' = termed \cup Group

\* kill(-pid, SIGTERM).
Sigterm == aborted' = TRUE /\ termed' = termed \cup Group

TermOnce == IF asked /\ ~aborted THEN Sigterm ELSE UNCHANGED <<aborted, termed>>

\* The head of stream's loop: is_aborted, then process_terminate.
Loop ==
  /\ stage = "loop"
  /\ IF asked THEN Sigterm ELSE UNCHANGED <<aborted, termed>>
  /\ stage' = "poll"
  /\ UNCHANGED <<group, killed, pipe, asked, handle>>

\* Mutant: the buffer may take one piece more.
CaptureOneMore(n) ==
  /\ output' = AtMost(output + n, Kept + 1)
  /\ kept' = AtMost(kept + n, Kept)
  /\ truncated' = (truncated \/ kept + n > Kept + 1)

\* Mutant: the limit is not applied.
CaptureAll(n) ==
  /\ output' = AtMost(output + n, Kept + 1)
  /\ kept' = kept + n
  /\ truncated' = (truncated \/ kept + n > Kept)

\* Pieces go to the caller and, up to a limit, to the handle's buffer.
Capture(n) ==
  /\ output' = AtMost(output + n, Kept + 1)
  /\ kept' = AtMost(kept + n, Kept)
  /\ truncated' = (truncated \/ kept + n > Kept)

\* psi_process_poll, up to the first read that yields nothing.
Read ==
  /\ stage = "poll"
  /\ TermOnce
  /\ \/ \E n \in 1 .. Len(pipe) :
          /\ pipe' = SubSeq(pipe, n + 1, Len(pipe))
          /\ Capture(n)
          /\ stage' = "loop"
     \/ /\ pipe = << >>
        /\ stage' = IF \E p \in Procs : state[p] \in {"writing", "silent"}
                 THEN "again" ELSE "reap"
        /\ UNCHANGED <<pipe, output, kept, truncated>>
  /\ UNCHANGED <<group, killed, asked, reaped, waited, status>>

\* Mutant: only the end of the output ends the polling.
AgainUnlessAborted ==
  /\ stage = "again"
  /\ IF aborted THEN stage' = "reap" ELSE stage' \in {"poll", "loop"}
  /\ UNCHANGED <<group, termed, killed, pipe, asked, aborted, handle>>

\* The read would block: done if the child can be reaped or was told to
\* die, else wait for output, and read again or give the turn back.
Again ==
  /\ stage = "again"
  /\ reaped' = (state["sh"] = "dead")
  /\ IF reaped' \/ aborted THEN stage' = "reap" ELSE stage' \in {"poll", "loop"}
  /\ UNCHANGED <<group, termed, killed, pipe, asked, aborted, waited, output,
                 kept, truncated, status>>

\* The tool call's timeout: process_terminate, once.
TimesOut ==
  /\ Deadline /\ stage = "loop" /\ ~aborted
  /\ Sigterm
  /\ UNCHANGED <<group, killed, pipe, asked, stage, handle>>

\* The collector finds the handle of an abandoned coroutine.
Drop ==
  /\ stage = "loop"
  /\ Sigterm
  /\ stage' = "reap"
  /\ UNCHANGED <<group, killed, pipe, asked, handle>>

\* Mutant: nothing is stronger than SIGTERM.
KillNever == killed' = killed

\* SIGKILL once the wait in finish has lasted long enough.
Kill == killed' = IF waited >= Escalate THEN killed \cup Group ELSE killed

Close(isAborted) ==
  /\ reaped' = TRUE
  /\ stage' = "closed"
  /\ status' = IF isAborted THEN "aborted" ELSE cause
  /\ UNCHANGED <<group, termed, killed, pipe, asked, aborted, waited, output,
                 kept, truncated>>

\* One round of psi_process_finish's loop.
Reap ==
  /\ stage = "reap"
  /\ IF reaped \/ state["sh"] = "dead" THEN Close(aborted)
     ELSE /\ TermOnce
          /\ IF aborted' THEN Kill ELSE UNCHANGED killed
          /\ stage' = IF aborted' /\ waited >= GiveUp THEN "wait" ELSE "reap"
          /\ waited' = AtMost(waited + 1, GiveUp)
          /\ UNCHANGED <<group, pipe, asked, reaped, output, kept, truncated, status>>

\* The last, blocking waitpid returns.
Wait == stage = "wait" /\ state["sh"] = "dead" /\ Close(aborted)

Host == Loop \/ Read \/ Again \/ Reap \/ Wait

HandleNext ==
  \/ Host \/ TimesOut \/ Drop \/ Ask \/ Spawn
  \/ \E p \in Procs : WriteOut(p) \/ Quieten(p) \/ Exit(p) \/ Fall(p)

\* The frontend goes on polling, and a fatal signal takes effect.
HandleSpec ==
  /\ HandleInit /\ [][HandleNext]_handleVars
  /\ WF_handleVars(Host)
  /\ \A p \in Procs : WF_handleVars(Fall(p))

-----------------------------------------------------------------------------
\* Type invariant.
HandleTypeOK ==
  /\ state \in [Procs -> Alive \cup {"unborn", "dead"}]
  /\ \A s \in {stubborn, termed, killed} : s \subseteq Procs
  /\ {cause, status} \subseteq {"none", "exit", "signal", "aborted"}
  /\ pipe \in Seq(Procs) /\ Len(pipe) <= PipeMax
  /\ {asked, aborted, reaped, truncated} \subseteq BOOLEAN
  /\ stage \in {"loop", "poll", "again", "reap", "wait", "closed"}
  /\ waited \in 0 .. GiveUp /\ output \in 0 .. Kept + 1 /\ kept \in 0 .. Kept

\* A status that tells how the child ended tells the truth, and a child
\* that fell to a signal of ours is reported as aborted.
StatusIsTrue ==
  stage = "closed" =>
    /\ state["sh"] = "dead"
    /\ status # "aborted" => status = cause
    /\ cause = "signal" => status = "aborted"

\* The result is marked as truncated exactly when it lacks something that
\* was read.
TruncationIsTold == truncated <=> output > kept

\* What a call reports is what happened.
ResultIsTrue == HandleTypeOK /\ StatusIsTrue /\ TruncationIsTold

\* The processes that ignore SIGTERM have at least stopped writing.
Tame ==
  \/ "sh" \notin stubborn /\ ("bg" \in stubborn => state["bg"] \notin {"unborn", "writing"})
  \/ \A p \in Procs : state[p] \notin {"unborn", "writing"}

\* Once the child is dead, output that nobody writes any more, or an end of
\* the pipe that somebody keeps open, does not keep the call waiting.  And an
\* abort ends the call: finish comes back whatever the child does with SIGTERM,
\* and the reading before it if nobody who ignores SIGTERM writes.
CallsReturn ==
  /\ state["sh"] = "dead" /\ state["bg"] # "writing" ~> stage = "closed"
  /\ stage \in {"reap", "wait"} /\ asked ~> stage = "closed"
  /\ asked /\ Tame ~> stage = "closed"

\* After an aborted call nothing of the group lives on but what ignores
\* SIGTERM or was left behind by a child that does.
TreeDies ==
  aborted /\ stage = "closed" ~>
    "sh" \in stubborn \/ \A p \in Procs \ stubborn : state[p] \notin Alive
=============================================================================
