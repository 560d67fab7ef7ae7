----------------------------- MODULE HttpStream -----------------------------
(***************************************************************************)
(* src/core/http_async.c: a helper thread runs the transfer and queues the *)
(* chunks it receives; the main thread polls them.  A step is a critical   *)
(* section on h->mu or what a thread does between two of them.             *)
(*                                                                         *)
(* Chunks are numbered in the order in which curl receives them.  Main is  *)
(* the callers' loop: look at the abort signal, poll, stop when the stream *)
(* is done, and finish; an error in between leaves finish to the collector.*)
(***************************************************************************)
EXTENDS Integers, Sequences, FiniteSetsExt

CONSTANTS
  MaxChunks,  \* bound: chunks the server has
  Size,       \* [1 .. MaxChunks -> bytes]
  TotalMax,   \* PSI_HTTP_STREAM_TOTAL_MAX_BYTES
  QueueMax,   \* PSI_HTTP_STREAM_QUEUE_MAX_BYTES
  Timeouts,   \* how polls wait: "none", "timed" (> 0) or "forever" (< 0)
  OutOfMemory \* malloc may fail

ASSUME SizeAssumption ==
  /\ MaxChunks \in Nat
  /\ Size \in [1 .. MaxChunks -> Nat \ {0}]
ASSUME LimitsAssumption == TotalMax \in Nat /\ QueueMax \in Nat
ASSUME SwitchAssumption ==
  /\ Timeouts \subseteq {"none", "timed", "forever"}
  /\ OutOfMemory \in BOOLEAN

VARIABLES
  helper,      \* the thread: "perform", "copying", "returned", "exited"
  main,        \* the caller: "reading", "waiting" on the condition, "woken",
               \* "joining" a detached list, "finishing", "closed"
  timed,       \* the wait has a deadline
  arrived,     \* chunks curl received
  held,        \* those reserved in the accounts and not yet linked
  queue,       \* the linked chunks
  queueBytes,  \* h->queue_bytes
  totalBytes,  \* h->total_bytes
  writeFailed, \* h->write_failed
  code,        \* what curl_easy_perform returned, or "none"
  taken,       \* the list a poll detached
  got,         \* history: what polls handed over
  sawDone,     \* a poll returned 2
  abort,       \* the abort signal
  requeued     \* history: a poll put chunks back for want of memory

vars == <<helper, main, timed, arrived, held, queue, queueBytes, totalBytes,
          writeFailed, code, taken, got, sawDone, abort, requeued>>
reader == <<taken, got, sawDone, requeued, timed>>

Bytes(chunks) ==
  LET sum[i \in 0 .. Len(chunks)] == IF i = 0 THEN 0 ELSE sum[i - 1] + Size[chunks[i]]
  IN sum[Len(chunks)]

Init ==
  /\ helper = "perform" /\ main = "reading" /\ timed = FALSE
  /\ arrived = 0 /\ held = << >> /\ queue = << >>
  /\ queueBytes = 0 /\ totalBytes = 0 /\ writeFailed = FALSE
  /\ code = "none" /\ taken = << >> /\ got = << >>
  /\ sawDone = FALSE /\ abort = FALSE /\ requeued = FALSE

-----------------------------------------------------------------------------
(* The helper thread. *)

\* pthread_cond_signal and _broadcast: there is one waiter at most.
Signal == main' = IF main = "waiting" THEN "woken" ELSE main

\* Mutants: one of the limits is not checked.
ExceedsTotal(n) == totalBytes + n > TotalMax
ExceedsQueue(n) == queueBytes + n > QueueMax

\* psi_http_queue_would_exceed_limits.
Exceeds(n) == totalBytes + n > TotalMax \/ queueBytes + n > QueueMax

Returns(c) == helper' = "returned" /\ code' = c

\* The write callback, up to the allocation: reserve room, or latch the
\* failure and make curl give up.
Reserve ==
  /\ helper = "perform" /\ arrived < MaxChunks
  /\ arrived' = arrived + 1
  /\ IF writeFailed \/ Exceeds(Size[arrived + 1])
     THEN /\ writeFailed' = TRUE
          /\ Signal
          /\ Returns("write")
          /\ UNCHANGED <<held, queueBytes, totalBytes>>
     ELSE /\ held' = <<arrived + 1>>
          /\ queueBytes' = queueBytes + Size[arrived + 1]
          /\ totalBytes' = totalBytes + Size[arrived + 1]
          /\ helper' = "copying"
          /\ UNCHANGED <<main, code, writeFailed>>
  /\ UNCHANGED <<queue, abort, reader>>

Link ==
  /\ helper = "copying"
  /\ queue' = queue \o held
  /\ held' = << >>
  /\ Signal
  /\ helper' = "perform"
  /\ UNCHANGED <<arrived, queueBytes, totalBytes, writeFailed, code, abort, reader>>

\* Mutant: the callback reports the chunk as written.
PushFailUnreported ==
  /\ OutOfMemory
  /\ helper = "copying"
  /\ held' = << >>
  /\ Signal
  /\ helper' = "perform"
  /\ UNCHANGED <<arrived, queue, queueBytes, totalBytes, writeFailed, code, abort, reader>>

\* An allocation fails: psi_http_queue_push_fail.  The room stays reserved.
PushFail ==
  /\ OutOfMemory
  /\ helper = "copying"
  /\ held' = << >>
  /\ writeFailed' = TRUE
  /\ Signal
  /\ Returns("write")
  /\ UNCHANGED <<arrived, queue, queueBytes, totalBytes, abort, reader>>

\* curl_easy_perform returns: the response is complete, the connection
\* failed, stalled or could not be set up, or xferinfo saw the signal.
Perform ==
  /\ helper = "perform"
  /\ \E c \in {"ok", "network", "aborted"} : (c = "aborted" => abort) /\ Returns(c)
  /\ UNCHANGED <<main, arrived, held, queue, queueBytes, totalBytes,
                 writeFailed, abort, reader>>

\* Mutant: the end is not announced.
ExitSilently ==
  /\ helper = "returned"
  /\ helper' = "exited"
  /\ UNCHANGED <<main, arrived, held, queue, queueBytes, totalBytes,
                 writeFailed, code, abort, reader>>

\* The thread's last critical section: done becomes true.
Exit ==
  /\ helper = "returned"
  /\ helper' = "exited"
  /\ Signal
  /\ UNCHANGED <<arrived, held, queue, queueBytes, totalBytes, writeFailed,
                 code, abort, reader>>

Helper == Reserve \/ Link \/ PushFail \/ Perform \/ Exit

done == helper = "exited"

-----------------------------------------------------------------------------
(* The main thread. *)

transfer == <<helper, arrived, held, totalBytes, writeFailed, code, abort>>

\* Mutant: done is looked at before the queue.
DetachDoneFirst ==
  IF done
  THEN /\ sawDone' = TRUE
       /\ main' = "reading"
       /\ UNCHANGED <<queue, queueBytes, taken>>
  ELSE /\ taken' = queue
       /\ queue' = << >>
       /\ queueBytes' = 0
       /\ main' = IF queue # << >> THEN "joining" ELSE "reading"
       /\ UNCHANGED sawDone

\* psi_http_queue_detach_locked, and the poll's result: 1, 2 or 0.
Detach ==
  /\ taken' = queue
  /\ queue' = << >>
  /\ queueBytes' = 0
  /\ main' = IF queue # << >> THEN "joining" ELSE "reading"
  /\ sawDone' = (queue = << >> /\ done)

\* The caller's loop body: not aborted, so poll.
Poll(timeout) ==
  /\ main = "reading" /\ ~abort /\ ~sawDone
  /\ IF queue = << >> /\ ~done /\ timeout # "none"
     THEN /\ main' = "waiting"
          /\ timed' = (timeout = "timed")
          /\ UNCHANGED <<queue, queueBytes, taken, sawDone>>
     ELSE Detach /\ UNCHANGED timed
  /\ UNCHANGED <<transfer, got, requeued>>

\* The wait ends by its deadline, or for no reason.
TimeOut ==
  /\ main = "waiting" /\ timed
  /\ main' = "woken"
  /\ UNCHANGED <<transfer, queue, queueBytes, reader>>

\* The poll goes on with the lock held again; it does not wait twice.
Resume ==
  /\ main = "woken"
  /\ Detach
  /\ UNCHANGED <<transfer, timed, got, requeued>>

\* The detached chunks become one buffer.
Join ==
  /\ main = "joining"
  /\ got' = got \o taken
  /\ taken' = << >>
  /\ main' = "reading"
  /\ UNCHANGED <<transfer, queue, queueBytes, sawDone, requeued, timed>>

\* Mutant: chunks put back go behind those that came meanwhile.
JoinFailsBehind ==
  /\ OutOfMemory
  /\ main = "joining" /\ Len(taken) > 1
  /\ got' = Append(got, Head(taken))
  /\ queue' = queue \o Tail(taken)
  /\ queueBytes' = queueBytes + Bytes(Tail(taken))
  /\ taken' = << >> /\ requeued' = TRUE
  /\ main' = "reading"
  /\ UNCHANGED <<transfer, sawDone, timed>>

\* There is no memory for it: the first chunk is handed over, and
\* psi_http_queue_requeue_front puts the others back.
JoinFails ==
  /\ OutOfMemory
  /\ main = "joining" /\ Len(taken) > 1
  /\ got' = Append(got, Head(taken))
  /\ queue' = Tail(taken) \o queue
  /\ queueBytes' = queueBytes + Bytes(Tail(taken))
  /\ taken' = << >> /\ requeued' = TRUE
  /\ main' = "reading"
  /\ UNCHANGED <<transfer, sawDone, timed>>

\* psi_http_stream_finish, called when the loop ends ...
Finish ==
  /\ main = "reading" /\ (sawDone \/ abort)
  /\ main' = "finishing"
  /\ UNCHANGED <<transfer, queue, queueBytes, reader>>

\* ... or when the collector finds the handle of a caller that raised.
Drop ==
  /\ main = "reading"
  /\ main' = "finishing"
  /\ UNCHANGED <<transfer, queue, queueBytes, reader>>

\* pthread_join returns, and what is still queued is freed.
Joined ==
  /\ main = "finishing" /\ helper = "exited"
  /\ main' = "closed"
  /\ queue' = << >> /\ queueBytes' = 0
  /\ UNCHANGED <<transfer, reader>>

Main ==
  \/ \E timeout \in Timeouts : Poll(timeout)
  \/ TimeOut \/ Resume \/ Join \/ JoinFails \/ Finish \/ Joined

Abort ==
  /\ ~abort /\ main # "closed"
  /\ abort' = TRUE
  /\ UNCHANGED <<helper, main, arrived, held, queue, queueBytes, totalBytes,
                 writeFailed, code, reader>>

Next == Helper \/ Main \/ Drop \/ Abort

\* Both threads run; curl's idle timeout makes every transfer end.
Spec == Init /\ [][Next]_vars /\ WF_vars(Helper) /\ WF_vars(Main)

-----------------------------------------------------------------------------
\* Type invariant.
TypeOK ==
  /\ helper \in {"perform", "copying", "returned", "exited"}
  /\ main \in {"reading", "waiting", "woken", "joining", "finishing", "closed"}
  /\ arrived \in 0 .. MaxChunks
  /\ \A s \in {held, queue, taken, got} : s \in Seq(1 .. MaxChunks)
  /\ queueBytes \in Nat /\ totalBytes \in 0 .. TotalMax
  /\ code \in {"none", "ok", "network", "aborted", "write"}
  /\ {timed, writeFailed, sawDone, abort, requeued} \subseteq BOOLEAN

\* Everything between the network and the reader, oldest first.
Pipeline == got \o taken \o queue \o held

\* No chunk is lost, repeated or out of place on its way to the reader:
\* what arrived is in the pipeline, except for one chunk at the end that
\* was refused, which the latch and the transfer's failure remember.
PipelineIsWhole ==
  main # "closed" =>
    \E n \in 0 .. arrived :
      /\ Pipeline = [i \in 1 .. n |-> i]
      /\ n = arrived \/ (n = arrived - 1 /\ writeFailed /\ code = "write")

\* The queue never holds more than its limit and one chunk: the room a
\* poll gives back while a chunk is being copied is given back too early.
\* Chunks put back for want of memory are not checked against the limit.
QueueBounded ==
  requeued \/ Bytes(queue) <= QueueMax + Max({0} \cup {Size[n] : n \in 1 .. MaxChunks})

\* The queue keeps what it is given, and within its limit.
QueueIsSound == TypeOK /\ PipelineIsWhole /\ QueueBounded

\* Every stream is closed: no wake-up is lost, not even by a poll that
\* waits without a deadline, and finish never joins a thread that goes on.
StreamCloses == <>(main = "closed")

\* The stream implements ByteStream: the reader who was told that it ended
\* and then gets a good verdict has every chunk.
Abstract == INSTANCE ByteStream WITH
  sent    <- arrived,
  reader  <- IF main = "closed" THEN "closed"
             ELSE IF sawDone THEN "ended"
             ELSE IF main = "finishing" THEN "left" ELSE "reading",
  outcome <- IF ~sawDone /\ main # "closed" THEN "none"
             ELSE IF code = "ok" THEN "ok" ELSE "failed"

ImplementsByteStream == Abstract!Spec
=============================================================================
