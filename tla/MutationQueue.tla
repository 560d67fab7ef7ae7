---------------------------- MODULE MutationQueue ----------------------------
(***************************************************************************)
(* lua/psi/file_mutation_queue.lua under lua/psi/sched.lua's run_all: tool *)
(* tasks that write files, resumed one after the other, each for one slice *)
(* from a yield to the next.  A step of this module is such a slice.       *)
(*                                                                         *)
(* A task writes one file, under one of the file's names.  The lock is     *)
(* keyed by the real path, which exists for a name only once the file, or  *)
(* its directory, does; until then the key is the name.                    *)
(***************************************************************************)
EXTENDS Naturals, Sequences, SequencesExt

CONSTANTS
  Tasks,       \* coroutines that call with_path
  Names,       \* spellings of paths
  Files,       \* real paths
  FileOf,      \* [Names -> Files]
  Existing,    \* the files whose real path can be resolved at the start
  MaxYields,   \* yields of the function run under the lock
  MainCallers  \* with_path is also called outside any coroutine

ASSUME NamesAssumption ==
  /\ FileOf \in [Names -> Files]
  /\ Existing \subseteq Files
ASSUME YieldsAssumption == MaxYields \in Nat

Keys == Names \cup Files

\* What a call from the main thread leaves in the queue: a waiter that
\* nobody polls.
Nobody == "nobody"
ASSUME NobodyAssumption == Nobody \notin Tasks

Free == [held |-> FALSE, queue |-> << >>]
Held == [held |-> TRUE, queue |-> << >>]

VARIABLES
  locks,    \* [Keys -> [held, queue of waiters]]: the lock table
  pc,       \* [Tasks -> where the task is suspended]
  name,     \* [Tasks -> the name it writes under]
  key,      \* [Tasks -> the key it computed]
  ready,    \* [Tasks -> its waiter.ready]
  left,     \* [Tasks -> yields left before its function returns]
  resolved, \* files that realpath resolves
  main      \* the outcome of the last call from the main thread

vars == <<locks, pc, name, key, ready, left, resolved, main>>

Pcs == {"start", "waiting", "inside", "done"}

\* Mutant: the path is not resolved.
KeyByName(n) == n

\* key: the real path of the file or of its directory, else the path.
Key(n) == IF FileOf[n] \in resolved THEN FileOf[n] ELSE n

Init ==
  /\ locks = [k \in Keys |-> Free]
  /\ pc = [t \in Tasks |-> "start"]
  /\ name \in [Tasks -> Names]
  /\ key = name
  /\ ready = [t \in Tasks |-> FALSE]
  /\ left = [t \in Tasks |-> 0]
  /\ resolved = Existing
  /\ main = "idle"

\* Mutant: the lock is freed although tasks are queued on it.
ReleasedToNobody(k) ==
  /\ locks' = [locks EXCEPT ![k] = Free]
  /\ ready' = ready

\* Mutant: the newest waiter gets the lock.
ReleasedToNewest(k) ==
  LET queue == locks[k].queue IN
    /\ locks' = [locks EXCEPT ![k] = IF queue = << >> THEN Free
                                     ELSE [@ EXCEPT !.queue = Front(queue)]]
    /\ ready' = [t \in Tasks |->
                   ready[t] \/ (queue # << >> /\ t = Last(queue))]

\* release: the lock goes to the oldest waiter, or is freed.
Release(k) ==
  LET queue == locks[k].queue IN
    /\ locks' = [locks EXCEPT ![k] = IF queue = << >> THEN Free
                                     ELSE [@ EXCEPT !.queue = Tail(queue)]]
    /\ ready' = [t \in Tasks |-> ready[t] \/ (queue # << >> /\ t = Head(queue))]

\* Any slice of the function may write the file; its real path then exists.
Write(t) == resolved' \in {resolved, resolved \cup {FileOf[name[t]]}}

\* The call finds the lock free and runs the function up to its n-th yield;
\* without yields it also releases the lock.
Enter(t) ==
  LET k == Key(name[t]) IN
    /\ pc[t] = "start"
    /\ ~locks[k].held
    /\ key' = [key EXCEPT ![t] = k]
    /\ Write(t)
    /\ \/ /\ pc' = [pc EXCEPT ![t] = "done"]
          /\ UNCHANGED <<locks, left>>
       \/ \E n \in 1 .. MaxYields :
            /\ pc' = [pc EXCEPT ![t] = "inside"]
            /\ left' = [left EXCEPT ![t] = n]
            /\ locks' = [locks EXCEPT ![k] = Held]
    /\ UNCHANGED <<name, ready, main>>

\* The call finds the lock held: queue up and start sleeping.
Enqueue(t) ==
  LET k == Key(name[t]) IN
    /\ pc[t] = "start"
    /\ locks[k].held
    /\ key' = [key EXCEPT ![t] = k]
    /\ pc' = [pc EXCEPT ![t] = "waiting"]
    /\ locks' = [locks EXCEPT ![k].queue = Append(@, t)]
    /\ UNCHANGED <<name, ready, left, resolved, main>>

\* Mutant: the flag is not looked at.
WakesAlways(t) == TRUE

MayWake(t) == ready[t]

\* A resumed waiter whose flag is up runs its function.
Wake(t) ==
  /\ pc[t] = "waiting"
  /\ MayWake(t)
  /\ Write(t)
  /\ \/ /\ pc' = [pc EXCEPT ![t] = "done"]
        /\ Release(key[t])
        /\ UNCHANGED left
     \/ \E n \in 1 .. MaxYields :
          /\ pc' = [pc EXCEPT ![t] = "inside"]
          /\ left' = [left EXCEPT ![t] = n]
          /\ UNCHANGED <<locks, ready>>
  /\ UNCHANGED <<name, key, main>>

\* A slice inside the function; the last one returns or raises, and pcall
\* makes sure the lock is released either way.
Work(t) ==
  /\ pc[t] = "inside"
  /\ left' = [left EXCEPT ![t] = @ - 1]
  /\ Write(t)
  /\ IF left[t] > 1
     THEN UNCHANGED <<locks, pc, ready>>
     ELSE /\ pc' = [pc EXCEPT ![t] = "done"]
          /\ Release(key[t])
  /\ UNCHANGED <<name, key, main>>

Step(t) == Enter(t) \/ Enqueue(t) \/ Wake(t) \/ Work(t)

\* A call from outside any coroutine.  coroutine.running() is never nil in
\* this Lua, so on a held lock the caller queues a waiter, and the sleep
\* that follows raises because there is nothing to yield to.
MainCall(n) ==
  LET k == Key(n) IN
    /\ MainCallers
    /\ main = "idle"
    /\ IF locks[k].held
       THEN /\ locks' = [locks EXCEPT ![k].queue = Append(@, Nobody)]
            /\ main' = "raised"
       ELSE /\ main' = "ran"
            /\ UNCHANGED locks
    /\ UNCHANGED <<pc, name, key, ready, left, resolved>>

Next ==
  \/ \E t \in Tasks : Step(t)
  \/ \E n \in Names : MainCall(n)

\* run_all resumes every unfinished task in each pass of its loop.
Spec == Init /\ [][Next]_vars /\ \A t \in Tasks : WF_vars(Step(t))

-----------------------------------------------------------------------------
Waiting(k) == {t \in Tasks : pc[t] = "waiting" /\ key[t] = k}

\* t's function may run: it is inside, or was handed the lock.
Owns(t) == pc[t] = "inside" \/ (pc[t] = "waiting" /\ ready[t])

\* Type invariant.
TypeOK ==
  /\ locks \in [Keys -> [held : BOOLEAN, queue : Seq(Tasks \cup {Nobody})]]
  /\ pc \in [Tasks -> Pcs]
  /\ name \in [Tasks -> Names]
  /\ key \in [Tasks -> Keys]
  /\ ready \in [Tasks -> BOOLEAN]
  /\ left \in [Tasks -> 0 .. MaxYields]
  /\ resolved \in SUBSET Files
  /\ main \in {"idle", "ran", "raised"}

\* Under one key, at most one task runs its function or has been told to,
\* whatever the order in which tasks arrive, wake and leave.
MutualExclusion ==
  \A t, u \in Tasks : Owns(t) /\ Owns(u) /\ key[t] = key[u] => t = u

\* Two writes to the same file never overlap, however its path is spelled.
OneWriterPerFile ==
  \A t, u \in Tasks :
    Owns(t) /\ Owns(u) /\ FileOf[name[t]] = FileOf[name[u]] => t = u

\* Waiters get the lock in the order in which they queued: nobody queued
\* behind t becomes ready while t is not.
HandOffIsFifo ==
  [][\A k \in Keys : \A i, j \in DOMAIN locks[k].queue :
       LET s == locks[k].queue[i]
           t == locks[k].queue[j]
       IN  i < j /\ {s, t} \subseteq Tasks /\ ready'[t] => ready'[s]]_vars

\* Every call returns, no waiter polls its flag for ever, unless a call
\* from outside left a waiter that the lock may be handed to.
EveryoneServed == \A t \in Tasks : <>(pc[t] = "done" \/ main = "raised")

\* First come first served, and everybody is.
ServedInOrder == HandOffIsFifo /\ EveryoneServed
=============================================================================
