----------------------------- MODULE DurableLog -----------------------------
(***************************************************************************)
(* What the session store promises: a process holds one log at a time and  *)
(* each file holds a log.  Records are only ever added at the end.  A save *)
(* that succeeds leaves the file equal to the process's log; one that      *)
(* fails, or dies half way, leaves a log between what the file held and    *)
(* what the process holds.  Opening a file reads back exactly what it      *)
(* holds, and no file is ever shortened except by being removed, or by a   *)
(* copy of another log put in its place.                                   *)
(***************************************************************************)
EXTENDS Naturals, Sequences, SequencesExt

CONSTANTS Paths, NoPath

VARIABLES
  path,    \* the file the process writes to, or NoPath
  log,     \* the process's log
  content  \* [Paths -> the file's log; an absent file holds the empty one]

vars == <<path, log, content>>

Init ==
  /\ path = NoPath
  /\ log = << >>
  /\ content = [p \in Paths |-> << >>]

Open(p) ==
  /\ path' = p
  /\ log' = content[p]
  /\ UNCHANGED content

Add ==
  /\ Len(log') = Len(log) + 1
  /\ IsPrefix(log, log')
  /\ UNCHANGED <<path, content>>

\* The current file may go from what it holds to the first n records of
\* the log, if those begin with what it holds.
Put(n) ==
  /\ path \in Paths
  /\ IsPrefix(content[path], SubSeq(log, 1, n))
  /\ content' = [content EXCEPT ![path] = SubSeq(log, 1, n)]

Save     == Put(Len(log)) /\ UNCHANGED <<path, log>>
Stop     == path' = NoPath /\ log' = << >>
SaveFails == (\E n \in 0 .. Len(log) : Put(n)) /\ UNCHANGED <<path, log>>
SaveDies == (\E n \in 0 .. Len(log) : Put(n)) /\ Stop
Exit     == Stop /\ UNCHANGED content

\* Another file is written from scratch, over whatever it held.
Copy(p) ==
  /\ p # path
  /\ content' = [content EXCEPT ![p] = content'[p]]
  /\ UNCHANGED <<path, log>>

Delete(p) ==
  /\ content' = [content EXCEPT ![p] = << >>]
  /\ UNCHANGED <<path, log>>

Next ==
  \/ \E p \in Paths : Open(p) \/ Copy(p) \/ Delete(p)
  \/ Add \/ Save \/ SaveFails \/ SaveDies \/ Exit

Spec == Init /\ [][Next]_vars
=============================================================================
