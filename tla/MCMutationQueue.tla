--------------------------- MODULE MCMutationQueue ---------------------------
(* Three tasks and two files, one of them with two names. *)
EXTENDS MutationQueue, TLC

CONSTANTS t1, t2, t3, a1, a2, b, fa, fb

MCTasks  == {t1, t2, t3}
MCNames  == {a1, a2, b}
MCFiles  == {fa, fb}
MCFileOf == [n \in MCNames |-> IF n = b THEN fb ELSE fa]
=============================================================================
