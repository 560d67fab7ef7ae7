----------------------------- MODULE ByteStream -----------------------------
(***************************************************************************)
(* What an HTTP stream promises its reader: the chunks that arrive are     *)
(* handed over in order and without a gap; once the reader is told that    *)
(* the stream has ended nothing more arrives, and if the verdict is going  *)
(* to be good the reader has everything.  A reader who leaves early is     *)
(* promised only a verdict.                                                *)
(***************************************************************************)
EXTENDS Naturals

VARIABLES
  sent,    \* chunks that arrived, numbered from 1
  got,     \* what the reader was given
  reader,  \* "reading", "ended", "left" or "closed"
  outcome  \* "none" until it is settled, then "ok" or "failed"

vars == <<sent, got, reader, outcome>>

UpTo(n) == [i \in 1 .. n |-> i]

Init == sent = 0 /\ got = << >> /\ reader = "reading" /\ outcome = "none"

Send ==
  /\ reader \in {"reading", "left"}
  /\ sent' = sent + 1
  /\ UNCHANGED <<got, reader, outcome>>

Deliver ==
  /\ reader = "reading"
  /\ \E m \in 0 .. sent : \E n \in m .. sent : got = UpTo(m) /\ got' = UpTo(n)
  /\ UNCHANGED <<sent, reader, outcome>>

End(v) ==
  /\ reader = "reading"
  /\ v = "ok" => got = UpTo(sent)
  /\ reader' = "ended"
  /\ outcome' = v
  /\ UNCHANGED <<sent, got>>

Leave == reader = "reading" /\ reader' = "left" /\ UNCHANGED <<sent, got, outcome>>

Close ==
  /\ \/ reader = "ended" /\ UNCHANGED outcome
     \/ reader = "left" /\ outcome' \in {"ok", "failed"}
  /\ reader' = "closed"
  /\ UNCHANGED <<sent, got>>

Next == Send \/ Deliver \/ (\E v \in {"ok", "failed"} : End(v)) \/ Leave \/ Close

Spec == Init /\ [][Next]_vars
=============================================================================
