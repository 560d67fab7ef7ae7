-------------------------------- MODULE Keys --------------------------------
(***************************************************************************)
(* How src/src/lua/vm.c reads keys from the bytes of a terminal, which     *)
(* come at any pace: a lone Escape, the prefix of a sequence and the lead  *)
(* of a character are told apart by how long the next byte takes.          *)
(*                                                                         *)
(* The text is what arrives: bytes, each named for its class, the digits   *)
(* of a parameter as one ("200", "1;5"), and between two bytes perhaps a   *)
(* "gap", too long inside a sequence but not at its start, or a "pause",   *)
(* too long anywhere.                                                      *)
(***************************************************************************)
EXTENDS Texts

CONSTANT BufferSize  \* PSI_VM_TUI_ESCAPE_SEQUENCE_MAX

Finals == {"a", "A", "~", "[", "O"}        \* may end a sequence
OrphanFinals == {"a", "A", "~", "O"}       \* may be what is left of one
Digits == {"200", "201", "1;5"}
Leads == [lead2 |-> 1, lead3 |-> 2]        \* the bytes that follow
Printable == {"a", "A", "~", "[", "O", "!"} \cup Digits
KeyBytes == {"esc", "ctl", "tail"} \cup DOMAIN Leads \cup Printable
Silences == {"gap", "pause"}
NoKey == "no key"

\* Mutant: inside a sequence the next byte is waited for.
ReadByte_Waits(s, i, atStart) ==
  IF i > Len(s) THEN 0
  ELSE IF s[i] \notin Silences THEN i
  ELSE IF (s[i] = "gap" \/ ~atStart) /\ i < Len(s) /\ s[i + 1] \notin Silences THEN i + 1
  ELSE 0

\* psi_vm_tui_read_byte: the byte that arrives in time, or 0.  Two silences on
\* end are too long.
ReadByte(s, i, atStart) ==
  IF i > Len(s) THEN 0
  ELSE IF s[i] \notin Silences THEN i
  ELSE IF s[i] = "gap" /\ atStart /\ i < Len(s) /\ s[i + 1] \notin Silences THEN i + 1
  ELSE 0

\* psi_vm_tui_escape_sequence_complete.
Complete(seq) ==
  \/ seq = <<>> \/ seq[1] \notin {"[", "O"}
  \/ seq[1] = "[" /\ \E i \in 2 .. Len(seq) : seq[i] \in Finals
  \/ seq[1] = "O" /\ Len(seq) > 1

\* psi_vm_tui_collect_escape_sequence.  The byte that finds the buffer full is
\* read and lost.
RECURSIVE Collect(_, _, _)
Collect(s, i, seq) ==
  LET at == ReadByte(s, i, seq = <<>>)
      more == Append(seq, s[at])
  IN IF at = 0 THEN [seq |-> seq, next |-> i]
     ELSE IF Len(more) >= BufferSize THEN [seq |-> seq, next |-> at + 1]
     ELSE IF Complete(more) THEN [seq |-> more, next |-> at + 1]
     ELSE Collect(s, at + 1, more)

\* psi_vm_tui_escape_sequence_key: one of the sequences for each of its forms.
SequenceKey(seq) ==
  CASE seq = <<>> -> "escape"
    [] seq = <<"a">> -> "alt"
    [] seq \in {<<"[", "A">>, <<"O", "A">>} -> "up"
    [] seq = <<"[", "200", "~">> -> "paste-start"
    [] seq = <<"[", "201", "~">> -> "paste-end"
    [] seq = <<"[", "1;5", "A">> -> "ctrl-up"
    [] OTHER -> NoKey

\* psi_vm_tui_read_utf8_tail: the byte that is not one of the tail is lost.
RECURSIVE ReadTail(_, _, _)
ReadTail(s, i, n) ==
  LET at == ReadByte(s, i, TRUE)
  IN IF n = 0 THEN [key |-> "text", next |-> i]
     ELSE IF at = 0 THEN [key |-> NoKey, next |-> i]
     ELSE IF s[at] # "tail" THEN [key |-> NoKey, next |-> at + 1]
     ELSE ReadTail(s, at + 1, n - 1)

Event(key, next, discard) == [key |-> key, next |-> next, discard |-> discard]

\* Mutant: a sequence that was cut short is not remembered.
NormalizeKey_Forgets(s, i, discard) ==
  LET r == Collect(s, i + 1, <<>>)
      tail == ReadTail(s, i + 1, Leads[s[i]])
  IN CASE s[i] = "esc" -> IF Complete(r.seq) THEN Event(SequenceKey(r.seq), r.next, FALSE)
                          ELSE Event(NoKey, r.next, FALSE)
       [] s[i] \in DOMAIN Leads -> Event(tail.key, tail.next, FALSE)
       [] s[i] = "tail" -> Event(NoKey, i + 1, FALSE)
       [] s[i] \in {"ctl"} \cup Printable -> Event(s[i], i + 1, FALSE)

\* psi_vm_tui_normalize_key: the key that begins with a byte.  After a sequence
\* that was cut short one byte that may be its end is discarded.
NormalizeKey(s, i, discard) ==
  LET r == Collect(s, i + 1, <<>>)
      tail == ReadTail(s, i + 1, Leads[s[i]])
  IN IF discard /\ s[i] \in OrphanFinals THEN Event(NoKey, i + 1, FALSE)
     ELSE CASE s[i] = "esc" -> IF Complete(r.seq) THEN Event(SequenceKey(r.seq), r.next, FALSE)
                               ELSE Event(NoKey, r.next, TRUE)
            [] s[i] \in DOMAIN Leads -> Event(tail.key, tail.next, FALSE)
            [] s[i] = "tail" -> Event(NoKey, i + 1, FALSE)
            [] s[i] \in {"ctl"} \cup Printable -> Event(s[i], i + 1, FALSE)

\* lfn_tui_poll_key, called until all is read.
RECURSIVE KeysFrom(_, _, _)
KeysFrom(s, i, discard) ==
  IF i > Len(s) THEN <<>>
  ELSE IF s[i] \in Silences THEN KeysFrom(s, i + 1, discard)
  ELSE LET e == NormalizeKey(s, i, discard)
       IN (IF e.key = NoKey THEN <<>> ELSE <<e.key>>) \o KeysFrom(s, e.next, e.discard)
Keys(s) == KeysFrom(s, 1, FALSE)

-----------------------------------------------------------------------------
(* Properties.                                                             *)

Arrivals == Over(KeyBytes \cup Silences)

\* What a terminal sends for each key.
Sent == {<<k>> : k \in {"ctl"} \cup Printable}
        \cup {<<"lead2", "tail">>, <<"lead3", "tail", "tail">>,
              <<"esc", "a">>, <<"esc", "[", "A">>, <<"esc", "O", "A">>,
              <<"esc", "[", "200", "~">>, <<"esc", "[", "201", "~">>, <<"esc", "[", "1;5", "A">>}
KeyOf(k) == CASE k[1] = "esc" -> SequenceKey(Tail(k))
              [] k[1] \in DOMAIN Leads -> "text"
              [] OTHER -> k[1]

\* The keys of what a terminal sent, if that is what a text is: whole keys,
\* lone Escapes with a pause after them, and sequences whose last byte came
\* late, which are no key.
NotSent == <<"not sent">>
RECURSIVE Meant(_)
Meant(s) ==
  LET begins(k) == Len(k) <= Len(s) /\ SubSeq(s, 1, Len(k)) = k
      rest(n) == SubSeq(s, n + 1, Len(s))
      whole == {k \in Sent : begins(k)}
      late == {k \in Sent : /\ Len(k) > 2 /\ k[1] = "esc"
                            /\ \E silence \in Silences :
                                 begins(Append(Front(k), silence) \o <<Last(k)>>)}
      then(keys, others) == IF others = NotSent THEN NotSent ELSE keys \o others
  IN IF s = <<>> THEN <<>>
     ELSE IF Head(s) \in Silences THEN Meant(Tail(s))
     ELSE IF whole # {}
     THEN LET k == CHOOSE k \in whole : TRUE IN then(<<KeyOf(k)>>, Meant(rest(Len(k))))
     ELSE IF late # {} THEN Meant(rest(Len(CHOOSE k \in late : TRUE) + 1))
     ELSE IF s[1] = "esc" /\ (Len(s) = 1 \/ s[2] = "pause") THEN then(<<"escape">>, Meant(rest(1)))
     ELSE NotSent

\* The keys that were sent are read, each once and in order, however fast they
\* follow on each other; and a sequence whose last byte comes late types
\* nothing.
KeysAreRead == Arrivals => LET keys == Meant(text) IN keys # NotSent => Keys(text) = keys

\* Whatever came before it, a pause puts the reader right again: what follows
\* is read as if it were the first, but for one byte that may be taken for the
\* end of a sequence.
PauseResyncs ==
  Arrivals => \A i \in DOMAIN text :
    text[i] = "pause" =>
      LET before == Keys(SubSeq(text, 1, i - 1))
          after == SubSeq(text, i + 1, Len(text))
          first == SelectInSeq(after, LAMBDA byte : byte \notin Silences)
      IN \/ Keys(text) = before \o Keys(after)
         \/ /\ first # 0 /\ after[first] \in OrphanFinals
            /\ Keys(text) = before \o Keys(SubSeq(after, first + 1, Len(after)))

\* What was typed is what is read.
KeysAreTrue == KeysAreRead /\ PauseResyncs
=============================================================================
