---------------------------- MODULE CommandLines ----------------------------
(***************************************************************************)
(* How src/src/core/process.c turns the arguments of a call into the       *)
(* command line that CreateProcess takes: quoted, joined and in UTF-16.    *)
(*                                                                         *)
(* The text is the arguments after the program, with "," between two of    *)
(* them; "/c" stands for that switch and "n" for any other character.  Or  *)
(* it is the bytes of a command line, by their hexadecimal names.          *)
(***************************************************************************)
EXTENDS Texts

Quote == "\""
Slash == "\\"
Slashes(n) == [i \in 1 .. n |-> Slash]

\* psi_process_windows_arg_needs_quotes.
NeedsQuotes(arg) == arg = <<>> \/ \E i \in DOMAIN arg : arg[i] \in {" ", Quote}

\* A pass of the loop: backslashes are held back until it is known what follows.
Escape(c, ch) ==
  IF ch = Slash THEN [c EXCEPT !.slashes = @ + 1]
  ELSE [out |-> c.out \o Slashes(IF ch = Quote THEN 2 * c.slashes + 1 ELSE c.slashes) \o <<ch>>,
        slashes |-> 0]
Escaped(arg) ==
  LET after[n \in 0 .. Len(arg)] ==
        IF n = 0 THEN [out |-> <<>>, slashes |-> 0] ELSE Escape(after[n - 1], arg[n])
  IN  after[Len(arg)]

\* Mutant: backslashes before the closing quote are not doubled.
Quoted_Open(arg) ==
  IF ~NeedsQuotes(arg) THEN arg
  ELSE <<Quote>> \o Escaped(arg).out \o Slashes(Escaped(arg).slashes) \o <<Quote>>

\* psi_process_windows_append_quoted_arg.
Quoted(arg) ==
  IF ~NeedsQuotes(arg) THEN arg
  ELSE <<Quote>> \o Escaped(arg).out \o Slashes(2 * Escaped(arg).slashes) \o <<Quote>>

\* psi_process_cmd_tail_index: what follows the switch is the shell's to parse.
TailIndex(args) ==
  LET switches == {i \in DOMAIN args : args[i] = <<"/c">> /\ i < Len(args)}
  IN IF switches = {} THEN Len(args) + 1 ELSE 1 + CHOOSE i \in switches : \A j \in switches : i <= j

\* psi_process_windows_build_cmdline, without the program.
Piece(args, tail, k) == <<" ">> \o (IF k >= tail THEN args[k] ELSE Quoted(args[k]))
BuildCmdline(args, tail) ==
  LET line[k \in 0 .. Len(args)] == IF k = 0 THEN <<>> ELSE line[k - 1] \o Piece(args, tail, k)
  IN  line[Len(args)]

-----------------------------------------------------------------------------
(* psi_process_utf8_to_utf16.                                              *)

Replacement == 65533
ByteOf == [x41 |-> 65, x80 |-> 128, x90 |-> 144, xA0 |-> 160, xC0 |-> 192, xC3 |-> 195,
           xE0 |-> 224, xED |-> 237, xEF |-> 239, xF0 |-> 240, xF4 |-> 244]

\* psi_process_utf8_continuation.
Continuation(b, i, n) == i + n <= Len(b) /\ \A k \in 1 .. n : b[i + k] \div 64 = 2

\* The code point that a byte and the n bytes after it spell.
Spelled(b, i, n) ==
  LET c == b[i]
      low(k) == b[i + k] % 64
  IN IF n = 0 THEN c
     ELSE IF n = 1 THEN (c % 32) * 64 + low(1)
     ELSE IF n = 2 THEN (c % 16) * 4096 + low(1) * 64 + low(2)
     ELSE (c % 8) * 262144 + low(1) * 4096 + low(2) * 64 + low(3)

Surrogate(cp) == 55296 <= cp /\ cp <= 57343

\* Mutant: a code point may be written longer than it need be.
Allowed_Overlong(cp, n) ==
  \/ n \in {0, 1}
  \/ n = 2 /\ ~Surrogate(cp)
  \/ n = 3 /\ 65536 <= cp /\ cp <= 1114111

\* The code points that n bytes may follow.
Allowed(cp, n) ==
  \/ n = 0
  \/ n = 1 /\ 128 <= cp
  \/ n = 2 /\ 2048 <= cp /\ ~Surrogate(cp)
  \/ n = 3 /\ 65536 <= cp /\ cp <= 1114111

\* The code point that begins at a byte.
Code(b, i, n) ==
  [cp |-> IF Allowed(Spelled(b, i, n), n) THEN Spelled(b, i, n) ELSE Replacement, next |-> i + n + 1]
CodeAt(b, i) ==
  IF b[i] < 128 THEN Code(b, i, 0)
  ELSE IF b[i] \div 32 = 6 /\ Continuation(b, i, 1) THEN Code(b, i, 1)
  ELSE IF b[i] \div 16 = 14 /\ Continuation(b, i, 2) THEN Code(b, i, 2)
  ELSE IF b[i] \div 8 = 30 /\ Continuation(b, i, 3) THEN Code(b, i, 3)
  ELSE [cp |-> Replacement, next |-> i + 1]

Units(cp) ==
  IF cp < 65536 THEN <<cp>>
  ELSE <<55296 + (cp - 65536) \div 1024, 56320 + ((cp - 65536) % 1024)>>

\* A pass of the loop, of which there is one a byte at most.
Decode(c, b) ==
  IF c.at > Len(b) THEN c
  ELSE LET code == CodeAt(b, c.at) IN [at |-> code.next, units |-> c.units \o Units(code.cp)]
Utf8ToUtf16(b) ==
  LET after[n \in 0 .. Len(b)] ==
        IF n = 0 THEN [at |-> 1, units |-> <<>>] ELSE Decode(after[n - 1], b)
  IN  after[Len(b)].units

-----------------------------------------------------------------------------
(* Properties.                                                             *)

\* What the C runtime of a Windows program makes of its command line.
Unread == [args |-> <<>>, arg |-> <<>>, begun |-> FALSE, quoted |-> FALSE, slashes |-> 0]
Ended(c) ==
  IF c.begun THEN [Unread EXCEPT !.args = Append(c.args, c.arg \o Slashes(c.slashes))]
  ELSE [Unread EXCEPT !.args = c.args]
Scan(c, ch) ==
  CASE ch = Slash -> [c EXCEPT !.slashes = @ + 1, !.begun = TRUE]
    [] ch = Quote -> LET arg == c.arg \o Slashes(c.slashes \div 2)
                         literal == c.slashes % 2 = 1
                     IN [c EXCEPT !.arg = IF literal THEN Append(arg, Quote) ELSE arg,
                                  !.quoted = IF literal THEN @ ELSE ~@,
                                  !.begun = TRUE, !.slashes = 0]
    [] ch = " " /\ ~c.quoted -> Ended(c)
    [] OTHER -> [c EXCEPT !.arg = @ \o Slashes(c.slashes) \o <<ch>>, !.begun = TRUE, !.slashes = 0]
Scanned(line) ==
  LET after[n \in 0 .. Len(line)] == IF n = 0 THEN Unread ELSE Scan(after[n - 1], line[n])
  IN  after[Len(line)]
Parsed(line) == Ended(Scanned(line)).args

\* The arguments between the commas of a text.
Split(args, ch) ==
  IF ch = "," THEN Append(args, <<>>) ELSE [args EXCEPT ![Len(args)] = Append(@, ch)]
Arguments(s) ==
  LET after[n \in 0 .. Len(s)] == IF n = 0 THEN <<(<<>>)>> ELSE Split(after[n - 1], s[n])
  IN  after[Len(s)]

\* The arguments from the tail on, as they are.
Plainly(args, tail) ==
  LET raw[k \in 0 .. Len(args)] ==
        IF k = 0 THEN <<>> ELSE raw[k - 1] \o (IF k < tail THEN <<>> ELSE <<" ">> \o args[k])
  IN  raw[Len(args)]

\* The program gets the arguments that it was given, the empty ones and those
\* with blanks, quotes and backslashes at their ends included; and a shell gets
\* what follows its switch untouched.
ArgumentsArrive ==
  Over({"n", " ", ",", "/c", Slash, Quote}) =>
    LET args == Arguments(text)
        tail == TailIndex(args)
        raw == Plainly(args, tail)
        line == BuildCmdline(args, tail)
        head == SubSeq(line, 1, Len(line) - Len(raw))
    IN /\ Parsed(BuildCmdline(args, Len(args) + 1)) = args
       /\ line = head \o raw /\ Parsed(head) = SubSeq(args, 1, tail - 1)

\* A sequence of bytes that Unicode calls well formed is at this place, and n
\* bytes follow its first.
Sequence(b, i, n) ==
  LET follows(firsts) == b[i + 1] \in firsts /\ \A k \in 2 .. n : b[i + k] \in 128 .. 191
  IN /\ i + n <= Len(b)
     /\ \/ n = 0 /\ b[i] \in 0 .. 127
        \/ n = 1 /\ b[i] \in 194 .. 223 /\ follows(128 .. 191)
        \/ n = 2 /\ b[i] = 224 /\ follows(160 .. 191)
        \/ n = 2 /\ b[i] \in (225 .. 239) \ {237} /\ follows(128 .. 191)
        \/ n = 2 /\ b[i] = 237 /\ follows(128 .. 159)
        \/ n = 3 /\ b[i] = 240 /\ follows(144 .. 191)
        \/ n = 3 /\ b[i] \in 241 .. 243 /\ follows(128 .. 191)
        \/ n = 3 /\ b[i] = 244 /\ follows(128 .. 143)

\* Every byte is in one.  No two overlap, since none begins inside another.
WellFormed(b) == \A i \in DOMAIN b : \E n \in 0 .. 3, j \in 1 .. i : i <= j + n /\ Sequence(b, j, n)

Utf8(cp) ==
  IF cp < 128 THEN <<cp>>
  ELSE IF cp < 2048 THEN <<192 + cp \div 64, 128 + (cp % 64)>>
  ELSE IF cp < 65536 THEN <<224 + cp \div 4096, 128 + ((cp \div 64) % 64), 128 + (cp % 64)>>
  ELSE <<240 + cp \div 262144, 128 + ((cp \div 4096) % 64),
         128 + ((cp \div 64) % 64), 128 + (cp % 64)>>

\* The halves of a surrogate pair.
High == 55296 .. 56319
Low == 56320 .. 57343

\* The bytes of what ends with a unit: of a character, or of a pair.
Encode(u, n) ==
  IF u[n] \in High THEN <<>>
  ELSE IF u[n] \in Low THEN Utf8(65536 + (u[n - 1] - 55296) * 1024 + u[n] - 56320)
  ELSE Utf8(u[n])
Encoded(u) ==
  LET bytes[n \in 0 .. Len(u)] == IF n = 0 THEN <<>> ELSE bytes[n - 1] \o Encode(u, n)
  IN  bytes[Len(u)]

\* The units fit where there is room for as many as there were bytes; each half
\* of a surrogate pair has the other; and they are the same text if the bytes
\* were well formed, and another one, which can only be the replaced one, if not.
Utf16IsTheText ==
  Over(DOMAIN ByteOf) =>
    LET b == [i \in DOMAIN text |-> ByteOf[text[i]]]
        u == Utf8ToUtf16(b)
        high(i) == i \in DOMAIN u /\ u[i] \in High
        low(i) == i \in DOMAIN u /\ u[i] \in Low
    IN /\ Len(u) <= Len(b)
       /\ \A i \in 0 .. Len(u) : high(i) <=> low(i + 1)
       /\ Encoded(u) = b <=> WellFormed(b)
       /\ WellFormed(b) \/ Replacement \in Range(u)

\* What is run is what was asked for.
CommandIsTold == ArgumentsArrive /\ Utf16IsTheText
=============================================================================
