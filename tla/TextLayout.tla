----------------------------- MODULE TextLayout -----------------------------
(***************************************************************************)
(* The terminal text primitives of src/src/lua/vm.c: how a text with       *)
(* escape sequences is cut into clusters, measured, clipped, padded and    *)
(* wrapped.                                                                *)
(*                                                                         *)
(* A text is a sequence of code points and escape sequences, each one      *)
(* named for its class:                                                    *)
(*   n narrow, w wide, m zero-width mark, e emoji modifier,                *)
(*   j ZWJ, x ZWNJ, r regional indicator, k Indic consonant, l linker,     *)
(*   s space, t tab, b line break,                                         *)
(*   O, o open and close a hyperlink, E any other escape, and the SGR      *)
(*   sequences of Sgr, each with its parameters.                           *)
(* A wrapped line is a sequence of positions of the text, with the things  *)
(* that wrapping adds: Space, UnderOff, LinkClose.                         *)
(***************************************************************************)
EXTENDS Texts

CONSTANT Widths  \* the widths a text is wrapped and clipped to

Sgr == [U |-> <<4>>, u |-> <<24>>, C |-> <<31>>, R |-> <<0>>,
        P |-> <<38, 5, 24>>,         \* a colour whose index is an attribute's code
        B |-> <<48, 5, 0>>,          \* a colour whose index is a reset's code
        Z |-> <<0, 4, 31>>]          \* a reset and what holds after it
Escapes == DOMAIN Sgr \cup {"O", "o", "E"}
Blanks == {"s", "t"}
Classes == {"n", "w", "m", "e", "j", "x", "r", "k", "l", "b"} \cup Blanks \cup Escapes
Space == -1
UnderOff == -2
LinkClose == -3

-----------------------------------------------------------------------------
(* Clusters.                                                               *)

\* psi_wcwidth looks a code point up in its tables in turn.
CellWidth(t) == IF t \in {"w", "e", "r"} THEN 2 ELSE IF t \in {"n", "k", "s"} THEN 1 ELSE 0
Width(t) == IF t = "t" THEN 3 ELSE CellWidth(t)
IsModifier(t) == t \in {"m", "l", "x", "e"}

\* The loop of psi_vm_text_next_cluster: what the cluster takes in after its
\* first code point.  chain and linked follow an Indic conjunct, zwj says that
\* the last joiner still waits for what it joins.
RECURSIVE Absorb(_, _, _)
Absorb(s, i, c) ==
  IF i > Len(s) THEN [next |-> i, width |-> c.width]
  ELSE IF c.chain /\ s[i] = "l" THEN Absorb(s, i + 1, [c EXCEPT !.linked = TRUE])
  ELSE IF s[i] = "x"
  THEN Absorb(s, i + 1, [c EXCEPT !.chain = FALSE, !.linked = FALSE, !.zwj = FALSE])
  ELSE IF IsModifier(s[i]) THEN Absorb(s, i + 1, c)
  ELSE IF s[i] = "j" THEN Absorb(s, i + 1, [c EXCEPT !.zwj = @ \/ ~c.indic])
  ELSE IF c.chain /\ c.linked /\ s[i] = "k"
  THEN Absorb(s, i + 1, [c EXCEPT !.linked = FALSE, !.width = @ + Width("k")])
  ELSE IF c.zwj
  THEN Absorb(s, i + 1, [c EXCEPT !.zwj = FALSE,
                                  !.width = Larger(2, Larger(@, Width(s[i])))])
  ELSE [next |-> i, width |-> c.width]

Cluster(s, i) ==
  LET flag == s[i] = "r"
      pair == flag /\ i < Len(s) /\ s[i + 1] = "r"
      indic == s[i] = "k"
  IN Absorb(s, IF pair THEN i + 2 ELSE i + 1,
            [width |-> IF flag THEN 2 ELSE Width(s[i]), indic |-> indic,
             chain |-> indic, linked |-> FALSE, zwj |-> FALSE])

Kind(t) == CASE t \in Escapes -> "escape" [] t = "b" -> "break"
             [] t \in Blanks -> "blank" [] OTHER -> "text"

\* The text as the loops over it see it: escapes, line breaks and clusters.
RECURSIVE ItemsFrom(_, _)
ItemsFrom(s, i) ==
  IF i > Len(s) THEN <<>>
  ELSE LET c == IF Kind(s[i]) \in {"escape", "break"} THEN [next |-> i + 1, width |-> 0]
                ELSE Cluster(s, i)
       IN <<[kind |-> Kind(s[i]), from |-> i, to |-> c.next - 1, width |-> c.width]>>
            \o ItemsFrom(s, c.next)
Items(s) == ItemsFrom(s, 1)

Sum(is) == FoldLeft(LAMBDA a, item : a + item.width, 0, is)
Positions(item) == [k \in 1 .. item.to - item.from + 1 |-> item.from + k - 1]

\* psi_vm_text_visible_width_bytes.  A line break measures as a control: 0.
VisibleWidth(s) == Sum(Items(s))

\* Mutant: a cluster that just fits is cut off.
Cut_Short(s, width) ==
  LET is == Items(s)
      over == {k \in DOMAIN is : Sum(SubSeq(is, 1, k)) >= width}
  IN IF width <= 0 THEN 0
     ELSE IF over = {} THEN Len(s)
     ELSE is[CHOOSE k \in over : \A j \in over : k <= j].from - 1

\* lfn_tui_text_byte_index_for_width: where the first cluster that does not
\* fit begins.
Cut(s, width) ==
  LET is == Items(s)
      over == {k \in DOMAIN is : Sum(SubSeq(is, 1, k)) > width}
  IN IF width <= 0 THEN 0
     ELSE IF over = {} THEN Len(s)
     ELSE is[CHOOSE k \in over : \A j \in over : k <= j].from - 1

\* lfn_tui_text_pad_line.
Pad(s, width) ==
  LET missing == width - VisibleWidth(s)
  IN s \o [k \in 1 .. Larger(0, missing) |-> "s"]

-----------------------------------------------------------------------------
(* Wrapping.  A context is psi_vm_text_wrap_context: finished lines, the   *)
(* line and the word being built with their widths, the blanks between     *)
(* them, and the styles that are active at the end of the line.            *)

Fresh == [lines |-> <<>>, line |-> <<>>, lineWidth |-> 0, word |-> <<>>,
          pending |-> FALSE, pendingWidth |-> 0, soft |-> FALSE,
          underline |-> FALSE, sgr |-> <<>>, link |-> <<>>]

\* psi_vm_text_sgr_resets: any parameter that is 0 makes the whole a reset.
Resets(ps) == 0 \in Range(ps)

\* Mutant: the parameters of a colour are read as attributes.
Underlined_NoSkip(ps, was) ==
  FoldLeft(LAMBDA on, p : IF p \in {0, 24} THEN FALSE ELSE IF p = 4 THEN TRUE ELSE on, was, ps)

\* The loop of psi_vm_text_update_sgr_flags: the parameters of a colour are
\* passed over.
Parameter(f, p) ==
  CASE f.colour -> [f EXCEPT !.colour = FALSE,
                             !.skip = IF p = 5 THEN 1 ELSE IF p = 2 THEN 3 ELSE 0]
    [] ~f.colour /\ f.skip > 0 -> [f EXCEPT !.skip = @ - 1]
    [] ~f.colour /\ f.skip = 0 /\ p \in {0, 24} -> [f EXCEPT !.underline = FALSE]
    [] ~f.colour /\ f.skip = 0 /\ p = 4 -> [f EXCEPT !.underline = TRUE]
    [] ~f.colour /\ f.skip = 0 /\ p \in {38, 48} -> [f EXCEPT !.colour = TRUE]
    [] OTHER -> f
Underlined(ps, was) ==
  FoldLeft(Parameter, [underline |-> was, colour |-> FALSE, skip |-> 0], ps).underline

\* psi_vm_text_update_active_sgr, psi_vm_text_update_active_osc8.
ActivateSgr(c, i) ==
  LET ps == Sgr[text[i]]
  IN IF Resets(ps) THEN [c EXCEPT !.underline = FALSE, !.sgr = <<>>]
     ELSE [c EXCEPT !.underline = Underlined(ps, @), !.sgr = Append(@, i)]
ActivateLink(c, i) == [c EXCEPT !.link = IF text[i] = "O" THEN <<i>> ELSE <<>>]

Activate(c, i) ==
  CASE text[i] \in DOMAIN Sgr -> ActivateSgr(c, i)
    [] text[i] \in {"O", "o"} -> ActivateLink(c, i)
    [] OTHER -> c

\* psi_vm_text_wrap_push_line: what is still open is closed, and opened again
\* at the start of the next line.
PushLine(c, final) ==
  LET open == ~final /\ c.line # <<>>
  IN [c EXCEPT
        !.lines = Append(@, c.line \o (IF open /\ c.underline THEN <<UnderOff>> ELSE <<>>)
                                  \o (IF open /\ c.link # <<>> THEN <<LinkClose>> ELSE <<>>)),
        !.line = IF final THEN <<>> ELSE c.sgr \o c.link]

SoftBreak(c) == [PushLine(c, FALSE) EXCEPT !.lineWidth = 0, !.soft = TRUE]

\* Mutant: only a full line is broken, not one that the piece would overfill.
AppendPiece_WhenFull(c, piece, w, width) ==
  IF w = 0 THEN [c EXCEPT !.line = @ \o piece]
  ELSE LET d == IF c.lineWidth >= width THEN SoftBreak(c) ELSE c
       IN [d EXCEPT !.line = @ \o piece, !.lineWidth = @ + w, !.soft = FALSE]

\* psi_vm_text_wrap_append_piece.
AppendPiece(c, piece, w, width) ==
  IF w = 0 THEN [c EXCEPT !.line = @ \o piece]
  ELSE LET d == IF c.lineWidth > 0 /\ c.lineWidth + w > width THEN SoftBreak(c) ELSE c
       IN [d EXCEPT !.line = @ \o piece, !.lineWidth = @ + w, !.soft = FALSE]

\* Mutant: a run of blanks counts as one.
FlushBlanks_Collapsed(c, width) ==
  LET d == IF ~c.pending \/ (c.lineWidth = 0 /\ c.soft) THEN c
           ELSE IF c.lineWidth > 0 /\ c.lineWidth + 1 + Sum(c.word) > width
           THEN SoftBreak(c)
           ELSE [c EXCEPT !.line = @ \o <<Space>>, !.lineWidth = @ + 1]
  IN [d EXCEPT !.pending = FALSE, !.pendingWidth = 0]

\* The blanks before a word: dropped at the start of a soft-wrapped line,
\* replaced by the break when the word does not fit, kept otherwise.
FlushBlanks(c, width) ==
  LET n == Larger(1, c.pendingWidth)
      d == IF ~c.pending \/ (c.lineWidth = 0 /\ c.soft) THEN c
           ELSE IF c.lineWidth > 0 /\ c.lineWidth + n + Sum(c.word) > width
           THEN SoftBreak(c)
           ELSE [c EXCEPT !.line = @ \o [k \in 1 .. n |-> Space], !.lineWidth = @ + n]
  IN [d EXCEPT !.pending = FALSE, !.pendingWidth = 0]

\* A word that fits on a line goes there whole, styles and all; a longer one
\* goes cluster by cluster.
FlushWord(c, width) ==
  IF c.word = <<>> THEN c
  ELSE LET d == FlushBlanks(c, width)
           whole == AppendPiece(d, FlattenSeq([k \in DOMAIN c.word |-> Positions(c.word[k])]),
                                Sum(c.word), width)
           put(e, item) ==
             IF item.kind = "escape"
             THEN Activate([e EXCEPT !.line = Append(@, item.from)], item.from)
             ELSE AppendPiece(e, Positions(item), item.width, width)
           style(e, item) == IF item.kind = "escape" THEN Activate(e, item.from) ELSE e
           placed == IF Sum(c.word) <= width THEN FoldLeft(style, whole, c.word)
                     ELSE FoldLeft(put, d, c.word)
       IN [placed EXCEPT !.word = <<>>]

\* The loop of lfn_tui_text_wrap_ansi.
Step(c, item, width) ==
  CASE item.kind = "break" ->
         [PushLine(FlushWord(c, width), FALSE) EXCEPT
            !.lineWidth = 0, !.pending = FALSE, !.pendingWidth = 0, !.soft = FALSE]
    [] item.kind = "blank" ->
         [FlushWord(c, width) EXCEPT
            !.pending = TRUE, !.pendingWidth = @ + Larger(1, item.width)]
    [] OTHER -> [c EXCEPT !.word = Append(@, item)]

\* psi_vm_text_wrap_preserve.
StepPreserving(c, item, width) ==
  CASE item.kind = "break" -> [PushLine(c, FALSE) EXCEPT !.lineWidth = 0]
    [] item.kind = "escape" -> Activate([c EXCEPT !.line = Append(@, item.from)], item.from)
    [] OTHER -> AppendPiece(c, Positions(item), item.width, width)

\* Mutant: a last line that holds only what has no width is forgotten.
LastLine_Wide(c) ==
  IF c.lineWidth > 0 \/ c.lines = <<>> THEN PushLine(c, TRUE).lines ELSE c.lines

LastLine(c) == IF c.line # <<>> \/ c.lines = <<>> THEN PushLine(c, TRUE).lines ELSE c.lines

Wrap(width, preserve) ==
  LET step(c, item) == IF preserve THEN StepPreserving(c, item, width)
                       ELSE Step(c, item, width)
      c == FoldLeft(step, Fresh, Items(text))
  IN LastLine(IF preserve THEN c ELSE FlushWord(c, width))

-----------------------------------------------------------------------------
(* What the outcome is compared with.                                      *)

\* A joiner that joins nothing takes the byte after it into its cluster, the
\* first byte of an escape sequence too; such texts are left out.
Joins(s) == \A i \in DOMAIN s : s[i] = "j" =>
              i < Len(s) /\ s[i + 1] \in {"n", "w", "r", "k"}

IsText(p) == p > 0 /\ text[p] \notin Escapes
Solid(p) == text[p] \notin Blanks \cup {"b"}

\* The style of what follows a sequence of escapes, real or added, on the
\* terminal: SGR parameters are read one by one, those of a colour together.
Plain == [underline |-> FALSE, colour |-> FALSE, link |-> FALSE]
SgrStyle(style, t) ==
  CASE t \in {"U"} -> [style EXCEPT !.underline = TRUE]
    [] t \in {"u"} -> [style EXCEPT !.underline = FALSE]
    [] t \in {"C", "P", "B"} -> [style EXCEPT !.colour = TRUE]
    [] t = "R" -> [style EXCEPT !.underline = FALSE, !.colour = FALSE]
    [] t = "Z" -> [style EXCEPT !.underline = TRUE, !.colour = TRUE]
Styled(style, p) ==
  CASE p = UnderOff -> [style EXCEPT !.underline = FALSE]
    [] p = LinkClose -> [style EXCEPT !.link = FALSE]
    [] p = Space -> style
    [] p > 0 /\ text[p] \in DOMAIN Sgr -> SgrStyle(style, text[p])
    [] p > 0 /\ text[p] = "O" -> [style EXCEPT !.link = TRUE]
    [] p > 0 /\ text[p] = "o" -> [style EXCEPT !.link = FALSE]
    [] OTHER -> style
StyleAfter(line) == FoldLeft(Styled, Plain, line)

\* A sequence that is taken for a reset and is more than one.
Misread == \E i \in DOMAIN text : text[i] \in {"B", "Z"}

\* A wrapped line as a text again.
Shown(line) == [k \in DOMAIN line |-> CASE line[k] = Space -> "s"
                                       [] line[k] \in {UnderOff, LinkClose} -> "E"
                                       [] OTHER -> text[line[k]]]
Laid == Over(Classes) /\ Joins(text)
WrappedWith(P(_, _, _)) ==
  Laid => \A width \in Widths, preserve \in BOOLEAN :
                   P(Wrap(width, preserve), width, preserve)

\* Properties.

\* Wrapping loses nothing, doubles nothing and changes no order: the clusters
\* and escapes of the text, each where it first appears, are those of the
\* lines (a mark that clings to a blank is lost and is excused; see README).
ClustersKept ==
  LET firsts(s) == SelectSeq([k \in DOMAIN s |-> <<s[k], k>>],
                     LAMBDA e : \A j \in 1 .. e[2] - 1 : s[j] # e[1])
      unclung == FoldLeft(LAMBDA acc, item :
                            IF item.kind \in {"text", "escape"}
                            THEN acc \o Positions(item) ELSE acc, <<>>, Items(text))
      kept(lines, width, preserve) ==
        LET out == firsts(SelectSeq(FlattenSeq(lines),
                            LAMBDA p : p > 0 /\ p \in Range(unclung)))
        IN [k \in DOMAIN out |-> out[k][1]] = unclung
  IN WrappedWith(kept)

\* No line is wider than it may be: one that is holds a single cluster that is
\* itself too wide, or nothing but an indentation that is.
LinesFit ==
  LET fits(lines, width, preserve) ==
        \A n \in DOMAIN lines :
          LET s == Shown(lines[n])
              wide == {item \in Range(Items(s)) : item.width > 0}
          IN \/ VisibleWidth(s) <= width
             \/ Cardinality(wide) = 1
             \/ \A item \in wide : item.kind = "blank"
  IN WrappedWith(fits)

\* Every visible code point has the style on its own line, drawn after a reset,
\* that it has in the text; and no line but the last leaves its underline or
\* its hyperlink open for what is drawn after it.  A text with a sequence that
\* is taken for a reset and is more than one (Misread) loses its styles at the
\* next line; see README.
StyleKept ==
  LET kept(lines, width, preserve) ==
        \A n \in DOMAIN lines :
          /\ \A k \in DOMAIN lines[n] :
               IsText(lines[n][k]) =>
                 StyleAfter(SubSeq(lines[n], 1, k))
                   = StyleAfter([i \in 1 .. lines[n][k] |-> i])
          /\ n < Len(lines) => LET end == StyleAfter(lines[n])
                               IN ~end.underline /\ ~end.link
  IN Misread \/ WrappedWith(kept)

\* Blanks between two words of one line, and before the first word of a source
\* line, keep their width; a soft-wrapped line starts with its word.
BlanksKept ==
  LET is == Items(text)
      kept(lines, width, preserve) ==
        \A n \in DOMAIN lines :
          LET line == lines[n]
              solid == {k \in DOMAIN line : IsText(line[k])}
              before(k) ==     \* the blanks of the text that the cluster follows
                {b \in {is[i] : i \in DOMAIN is} :
                   /\ b.kind = "blank" /\ b.from < line[k]
                   /\ \A i \in DOMAIN is :
                        b.from < is[i].from /\ is[i].from < line[k] =>
                          is[i].kind \in {"blank", "escape"}}
              blanks(k) == Cardinality({j \in 1 .. k - 1 :
                             line[j] = Space /\ ~ \E i \in solid : j < i /\ i < k})
              first(k) == \A i \in solid : k <= i
              soft(k) ==       \* the line before has text or blanks of this source line
                /\ n > 1
                /\ \E j \in DOMAIN lines[n - 1] :
                     /\ lines[n - 1][j] = Space \/ IsText(lines[n - 1][j])
                     /\ \A i \in j .. Len(lines[n - 1]) :
                          LET p == lines[n - 1][i]
                          IN /\ lines[n - 1][j] = Space => ~IsText(p)
                             /\ p > 0 => \A q \in p .. line[k] - 1 : text[q] # "b"
          IN \A k \in solid :
               (\E i \in DOMAIN is : is[i].from = line[k]) =>
                 blanks(k) = IF first(k) /\ soft(k) THEN 0
                             ELSE FoldLeft(LAMBDA a, b : a + Larger(1, b.width), 0,
                                           SetToSeq(before(k)))
      blanksKept(lines, width, preserve) == preserve \/ kept(lines, width, preserve)
  IN WrappedWith(blanksKept)

\* A clipped text fits and the next cluster would not; cutting measures the
\* same as the whole did up to the cut, and a padded text is exactly as wide as
\* asked, if it was not wider already.
CutsFit ==
  Laid => \A width \in Widths :
    LET n == Cut(text, width)
        rest == Items(SubSeq(text, n + 1, Len(text)))
    IN /\ VisibleWidth(SubSeq(text, 1, n)) <= width
       /\ n < Len(text) => VisibleWidth(SubSeq(text, 1, n)) + rest[1].width > width
       /\ VisibleWidth(SubSeq(text, 1, n)) + Sum(rest) = VisibleWidth(text)
       /\ VisibleWidth(Pad(text, width)) = Larger(width, VisibleWidth(text))

\* Wrapping keeps the text, with its styles and its blanks, and what was laid out
\* for a width has it.
LayoutIsTrue == ClustersKept /\ StyleKept /\ BlanksKept /\ LinesFit /\ CutsFit
=============================================================================
