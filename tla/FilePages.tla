----------------------------- MODULE FilePages -----------------------------
(***************************************************************************)
(* How src/src/lua/vm.c gives a file to its readers a part at a time: a    *)
(* page of lines, a range of bytes, or what it begins with.  The text is   *)
(* the file; "b" is a line break and every other character a byte.         *)
(***************************************************************************)
EXTENDS Texts

CONSTANTS Block,     \* bytes that one fread gives, at most
          ReadMax,   \* PSI_VM_READ_FILE_MAX_BYTES
          WriteMax,  \* PSI_VM_FILE_WRITE_MAX_BYTES
          Asked      \* the limits and caps that callers ask for
NoNext == -1

ASSUME SizesAssumption == /\ Block \in Nat \ {0} /\ ReadMax \in Nat \ {0} /\ WriteMax \in Nat \ {0}
                          /\ Asked \subseteq Int

-----------------------------------------------------------------------------
(* lfn_read_file_slice.                                                    *)

\* A span is what the loop takes at once: up to a line break, or to the end of
\* the block or of the file.
SpanEnds(s, i) == s[i] = "b" \/ i % Block = 0 \/ i = Len(s)
SpanEnd(s, at) ==
  CHOOSE i \in at + 1 .. Len(s) : SpanEnds(s, i) /\ \A j \in at + 1 .. i - 1 : ~SpanEnds(s, j)

Stripped(s) == SubSeq(s, 1, Largest({0} \cup {i \in DOMAIN s : s[i] # "b"}))

\* Mutant: a line that goes on in the next block counts twice.
Take_EachSpan(c, s, offset, limit, cap) ==
  LET to == SpanEnd(s, c.at)
      inside == c.line >= offset /\ c.line - offset < limit /\ ~c.cut
      want == IF inside THEN Smaller(to - c.at, cap - Len(c.out)) ELSE 0
  IN IF c.at = Len(s) THEN c
     ELSE [at |-> to, out |-> c.out \o SubSeq(s, c.at + 1, c.at + want),
           cut |-> c.cut \/ (inside /\ want < to - c.at), line |-> c.line + 1]

\* A pass of the loop.
Take(c, s, offset, limit, cap) ==
  LET to == SpanEnd(s, c.at)
      inside == c.line >= offset /\ c.line - offset < limit /\ ~c.cut
      want == IF inside THEN Smaller(to - c.at, cap - Len(c.out)) ELSE 0
  IN IF c.at = Len(s) THEN c
     ELSE [at |-> to, out |-> c.out \o SubSeq(s, c.at + 1, c.at + want),
           cut |-> c.cut \/ (inside /\ want < to - c.at),
           line |-> IF s[to] = "b" THEN c.line + 1 ELSE c.line]

\* The loop: every pass takes a byte at least.
Taken(s, offset, limit, cap) ==
  LET after[n \in 0 .. Len(s)] ==
        IF n = 0 THEN [at |-> 0, out |-> <<>>, cut |-> FALSE, line |-> 0]
        ELSE Take(after[n - 1], s, offset, limit, cap)
  IN  after[Len(s)]

Limit(asked) == Larger(1, asked)
Cap(asked) == IF asked <= 0 \/ asked > WriteMax THEN ReadMax ELSE asked

Slice(s, from, askedLimit, askedCap) ==
  LET offset == Larger(0, from)
      limit == Limit(askedLimit)
      end == Taken(s, offset, limit, Cap(askedCap))
      total == IF s # <<>> /\ Last(s) # "b" THEN end.line + 1 ELSE end.line
      more == offset < total /\ limit < total - offset
  IN [text |-> Stripped(end.out), total |-> total,
      next |-> IF more THEN offset + limit ELSE NoNext,
      truncated |-> more \/ end.cut, truncatedBytes |-> end.cut]

-----------------------------------------------------------------------------
(* lfn_read_file_bytes, lfn_read_file_prefix.                              *)

ByteLimit(asked) == Smaller(ReadMax, Larger(1, asked))

Bytes(s, from, asked) ==
  LET offset == Smaller(Larger(0, from), Len(s))
      n == Smaller(ByteLimit(asked), Len(s) - offset)
  IN [bytes |-> SubSeq(s, offset + 1, offset + n),
      next |-> IF offset + n < Len(s) THEN offset + n ELSE NoNext]

Prefix(s, asked) == SubSeq(s, 1, Smaller(Len(s), Smaller(ReadMax, Larger(0, asked))))

-----------------------------------------------------------------------------
(* Properties.                                                             *)

\* The line that a byte is in, counted from 0, how many lines there are, and the
\* last byte before a line.
LineOf(s, i) == Cardinality({j \in 1 .. i - 1 : s[j] = "b"})
LinesIn(s) == IF s = <<>> THEN 0 ELSE LineOf(s, Len(s)) + 1
Before(s, k) == Largest({0} \cup {i \in DOMAIN s : LineOf(s, i) < k})

\* What a reader has who starts at the first byte and goes on where it is told
\* to, a range at a time.
Ranges(s, limit) ==
  LET after[n \in 0 .. Len(s) + 1] ==
        IF n = 0 THEN [bytes |-> <<>>, next |-> 0]
        ELSE LET had == after[n - 1]
                 page == Bytes(s, had.next, limit)
             IN IF had.next = NoNext THEN had
                ELSE [bytes |-> had.bytes \o page.bytes, next |-> page.next]
  IN  after[Len(s) + 1]

\* The pages of a file tile it: wherever the blocks end, a page has the lines
\* it is asked for, but for the line breaks at its end; the next one begins
\* where it ends, and the last one says so; and a page that the cap cuts short
\* holds all that fits and says that it was cut.  Ranges of bytes, read one
\* after the other, are the file, and a prefix is the first of them.
PagesCover ==
  Over({"n", "b"}) =>
    LET n == LinesIn(text)
    IN /\ \A offset \in 0 .. n + 1, a \in Asked, c \in Asked :
            LET page == Slice(text, offset, a, c)
                limit == Limit(a)
                cap == Cap(c)
                whole == SubSeq(text, Before(text, offset) + 1, Before(text, offset + limit))
            IN /\ page.total = n
               /\ page.next = IF offset + limit < n THEN offset + limit ELSE NoNext
               /\ page.text = Stripped(SubSeq(whole, 1, Smaller(cap, Len(whole))))
               /\ page.truncatedBytes <=> Len(whole) > cap
               /\ page.truncated <=> page.next # NoNext \/ page.truncatedBytes
       /\ \A a \in Asked : /\ Ranges(text, a) = [bytes |-> text, next |-> NoNext]
                            /\ a > 0 => Prefix(text, a) = Bytes(text, 0, a).bytes
=============================================================================
