------------------------------- MODULE Texts -------------------------------
(***************************************************************************)
(* Every text over one of several alphabets, up to a length.  The modules  *)
(* that extend this one define what the host's functions make of a text,   *)
(* and state invariants of it.                                             *)
(***************************************************************************)
EXTENDS Integers, Sequences, SequencesExt, FiniteSets

CONSTANTS Alphabets,  \* sets of characters, each tried by itself
          MaxLen      \* characters of a text, at most

ASSUME LengthIsNatural == MaxLen \in Nat

VARIABLES alphabet, text
textVars == <<alphabet, text>>

TextInit == alphabet \in Alphabets /\ text = <<>>
TextNext == /\ Len(text) < MaxLen
            /\ \E t \in alphabet : text' = Append(text, t)
            /\ UNCHANGED alphabet
TextSpec == TextInit /\ [][TextNext]_textVars

\* The text is over these characters.
Over(chars) == \A i \in DOMAIN text : text[i] \in chars

Larger(a, b) == IF a > b THEN a ELSE b
Smaller(a, b) == IF a < b THEN a ELSE b
Largest(S) == CHOOSE i \in S : \A j \in S : j <= i
=============================================================================
