----------------------------- MODULE HostPaths -----------------------------
(***************************************************************************)
(* The path functions of src/src/lua/vm.c.  The text is a path, a sequence *)
(* of characters: "n" stands for any character of a name, the others for   *)
(* themselves.                                                             *)
(***************************************************************************)
EXTENDS Texts

CONSTANTS Cwd,   \* the working directory
          Homes  \* the values of HOME; the empty one is that of an unset one too

\* What the functions take for a separator, on every host.
IsSep(c) == c \in {"/", "\\"}

\* psi_vm_is_abs_path: a drive of another host is one too.
IsAbs(p) ==
  /\ p # <<>>
  /\ p[1] = "/" \/ (Len(p) > 2 /\ p[1] = "n" /\ p[2] = ":" /\ IsSep(p[3]))

\* Mutant: no separator is put in.
Join_Glued(base, name) ==
  IF base \in {<<>>, <<".">>} \/ IsAbs(name) THEN name ELSE base \o name

\* psi_vm_path_join.
Join(base, name) ==
  IF base \in {<<>>, <<".">>} \/ IsAbs(name) THEN name
  ELSE IF name = <<>> THEN base
  ELSE base \o (IF IsSep(Last(base)) THEN <<>> ELSE <<"/">>) \o name

\* psi_vm_expand_path.
Expand(path, home) ==
  LET p == IF path # <<>> /\ path[1] = "@" THEN Tail(path) ELSE path
      tilde == p # <<>> /\ p[1] = "~" /\ (Len(p) > 1 => p[2] = "/")
  IN IF ~tilde \/ home = <<>> THEN p
     ELSE IF Len(p) = 1 THEN home
     ELSE Join(home, SubSeq(p, 3, Len(p)))

\* psi_vm_resolve_path.
Resolve(path, home) ==
  LET p == Expand(path, home) IN IF IsAbs(p) THEN p ELSE Join(Cwd, p)

\* Without the separators at its end; the first character stays.
Trimmed(p) == SubSeq(p, 1, Largest({1} \cup {i \in DOMAIN p : ~IsSep(p[i])}))

\* psi_vm_parent_directory.
Parent(path) ==
  LET base == Trimmed(path)
      seps == {i \in DOMAIN base : IsSep(base[i])}
  IN IF path = <<>> \/ seps = {} THEN <<".">>
     ELSE LET p == Trimmed(SubSeq(base, 1, Largest(seps)))
          IN IF Len(p) = 1 /\ IsSep(p[1]) THEN <<"/">> ELSE p

\* Mutant: the directory after the last separator is forgotten.
MkdirP_Front(path) ==
  LET p == Trimmed(path)
      first == IF IsSep(p[1]) THEN 2 ELSE 1
      ends == {i \in first .. Len(p) : IsSep(p[i]) /\ (i = first \/ ~IsSep(p[i - 1]))}
      cuts == SetToSortSeq(ends, <)
  IN [k \in DOMAIN cuts |-> SubSeq(p, 1, cuts[k] - 1)]

\* The loop of psi_vm_mkdir_p: the directories it makes, one after the other.
MkdirP(path) ==
  LET p == Trimmed(path)
      first == IF IsSep(p[1]) THEN 2 ELSE 1
      ends == {i \in first .. Len(p) : IsSep(p[i]) /\ (i = first \/ ~IsSep(p[i - 1]))}
      cuts == SetToSortSeq(ends, <)
  IN Append([k \in DOMAIN cuts |-> SubSeq(p, 1, cuts[k] - 1)], p)

\* psi_vm_mkdir_parent.
MkdirParent(path) ==
  LET p == Parent(path) IN IF p \in {<<".">>, <<"/">>} THEN <<>> ELSE MkdirP(p)

-----------------------------------------------------------------------------
(* Properties.                                                             *)

\* The names between slashes, and those of them that the file system walks into.
NamesOf(p) ==
  LET at == {i \in DOMAIN p : p[i] # "/" /\ (i = 1 \/ p[i - 1] = "/")}
      end(i) == Largest({j \in i .. Len(p) : \A k \in i .. j : p[k] # "/"})
      starts == SetToSortSeq(at, <)
  IN [k \in DOMAIN starts |-> SubSeq(p, starts[k], end(starts[k]))]
WalkOf(names) == SelectSeq(names, LAMBDA name : name # <<".">>)
Walk(p) == WalkOf(NamesOf(p))
Host == Over({"n", "/", ".", "~", "@"})

\* A path is resolved from the working directory, or from home after a tilde,
\* or from the root, with nothing lost or doubled, and to the same path when it
\* is resolved again.  A second slash after the tilde is the exception: what
\* follows is taken for an absolute path.
PathsResolve ==
  Host => \A home \in Homes :
    LET p == IF text # <<>> /\ text[1] = "@" THEN Tail(text) ELSE text
        r == Resolve(text, home)
        tilde == home # <<>> /\ (p = <<"~">> \/ (Len(p) > 1 /\ SubSeq(p, 1, 2) = <<"~", "/">>))
        rooted == p # <<>> /\ p[1] = "/"
    IN /\ r[1] = "/" /\ Resolve(r, home) = r
       /\ \/ Walk(r) = (IF tilde THEN Walk(home) \o Tail(Walk(p))
                        ELSE IF rooted THEN Walk(p) ELSE Walk(Cwd) \o Walk(p))
          \/ tilde /\ Len(p) > 2 /\ p[3] = "/"

\* Before a file is made, every directory on the way to it is asked for, the
\* outer ones first, and no other.
ParentsMade ==
  Host =>
    LET made == [k \in DOMAIN MkdirParent(text) |-> Walk(MkdirParent(text)[k])]
        way == IF NamesOf(text) = <<>> THEN <<>> ELSE WalkOf(Front(NamesOf(text)))
        ways == {SubSeq(way, 1, k) : k \in 1 .. Len(way)}
    IN /\ Range(made) \ {<<>>} = ways
       /\ \A k \in DOMAIN made : Len(made[k]) > 1 =>
            \E j \in 1 .. k - 1 : made[j] = Front(made[k])
       /\ \A k \in DOMAIN made : IsAbs(MkdirParent(text)[k]) <=> IsAbs(text)

\* A path means one place, and what is made for it leads there.
PathsLead == PathsResolve /\ ParentsMade
=============================================================================
