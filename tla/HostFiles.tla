------------------------------ MODULE HostFiles ------------------------------
(***************************************************************************)
(* The file primitives of src/src/lua/vm.c at the level of system calls:   *)
(* atomic replacement, append, plain write, whole-file read and directory  *)
(* creation, by processes that run at the same time, are killed, meet      *)
(* failing system calls, and lose power.                                   *)
(*                                                                         *)
(* A call is a number, and writes its two halves: an inode holds a         *)
(* sequence of them.  A directory maps the path and the temporary names,   *)
(* one to a call, to inodes; an inode has the number of the call that made *)
(* it.  What survives a power cut is what fsync was asked for, and of the  *)
(* rest the file system may keep a part.                                   *)
(***************************************************************************)
EXTENDS Integers, Sequences, FiniteSets

CONSTANTS Procs,      \* processes
          Workloads,  \* what the processes do: functions from Procs to sets of Ops
          MaxCalls,   \* calls made in a behaviour, at most
          Depth,      \* directories on the way to the path
          MaxCuts     \* power cuts in a behaviour, at most

ASSUME CountsAreNaturals == MaxCalls \in Nat /\ Depth \in Nat \ {0} /\ MaxCuts \in Nat

Ops == {"atomic", "append", "append_nosync", "write", "read", "mkdir"}
ASSUME WorkloadsAssumption == Workloads \subseteq [Procs -> SUBSET Ops]

Calls == 1 .. MaxCalls
Old == 0                  \* made the file before the first call
Inodes == Calls \cup {Old}
None == -1
Path == 0                 \* the name; a temporary name is its call
Names == Calls \cup {Path}

VARIABLES work,     \* the workload
          pc,       \* of each process: the next step of its call, or idle
          current,  \* of each process: its call
          fd,       \* of each process: the open inode
          off,      \* of each process: halves written, bytes to read, directories made
          kind,     \* of each call: its operation
          result,   \* of each call: none, running, true, false, killed
          faulted,  \* calls that met a failing system call
          got,      \* of each call: what it read
          beside,   \* history, of each call: those that ran when it began
          data,     \* of each inode: its content
          durable,  \* of each inode: the content fsync has written
          dir,      \* the directory
          dirs,     \* the states of the directory that a power cut may leave
          made,     \* the directories on the way that exist
          cuts      \* power cuts so far

procVars == <<pc, current, fd, off>>
callVars == <<kind, result, faulted, got>>
diskVars == <<data, durable, dir, dirs>>
vars == <<work, beside, procVars, callVars, diskVars, made, cuts>>

Half(c, k) == <<c, k>>
Halves(c, from, to) == [k \in 1 .. to - from + 1 |-> Half(c, from + k - 1)]

TypeOK ==
  /\ work \in Workloads
  /\ pc \in [Procs -> {"idle", "open", "write", "sync", "close", "rename", "dirsync",
                       "size", "read", "stat", "mkdir"}]
  /\ current \in [Procs -> Calls \cup {None}]
  /\ fd \in [Procs -> Inodes \cup {None}]
  /\ off \in [Procs -> Nat]
  /\ kind \in [Calls -> Ops \cup {"none"}]
  /\ result \in [Calls -> {"none", "running", "true", "false", "killed"}]
  /\ faulted \subseteq Calls
  /\ got \in [Calls -> Seq(Inodes \X {1, 2})]
  /\ beside \in [Calls -> SUBSET Calls]
  /\ data \in [Inodes -> Seq(Inodes \X {1, 2})]
  /\ durable \in [Inodes -> Seq(Inodes \X {1, 2})]
  /\ dir \in [Names -> Inodes \cup {None}]
  /\ dirs \subseteq [Names -> Inodes \cup {None}]
  /\ made \subseteq 1 .. Depth
  /\ cuts \in Nat

Init ==
  /\ work \in Workloads
  /\ pc = [p \in Procs |-> "idle"]
  /\ current = [p \in Procs |-> None] /\ fd = [p \in Procs |-> None]
  /\ off = [p \in Procs |-> 0]
  /\ kind = [c \in Calls |-> "none"] /\ result = [c \in Calls |-> "none"]
  /\ faulted = {} /\ got = [c \in Calls |-> <<>>] /\ beside = [c \in Calls |-> {}]
  /\ data = [i \in Inodes |-> IF i = Old THEN Halves(Old, 1, 2) ELSE <<>>]
  /\ durable = data
  /\ dir \in {[n \in Names |-> IF n = Path THEN i ELSE None] : i \in {Old, None}}
  /\ dirs = {dir}
  /\ made = {} /\ cuts = 0

-----------------------------------------------------------------------------
(* Steps shared by the operations.                                         *)

Enter(p, step) == pc' = [pc EXCEPT ![p] = step]

Begin(p) ==
  /\ pc[p] = "idle"
  /\ \E c \in Calls, op \in work[p] :
       /\ result[c] = "none" /\ \A b \in Calls : b < c => result[b] # "none"
       /\ kind' = [kind EXCEPT ![c] = op]
       /\ result' = [result EXCEPT ![c] = "running"]
       /\ beside' = [beside EXCEPT ![c] = {b \in Calls : result[b] = "running"}]
       /\ current' = [current EXCEPT ![p] = c]
       /\ off' = [off EXCEPT ![p] = IF op = "mkdir" THEN 1 ELSE 0]
       /\ Enter(p, IF op = "mkdir" THEN "stat" ELSE "open")
  /\ UNCHANGED <<work, fd, faulted, got, diskVars, made, cuts>>

Return(p, r) ==
  /\ Enter(p, "idle")
  /\ result' = [result EXCEPT ![current[p]] = r]
  /\ current' = [current EXCEPT ![p] = None]
  /\ fd' = [fd EXCEPT ![p] = None]
  /\ off' = [off EXCEPT ![p] = 0]
  /\ UNCHANGED kind

\* A change of the directory reaches the disk at once or later.
Rebind(d) == dir' = d /\ dirs' = dirs \cup {d}

\* Mutant: a failed rename leaves the temporary file.
Fails_Litter(p) ==
  /\ pc[p] \in {"open", "write", "sync", "close", "rename", "mkdir"}
  /\ faulted' = faulted \cup {current[p]}
  /\ Return(p, "false")
  /\ IF kind[current[p]] = "atomic" /\ pc[p] \notin {"open", "rename"}
     THEN Rebind([dir EXCEPT ![current[p]] = None])
     ELSE UNCHANGED <<dir, dirs>>
  /\ UNCHANGED <<work, beside, got, data, durable, made, cuts>>

\* Any system call may fail; the call then returns false, an atomic write
\* after it has removed its temporary file.
Fails(p) ==
  /\ pc[p] \in {"open", "write", "sync", "close", "rename", "mkdir"}
  /\ faulted' = faulted \cup {current[p]}
  /\ Return(p, "false")
  /\ IF kind[current[p]] = "atomic" /\ pc[p] # "open"
     THEN Rebind([dir EXCEPT ![current[p]] = None])
     ELSE UNCHANGED <<dir, dirs>>
  /\ UNCHANGED <<work, beside, got, data, durable, made, cuts>>

AfterWrite(op) == IF op \in {"atomic", "append"} THEN "sync" ELSE "close"

\* Mutant: an atomic write is not synced before it is renamed.
WriteSome_NoSync(p) ==
  /\ pc[p] = "write"
  /\ \E n \in off[p] + 1 .. 2 :
       /\ data' = [data EXCEPT ![fd[p]] = @ \o Halves(current[p], off[p] + 1, n)]
       /\ off' = [off EXCEPT ![p] = n]
       /\ Enter(p, IF n < 2 THEN "write" ELSE IF kind[current[p]] = "append" THEN "sync" ELSE "close")
  /\ UNCHANGED <<work, beside, current, fd, callVars, durable, dir, dirs, made, cuts>>

\* One write(2), whole or short; one that EINTR interrupts changes nothing.
WriteSome(p) ==
  /\ pc[p] = "write"
  /\ \E n \in off[p] + 1 .. 2 :
       /\ data' = [data EXCEPT ![fd[p]] = @ \o Halves(current[p], off[p] + 1, n)]
       /\ off' = [off EXCEPT ![p] = n]
       /\ Enter(p, IF n < 2 THEN "write" ELSE AfterWrite(kind[current[p]]))
  /\ UNCHANGED <<work, beside, current, fd, callVars, durable, dir, dirs, made, cuts>>

Sync(p) ==
  /\ pc[p] = "sync"
  /\ durable' = [durable EXCEPT ![fd[p]] = data[fd[p]]]
  /\ Enter(p, "close")
  /\ UNCHANGED <<work, beside, current, fd, off, callVars, data, dir, dirs, made, cuts>>

-----------------------------------------------------------------------------
(* psi_vm_file_write_atomic.                                               *)

\* Mutant: the content goes to the path itself.
OpenTemp_InPlace(p) ==
  LET c == current[p]
  IN /\ pc[p] = "open" /\ kind[c] = "atomic"
     /\ Rebind([dir EXCEPT ![Path] = c, ![c] = c])
     /\ fd' = [fd EXCEPT ![p] = c]
     /\ Enter(p, "write")
     /\ UNCHANGED <<work, beside, current, off, callVars, data, durable, made, cuts>>

OpenTemp(p) ==
  LET c == current[p]
  IN /\ pc[p] = "open" /\ kind[c] = "atomic"
     /\ Rebind([dir EXCEPT ![c] = c])
     /\ fd' = [fd EXCEPT ![p] = c]
     /\ Enter(p, "write")
     /\ UNCHANGED <<work, beside, current, off, callVars, data, durable, made, cuts>>

CloseTemp(p) ==
  /\ pc[p] = "close" /\ kind[current[p]] = "atomic"
  /\ fd' = [fd EXCEPT ![p] = None]
  /\ Enter(p, "rename")
  /\ UNCHANGED <<work, beside, current, off, callVars, diskVars, made, cuts>>

Rename(p) ==
  /\ pc[p] = "rename"
  /\ Rebind([dir EXCEPT ![Path] = dir[current[p]], ![current[p]] = None])
  /\ Enter(p, "dirsync")
  /\ UNCHANGED <<work, beside, current, fd, off, callVars, data, durable, made, cuts>>

\* Whether the directory could be opened and synced is not looked at.
SyncDir(p) ==
  /\ pc[p] = "dirsync"
  /\ \E synced \in BOOLEAN : dirs' = IF synced THEN {dir} ELSE dirs
  /\ Return(p, "true")
  /\ UNCHANGED <<work, beside, faulted, got, data, durable, dir, made, cuts>>

-----------------------------------------------------------------------------
(* psi_vm_file_append_mode, psi_vm_lfn_file_append, lfn_file_write.        *)

Opened(op, content) == IF op = "write" THEN <<>> ELSE content

\* Mutant: an append starts the file anew.
OpenFile_Truncates(p) ==
  LET c == current[p]
      i == IF dir[Path] = None THEN c ELSE dir[Path]
  IN /\ pc[p] = "open" /\ kind[c] \in {"append", "append_nosync", "write"}
     /\ IF dir[Path] = None THEN Rebind([dir EXCEPT ![Path] = c]) ELSE UNCHANGED <<dir, dirs>>
     /\ data' = [data EXCEPT ![i] = <<>>]
     /\ fd' = [fd EXCEPT ![p] = i]
     /\ Enter(p, "write")
     /\ UNCHANGED <<work, beside, current, off, callVars, durable, made, cuts>>

OpenFile(p) ==
  LET c == current[p]
      i == IF dir[Path] = None THEN c ELSE dir[Path]
  IN /\ pc[p] = "open" /\ kind[c] \in {"append", "append_nosync", "write"}
     /\ IF dir[Path] = None THEN Rebind([dir EXCEPT ![Path] = c]) ELSE UNCHANGED <<dir, dirs>>
     /\ data' = [data EXCEPT ![i] = Opened(kind[c], @)]
     /\ fd' = [fd EXCEPT ![p] = i]
     /\ Enter(p, "write")
     /\ UNCHANGED <<work, beside, current, off, callVars, durable, made, cuts>>

CloseFile(p) ==
  /\ pc[p] = "close" /\ kind[current[p]] # "atomic"
  /\ Return(p, "true")
  /\ UNCHANGED <<work, beside, faulted, got, diskVars, made, cuts>>

-----------------------------------------------------------------------------
(* lfn_read_file: the size is taken first, and a file that has less when   *)
(* it is read is not returned at all.                                      *)

OpenRead(p) ==
  /\ pc[p] = "open" /\ kind[current[p]] = "read"
  /\ IF dir[Path] = None
     THEN Return(p, "false") /\ faulted' = faulted \cup {current[p]}
     ELSE /\ fd' = [fd EXCEPT ![p] = dir[Path]]
          /\ Enter(p, "size")
          /\ UNCHANGED <<current, off, kind, result, faulted>>
  /\ UNCHANGED <<work, beside, got, diskVars, made, cuts>>

Size(p) ==
  /\ pc[p] = "size"
  /\ off' = [off EXCEPT ![p] = Len(data[fd[p]])]
  /\ Enter(p, "read")
  /\ UNCHANGED <<work, beside, current, fd, callVars, diskVars, made, cuts>>

Read(p) ==
  /\ pc[p] = "read"
  /\ IF Len(data[fd[p]]) < off[p]
     THEN Return(p, "false") /\ faulted' = faulted \cup {current[p]} /\ UNCHANGED got
     ELSE /\ got' = [got EXCEPT ![current[p]] = SubSeq(data[fd[p]], 1, off[p])]
          /\ Return(p, "true") /\ UNCHANGED faulted
  /\ UNCHANGED <<work, beside, diskVars, made, cuts>>

-----------------------------------------------------------------------------
(* psi_vm_mkdir_p and psi_vm_mkdir_one, for each directory on the way.     *)

NextDir(p) ==
  IF off[p] = Depth THEN Return(p, "true")
  ELSE /\ off' = [off EXCEPT ![p] = @ + 1] /\ Enter(p, "stat")
       /\ UNCHANGED <<current, fd, kind, result>>

Stat(p) ==
  /\ pc[p] = "stat"
  /\ IF off[p] \in made THEN NextDir(p)
     ELSE Enter(p, "mkdir") /\ UNCHANGED <<current, fd, off, kind, result>>
  /\ UNCHANGED <<work, beside, faulted, got, diskVars, made, cuts>>

\* Mutant: a directory that someone else has made since is an error.
Mkdir_First(p) ==
  /\ pc[p] = "mkdir"
  /\ made' = made \cup {off[p]}
  /\ IF off[p] \in made THEN Return(p, "false") ELSE NextDir(p)
  /\ UNCHANGED <<work, beside, faulted, got, diskVars, cuts>>

\* Whoever made the directory since, it is there.
Mkdir(p) ==
  /\ pc[p] = "mkdir"
  /\ made' = made \cup {off[p]}
  /\ NextDir(p)
  /\ UNCHANGED <<work, beside, faulted, got, diskVars, cuts>>

-----------------------------------------------------------------------------
(* Kills and power cuts.                                                   *)

Kill(p) ==
  /\ pc[p] # "idle"
  /\ Return(p, "killed")
  /\ UNCHANGED <<work, beside, faulted, got, diskVars, made, cuts>>

IsPrefixOf(s, t) == Len(s) <= Len(t) /\ SubSeq(t, 1, Len(s)) = s

\* What a power cut may leave in an inode: what was synced, and of what was
\* written since, or since it was truncated, any part from the start.
Left(i) ==
  {durable[i]} \cup
  {SubSeq(data[i], 1, n) :
     n \in (IF IsPrefixOf(durable[i], data[i]) THEN Len(durable[i]) ELSE 0) .. Len(data[i])}

PowerCut ==
  /\ cuts < MaxCuts
  /\ cuts' = cuts + 1
  /\ \E d \in dirs :
       /\ dir' = d /\ dirs' = {d}
       /\ \E s \in IF d[Path] = None THEN {<<>>} ELSE Left(d[Path]) :
            /\ data' = [i \in Inodes |-> IF i = d[Path] THEN s ELSE durable[i]]
            /\ durable' = data'
  /\ pc' = [p \in Procs |-> "idle"]
  /\ current' = [p \in Procs |-> None] /\ fd' = [p \in Procs |-> None]
  /\ off' = [p \in Procs |-> 0]
  /\ result' = [c \in Calls |-> IF result[c] = "running" THEN "killed" ELSE result[c]]
  /\ UNCHANGED <<work, beside, kind, faulted, got, made>>

Next ==
  \/ \E p \in Procs :
       \/ Begin(p) \/ Fails(p) \/ WriteSome(p) \/ Sync(p)
       \/ OpenTemp(p) \/ CloseTemp(p) \/ Rename(p) \/ SyncDir(p)
       \/ OpenFile(p) \/ CloseFile(p)
       \/ OpenRead(p) \/ Size(p) \/ Read(p)
       \/ Stat(p) \/ Mkdir(p) \/ Kill(p)
  \/ PowerCut

Spec == Init /\ [][Next]_vars

-----------------------------------------------------------------------------
(* Properties.                                                             *)

Truncates == \E p \in Procs : "write" \in work[p]
Version(i) == i = Old \/ (i \in Calls /\ kind[i] = "atomic")
WholeBase(s, i) == Len(s) >= 2 /\ s[1] = Half(i, 1) /\ s[2] = Half(i, 2)

\* A file that was replaced atomically holds a whole version, on the disk too,
\* whenever it is looked at and whenever the power is cut: the old one or a new
\* one, with what was appended since.  A process that truncates it in place is
\* the exception.
ReplacedWhole ==
  Truncates \/ \A d \in dirs \cup {dir} :
    Version(d[Path]) => /\ WholeBase(data[d[Path]], d[Path])
                        /\ WholeBase(durable[d[Path]], d[Path])

\* The halves of a call in a content are the first n, each once and in order.
Has(s, c, n) ==
  /\ \A k \in 1 .. n : \E j \in DOMAIN s : s[j] = Half(c, k)
  /\ \A j \in DOMAIN s : s[j][1] = c => s[j][2] \in 1 .. n
  /\ \A i, j \in DOMAIN s : i < j /\ s[i][1] = c /\ s[j][1] = c => s[i][2] < s[j][2]

\* What an append with sync reported written is in a file on the disk, once and
\* in order, whatever others append meanwhile; and that file is the one at the
\* path until a call that was not finished when the append began replaces it.
\* Truncation is the exception, and after a power cut the path need not name the
\* file: append does not sync the directory it may have made it in.
AppendsSurvive ==
  Truncates \/ \A c \in Calls :
    kind[c] = "append" /\ result[c] = "true" =>
      \E i \in Inodes :
        /\ Has(durable[i], c, 2)
        /\ cuts > 0 \/ dir[Path] = i \/ dir[Path] > c \/ dir[Path] \in beside[c]

\* A directory that was reported made is there with those it is in; and no call
\* fails but for a failing system call or a file that is missing or shrinks, not
\* because another one was there first.  An atomic write that failed has not left
\* its content at the path, and only a call that runs or was killed has a
\* temporary file (a power cut may bring one back).  A read returns a whole version
\* with what was appended to it, never a mixture or part of one.
ResultsAreTrue ==
  \A c \in Calls :
    /\ got[c] # <<>> /\ ~Truncates =>
         LET i == got[c][1][1]
         IN Version(i) => WholeBase(got[c], i)
    /\ kind[c] = "mkdir" /\ result[c] = "true" => made = 1 .. Depth
    /\ result[c] = "false" => c \in faulted
    /\ result[c] = "false" /\ kind[c] = "atomic" => \A d \in dirs : d[Path] # c
    /\ dir[c] # None => cuts > 0 \/ result[c] \in {"running", "killed"}
=============================================================================
