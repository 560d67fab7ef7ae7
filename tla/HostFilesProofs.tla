--------------------------- MODULE HostFilesProofs ---------------------------
(***************************************************************************)
(* A file that is replaced atomically is whole, appends that were reported *)
(* survive, and reports are true, for any processes, any number of calls,  *)
(* and any failures, kills and power cuts.  The pages that files are read  *)
(* by tile them.                                                           *)
(***************************************************************************)
EXTENDS HostFiles, FilePages, RecursionProofs, FiniteSetTheorems, TLAPS

\* The call has made no file yet.
Unborn(c) ==
  \/ result[c] = "none"
  \/ \E p \in Procs : current[p] = c /\ pc[p] = "open"

\* The call's file has a temporary name.
Staged(p) ==
  /\ pc[p] \in {"write", "sync", "close", "rename"}
  /\ kind[current[p]] = "atomic"

\* Nobody but its writer has reached the inode.
Hidden(c) ==
  /\ \A d \in dirs : d[Path] # c
  /\ \A q \in Procs : current[q] # c => fd[q] # c

CallsOwned ==
  \A p \in Procs :
    /\ pc[p] = "idle" <=> current[p] = None
    /\ pc[p] \in {"write", "sync", "close", "size", "read"} => fd[p] \in Inodes
    /\ pc[p] \in {"stat", "mkdir"} => off[p] \in 1 .. Depth
    /\ pc[p] = "open" => off[p] = 0
    /\ pc[p] = "rename" => kind[current[p]] = "atomic"
    /\ pc[p] # "idle" => /\ result[current[p]] = "running"
                         /\ kind[current[p]] \in work[p]
    /\ \A q \in Procs : current[p] = current[q] /\ p # q => current[p] = None

UnbornEmpty ==
  \A c \in Calls : Unborn(c) => /\ data[c] = <<>> /\ durable[c] = <<>>
                                /\ Hidden(c)

StagedWhole ==
  \A p \in Procs : Staged(p) =>
    LET c == current[p]
    IN /\ Hidden(c) /\ dir[c] = c
       /\ pc[p] # "rename" => fd[p] = c
       /\ off[p] \in 0 .. 2 /\ data[c] = Halves(c, 1, off[p])
       /\ pc[p] # "write" => off[p] = 2
       /\ pc[p] \in {"close", "rename"} => durable[c] = data[c]

SyncedFirst == \A i \in Inodes : IsPrefixOf(durable[i], data[i])

Bound == dir \in dirs

WholeAtPath ==
  \A d \in dirs : Version(d[Path]) => /\ WholeBase(data[d[Path]], d[Path])
                                      /\ WholeBase(durable[d[Path]], d[Path])

IInv ==
  /\ TypeOK /\ CallsOwned /\ Bound
  /\ ~Truncates => /\ UnbornEmpty /\ StagedWhole
                   /\ SyncedFirst /\ WholeAtPath

USE CountsAreNaturals, WorkloadsAssumption

LEMMA Numbers ==
  /\ Calls \subseteq Inodes /\ None \notin Inodes /\ Path \in Names /\ Calls \subseteq Names
  /\ Path \notin Calls /\ None \notin Names /\ Calls \subseteq Nat
BY DEF Calls, Inodes, None, Path, Names, Old

LEMMA HalvesType ==
  ASSUME NEW c \in Calls, NEW m \in Nat, NEW n \in Nat, m >= 1, n <= 2, m <= n + 1
  PROVE  /\ Halves(c, m, n) \in Seq(Inodes \X {1, 2})
         /\ Len(Halves(c, m, n)) = n - m + 1
BY DEF Halves, Half, Inodes, Calls

LEMMA InitTyped == Init => TypeOK /\ CallsOwned /\ Bound
<1> SUFFICES ASSUME Init PROVE TypeOK /\ CallsOwned /\ Bound
  OBVIOUS
<1>1. data \in [Inodes -> Seq(Inodes \X {1, 2})] /\ durable \in [Inodes -> Seq(Inodes \X {1, 2})]
  <2>1. Halves(Old, 1, 2) \in Seq(Inodes \X {1, 2})
    BY DEF Halves, Half, Inodes, Calls, Old
  <2> QED
    BY <2>1 DEF Init
<1>2. dir \in [Names -> Inodes \cup {None}]
  BY DEF Init, Names, Inodes
<1>3. TypeOK
  BY <1>1, <1>2 DEF Init, TypeOK
<1>4. CallsOwned /\ Bound
  BY DEF Init, CallsOwned, Bound
<1> QED
  BY <1>3, <1>4

LEMMA WorkOps == TypeOK => \A p \in Procs : work[p] \subseteq Ops
BY DEF TypeOK

ProcsTyped ==
  /\ pc \in [Procs -> {"idle", "open", "write", "sync", "close", "rename", "dirsync",
                       "size", "read", "stat", "mkdir"}]
  /\ current \in [Procs -> Calls \cup {None}]
  /\ fd \in [Procs -> Inodes \cup {None}]
  /\ off \in [Procs -> Nat]
  /\ kind \in [Calls -> Ops \cup {"none"}]
  /\ result \in [Calls -> {"none", "running", "true", "false", "killed"}]

DiskTyped ==
  /\ data \in [Inodes -> Seq(Inodes \X {1, 2})]
  /\ durable \in [Inodes -> Seq(Inodes \X {1, 2})]
  /\ dir \in [Names -> Inodes \cup {None}]
  /\ dirs \subseteq [Names -> Inodes \cup {None}]

RestTyped ==
  /\ work \in Workloads
  /\ faulted \subseteq Calls
  /\ got \in [Calls -> Seq(Inodes \X {1, 2})]
  /\ beside \in [Calls -> SUBSET Calls]
  /\ made \subseteq 1 .. Depth
  /\ cuts \in Nat

LEMMA TypeParts == TypeOK <=> ProcsTyped /\ DiskTyped /\ RestTyped
BY DEF TypeOK, ProcsTyped, DiskTyped, RestTyped

\* A call that returns leaves its process and the rest as they should be.
LEMMA ReturnKeeps ==
  ASSUME ProcsTyped, CallsOwned, NEW p \in Procs, current[p] \in Calls, work' = work,
         NEW r \in {"true", "false", "killed"}, Return(p, r)
  PROVE  ProcsTyped' /\ CallsOwned'
<1>1. ProcsTyped'
  BY Numbers DEF ProcsTyped, Return, Enter
<1>2. CallsOwned'
  BY Numbers DEF ProcsTyped, CallsOwned, Return, Enter
<1> QED
  BY <1>1, <1>2

LEMMA NextDirKeeps ==
  ASSUME ProcsTyped, CallsOwned, NEW p \in Procs, current[p] \in Calls, work' = work,
         pc[p] \in {"stat", "mkdir"}, NextDir(p)
  PROVE  ProcsTyped' /\ CallsOwned'
<1>1. CASE off[p] = Depth
  BY <1>1, ReturnKeeps DEF NextDir
<1>2. CASE off[p] # Depth
  <2>1. ProcsTyped'
    BY <1>2, Numbers DEF ProcsTyped, NextDir, Enter
  <2>2. CallsOwned'
    BY <1>2, Numbers DEF ProcsTyped, CallsOwned, NextDir, Enter
  <2> QED
    BY <2>1, <2>2
<1> QED
  BY <1>1, <1>2

LEMMA RebindKeeps ==
  ASSUME DiskTyped, Bound, NEW d \in [Names -> Inodes \cup {None}], Rebind(d),
         data' = data, durable' = durable
  PROVE  DiskTyped' /\ Bound'
BY DEF DiskTyped, Rebind, Bound

LEMMA AppendType ==
  ASSUME DiskTyped, NEW i \in Inodes, NEW t \in Seq(Inodes \X {1, 2})
  PROVE  [data EXCEPT ![i] = @ \o t] \in [Inodes -> Seq(Inodes \X {1, 2})]
BY DEF DiskTyped

LEMMA LeftType ==
  ASSUME DiskTyped, NEW i \in Inodes
  PROVE  Left(i) \subseteq Seq(Inodes \X {1, 2})
<1>1. data[i] \in Seq(Inodes \X {1, 2}) /\ durable[i] \in Seq(Inodes \X {1, 2})
  BY DEF DiskTyped
<1>2. \A n \in 0 .. Len(data[i]) : SubSeq(data[i], 1, n) \in Seq(Inodes \X {1, 2})
  BY <1>1
<1>3. Len(durable[i]) \in Nat
  BY <1>1
<1> QED
  BY <1>1, <1>2, <1>3, SMTT(60) DEF Left

LEMMA TypePreserved ==
  ASSUME TypeOK, CallsOwned, Bound, [Next]_vars
  PROVE  TypeOK' /\ CallsOwned' /\ Bound'
<1> USE Numbers
<1> SUFFICES ProcsTyped' /\ CallsOwned' /\ DiskTyped' /\ Bound' /\ RestTyped'
  BY TypeParts DEF TypeOK, ProcsTyped, DiskTyped, RestTyped
<1>t. ProcsTyped /\ DiskTyped /\ RestTyped
  BY TypeParts
<1>0. CASE UNCHANGED vars
  BY <1>0, <1>t, SMTT(60) DEF vars, procVars, callVars, diskVars, ProcsTyped, DiskTyped, RestTyped, CallsOwned, Bound
<1>a. ASSUME NEW p \in Procs, pc[p] # "idle" PROVE current[p] \in Calls
  BY <1>a, <1>t DEF ProcsTyped, CallsOwned
<1>1. ASSUME NEW p \in Procs, Begin(p) PROVE ProcsTyped' /\ CallsOwned' /\ DiskTyped' /\ Bound' /\ RestTyped'
  <2> PICK c \in Calls, op \in work[p] : Begin(p)!2!(c, op)
    BY <1>1 DEF Begin
  <2>1. op \in Ops /\ op # "none"
    BY WorkOps DEF Ops
  <2>2. ProcsTyped'
    BY <1>1, <1>t, <2>1 DEF ProcsTyped, Begin, Enter
  <2>3. CallsOwned'
    BY <1>1, <1>t, <2>1 DEF ProcsTyped, CallsOwned, Begin, Enter
  <2>4. DiskTyped' /\ Bound' /\ RestTyped'
    BY <1>1, <1>t DEF Begin, DiskTyped, Bound, RestTyped, diskVars
  <2> QED
    BY <2>2, <2>3, <2>4
<1>2. ASSUME NEW p \in Procs, Fails(p) PROVE ProcsTyped' /\ CallsOwned' /\ DiskTyped' /\ Bound' /\ RestTyped'
  <2>0. current[p] \in Calls /\ work' = work
    BY <1>2, <1>a DEF Fails
  <2>1. ProcsTyped' /\ CallsOwned'
    BY <1>2, <1>t, <2>0, ReturnKeeps DEF Fails
  <2>2. DiskTyped' /\ Bound'
    <3>1. [dir EXCEPT ![current[p]] = None] \in [Names -> Inodes \cup {None}]
      BY <1>t DEF DiskTyped
    <3>2. CASE UNCHANGED <<dir, dirs>>
      BY <1>2, <1>t, <3>2 DEF Fails, DiskTyped, Bound
    <3>3. CASE Rebind([dir EXCEPT ![current[p]] = None])
      BY <1>2, <1>t, <3>1, <3>3, RebindKeeps DEF Fails
    <3> QED
      BY <1>2, <3>2, <3>3 DEF Fails
  <2>3. RestTyped'
    BY <1>2, <1>t, <2>0 DEF Fails, RestTyped
  <2> QED
    BY <2>1, <2>2, <2>3
<1>3. ASSUME NEW p \in Procs, WriteSome(p) PROVE ProcsTyped' /\ CallsOwned' /\ DiskTyped' /\ Bound' /\ RestTyped'
  <2>0. current[p] \in Calls /\ fd[p] \in Inodes /\ off[p] \in Nat
    BY <1>3, <1>a, <1>t DEF WriteSome, CallsOwned, ProcsTyped
  <2> PICK n \in off[p] + 1 .. 2 : WriteSome(p)!2!(n)
    BY <1>3 DEF WriteSome
  <2>1. ProcsTyped'
    BY <1>3, <1>t, <2>0 DEF ProcsTyped, WriteSome, Enter, AfterWrite, callVars
  <2>2. CallsOwned'
    BY <1>3, <1>t, <2>0 DEF ProcsTyped, CallsOwned, WriteSome, Enter, AfterWrite, callVars
  <2>3. Halves(current[p], off[p] + 1, n) \in Seq(Inodes \X {1, 2})
    <3>1. /\ n \in Nat /\ off[p] + 1 \in Nat /\ off[p] + 1 >= 1
          /\ n <= 2 /\ off[p] + 1 <= n + 1
      BY <2>0
    <3> QED
      BY <2>0, <3>1, HalvesType
  <2>4. data' \in [Inodes -> Seq(Inodes \X {1, 2})]
    BY <1>t, <2>0, <2>3, AppendType
  <2>5. DiskTyped' /\ Bound' /\ RestTyped'
    BY <1>3, <1>t, <2>4 DEF WriteSome, DiskTyped, Bound, RestTyped, callVars
  <2> QED
    BY <2>1, <2>2, <2>5
<1>4. ASSUME NEW p \in Procs, Sync(p) PROVE ProcsTyped' /\ CallsOwned' /\ DiskTyped' /\ Bound' /\ RestTyped'
  <2>0. current[p] \in Calls /\ work' = work /\ pc[p] # "idle"
    BY <1>4, <1>a DEF Sync
  <2>1. ProcsTyped' /\ CallsOwned'
    BY <1>4, <1>t, <2>0 DEF Sync, Enter, ProcsTyped, CallsOwned, DiskTyped, callVars
  <2>2. DiskTyped' /\ Bound'
    BY <1>4, <1>t, ZenonT(60) DEF Sync, CallsOwned, DiskTyped, Bound
  <2>3. RestTyped'
    BY <1>4, <1>t DEF Sync, RestTyped, callVars
  <2> QED
    BY <2>1, <2>2, <2>3
<1>5. ASSUME NEW p \in Procs, OpenTemp(p) PROVE ProcsTyped' /\ CallsOwned' /\ DiskTyped' /\ Bound' /\ RestTyped'
  <2>0. current[p] \in Calls /\ work' = work /\ pc[p] # "idle"
    BY <1>5, <1>a DEF OpenTemp
  <2>1. ProcsTyped' /\ CallsOwned'
    <3>1. /\ pc' = [pc EXCEPT ![p] = "write"]
          /\ \E i \in Inodes : fd' = [fd EXCEPT ![p] = i]
          /\ UNCHANGED <<current, off, kind, result>>
      BY <1>5, <2>0 DEF OpenTemp, Enter, callVars
    <3>2. ProcsTyped'
      BY <1>t, <2>0, <3>1 DEF ProcsTyped
    <3>3. CallsOwned'
      BY <1>t, <2>0, <3>1 DEF ProcsTyped, CallsOwned
    <3> QED
      BY <3>2, <3>3
  <2>2. DiskTyped' /\ Bound'
    <3>1. [dir EXCEPT ![current[p]] = current[p]] \in [Names -> Inodes \cup {None}]
      BY <1>t, <2>0 DEF DiskTyped
    <3> QED
      BY <1>5, <1>t, <3>1, RebindKeeps DEF OpenTemp
  <2>3. RestTyped'
    BY <1>5, <1>t DEF OpenTemp, RestTyped, callVars
  <2> QED
    BY <2>1, <2>2, <2>3
<1>6. ASSUME NEW p \in Procs, CloseTemp(p) PROVE ProcsTyped' /\ CallsOwned' /\ DiskTyped' /\ Bound' /\ RestTyped'
  <2>0. current[p] \in Calls /\ work' = work /\ pc[p] # "idle"
    BY <1>6, <1>a DEF CloseTemp
  <2>1. ProcsTyped' /\ CallsOwned'
    BY <1>6, <1>t, <2>0 DEF CloseTemp, Enter, ProcsTyped, CallsOwned, DiskTyped, callVars
  <2>2. DiskTyped' /\ Bound'
    BY <1>6, <1>t DEF CloseTemp, diskVars, DiskTyped, Bound
  <2>3. RestTyped'
    BY <1>6, <1>t DEF CloseTemp, RestTyped, callVars
  <2> QED
    BY <2>1, <2>2, <2>3
<1>7. ASSUME NEW p \in Procs, Rename(p) PROVE ProcsTyped' /\ CallsOwned' /\ DiskTyped' /\ Bound' /\ RestTyped'
  <2>0. current[p] \in Calls /\ work' = work /\ pc[p] # "idle"
    BY <1>7, <1>a DEF Rename
  <2>1. ProcsTyped' /\ CallsOwned'
    BY <1>7, <1>t, <2>0 DEF Rename, Enter, ProcsTyped, CallsOwned, DiskTyped, callVars
  <2>2. DiskTyped' /\ Bound'
    <3>1. [dir EXCEPT ![Path] = dir[current[p]], ![current[p]] = None] \in [Names -> Inodes \cup {None}]
      BY <1>t, <2>0 DEF DiskTyped
    <3> QED
      BY <1>7, <1>t, <3>1, RebindKeeps DEF Rename
  <2>3. RestTyped'
    BY <1>7, <1>t DEF Rename, RestTyped, callVars
  <2> QED
    BY <2>1, <2>2, <2>3
<1>8. ASSUME NEW p \in Procs, SyncDir(p) PROVE ProcsTyped' /\ CallsOwned' /\ DiskTyped' /\ Bound' /\ RestTyped'
  <2>0. current[p] \in Calls /\ work' = work /\ pc[p] # "idle"
    BY <1>8, <1>a DEF SyncDir
  <2>1. ProcsTyped' /\ CallsOwned'
    BY <1>8, <1>t, <2>0, ReturnKeeps DEF SyncDir
  <2>2. DiskTyped' /\ Bound' /\ RestTyped'
    BY <1>8, <1>t DEF SyncDir, DiskTyped, Bound, RestTyped, diskVars
  <2> QED
    BY <2>1, <2>2
<1>9. ASSUME NEW p \in Procs, OpenFile(p) PROVE ProcsTyped' /\ CallsOwned' /\ DiskTyped' /\ Bound' /\ RestTyped'
  <2>0. current[p] \in Calls /\ work' = work /\ pc[p] # "idle"
    BY <1>9, <1>a DEF OpenFile
  <2>1. ProcsTyped' /\ CallsOwned'
    <3>1. (IF dir[Path] = None THEN current[p] ELSE dir[Path]) \in Inodes
      BY <1>t, <2>0 DEF DiskTyped
    <3>2. /\ pc' = [pc EXCEPT ![p] = "write"]
          /\ \E i \in Inodes : fd' = [fd EXCEPT ![p] = i]
          /\ UNCHANGED <<current, off, kind, result>>
      BY <1>9, <3>1 DEF OpenFile, Enter, callVars
    <3>3. ProcsTyped'
      BY <1>t, <2>0, <3>2 DEF ProcsTyped
    <3>4. CallsOwned'
      BY <1>t, <2>0, <3>2 DEF ProcsTyped, CallsOwned
    <3> QED
      BY <3>3, <3>4
  <2>2. DiskTyped' /\ Bound'
    <3>1. [dir EXCEPT ![Path] = current[p]] \in [Names -> Inodes \cup {None}]
      BY <1>t, <2>0 DEF DiskTyped
    <3>2. dir' \in [Names -> Inodes \cup {None}] /\ dirs' \subseteq [Names -> Inodes \cup {None}] /\ Bound'
      BY <1>9, <1>t, <3>1 DEF OpenFile, Rebind, DiskTyped, Bound
    <3>3. data' \in [Inodes -> Seq(Inodes \X {1, 2})] /\ durable' = durable
      <4>1. \A i \in Inodes : Opened(kind[current[p]], data[i]) \in Seq(Inodes \X {1, 2})
        BY <1>t DEF Opened, DiskTyped
      <4>2. \A i \in Inodes : [data EXCEPT ![i] = Opened(kind[current[p]], @)]
                                \in [Inodes -> Seq(Inodes \X {1, 2})]
        BY <1>t, <4>1 DEF DiskTyped
      <4>3. (IF dir[Path] = None THEN current[p] ELSE dir[Path]) \in Inodes
        BY <1>t, <2>0 DEF DiskTyped
      <4> QED
        BY <1>9, <4>2, <4>3 DEF OpenFile
    <3> QED
      BY <1>t, <3>2, <3>3 DEF DiskTyped
  <2>3. RestTyped'
    BY <1>9, <1>t DEF OpenFile, RestTyped, callVars
  <2> QED
    BY <2>1, <2>2, <2>3
<1>10. ASSUME NEW p \in Procs, CloseFile(p) PROVE ProcsTyped' /\ CallsOwned' /\ DiskTyped' /\ Bound' /\ RestTyped'
  <2>0. current[p] \in Calls /\ work' = work /\ pc[p] # "idle"
    BY <1>10, <1>a DEF CloseFile
  <2>1. ProcsTyped' /\ CallsOwned'
    BY <1>10, <1>t, <2>0, ReturnKeeps DEF CloseFile
  <2>2. DiskTyped' /\ Bound' /\ RestTyped'
    BY <1>10, <1>t DEF CloseFile, DiskTyped, Bound, RestTyped, diskVars
  <2> QED
    BY <2>1, <2>2
<1>11. ASSUME NEW p \in Procs, OpenRead(p) PROVE ProcsTyped' /\ CallsOwned' /\ DiskTyped' /\ Bound' /\ RestTyped'
  <2>0. current[p] \in Calls /\ work' = work /\ pc[p] # "idle"
    BY <1>11, <1>a DEF OpenRead
  <2>1. ProcsTyped' /\ CallsOwned'
    <3>1. CASE dir[Path] = None
      BY <1>11, <1>t, <2>0, <3>1, ReturnKeeps DEF OpenRead
    <3>2. CASE ~(dir[Path] = None)
      <4>1. dir[Path] \in Inodes
        BY <1>t, <3>2 DEF DiskTyped
      <4>2. ProcsTyped'
        BY <1>11, <1>t, <2>0, <3>2, <4>1 DEF OpenRead, Enter, ProcsTyped
      <4>3. CallsOwned'
        BY <1>11, <1>t, <2>0, <3>2, <4>1 DEF OpenRead, Enter, ProcsTyped, CallsOwned
      <4> QED
        BY <4>2, <4>3
    <3> QED
      BY <3>1, <3>2
  <2>2. DiskTyped' /\ Bound'
    BY <1>11, <1>t DEF OpenRead, DiskTyped, Bound, diskVars
  <2>3. RestTyped'
    BY <1>11, <1>t, <2>0 DEF OpenRead, RestTyped
  <2> QED
    BY <2>1, <2>2, <2>3
<1>12. ASSUME NEW p \in Procs, Size(p) PROVE ProcsTyped' /\ CallsOwned' /\ DiskTyped' /\ Bound' /\ RestTyped'
  <2>0. current[p] \in Calls /\ work' = work /\ pc[p] # "idle"
    BY <1>12, <1>a DEF Size
  <2>1. ProcsTyped' /\ CallsOwned'
    BY <1>12, <1>t, <2>0 DEF Size, Enter, ProcsTyped, CallsOwned, DiskTyped, callVars
  <2>2. DiskTyped' /\ Bound'
    BY <1>12, <1>t DEF Size, diskVars, DiskTyped, Bound
  <2>3. RestTyped'
    BY <1>12, <1>t DEF Size, RestTyped, callVars
  <2> QED
    BY <2>1, <2>2, <2>3
<1>13. ASSUME NEW p \in Procs, Read(p) PROVE ProcsTyped' /\ CallsOwned' /\ DiskTyped' /\ Bound' /\ RestTyped'
  <2>0. current[p] \in Calls /\ work' = work /\ pc[p] # "idle"
    BY <1>13, <1>a DEF Read
  <2>1. ProcsTyped' /\ CallsOwned'
    <3>1. CASE Len(data[fd[p]]) < off[p]
      BY <1>13, <1>t, <2>0, <3>1, ReturnKeeps DEF Read
    <3>2. CASE ~(Len(data[fd[p]]) < off[p])
      BY <1>13, <1>t, <2>0, <3>2, ReturnKeeps DEF Read
    <3> QED
      BY <3>1, <3>2
  <2>2. DiskTyped' /\ Bound'
    BY <1>13, <1>t DEF Read, DiskTyped, Bound, diskVars
  <2>3. RestTyped'
    <3>1. CASE Len(data[fd[p]]) < off[p]
      BY <1>13, <1>t, <2>0, <3>1 DEF Read, RestTyped
    <3>2. CASE ~(Len(data[fd[p]]) < off[p])
      <4>1. fd[p] \in Inodes /\ data[fd[p]] \in Seq(Inodes \X {1, 2}) /\ off[p] \in Nat
        BY <1>13, <1>t, ZenonT(60) DEF Read, CallsOwned, ProcsTyped, DiskTyped
      <4>2. SubSeq(data[fd[p]], 1, off[p]) \in Seq(Inodes \X {1, 2})
        BY <4>1, <3>2
      <4> QED
        BY <1>13, <1>t, <2>0, <3>2, <4>2, ZenonT(90) DEF Read, RestTyped
    <3> QED
      BY <3>1, <3>2
  <2> QED
    BY <2>1, <2>2, <2>3
<1>14. ASSUME NEW p \in Procs, Stat(p) PROVE ProcsTyped' /\ CallsOwned' /\ DiskTyped' /\ Bound' /\ RestTyped'
  <2>0. current[p] \in Calls /\ work' = work /\ pc[p] # "idle"
    BY <1>14, <1>a DEF Stat
  <2>1. ProcsTyped' /\ CallsOwned'
    <3>1. CASE off[p] \in made
      BY <1>14, <1>t, <2>0, <3>1, NextDirKeeps DEF Stat
    <3>2. CASE off[p] \notin made
      BY <1>14, <1>t, <2>0, <3>2 DEF Stat, Enter, ProcsTyped, CallsOwned
    <3> QED
      BY <3>1, <3>2
  <2>2. DiskTyped' /\ Bound'
    BY <1>14, <1>t DEF Stat, DiskTyped, Bound, diskVars
  <2>3. RestTyped'
    BY <1>14, <1>t DEF Stat, RestTyped
  <2> QED
    BY <2>1, <2>2, <2>3
<1>15. ASSUME NEW p \in Procs, Mkdir(p) PROVE ProcsTyped' /\ CallsOwned' /\ DiskTyped' /\ Bound' /\ RestTyped'
  <2>0. current[p] \in Calls /\ work' = work /\ pc[p] # "idle"
    BY <1>15, <1>a DEF Mkdir
  <2>1. ProcsTyped' /\ CallsOwned'
    BY <1>15, <1>t, <2>0, NextDirKeeps DEF Mkdir
  <2>2. DiskTyped' /\ Bound'
    BY <1>15, <1>t DEF Mkdir, DiskTyped, Bound, diskVars
  <2>3. RestTyped'
    BY <1>15, <1>t, <2>0 DEF Mkdir, RestTyped, CallsOwned
  <2> QED
    BY <2>1, <2>2, <2>3
<1>16. ASSUME NEW p \in Procs, Kill(p) PROVE ProcsTyped' /\ CallsOwned' /\ DiskTyped' /\ Bound' /\ RestTyped'
  <2>0. current[p] \in Calls /\ work' = work /\ pc[p] # "idle"
    BY <1>16, <1>a DEF Kill
  <2>1. ProcsTyped' /\ CallsOwned'
    BY <1>16, <1>t, <2>0, ReturnKeeps DEF Kill
  <2>2. DiskTyped' /\ Bound' /\ RestTyped'
    BY <1>16, <1>t DEF Kill, DiskTyped, Bound, RestTyped, diskVars
  <2> QED
    BY <2>1, <2>2
<1>17. CASE PowerCut
  <2> PICK d \in dirs : PowerCut!3!(d)
    BY <1>17 DEF PowerCut
  <2>1. ProcsTyped' /\ CallsOwned'
    BY <1>17, <1>t DEF PowerCut, ProcsTyped, CallsOwned
  <2>2. DiskTyped' /\ Bound'
    <3>1. d \in [Names -> Inodes \cup {None}]
      BY <1>t DEF DiskTyped
    <3>2. \A i \in Inodes : Left(i) \subseteq Seq(Inodes \X {1, 2})
      BY <1>t, LeftType
    <3>3. PICK s \in (IF d[Path] = None THEN {<<>>} ELSE Left(d[Path])) :
            data' = [i \in Inodes |-> IF i = d[Path] THEN s ELSE durable[i]] /\ durable' = data'
      OBVIOUS
    <3>4. s \in Seq(Inodes \X {1, 2})
      <4>1. <<>> \in Seq(Inodes \X {1, 2})
        OBVIOUS
      <4>2. d[Path] \in Inodes \cup {None}
        BY <3>1
      <4> QED
        BY <3>2, <3>3, <4>1, <4>2
    <3> QED
      BY <1>t, <3>1, <3>3, <3>4 DEF DiskTyped, Bound
  <2>3. RestTyped'
    BY <1>17, <1>t DEF PowerCut, RestTyped
  <2> QED
    BY <2>1, <2>2, <2>3
<1> QED
  BY <1>0, <1>1, <1>2, <1>3, <1>4, <1>5, <1>6, <1>7, <1>8, <1>9, <1>10, <1>11, <1>12, <1>13, <1>14, <1>15, <1>16, <1>17 DEF Next

LEMMA PrefixSelf ==
  ASSUME NEW s \in Seq(Inodes \X {1, 2})
  PROVE  IsPrefixOf(s, s)
BY DEF IsPrefixOf

LEMMA PrefixAppend ==
  ASSUME NEW s \in Seq(Inodes \X {1, 2}), NEW t \in Seq(Inodes \X {1, 2}),
         NEW u \in Seq(Inodes \X {1, 2}), IsPrefixOf(s, t)
  PROVE  IsPrefixOf(s, t \o u)
<1>1. Len(s) \in Nat /\ Len(t) \in Nat /\ Len(s) <= Len(t)
  BY DEF IsPrefixOf
<1>2. SubSeq(t \o u, 1, Len(s)) = SubSeq(t, 1, Len(s))
  BY <1>1
<1> QED
  BY <1>1, <1>2 DEF IsPrefixOf

LEMMA HalvesJoin ==
  ASSUME NEW c \in Calls, NEW m \in 0 .. 2, NEW n \in m + 1 .. 2
  PROVE  Halves(c, 1, m) \o Halves(c, m + 1, n) = Halves(c, 1, n)
<1> DEFINE s == Halves(c, 1, m)
           t == Halves(c, m + 1, n)
<1>1. /\ m \in Nat /\ n \in Nat /\ m + 1 \in Nat /\ m <= n /\ n <= 2 /\ m <= 2
      /\ m + 1 >= 1 /\ m + 1 <= n + 1 /\ n - (m + 1) + 1 = n - m /\ m - 1 + 1 = m
      /\ n - 1 + 1 = n /\ 1 \in Nat /\ 1 >= 1 /\ 1 <= m + 1 /\ 1 <= n + 1
  OBVIOUS
<1>2. s \in Seq(Inodes \X {1, 2}) /\ Len(s) = m
  BY <1>1, HalvesType
<1>3. t \in Seq(Inodes \X {1, 2}) /\ Len(t) = n - m
  BY <1>1, HalvesType
<1>4. Halves(c, 1, n) \in Seq(Inodes \X {1, 2}) /\ Len(Halves(c, 1, n)) = n
  BY <1>1, HalvesType
<1>5. /\ \A k \in 1 .. m : s[k] = Half(c, k)
      /\ \A k \in 1 .. n - m : t[k] = Half(c, m + k)
      /\ \A k \in 1 .. n : Halves(c, 1, n)[k] = Half(c, k)
  BY <1>1 DEF Halves
<1> HIDE DEF s, t
<1>6. s \o t \in Seq(Inodes \X {1, 2}) /\ Len(s \o t) = n
  BY <1>1, <1>2, <1>3
<1>7. ASSUME NEW k \in 1 .. n PROVE (s \o t)[k] = Half(c, k)
  <2>1. CASE k <= m
    BY <1>1, <1>2, <1>3, <1>5, <2>1
  <2>2. CASE k > m
    <3>1. k - m \in 1 .. n - m /\ m + (k - m) = k
      BY <1>1, <2>2
    <3>2. (s \o t)[k] = t[k - m]
      BY <1>1, <1>2, <1>3, <2>2
    <3> QED
      BY <1>5, <3>1, <3>2
  <2>3. k <= m \/ k > m
    BY <1>1
  <2> QED
    BY <2>1, <2>2, <2>3
<1>8. \A k \in 1 .. n : (s \o t)[k] = Halves(c, 1, n)[k]
  BY <1>5, <1>7
<1>9. s \o t = Halves(c, 1, n)
  <2>1. DOMAIN (s \o t) = 1 .. n /\ DOMAIN Halves(c, 1, n) = 1 .. n
    BY <1>4, <1>6
  <2> QED
    BY <1>4, <1>6, <1>8, <2>1, Z3T(60)
<1> QED
  BY <1>9 DEF s, t

LEMMA HalvesWhole ==
  ASSUME NEW c \in Inodes
  PROVE  WholeBase(Halves(c, 1, 2), c)
BY DEF Halves, Half, WholeBase, Inodes, Calls, Old

LEMMA WholeAppend ==
  ASSUME NEW i \in Inodes, NEW s \in Seq(Inodes \X {1, 2}), NEW t \in Seq(Inodes \X {1, 2}),
         WholeBase(s, i)
  PROVE  WholeBase(s \o t, i)
BY DEF WholeBase

LEMMA WholeLeft ==
  ASSUME NEW i \in Inodes, DiskTyped, IsPrefixOf(durable[i], data[i]),
         WholeBase(data[i], i), WholeBase(durable[i], i), NEW s \in Left(i)
  PROVE  WholeBase(s, i)
<1>1. data[i] \in Seq(Inodes \X {1, 2}) /\ durable[i] \in Seq(Inodes \X {1, 2})
  BY DEF DiskTyped
<1>2. CASE s = durable[i]
  BY <1>2
<1>3. CASE \E n \in Len(durable[i]) .. Len(data[i]) : s = SubSeq(data[i], 1, n)
  <2> PICK n \in Len(durable[i]) .. Len(data[i]) : s = SubSeq(data[i], 1, n)
    BY <1>3
  <2>1. n \in Nat /\ n >= 2 /\ n <= Len(data[i])
    BY <1>1 DEF WholeBase
  <2>2. Len(s) = n /\ s[1] = data[i][1] /\ s[2] = data[i][2]
    BY <1>1, <2>1
  <2> QED
    BY <2>1, <2>2 DEF WholeBase
<1> QED
  BY <1>2, <1>3 DEF Left

\* Which inodes a step may write: the one its process has open.
LEMMA OnlyOpenWritten ==
  ASSUME TypeOK, CallsOwned, ~Truncates, NEW p \in Procs,
         \/ Begin(p) \/ Fails(p) \/ OpenTemp(p) \/ CloseTemp(p) \/ Rename(p) \/ SyncDir(p)
         \/ OpenFile(p) \/ CloseFile(p) \/ OpenRead(p) \/ Size(p) \/ Read(p)
         \/ Stat(p) \/ Mkdir(p) \/ Kill(p)
  PROVE  UNCHANGED <<data, durable>>
<1>1. CASE OpenFile(p)
  <2>1. kind[current[p]] # "write"
    BY <1>1 DEF CallsOwned, Truncates, OpenFile
  <2>2. \A i \in Inodes : [data EXCEPT ![i] = Opened(kind[current[p]], @)] = data
    BY <2>1 DEF Opened, TypeOK
  <2>3. current[p] \in Calls
    BY <1>1 DEF TypeOK, CallsOwned, OpenFile
  <2>4. (IF dir[Path] = None THEN current[p] ELSE dir[Path]) \in Inodes
    BY <2>3, Numbers DEF TypeOK
  <2> QED
    BY <1>1, <2>2, <2>4 DEF OpenFile
<1> QED
  BY <1>1 DEF Begin, Fails, OpenTemp, CloseTemp, Rename, SyncDir, CloseFile, OpenRead,
              Size, Read, Stat, Mkdir, Kill, Rebind, diskVars

LEMMA SyncedPreserved ==
  ASSUME TypeOK, CallsOwned, Bound, ~Truncates, SyncedFirst, [Next]_vars
  PROVE  SyncedFirst'
<1>t. DiskTyped
  BY TypeParts
<1>0. CASE UNCHANGED <<data, durable>>
  BY <1>0 DEF SyncedFirst
<1>1. ASSUME NEW p \in Procs, WriteSome(p) PROVE SyncedFirst'
  <2>0. current[p] \in Calls /\ fd[p] \in Inodes /\ off[p] \in Nat
    BY <1>1, Numbers DEF WriteSome, CallsOwned, TypeOK
  <2> PICK n \in off[p] + 1 .. 2 : WriteSome(p)!2!(n)
    BY <1>1 DEF WriteSome
  <2>1. Halves(current[p], off[p] + 1, n) \in Seq(Inodes \X {1, 2})
    <3>1. /\ n \in Nat /\ off[p] + 1 \in Nat /\ off[p] + 1 >= 1
          /\ n <= 2 /\ off[p] + 1 <= n + 1
      BY <2>0
    <3> QED
      BY <2>0, <3>1, HalvesType
  <2>2. ASSUME NEW i \in Inodes PROVE IsPrefixOf(durable[i], data'[i])
    <3>1. data[i] \in Seq(Inodes \X {1, 2}) /\ durable[i] \in Seq(Inodes \X {1, 2})
      BY <1>t DEF DiskTyped
    <3>2. IsPrefixOf(durable[i], data[i] \o Halves(current[p], off[p] + 1, n))
      BY <2>1, <3>1, PrefixAppend DEF SyncedFirst
    <3> QED
      BY <1>t, <3>2 DEF DiskTyped, SyncedFirst
  <2> QED
    BY <1>1, <2>2 DEF WriteSome, SyncedFirst
<1>2. ASSUME NEW p \in Procs, Sync(p) PROVE SyncedFirst'
  BY <1>2, <1>t, PrefixSelf DEF Sync, SyncedFirst, DiskTyped
<1>3. CASE PowerCut
  <2>0. TypeOK'
    BY TypePreserved
  <2>1. durable' = data' /\ DiskTyped'
    BY <1>3, <2>0, TypeParts, SMTT(60) DEF PowerCut, TypeOK, DiskTyped
  <2> QED
    BY <2>1, PrefixSelf DEF SyncedFirst, DiskTyped
<1> QED
  BY <1>0, <1>1, <1>2, <1>3, OnlyOpenWritten DEF Next, vars, diskVars

\* A step of one process leaves what the others are at, and takes a call that
\* has made a file no way back.
LEMMA OthersKept ==
  ASSUME TypeOK, CallsOwned, NEW p \in Procs,
         \/ Begin(p) \/ Fails(p) \/ WriteSome(p) \/ Sync(p) \/ OpenTemp(p) \/ CloseTemp(p)
         \/ Rename(p) \/ SyncDir(p) \/ OpenFile(p) \/ CloseFile(p) \/ OpenRead(p) \/ Size(p)
         \/ Read(p) \/ Stat(p) \/ Mkdir(p) \/ Kill(p)
  PROVE  \A q \in Procs \ {p} :
           /\ pc'[q] = pc[q] /\ current'[q] = current[q] /\ fd'[q] = fd[q] /\ off'[q] = off[q]
           /\ pc[q] # "idle" => kind'[current[q]] = kind[current[q]]
<1>0. ProcsTyped
  BY TypeParts
<1>1. CASE Begin(p)
  BY <1>0, <1>1 DEF Begin, Enter, ProcsTyped, CallsOwned
<1>2. CASE Return(p, "true") \/ Return(p, "false") \/ Return(p, "killed")
  BY <1>0, <1>2 DEF Return, Enter, ProcsTyped
<1>3. CASE NextDir(p)
  BY <1>0, <1>2, <1>3 DEF NextDir, Enter, ProcsTyped
<1>4. CASE OpenRead(p) \/ Read(p) \/ Stat(p) \/ Mkdir(p) \/ Fails(p) \/ SyncDir(p) \/ CloseFile(p) \/ Kill(p)
  BY <1>0, <1>2, <1>3, <1>4, SMTT(60) DEF OpenRead, Read, Stat, Mkdir, Fails, SyncDir, CloseFile, Kill,
     Enter, ProcsTyped
<1>5. CASE WriteSome(p) \/ Sync(p) \/ OpenTemp(p) \/ CloseTemp(p) \/ Rename(p) \/ OpenFile(p) \/ Size(p)
  BY <1>0, <1>5, ZenonT(60) DEF WriteSome, Sync, OpenTemp, CloseTemp, Rename, OpenFile, Size, Enter,
     ProcsTyped, callVars
<1> QED
  BY <1>1, <1>4, <1>5

\* Nobody reaches a hidden inode unless its writer gives it the path.
LEMMA HiddenPreserved ==
  ASSUME TypeOK, CallsOwned, Bound, StagedWhole, [Next]_vars, NEW c \in Calls, Hidden(c),
         \A p \in Procs : current[p] = c => ~OpenFile(p) /\ ~Rename(p)
  PROVE  Hidden(c)'
<1> USE Numbers
<1>t. ProcsTyped /\ DiskTyped
  BY TypeParts
<1>d. dir[Path] # c
  BY DEF Hidden, Bound
<1>0. CASE UNCHANGED vars
  BY <1>0 DEF vars, procVars, callVars, diskVars, Hidden
<1>1. ASSUME NEW e \in dirs' PROVE e[Path] # c
  <2>1. ASSUME dirs' \subseteq dirs \cup {dir} PROVE e[Path] # c
    BY <1>1, <1>d, <2>1 DEF Hidden
  <2>2. ASSUME NEW p \in Procs, Fails(p) PROVE e[Path] # c
    <3>1. current[p] \in Calls
      BY <2>2, <1>t DEF Fails, CallsOwned, ProcsTyped
    <3> QED
      BY <1>1, <1>d, <1>t, <2>1, <2>2, <3>1 DEF Fails, Rebind, Hidden, DiskTyped
  <2>3. ASSUME NEW p \in Procs, OpenTemp(p) PROVE e[Path] # c
    <3>1. current[p] \in Calls
      BY <2>3, <1>t DEF OpenTemp, CallsOwned, ProcsTyped
    <3> QED
      BY <1>1, <1>d, <1>t, <2>1, <2>3, <3>1 DEF OpenTemp, Rebind, Hidden, DiskTyped
  <2>4. ASSUME NEW p \in Procs, Rename(p) PROVE e[Path] # c
    <3>0. current[p] # c
      BY <2>4
    <3>1. current[p] \in Calls /\ kind[current[p]] = "atomic"
      BY <2>4, <1>t DEF Rename, CallsOwned, ProcsTyped
    <3>2. dir[current[p]] = current[p]
      BY <2>4, <3>1 DEF Rename, StagedWhole, Staged
    <3> QED
      BY <1>1, <1>d, <1>t, <2>1, <2>4, <3>0, <3>1, <3>2 DEF Rename, Rebind, Hidden, DiskTyped
  <2>5. ASSUME NEW p \in Procs, OpenFile(p) PROVE e[Path] # c
    <3>0. current[p] # c
      BY <2>5
    <3>1. current[p] \in Calls
      BY <2>5, <1>t DEF OpenFile, CallsOwned, ProcsTyped
    <3> QED
      BY <1>1, <1>d, <1>t, <2>1, <2>5, <3>0, <3>1 DEF OpenFile, Rebind, Hidden, DiskTyped
  <2>6. CASE PowerCut
    BY <2>1, <2>6 DEF PowerCut
  <2>7. ASSUME NEW p \in Procs, SyncDir(p) PROVE e[Path] # c
    BY <2>1, <2>7 DEF SyncDir
  <2>8. ASSUME NEW p \in Procs,
               \/ Begin(p) \/ WriteSome(p) \/ Sync(p) \/ CloseTemp(p) \/ CloseFile(p)
               \/ OpenRead(p) \/ Size(p) \/ Read(p) \/ Stat(p) \/ Mkdir(p) \/ Kill(p)
        PROVE e[Path] # c
    BY <2>1, <2>8 DEF Begin, WriteSome, Sync, CloseTemp, CloseFile, OpenRead, Size, Read,
       Stat, Mkdir, Kill, diskVars
  <2>9. CASE UNCHANGED vars
    BY <2>1, <2>9 DEF vars, diskVars
  <2> QED
    BY <2>2, <2>3, <2>4, <2>5, <2>6, <2>7, <2>8, <2>9 DEF Next
<1>2. ASSUME NEW q \in Procs, current'[q] # c PROVE fd'[q] # c
  <2>1. CASE PowerCut
    BY <1>2, <2>1 DEF PowerCut
  <2>2. ASSUME NEW p \in Procs, p # q,
               \/ Begin(p) \/ Fails(p) \/ WriteSome(p) \/ Sync(p) \/ OpenTemp(p) \/ CloseTemp(p)
               \/ Rename(p) \/ SyncDir(p) \/ OpenFile(p) \/ CloseFile(p) \/ OpenRead(p) \/ Size(p)
               \/ Read(p) \/ Stat(p) \/ Mkdir(p) \/ Kill(p)
        PROVE fd'[q] # c
    <3>1. current'[q] = current[q] /\ fd'[q] = fd[q]
      BY <2>2, OthersKept
    <3> QED
      BY <1>2, <3>1 DEF Hidden
  <2>3. CASE UNCHANGED <<current, fd>>
    BY <1>2, <2>3 DEF Hidden
  <2>4. CASE fd'[q] = None
    BY <2>4
  <2>5. CASE \/ Fails(q) \/ SyncDir(q) \/ CloseFile(q) \/ Kill(q) \/ Read(q) \/ CloseTemp(q)
    BY <1>t, <2>4, <2>5 DEF Fails, SyncDir, CloseFile, Kill, Read, CloseTemp, Return, ProcsTyped
  <2>6. CASE \/ WriteSome(q) \/ Sync(q) \/ Rename(q) \/ Size(q)
    BY <2>3, <2>6 DEF WriteSome, Sync, Rename, Size
  <2>7. CASE NextDir(q)
    BY <1>t, <2>3, <2>4, <2>7 DEF NextDir, Return, ProcsTyped
  <2>8. CASE Stat(q) \/ Mkdir(q)
    BY <2>3, <2>7, <2>8 DEF Stat, Mkdir
  <2>9. CASE Begin(q)
    <3>1. fd'[q] = fd[q] /\ current[q] = None
      BY <2>9, <1>t DEF Begin, CallsOwned, ProcsTyped
    <3> QED
      BY <3>1 DEF Hidden
  <2>10. CASE OpenTemp(q)
    BY <1>2, <1>t, <2>10 DEF OpenTemp, ProcsTyped
  <2>11. CASE OpenFile(q)
    BY <1>2, <1>t, <1>d, <2>11 DEF OpenFile, ProcsTyped
  <2>12. CASE OpenRead(q)
    <3>1. CASE dir[Path] = None
      BY <1>t, <2>4, <2>12, <3>1 DEF OpenRead, Return, ProcsTyped
    <3>2. CASE ~(dir[Path] = None)
      BY <1>t, <1>d, <2>12, <3>2 DEF OpenRead, ProcsTyped
    <3> QED
      BY <3>1, <3>2
  <2>13. CASE UNCHANGED vars
    BY <2>3, <2>13 DEF vars, procVars
  <2> QED
    BY <2>1, <2>2, <2>5, <2>6, <2>8, <2>9, <2>10, <2>11, <2>12, <2>13 DEF Next
<1> QED
  BY <1>1, <1>2 DEF Hidden

\* Nobody but its writer writes a hidden inode.
LEMMA ContentKept ==
  ASSUME TypeOK, CallsOwned, ~Truncates, [Next]_vars, NEW c \in Calls, Hidden(c),
         \A p \in Procs : current[p] = c => ~WriteSome(p) /\ ~Sync(p)
  PROVE  /\ durable'[c] = durable[c]
         /\ data'[c] = data[c] \/ (PowerCut /\ data'[c] = durable[c])
<1>t. ProcsTyped /\ DiskTyped
  BY TypeParts
<1>0. CASE UNCHANGED <<data, durable>>
  BY <1>0, SMTT(60)
<1>1. ASSUME NEW p \in Procs, WriteSome(p) \/ Sync(p)
      PROVE data'[c] = data[c] /\ durable'[c] = durable[c]
  <2>1. fd[p] # c
    BY <1>1 DEF Hidden
  <2> QED
    BY <1>1, <1>t, <2>1, Numbers DEF WriteSome, Sync, DiskTyped
<1>2. ASSUME PowerCut PROVE data'[c] = durable[c] /\ durable'[c] = durable[c]
  <2> PICK d \in dirs : PowerCut!3!(d)
    BY <1>2 DEF PowerCut
  <2>1. d[Path] # c
    BY DEF Hidden
  <2> QED
    BY <1>t, <2>1, Numbers DEF DiskTyped
<1> QED
  BY <1>0, <1>1, <1>2, OnlyOpenWritten DEF Next, vars, diskVars

\* A call that has made no file never had.
LEMMA UnbornBefore ==
  ASSUME TypeOK, CallsOwned, [Next]_vars, NEW c \in Calls, Unborn(c)'
  PROVE  Unborn(c)
<1> USE Numbers
<1>t. ProcsTyped
  BY TypeParts
<1>0. CASE UNCHANGED vars
  BY <1>0 DEF vars, procVars, callVars, Unborn
<1>1. CASE PowerCut
  BY <1>t, <1>1 DEF PowerCut, Unborn, ProcsTyped
<1>2. ASSUME NEW p \in Procs, Begin(p) PROVE Unborn(c)
  BY <1>t, <1>2 DEF Begin, Enter, Unborn, ProcsTyped
<1>3. ASSUME NEW p \in Procs, current[p] \in Calls, result[current[p]] = "running",
             Return(p, "true") \/ Return(p, "false") \/ Return(p, "killed")
      PROVE Unborn(c)
  BY <1>t, <1>3 DEF Return, Enter, Unborn, ProcsTyped
<1>4. ASSUME NEW p \in Procs, \/ Fails(p) \/ SyncDir(p) \/ CloseFile(p) \/ Read(p) \/ Kill(p)
      PROVE Unborn(c)
  <2>1. current[p] \in Calls /\ result[current[p]] = "running"
    BY <1>t, <1>4 DEF Fails, SyncDir, CloseFile, Read, Kill, CallsOwned, ProcsTyped
  <2> QED
    BY <1>3, <1>4, <2>1 DEF Fails, SyncDir, CloseFile, Read, Kill
<1>5. ASSUME NEW p \in Procs,
             \/ WriteSome(p) \/ Sync(p) \/ OpenTemp(p) \/ CloseTemp(p) \/ Rename(p)
             \/ OpenFile(p) \/ Size(p)
      PROVE Unborn(c)
  BY <1>t, <1>5, ZenonT(60) DEF WriteSome, Sync, OpenTemp, CloseTemp, Rename, OpenFile, Size, Enter,
     AfterWrite, callVars, Unborn, ProcsTyped
<1>6. ASSUME NEW p \in Procs, current[p] \in Calls, result[current[p]] = "running", NextDir(p)
      PROVE Unborn(c)
  <2>1. CASE off[p] = Depth
    BY <1>3, <1>6, <2>1 DEF NextDir
  <2>2. CASE off[p] # Depth
    BY <1>t, <1>6, <2>2 DEF NextDir, Enter, Unborn, ProcsTyped
  <2> QED
    BY <2>1, <2>2
<1>7. ASSUME NEW p \in Procs, Stat(p) \/ Mkdir(p) \/ OpenRead(p) PROVE Unborn(c)
  <2>1. current[p] \in Calls /\ result[current[p]] = "running"
    BY <1>t, <1>7 DEF Stat, Mkdir, OpenRead, CallsOwned, ProcsTyped
  <2>2. CASE NextDir(p) \/ Return(p, "false")
    BY <1>3, <1>6, <2>1, <2>2
  <2>3. CASE \/ Enter(p, "mkdir") /\ UNCHANGED <<current, kind, result>>
             \/ Enter(p, "size") /\ UNCHANGED <<current, kind, result>>
    BY <1>t, <2>3 DEF Enter, Unborn, ProcsTyped
  <2> QED
    BY <1>7, <2>2, <2>3 DEF Stat, Mkdir, OpenRead
<1> QED
  BY <1>0, <1>1, <1>2, <1>4, <1>5, <1>7 DEF Next

LEMMA UnbornPreserved ==
  ASSUME TypeOK, CallsOwned, Bound, ~Truncates, UnbornEmpty, StagedWhole, [Next]_vars
  PROVE  UnbornEmpty'
<1> USE Numbers
<1>t. ProcsTyped /\ DiskTyped
  BY TypeParts
<1> SUFFICES ASSUME NEW c \in Calls, Unborn(c)'
             PROVE  data'[c] = <<>> /\ durable'[c] = <<>> /\ Hidden(c)'
  BY DEF UnbornEmpty
<1>1. Unborn(c)
  BY UnbornBefore
<1>2. data[c] = <<>> /\ durable[c] = <<>> /\ Hidden(c)
  BY <1>1 DEF UnbornEmpty
<1>3. ASSUME NEW p \in Procs, current[p] = c,
             \/ WriteSome(p) \/ Sync(p) \/ OpenFile(p) \/ Rename(p)
      PROVE FALSE
  <2>1. pc[p] # "idle" /\ result[c] = "running" /\ result'[c] = "running" /\ current'[p] = c
    BY <1>t, <1>3 DEF WriteSome, Sync, OpenFile, Rename, callVars, CallsOwned, ProcsTyped
  <2>2. pc'[p] # "open"
    BY <1>t, <1>3 DEF WriteSome, Sync, OpenFile, Rename, Enter, AfterWrite, ProcsTyped
  <2>3. \A q \in Procs \ {p} : current'[q] = current[q]
    BY <1>t, <1>3, OthersKept
  <2>4. \A q \in Procs \ {p} : current'[q] # c
    <3>1. current[p] = c /\ c # None
      BY <1>3
    <3> QED
      BY <2>3, <3>1 DEF CallsOwned
  <2> QED
    BY <2>1, <2>2, <2>4 DEF Unborn
<1>4. Hidden(c)'
  BY <1>2, <1>3, HiddenPreserved
<1>5. data'[c] = <<>> /\ durable'[c] = <<>>
  BY <1>2, <1>3, ContentKept
<1> QED
  BY <1>4, <1>5

LEMMA WholeAtPathPreserved ==
  ASSUME TypeOK, CallsOwned, Bound, ~Truncates, UnbornEmpty, StagedWhole, SyncedFirst,
         WholeAtPath, [Next]_vars
  PROVE  WholeAtPath'
<1> USE Numbers
<1>t. ProcsTyped /\ DiskTyped
  BY TypeParts
<1> SUFFICES ASSUME NEW d \in dirs', Version(d[Path])'
             PROVE  WholeBase(data'[d[Path]], d[Path]) /\ WholeBase(durable'[d[Path]], d[Path])
  BY DEF WholeAtPath
<1> DEFINE i == d[Path]
<1>i. i \in Inodes
  BY DEF Version, Inodes
<1>w. ASSUME UNCHANGED kind, \E e \in dirs : e[Path] = i
      PROVE  Version(i) /\ WholeBase(data[i], i) /\ WholeBase(durable[i], i)
  BY <1>w DEF WholeAtPath, Version
<1>s. ASSUME UNCHANGED <<kind, data, durable>>, \E e \in dirs : e[Path] = i
      PROVE  WholeBase(data'[i], i) /\ WholeBase(durable'[i], i)
  BY <1>s, <1>w
<1> HIDE DEF i
<1>0. CASE UNCHANGED vars
  BY <1>0, <1>s DEF vars, callVars, diskVars, i
<1>1. ASSUME NEW p \in Procs, Begin(p)
      PROVE  WholeBase(data'[i], i) /\ WholeBase(durable'[i], i)
  <2>1. PICK c \in Calls, op \in work[p] : Begin(p)!2!(c, op)
    BY <1>1 DEF Begin
  <2>2. i # c
    <3>1. result[c] = "none" /\ d \in dirs
      BY <1>1, <2>1 DEF Begin, diskVars
    <3> QED
      BY <3>1 DEF UnbornEmpty, Unborn, Hidden, i
  <2>3. kind' = [kind EXCEPT ![c] = op] /\ UNCHANGED <<data, durable, dirs>>
    BY <1>1, <2>1 DEF Begin, diskVars
  <2>4. Version(i)
    BY <1>t, <2>2, <2>3 DEF Version, ProcsTyped, i
  <2> QED
    BY <2>3, <2>4 DEF WholeAtPath, i
<1>2. ASSUME NEW p \in Procs, Fails(p)
      PROVE  WholeBase(data'[i], i) /\ WholeBase(durable'[i], i)
  <2>1. current[p] \in Calls
    BY <1>2, <1>t DEF Fails, CallsOwned, ProcsTyped
  <2>2. \E e \in dirs : e[Path] = i
    BY <1>2, <1>t, <2>1 DEF Fails, Rebind, DiskTyped, Bound, i
  <2> QED
    BY <1>2, <1>s, <2>2 DEF Fails, Return
<1>3. ASSUME NEW p \in Procs, WriteSome(p)
      PROVE  WholeBase(data'[i], i) /\ WholeBase(durable'[i], i)
  <2>1. WholeBase(data[i], i) /\ WholeBase(durable[i], i) /\ UNCHANGED durable
    BY <1>3, <1>w DEF WriteSome, callVars, i
  <2>2. current[p] \in Calls /\ fd[p] \in Inodes /\ off[p] \in Nat
    BY <1>3, <1>t DEF WriteSome, CallsOwned, ProcsTyped
  <2>3. PICK n \in off[p] + 1 .. 2 :
          data' = [data EXCEPT ![fd[p]] = @ \o Halves(current[p], off[p] + 1, n)]
    BY <1>3 DEF WriteSome
  <2>4. Halves(current[p], off[p] + 1, n) \in Seq(Inodes \X {1, 2})
    <3>1. /\ n \in Nat /\ off[p] + 1 \in Nat /\ off[p] + 1 >= 1
          /\ n <= 2 /\ off[p] + 1 <= n + 1
      BY <2>2
    <3> QED
      BY <2>2, <3>1, HalvesType
  <2>5. data[i] \in Seq(Inodes \X {1, 2})
    BY <1>t, <1>i DEF DiskTyped
  <2>6. WholeBase(data[i] \o Halves(current[p], off[p] + 1, n), i)
    BY <1>i, <2>1, <2>4, <2>5, WholeAppend, SMTT(60)
  <2>7. data'[i] \in {data[i], data[i] \o Halves(current[p], off[p] + 1, n)}
    BY <1>t, <1>i, <2>3 DEF DiskTyped
  <2> QED
    BY <2>1, <2>6, <2>7
<1>4. ASSUME NEW p \in Procs, Sync(p)
      PROVE  WholeBase(data'[i], i) /\ WholeBase(durable'[i], i)
  <2>1. WholeBase(data[i], i) /\ WholeBase(durable[i], i) /\ UNCHANGED data
    BY <1>4, <1>w DEF Sync, callVars, i
  <2>2. durable'[i] \in {data[i], durable[i]}
    BY <1>4, <1>t, <1>i DEF Sync, DiskTyped
  <2> QED
    BY <2>1, <2>2
<1>5. ASSUME NEW p \in Procs, OpenTemp(p)
      PROVE  WholeBase(data'[i], i) /\ WholeBase(durable'[i], i)
  <2>1. current[p] \in Calls
    BY <1>5, <1>t DEF OpenTemp, CallsOwned, ProcsTyped
  <2>2. \E e \in dirs : e[Path] = i
    BY <1>5, <1>t, <2>1 DEF OpenTemp, Rebind, DiskTyped, Bound, i
  <2> QED
    BY <1>5, <1>s, <2>2 DEF OpenTemp, callVars
<1>6. ASSUME NEW p \in Procs, Rename(p)
      PROVE  WholeBase(data'[i], i) /\ WholeBase(durable'[i], i)
  <2>1. current[p] \in Calls /\ Staged(p) /\ pc[p] = "rename"
    BY <1>6, <1>t DEF Rename, CallsOwned, ProcsTyped, Staged
  <2>2. /\ dir[current[p]] = current[p] /\ data[current[p]] = Halves(current[p], 1, 2)
        /\ durable[current[p]] = data[current[p]]
    BY <2>1 DEF StagedWhole
  <2>3. UNCHANGED <<kind, data, durable>>
    BY <1>6 DEF Rename, callVars
  <2>4. CASE i = current[p]
    BY <1>i, <2>2, <2>3, <2>4, HalvesWhole
  <2>5. CASE i # current[p]
    <3>1. d \in dirs
      BY <1>6, <1>t, <2>1, <2>2, <2>5 DEF Rename, Rebind, DiskTyped, i
    <3> QED
      BY <1>s, <2>3, <3>1 DEF i
  <2> QED
    BY <2>4, <2>5
<1>7. ASSUME NEW p \in Procs, OpenFile(p)
      PROVE  WholeBase(data'[i], i) /\ WholeBase(durable'[i], i)
  <2>1. current[p] \in Calls /\ kind[current[p]] # "atomic" /\ UNCHANGED kind
    BY <1>7, <1>t DEF OpenFile, CallsOwned, ProcsTyped, callVars
  <2>2. i # current[p]
    BY <2>1 DEF Version, i, Old, Calls
  <2>3. d \in dirs
    BY <1>7, <1>t, <2>1, <2>2 DEF OpenFile, Rebind, DiskTyped, i
  <2> QED
    BY <1>7, <1>s, <2>1, <2>3, OnlyOpenWritten DEF i
<1>8. CASE PowerCut
  <2>1. PICK e \in dirs : PowerCut!3!(e)
    BY <1>8 DEF PowerCut
  <2>2. d = e /\ e[Path] = i
    BY <2>1 DEF i
  <2>3. Version(i) /\ WholeBase(data[i], i) /\ WholeBase(durable[i], i)
    BY <1>8, <1>w, <2>2 DEF PowerCut
  <2>4. PICK s \in Left(i) : data' = [j \in Inodes |-> IF j = i THEN s ELSE durable[j]] /\ durable' = data'
    BY <1>i, <2>1, <2>2
  <2>5. WholeBase(s, i)
    BY <1>t, <1>i, <2>3, <2>4, WholeLeft DEF SyncedFirst
  <2>6. WholeBase(data'[i], i) /\ WholeBase(durable'[i], i)
    BY <1>i, <2>4, <2>5
  <2> QED
    BY <2>6 DEF i
<1>9. ASSUME NEW p \in Procs,
             \/ CloseTemp(p) \/ SyncDir(p) \/ CloseFile(p) \/ OpenRead(p) \/ Size(p)
             \/ Read(p) \/ Stat(p) \/ Mkdir(p) \/ Kill(p)
      PROVE  WholeBase(data'[i], i) /\ WholeBase(durable'[i], i)
  <2>1. UNCHANGED <<kind, data, durable>> /\ dirs' \subseteq dirs \cup {dir}
    BY <1>9 DEF CloseTemp, SyncDir, CloseFile, OpenRead, Size, Read, Stat, Mkdir, Kill,
       Return, NextDir, diskVars, callVars
  <2> QED
    BY <1>s, <2>1 DEF Bound, i
<1> QED
  BY <1>0, <1>1, <1>2, <1>3, <1>4, <1>5, <1>6, <1>7, <1>8, <1>9 DEF Next, i

\* What a staged file is.
StagedFile(p, c) ==
  /\ Hidden(c) /\ dir[c] = c
  /\ pc[p] # "rename" => fd[p] = c
  /\ off[p] \in 0 .. 2 /\ data[c] = Halves(c, 1, off[p])
  /\ pc[p] # "write" => off[p] = 2
  /\ pc[p] \in {"close", "rename"} => durable[c] = data[c]

\* A step of another process leaves a staged file alone.
LEMMA StagedByOthers ==
  ASSUME TypeOK, CallsOwned, Bound, ~Truncates, StagedWhole, [Next]_vars,
         NEW p \in Procs,
         \/ Begin(p) \/ Fails(p) \/ WriteSome(p) \/ Sync(p) \/ OpenTemp(p) \/ CloseTemp(p)
         \/ Rename(p) \/ SyncDir(p) \/ OpenFile(p) \/ CloseFile(p) \/ OpenRead(p) \/ Size(p)
         \/ Read(p) \/ Stat(p) \/ Mkdir(p) \/ Kill(p),
         NEW q \in Procs, p # q, Staged(q)'
  PROVE  StagedFile(q, current[q])' /\ current'[q] = current[q]
<1> USE Numbers
<1>t. ProcsTyped /\ DiskTyped
  BY TypeParts
<1>0. /\ pc'[q] = pc[q] /\ current'[q] = current[q] /\ fd'[q] = fd[q] /\ off'[q] = off[q]
      /\ pc[q] # "idle" => kind'[current[q]] = kind[current[q]]
  BY OthersKept
<1>1. Staged(q) /\ current[q] \in Calls
  BY <1>t, <1>0 DEF Staged, CallsOwned, ProcsTyped
<1>2. PICK c \in Calls : c = current[q]
  BY <1>1
<1>3. StagedFile(q, c)
  BY <1>1, <1>2 DEF StagedWhole, StagedFile
<1>4. \A r \in Procs : current[r] = c => r = q
  BY <1>1, <1>2, ZenonT(60) DEF CallsOwned
<1>5. ASSUME NEW r \in Procs, current[r] = c
      PROVE  ~OpenFile(r) /\ ~Rename(r) /\ ~WriteSome(r) /\ ~Sync(r)
  <2>1. r = q
    BY <1>4, <1>5
  <2>2. pc'[r] = pc[r] /\ pc[r] \in {"write", "sync", "close", "rename"} /\ off'[r] = off[r]
    BY <1>0, <1>1, <2>1 DEF Staged
  <2>3. off[r] \in Nat
    BY <1>t DEF ProcsTyped
  <2>4. ASSUME WriteSome(r) PROVE FALSE
    <3> PICK n \in off[r] + 1 .. 2 : off' = [off EXCEPT ![r] = n]
      BY <2>4 DEF WriteSome
    <3>1. off'[r] = n
      BY <1>t DEF ProcsTyped
    <3> QED
      BY <2>2, <2>3, <3>1, SMTT(60)
  <2>5. ~OpenFile(r) /\ ~Sync(r)
    BY <1>t, <2>2 DEF OpenFile, Sync, Enter, ProcsTyped
  <2>6. ~Rename(r)
    BY <1>t, <2>2 DEF Rename, Enter, ProcsTyped
  <2> QED
    BY <2>4, <2>5, <2>6
<1>6. Hidden(c)'
  <2>1. \A r \in Procs : current[r] = c => ~OpenFile(r) /\ ~Rename(r)
    BY <1>5
  <2> QED
    BY <1>2, <1>3, <2>1, HiddenPreserved DEF StagedFile
<1>7. ~PowerCut
  BY <1>0, <1>1 DEF PowerCut, Staged
<1>8. data'[c] = data[c] /\ durable'[c] = durable[c]
  BY <1>2, <1>3, <1>5, <1>7, ContentKept DEF StagedFile
<1>9. current[p] # c /\ (pc[p] # "idle" => current[p] \in Calls)
  BY <1>2, <1>4, <1>t, SMTT(60) DEF CallsOwned, ProcsTyped
<1>10. dir'[c] = c
  <2>1. dir[c] = c
    BY <1>3 DEF StagedFile
  <2>2. CASE UNCHANGED dir
    BY <2>1, <2>2
  <2>3. CASE Fails(p) \/ OpenTemp(p) \/ Rename(p) \/ OpenFile(p)
    BY <1>t, <1>2, <1>9, <2>1, <2>3 DEF Fails, OpenTemp, Rename, OpenFile, Rebind, DiskTyped
  <2> QED
    BY <2>2, <2>3 DEF Begin, WriteSome, Sync, CloseTemp, SyncDir, CloseFile, OpenRead, Size,
       Read, Stat, Mkdir, Kill, diskVars
<1> QED
  BY <1>0, <1>2, <1>3, <1>6, <1>8, <1>10 DEF StagedFile

LEMMA StagedPreserved ==
  ASSUME TypeOK, CallsOwned, Bound, ~Truncates, UnbornEmpty, StagedWhole, [Next]_vars
  PROVE  StagedWhole'
<1> USE Numbers
<1>t. ProcsTyped /\ DiskTyped
  BY TypeParts
<1> SUFFICES ASSUME NEW q \in Procs, Staged(q)' PROVE StagedFile(q, current[q])'
  BY DEF StagedWhole, StagedFile
<1>0. CASE UNCHANGED vars
  <2>1. UNCHANGED StagedFile(q, current[q]) /\ UNCHANGED Staged(q)
    BY <1>0 DEF vars, procVars, callVars, diskVars, Staged, StagedFile, Hidden
  <2> QED
    BY <2>1 DEF StagedWhole, StagedFile
<1>1. CASE PowerCut
  BY <1>1 DEF PowerCut, Staged
<1>2. ASSUME NEW p \in Procs, p # q,
             \/ Begin(p) \/ Fails(p) \/ WriteSome(p) \/ Sync(p) \/ OpenTemp(p) \/ CloseTemp(p)
             \/ Rename(p) \/ SyncDir(p) \/ OpenFile(p) \/ CloseFile(p) \/ OpenRead(p) \/ Size(p)
             \/ Read(p) \/ Stat(p) \/ Mkdir(p) \/ Kill(p)
      PROVE  StagedFile(q, current[q])'
  <2>1. StagedFile(q, current[q])' /\ current'[q] = current[q]
    BY <1>2, StagedByOthers
  <2> QED
    BY <2>1
<1>3. CASE OpenTemp(q)
  <2>0. current[q] \in Calls
    BY <1>t, <1>3 DEF OpenTemp, CallsOwned, ProcsTyped
  <2> PICK c \in Calls : c = current[q]
    BY <2>0
  <2>1. c \in Calls /\ Unborn(c) /\ off[q] = 0 /\ pc[q] = "open" /\ kind[c] = "atomic"
    BY <1>t, <1>3 DEF OpenTemp, CallsOwned, ProcsTyped, Unborn
  <2>2. Hidden(c) /\ data[c] = <<>>
    BY <2>1 DEF UnbornEmpty
  <2>3. /\ current'[q] = c /\ fd'[q] = c /\ pc'[q] = "write" /\ off'[q] = 0
        /\ data' = data /\ dir'[c] = c
    BY <1>t, <1>3, <2>1 DEF OpenTemp, Enter, Rebind, DiskTyped, ProcsTyped
  <2>4. Hidden(c)'
    <3>1. ASSUME NEW r \in Procs, current[r] = c PROVE ~OpenFile(r) /\ ~Rename(r)
      <4>1. r = q
        BY <2>1, <3>1 DEF CallsOwned
      <4> QED
        BY <2>1, <4>1 DEF OpenFile, Rename
    <3>2. \A r \in Procs : current[r] = c => ~OpenFile(r) /\ ~Rename(r)
      BY <3>1
    <3> QED
      BY <2>1, <2>2, <3>2, HiddenPreserved
  <2>5. Halves(c, 1, 0) = <<>>
    BY DEF Halves
  <2> QED
    BY <2>2, <2>3, <2>4, <2>5 DEF StagedFile
<1>4. CASE WriteSome(q) \/ Sync(q) \/ CloseTemp(q)
  <2>0. current[q] \in Calls
    <3>1. pc[q] # "idle"
      BY <1>4 DEF WriteSome, Sync, CloseTemp
    <3> QED
      BY <1>t, <3>1 DEF CallsOwned, ProcsTyped
  <2> PICK c \in Calls : c = current[q]
    BY <2>0
  <2>1. Staged(q) /\ c \in Calls /\ current'[q] = c /\ fd[q] = c /\ pc[q] \in {"write", "sync", "close"}
    <3>1. current'[q] = c /\ kind' = kind /\ pc[q] \in {"write", "sync", "close"}
      BY <1>4 DEF WriteSome, Sync, CloseTemp, callVars
    <3>2. Staged(q) /\ c \in Calls
      BY <1>t, <3>1 DEF Staged, CallsOwned, ProcsTyped
    <3> QED
      BY <3>1, <3>2 DEF StagedWhole
  <2>2. StagedFile(q, c)
    BY <2>1 DEF StagedWhole, StagedFile
  <2>3. Hidden(c)'
    <3>1. ASSUME NEW r \in Procs, current[r] = c PROVE ~OpenFile(r) /\ ~Rename(r)
      <4>1. r = q
        BY <2>1, <3>1 DEF CallsOwned
      <4> QED
        BY <2>1, <4>1 DEF OpenFile, Rename
    <3> QED
      BY <2>1, <2>2, <3>1, HiddenPreserved DEF StagedFile
  <2>4. dir'[c] = c
    BY <1>4, <2>2 DEF WriteSome, Sync, CloseTemp, diskVars, StagedFile
  <2>5. CASE WriteSome(q)
    <3>1. PICK n \in off[q] + 1 .. 2 : WriteSome(q)!2!(n)
      BY <2>5 DEF WriteSome
    <3>0. off[q] \in 0 .. 2 /\ data[c] = Halves(c, 1, off[q]) /\ fd' = fd
      BY <2>2, <2>5 DEF WriteSome, StagedFile
    <3>2. /\ off'[q] = n /\ fd'[q] = c /\ n \in 1 .. 2 /\ off[q] \in 0 .. 2
          /\ data'[c] = Halves(c, 1, off[q]) \o Halves(c, off[q] + 1, n)
      <4>1. off'[q] = n /\ fd'[q] = c /\ n \in 1 .. 2
        BY <1>t, <2>1, <3>0, <3>1 DEF ProcsTyped
      <4>2. data'[c] = data[c] \o Halves(c, off[q] + 1, n)
        BY <1>t, <2>1, <3>1 DEF DiskTyped
      <4> QED
        BY <3>0, <4>1, <4>2
    <3>3. data'[c] = Halves(c, 1, n)
      BY <2>1, <3>1, <3>2, HalvesJoin
    <3>4. pc'[q] = IF n < 2 THEN "write" ELSE "sync"
      BY <1>t, <2>1, <3>1 DEF Enter, AfterWrite, Staged, ProcsTyped
    <3>5. pc'[q] \in {"write", "sync"} /\ (pc'[q] # "write" => n = 2)
      BY <3>2, <3>4
    <3>6. /\ pc'[q] # "rename" => fd'[q] = c
          /\ off'[q] \in 0 .. 2 /\ data'[c] = Halves(c, 1, off'[q])
          /\ pc'[q] # "write" => off'[q] = 2
          /\ pc'[q] \notin {"close", "rename"}
      BY <3>2, <3>3, <3>5, SMTT(60)
    <3> QED
      BY <2>1, <2>3, <2>4, <3>6 DEF StagedFile
  <2>6. CASE Sync(q)
    <3>1. /\ data' = data /\ durable'[c] = data[c] /\ pc'[q] = "close"
          /\ off'[q] = off[q] /\ fd'[q] = c /\ pc[q] = "sync"
      BY <1>t, <2>1, <2>6 DEF Sync, Enter, DiskTyped, ProcsTyped
    <3> QED
      BY <2>1, <2>2, <2>3, <2>4, <3>1 DEF StagedFile
  <2>7. CASE CloseTemp(q)
    <3>1. /\ data' = data /\ durable' = durable /\ pc'[q] = "rename"
          /\ off'[q] = off[q] /\ pc[q] = "close"
      BY <1>t, <2>7 DEF CloseTemp, Enter, diskVars, ProcsTyped
    <3> QED
      BY <2>1, <2>2, <2>3, <2>4, <3>1 DEF StagedFile
  <2> QED
    BY <1>4, <2>5, <2>6, <2>7
<1>5. ASSUME Return(q, "true") \/ Return(q, "false") \/ Return(q, "killed") PROVE FALSE
  BY <1>t, <1>5 DEF Return, Enter, Staged, ProcsTyped
<1>6. ASSUME NextDir(q) PROVE FALSE
  BY <1>t, <1>5, <1>6 DEF NextDir, Enter, Staged, ProcsTyped
<1>7. ASSUME \/ Begin(q) \/ Fails(q) \/ Rename(q) \/ SyncDir(q) \/ CloseFile(q) \/ OpenRead(q)
             \/ Size(q) \/ Read(q) \/ Stat(q) \/ Mkdir(q) \/ Kill(q)
      PROVE  FALSE
  <2>1. CASE Fails(q) \/ SyncDir(q) \/ CloseFile(q) \/ Read(q) \/ Kill(q) \/ Stat(q) \/ Mkdir(q)
    BY <1>t, <1>5, <1>6, <2>1 DEF Fails, SyncDir, CloseFile, Read, Kill, Stat, Mkdir, Enter,
       Staged, ProcsTyped
  <2>2. CASE Begin(q) \/ Rename(q) \/ Size(q) \/ OpenRead(q)
    BY <1>t, <1>5, <2>2 DEF Begin, Rename, Size, OpenRead, Enter, Staged, ProcsTyped
  <2> QED
    BY <1>7, <2>1, <2>2
<1>8. ASSUME OpenFile(q) PROVE FALSE
  <2>1. kind' = kind /\ current' = current /\ kind[current[q]] # "atomic"
    BY <1>8 DEF OpenFile, callVars
  <2> QED
    BY <2>1 DEF Staged
<1> QED
  BY <1>0, <1>1, <1>2, <1>3, <1>4, <1>7, <1>8 DEF Next

LEMMA InitWhole == Init => IInv
<1> SUFFICES ASSUME Init PROVE IInv
  OBVIOUS
<1> USE Numbers
<1>1. TypeOK /\ CallsOwned /\ Bound
  BY InitTyped
<1>2. UnbornEmpty
  BY <1>1 DEF Init, UnbornEmpty, Unborn, Hidden, Calls, Inodes, Old, Path, Names, None
<1>3. StagedWhole
  BY DEF Init, StagedWhole, Staged
<1>4. SyncedFirst
  BY <1>1, PrefixSelf DEF Init, SyncedFirst, TypeOK
<1>5. WholeAtPath
  <2> SUFFICES ASSUME NEW d \in dirs, Version(d[Path])
               PROVE  WholeBase(data[d[Path]], d[Path]) /\ WholeBase(durable[d[Path]], d[Path])
    BY DEF WholeAtPath
  <2>1. d = dir /\ d[Path] \in {Old, None} /\ durable = data
    BY DEF Init
  <2>2. d[Path] = Old
    BY <2>1 DEF Version, Calls, None
  <2>3. data[Old] = Halves(Old, 1, 2) /\ Old \in Inodes
    BY DEF Init, Inodes
  <2> QED
    BY <2>1, <2>2, <2>3, HalvesWhole
<1> QED
  BY <1>1, <1>2, <1>3, <1>4, <1>5 DEF IInv

LEMMA IInvPreserved == IInv /\ [Next]_vars => IInv'
<1> SUFFICES ASSUME IInv, [Next]_vars PROVE IInv'
  OBVIOUS
<1>0. TypeOK /\ CallsOwned /\ Bound
  BY DEF IInv
<1>1. TypeOK' /\ CallsOwned' /\ Bound'
  BY <1>0, TypePreserved, SMTT(60)
<1>2. work' = work
  BY ZenonT(60) DEF Next, vars, Begin, Fails, WriteSome, Sync, OpenTemp, CloseTemp, Rename, SyncDir,
     OpenFile, CloseFile, OpenRead, Size, Read, Stat, Mkdir, Kill, PowerCut
<1>3. ASSUME ~Truncates
      PROVE  UnbornEmpty' /\ StagedWhole' /\ SyncedFirst' /\ WholeAtPath'
  <2>1. UnbornEmpty /\ StagedWhole /\ SyncedFirst /\ WholeAtPath
    BY <1>3 DEF IInv
  <2>2. UnbornEmpty'
    BY <1>0, <1>3, <2>1, UnbornPreserved
  <2>3. StagedWhole'
    BY <1>0, <1>3, <2>1, StagedPreserved
  <2>4. SyncedFirst'
    BY <1>0, <1>3, <2>1, SyncedPreserved
  <2>5. WholeAtPath'
    BY <1>0, <1>3, <2>1, WholeAtPathPreserved
  <2> QED
    BY <2>2, <2>3, <2>4, <2>5
<1>4. Truncates' <=> Truncates
  BY <1>2 DEF Truncates
<1> QED
  BY <1>1, <1>3, <1>4 DEF IInv

\* A file that was replaced atomically holds a whole version at every moment
\* and after every power cut, whatever the processes, however many calls they
\* make, and whichever system calls fail: nobody reaches a new version before
\* it is complete and synced.
THEOREM Replaced == Spec => []ReplacedWhole
<1>1. IInv => ReplacedWhole
  BY DEF IInv, Bound, WholeAtPath, ReplacedWhole
<1> QED
  BY <1>1, InitWhole, IInvPreserved, PTL DEF Spec

-----------------------------------------------------------------------------
(* What the calls report, whoever truncates.                               *)

Acts(p) ==
  \/ Begin(p) \/ Fails(p) \/ WriteSome(p) \/ Sync(p) \/ OpenTemp(p) \/ CloseTemp(p)
  \/ Rename(p) \/ SyncDir(p) \/ OpenFile(p) \/ CloseFile(p) \/ OpenRead(p) \/ Size(p)
  \/ Read(p) \/ Stat(p) \/ Mkdir(p) \/ Kill(p)

\* A process does what its call is about; one that makes directories has made
\* those it has gone past.
Doing(p) ==
  LET k == kind[current[p]]
  IN /\ pc[p] \in {"stat", "mkdir"} => k = "mkdir" /\ 1 .. off[p] - 1 \subseteq made
     /\ pc[p] \in {"size", "read"} => k = "read"
     /\ pc[p] \in {"rename", "dirsync"} => k = "atomic"
     /\ pc[p] \in {"write", "sync", "close"} => k \notin {"mkdir", "read"}
     /\ pc[p] = "open" => k # "mkdir"
AllDoing == \A p \in Procs : Doing(p)

\* Directories and answers.
Answered ==
  \A c \in Calls :
    /\ kind[c] = "mkdir" /\ result[c] = "true" => made = 1 .. Depth
    /\ result[c] = "false" => c \in faulted

\* Calls begin in the order of their numbers, and what began earlier and still
\* runs was running when the later one began.
Earlier ==
  \A b, c \in Calls : b < c /\ result[c] # "none" =>
    result[b] # "none" /\ (result[b] = "running" => b \in beside[c])

LEMMA NextActs == Next <=> (\E p \in Procs : Acts(p)) \/ PowerCut
  BY DEF Next, Acts

\* The steps as far as the calls are concerned: a beginning, a return, a step
\* within a call.
Begins(p) ==
  \E c \in Calls, op \in work[p] :
    /\ result[c] = "none" /\ \A b \in Calls : b < c => result[b] # "none"
    /\ kind' = [kind EXCEPT ![c] = op]
    /\ result' = [result EXCEPT ![c] = "running"]
    /\ beside' = [beside EXCEPT ![c] = {b \in Calls : result[b] = "running"}]
    /\ current' = [current EXCEPT ![p] = c]
    /\ pc' = [pc EXCEPT ![p] = IF op = "mkdir" THEN "stat" ELSE "open"]
    /\ off' = [off EXCEPT ![p] = IF op = "mkdir" THEN 1 ELSE 0]
    /\ UNCHANGED <<fd, faulted, got, made>>
Returns(p, r) ==
  /\ pc[p] # "idle" /\ Return(p, r) /\ UNCHANGED beside
  /\ faulted' = IF r = "false" THEN faulted \cup {current[p]} ELSE faulted
  /\ r = "true" => \/ pc[p] \in {"dirsync", "read"}
                   \/ pc[p] = "close" /\ kind[current[p]] # "atomic"
                   \/ pc[p] \in {"stat", "mkdir"} /\ off[p] = Depth /\ off[p] \in made'
Continues(p) ==
  /\ pc[p] # "idle" /\ pc' = [pc EXCEPT ![p] = pc'[p]]
  /\ UNCHANGED <<current, kind, result, faulted, beside>>
Grows == made \subseteq made' /\ cuts' = cuts /\ work' = work

LEMMA StepKinds ==
  ASSUME TypeOK, NEW p \in Procs, Acts(p)
  PROVE  Grows /\ (Begins(p) \/ Continues(p) \/ \E r \in {"true", "false", "killed"} : Returns(p, r))
<1>t. pc \in [Procs -> {"idle", "open", "write", "sync", "close", "rename", "dirsync",
                       "size", "read", "stat", "mkdir"}]
  BY DEF TypeOK
<1>1. CASE Begin(p)
  BY <1>1 DEF Begin, Begins, Grows, Enter, diskVars
<1>2. CASE Fails(p)
  BY <1>2 DEF Fails, Returns, Grows
<1>3. CASE WriteSome(p) \/ Sync(p) \/ OpenTemp(p) \/ CloseTemp(p) \/ Rename(p) \/ OpenFile(p) \/ Size(p)
  BY <1>t, <1>3 DEF WriteSome, Sync, OpenTemp, CloseTemp, Rename, OpenFile, Size, Continues,
     Grows, Enter, callVars
<1>4. CASE SyncDir(p) \/ CloseFile(p) \/ Kill(p)
  <2>1. CASE SyncDir(p)
    <3>1. pc[p] = "dirsync" /\ Return(p, "true") /\ UNCHANGED <<work, beside, faulted, made, cuts>>
      BY <2>1 DEF SyncDir
    <3>2. Returns(p, "true")
      BY <3>1 DEF Returns
    <3>3. Grows
      BY <3>1 DEF Grows
    <3> QED  BY <3>2, <3>3
  <2>2. CASE CloseFile(p)
    <3>1. Returns(p, "true") /\ Grows
      BY <2>2 DEF CloseFile, Returns, Grows
    <3> QED  BY <3>1
  <2>3. CASE Kill(p)
    <3>1. Returns(p, "killed") /\ Grows
      BY <2>3 DEF Kill, Returns, Grows
    <3> QED  BY <3>1
  <2> QED  BY <1>4, <2>1, <2>2, <2>3
<1>5. CASE OpenRead(p) \/ Read(p)
  BY <1>t, <1>5 DEF OpenRead, Read, Returns, Continues, Grows, Enter
<1>6. CASE Stat(p)
  BY <1>t, <1>6 DEF Stat, NextDir, Returns, Continues, Grows, Enter
<1>7. CASE Mkdir(p)
  BY <1>t, <1>7 DEF Mkdir, NextDir, Returns, Continues, Grows, Enter
<1> QED
  BY <1>1, <1>2, <1>3, <1>4, <1>5, <1>6, <1>7 DEF Acts

\* What a step does to the calls: kind and history are fixed when a call begins.
LEMMA CallsMove ==
  ASSUME TypeOK, CallsOwned, [Next]_vars
  PROVE  /\ \A c \in Calls : result[c] # "none" =>
              /\ result'[c] # "none" /\ kind'[c] = kind[c] /\ beside'[c] = beside[c]
              /\ result'[c] = "running" => result[c] = "running"
         /\ made \subseteq made' /\ faulted \subseteq faulted' /\ work' = work
         /\ cuts \in Nat /\ (cuts' = cuts \/ cuts' > 0)
<1>t. ProcsTyped /\ RestTyped
  BY TypeParts
<1>1. CASE UNCHANGED vars
  BY <1>1, <1>t DEF vars, callVars, RestTyped
<1>2. CASE PowerCut
  BY <1>2, <1>t DEF PowerCut, ProcsTyped, RestTyped
<1>3. ASSUME NEW p \in Procs, Acts(p), Begins(p), Grows
      PROVE  /\ \A c \in Calls : result[c] # "none" =>
                  /\ result'[c] # "none" /\ kind'[c] = kind[c] /\ beside'[c] = beside[c]
                  /\ result'[c] = "running" => result[c] = "running"
             /\ faulted' = faulted
  BY <1>3, <1>t DEF Begins, ProcsTyped, RestTyped
<1>4. ASSUME NEW p \in Procs, NEW r \in {"true", "false", "killed"}, Returns(p, r), Grows
      PROVE  /\ \A c \in Calls : result[c] # "none" =>
                  /\ result'[c] # "none" /\ kind'[c] = kind[c] /\ beside'[c] = beside[c]
                  /\ result'[c] = "running" => result[c] = "running"
             /\ faulted \subseteq faulted'
  <2>1. result' = [result EXCEPT ![current[p]] = r] /\ kind' = kind /\ beside' = beside
    BY <1>4 DEF Returns, Return
  <2> QED  BY <1>4, <1>t, <2>1 DEF Returns, ProcsTyped
<1>5. ASSUME NEW p \in Procs, Continues(p), Grows
      PROVE  UNCHANGED <<kind, result, faulted, beside>>
  BY <1>5 DEF Continues
<1>6. CASE \E p \in Procs : Acts(p)
  <2> PICK p \in Procs : Acts(p)
    BY <1>6
  <2>1. Grows /\ (Begins(p) \/ Continues(p) \/ \E r \in {"true", "false", "killed"} : Returns(p, r))
    BY StepKinds
  <2>2. made \subseteq made' /\ cuts' = cuts /\ work' = work /\ cuts \in Nat
    BY <2>1, <1>t DEF Grows, RestTyped
  <2> QED  BY <1>3, <1>4, <1>5, <2>1, <2>2
<1> QED  BY <1>1, <1>2, <1>6, NextActs

LEMMA EarlierPreserved ==
  ASSUME TypeOK, CallsOwned, Earlier, [Next]_vars
  PROVE  Earlier'
<1> SUFFICES ASSUME NEW b \in Calls, NEW c \in Calls, b < c, result'[c] # "none"
             PROVE  result'[b] # "none" /\ (result'[b] = "running" => b \in beside'[c])
  BY DEF Earlier
<1>t. ProcsTyped /\ RestTyped
  BY TypeParts
<1>1. CASE result[c] # "none"
  BY <1>1, CallsMove DEF Earlier
<1>2. CASE result[c] = "none"
  <2>1. PICK p \in Procs : Acts(p)
    <3>1. ~UNCHANGED vars
      BY <1>2 DEF vars, callVars
    <3>2. ~PowerCut
      BY <1>2 DEF PowerCut
    <3> QED  BY <3>1, <3>2, NextActs
  <2>2. Begins(p)
    <3>1. ~Continues(p)
      BY <1>2 DEF Continues
    <3>2. ASSUME NEW r \in {"true", "false", "killed"}, Returns(p, r) PROVE FALSE
      <4>1. result' = [result EXCEPT ![current[p]] = r] /\ result[current[p]] = "running"
        BY <3>2, <2>1 DEF Returns, Return, CallsOwned
      <4> QED  BY <1>2, <1>t, <4>1 DEF ProcsTyped
    <3> QED  BY <2>1, <3>1, <3>2, StepKinds
  <2>3. PICK d \in Calls, op \in work[p] : Begins(p)!(d, op)
    BY <2>2 DEF Begins
  <2>4. d = c
    BY <1>2, <1>t, <2>3 DEF ProcsTyped
  <2>5. /\ result[b] # "none" /\ b # c
        /\ result'[b] = result[b] /\ beside'[c] = {a \in Calls : result[a] = "running"}
    BY <1>t, <2>3, <2>4, Numbers DEF ProcsTyped, RestTyped
  <2> QED  BY <2>5
<1> QED  BY <1>1, <1>2

LEMMA DoingPreserved ==
  ASSUME TypeOK, CallsOwned, AllDoing, [Next]_vars
  PROVE  AllDoing'
<1> SUFFICES ASSUME NEW q \in Procs PROVE Doing(q)'
  BY DEF AllDoing
<1>t. ProcsTyped /\ made \subseteq made'
  BY TypeParts, CallsMove
<1>d. Doing(q)
  BY DEF AllDoing
<1>0. CASE pc'[q] = "idle"
  BY <1>0 DEF Doing
<1>1. CASE UNCHANGED vars
  BY <1>1, <1>d DEF vars, procVars, callVars, Doing
<1>2. CASE PowerCut
  BY <1>2, <1>0 DEF PowerCut
<1>3. ASSUME NEW p \in Procs, Acts(p), p # q PROVE Doing(q)'
  <2>1. /\ pc'[q] = pc[q] /\ current'[q] = current[q] /\ off'[q] = off[q]
        /\ pc[q] # "idle" => kind'[current[q]] = kind[current[q]]
    BY <1>3, OthersKept DEF Acts
  <2> QED  BY <1>t, <1>d, <1>0, <2>1 DEF Doing
<1>4. CASE Begin(q)
  BY <1>t, <1>4 DEF Begin, Enter, Doing, ProcsTyped
<1>5. ASSUME NEW r, Return(q, r) PROVE Doing(q)'
  BY <1>t, <1>0, <1>5 DEF Return, Enter, ProcsTyped
<1>6. CASE Fails(q) \/ SyncDir(q) \/ CloseFile(q) \/ Kill(q) \/ Read(q)
  BY <1>5, <1>6 DEF Fails, SyncDir, CloseFile, Kill, Read
<1>7. ASSUME NextDir(q), kind[current[q]] = "mkdir", off[q] \in made', off[q] \in Nat,
             1 .. off[q] - 1 \subseteq made
      PROVE  Doing(q)'
  <2>1. CASE off[q] = Depth
    BY <1>5, <1>7, <2>1 DEF NextDir
  <2>2. CASE off[q] # Depth
    <3>1. /\ pc'[q] = "stat" /\ off'[q] = off[q] + 1 /\ current' = current /\ kind' = kind
      BY <1>t, <1>7, <2>2 DEF NextDir, Enter, ProcsTyped
    <3>2. 1 .. off'[q] - 1 \subseteq made'
      BY <1>t, <1>7, <3>1
    <3> QED  BY <1>7, <3>1, <3>2 DEF Doing
  <2> QED  BY <2>1, <2>2
<1>8. CASE Stat(q)
  <2>1. off[q] \in Nat
    BY <1>t DEF ProcsTyped
  <2>2. CASE off[q] \in made
    BY <1>t, <1>7, <1>8, <1>d, <2>1, <2>2 DEF Stat, Doing
  <2>3. CASE off[q] \notin made
    BY <1>t, <1>8, <1>d, <2>3 DEF Stat, Doing, Enter, ProcsTyped
  <2> QED  BY <2>2, <2>3
<1>9. CASE Mkdir(q)
  <2>1. off[q] \in Nat /\ off[q] \in made' /\ NextDir(q) /\ kind[current[q]] = "mkdir"
        /\ 1 .. off[q] - 1 \subseteq made
    BY <1>t, <1>9, <1>d DEF Mkdir, Doing, ProcsTyped
  <2> QED  BY <1>7, <2>1
<1>10. CASE WriteSome(q) \/ Sync(q) \/ OpenTemp(q) \/ CloseTemp(q) \/ Rename(q) \/ OpenFile(q)
  BY <1>t, <1>10, <1>d, ZenonT(60) DEF WriteSome, Sync, OpenTemp, CloseTemp, Rename, OpenFile, Doing,
     Enter, AfterWrite, ProcsTyped, callVars
<1>11. CASE OpenRead(q) \/ Size(q)
  BY <1>t, <1>5, <1>11, <1>d DEF OpenRead, Size, Doing, Enter, ProcsTyped, callVars
<1> QED
  BY <1>1, <1>2, <1>3, <1>4, <1>6, <1>8, <1>9, <1>10, <1>11, NextActs DEF Acts

LEMMA AnsweredPreserved ==
  ASSUME TypeOK, CallsOwned, Bound, AllDoing, Answered, [Next]_vars
  PROVE  Answered'
<1> SUFFICES ASSUME NEW c \in Calls
             PROVE  /\ kind'[c] = "mkdir" /\ result'[c] = "true" => made' = 1 .. Depth
                    /\ result'[c] = "false" => c \in faulted'
  BY DEF Answered
<1>t. ProcsTyped /\ RestTyped
  BY TypeParts
<1>m. made \subseteq made' /\ faulted \subseteq faulted' /\ made' \subseteq 1 .. Depth
  BY CallsMove, TypePreserved DEF TypeOK
<1>1. CASE result'[c] = result[c] /\ kind'[c] = kind[c]
  BY <1>1, <1>m DEF Answered
<1>2. CASE UNCHANGED vars \/ PowerCut
  BY <1>1, <1>2, <1>t DEF vars, callVars, PowerCut, ProcsTyped
<1>3. ASSUME NEW p \in Procs, Acts(p), Begins(p)
      PROVE  result'[c] = "running" \/ (result'[c] = result[c] /\ kind'[c] = kind[c])
  BY <1>3, <1>t DEF Begins, ProcsTyped
<1>4. ASSUME NEW p \in Procs, Acts(p), NEW r \in {"true", "false", "killed"}, Returns(p, r)
      PROVE  /\ kind'[c] = "mkdir" /\ result'[c] = "true" => made' = 1 .. Depth
             /\ result'[c] = "false" => c \in faulted'
  <2>1. result' = [result EXCEPT ![current[p]] = r] /\ kind' = kind
    BY <1>4 DEF Returns, Return
  <2>2. CASE c # current[p]
    BY <1>1, <1>t, <2>1, <2>2 DEF ProcsTyped
  <2>3. CASE c = current[p]
    <3>1. result'[c] = r
      BY <1>t, <2>1, <2>3 DEF ProcsTyped
    <3>2. r = "false" => c \in faulted'
      BY <1>4, <2>3 DEF Returns
    <3>3. ASSUME r = "true", kind[c] = "mkdir" PROVE made' = 1 .. Depth
      <4>1. /\ pc[p] \in {"stat", "mkdir"} /\ off[p] = Depth /\ off[p] \in made'
            /\ 1 .. off[p] - 1 \subseteq made
        <5>1. \/ pc[p] \in {"dirsync", "read"} \/ pc[p] = "close"
              \/ pc[p] \in {"stat", "mkdir"} /\ off[p] = Depth /\ off[p] \in made'
          BY <1>4, <3>3 DEF Returns
        <5>2. Doing(p)
          BY DEF AllDoing
        <5> QED  BY <2>3, <3>3, <5>1, <5>2 DEF Doing
      <4>2. \A k \in 1 .. Depth : k \in 1 .. Depth - 1 \/ k = Depth
        OBVIOUS
      <4>3. \A k \in 1 .. Depth : k \in made'
        BY <1>m, <4>1, <4>2
      <4> QED  BY <1>m, <4>3
    <3> QED  BY <2>1, <3>1, <3>2, <3>3
  <2> QED  BY <2>2, <2>3
<1>5. ASSUME NEW p \in Procs, Continues(p) PROVE result'[c] = result[c] /\ kind'[c] = kind[c]
  BY <1>5 DEF Continues
<1>6. ASSUME NEW p \in Procs, Acts(p)
      PROVE  /\ kind'[c] = "mkdir" /\ result'[c] = "true" => made' = 1 .. Depth
             /\ result'[c] = "false" => c \in faulted'
  <2>1. Begins(p) \/ Continues(p) \/ \E r \in {"true", "false", "killed"} : Returns(p, r)
    BY <1>6, StepKinds
  <2> QED  BY <1>1, <1>3, <1>4, <1>5, <1>6, <2>1
<1> QED  BY <1>2, <1>6, NextActs, <1>1

-----------------------------------------------------------------------------
(* The names.                                                              *)

\* A temporary name is its call's.
OwnNames == \A d \in dirs, n \in Calls : d[n] \in {None, n}

\* The file at the path was made by a call that began, and if it is an atomic
\* write it has been renamed: it can no longer fail.
AtPath ==
  \A d \in dirs, c \in Calls : d[Path] = c =>
    /\ result[c] # "none"
    /\ kind[c] = "atomic" => /\ result[c] # "false"
                             /\ \A p \in Procs : current[p] = c => pc[p] = "dirsync"

\* A temporary name belongs to an atomic write at work, or to a killed one.
Temps ==
  cuts = 0 => \A c \in Calls : dir[c] # None =>
    /\ kind[c] = "atomic"
    /\ \/ result[c] = "killed"
       \/ \E p \in Procs : current[p] = c /\ pc[p] \in {"write", "sync", "close", "rename"}

\* What a step does to the directory.
LEMMA DirMoves ==
  ASSUME TypeOK, CallsOwned, Bound, OwnNames, NEW p \in Procs, Acts(p)
  PROVE  \/ dir' = dir /\ dirs' \subseteq dirs
         \/ /\ dirs' = dirs \cup {dir'} /\ current[p] \in Calls
            /\ dir' \in [Names -> Inodes \cup {None}]
            /\ \A n \in Calls \ {current[p]} : dir'[n] = dir[n]
            /\ \/ Fails(p) /\ dir'[current[p]] = None /\ dir'[Path] = dir[Path]
               \/ OpenTemp(p) /\ dir'[current[p]] = current[p] /\ dir'[Path] = dir[Path]
               \/ Rename(p) /\ dir'[current[p]] = None /\ dir'[Path] = dir[current[p]]
               \/ /\ OpenFile(p) /\ dir'[current[p]] = dir[current[p]]
                  /\ dir'[Path] = current[p] /\ dir[Path] = None
<1> USE Numbers
<1>t. ProcsTyped /\ DiskTyped
  BY TypeParts
<1>c. pc[p] # "idle" => current[p] \in Calls
  BY <1>t DEF CallsOwned, ProcsTyped
<1>1. CASE Begin(p) \/ WriteSome(p) \/ Sync(p) \/ CloseTemp(p) \/ CloseFile(p) \/ OpenRead(p)
           \/ Size(p) \/ Read(p) \/ Stat(p) \/ Mkdir(p) \/ Kill(p)
  BY <1>1 DEF Begin, WriteSome, Sync, CloseTemp, CloseFile, OpenRead, Size, Read, Stat, Mkdir,
     Kill, diskVars
<1>2. CASE SyncDir(p)
  BY <1>2 DEF SyncDir, Bound
<1>3. CASE Fails(p)
  <2>1. CASE UNCHANGED <<dir, dirs>>
    BY <2>1
  <2>2. CASE Rebind([dir EXCEPT ![current[p]] = None])
    BY <1>t, <1>c, <1>3, <2>2, ZenonT(60) DEF Fails, Rebind, DiskTyped
  <2> QED  BY <1>3, <2>1, <2>2 DEF Fails
<1>4. CASE OpenTemp(p)
  BY <1>t, <1>c, <1>4 DEF OpenTemp, Rebind, DiskTyped
<1>5. CASE Rename(p)
  BY <1>t, <1>c, <1>5 DEF Rename, Rebind, DiskTyped
<1>6. CASE OpenFile(p)
  <2>1. CASE dir[Path] = None
    BY <1>t, <1>c, <1>6, <2>1, ZenonT(60) DEF OpenFile, Rebind, DiskTyped
  <2>2. CASE dir[Path] # None
    BY <1>6, <2>2 DEF OpenFile
  <2> QED  BY <2>1, <2>2
<1> QED
  BY <1>1, <1>2, <1>3, <1>4, <1>5, <1>6 DEF Acts

LEMMA OwnNamesPreserved ==
  ASSUME TypeOK, CallsOwned, Bound, OwnNames, [Next]_vars
  PROVE  OwnNames'
<1>1. CASE UNCHANGED vars
  BY <1>1 DEF vars, diskVars, OwnNames
<1>2. CASE PowerCut
  BY <1>2 DEF PowerCut, OwnNames
<1>3. ASSUME NEW p \in Procs, Acts(p) PROVE OwnNames'
  <2>1. \A n \in Calls : dir[n] \in {None, n}
    BY DEF OwnNames, Bound
  <2>2. dirs' \subseteq dirs \/ (dirs' = dirs \cup {dir'} /\ \A n \in Calls : dir'[n] \in {None, n})
    BY <1>3, <2>1, DirMoves
  <2> QED  BY <2>2 DEF OwnNames
<1> QED  BY <1>1, <1>2, <1>3, NextActs

LEMMA AtPathPreserved ==
  ASSUME TypeOK, CallsOwned, Bound, OwnNames, AtPath, [Next]_vars
  PROVE  AtPath'
<1> SUFFICES ASSUME NEW d \in dirs', NEW c \in Calls, d[Path] = c
             PROVE  /\ result'[c] # "none"
                    /\ kind'[c] = "atomic" =>
                         /\ result'[c] # "false"
                         /\ \A p \in Procs : current'[p] = c => pc'[p] = "dirsync"
  BY DEF AtPath
<1> USE Numbers
<1>t. ProcsTyped /\ DiskTyped
  BY TypeParts
<1>1. CASE UNCHANGED vars
  BY <1>1 DEF vars, callVars, procVars, diskVars, AtPath
<1>2. CASE PowerCut
  <2>1. PICK e \in dirs : dirs' = {e}
    BY <1>2 DEF PowerCut
  <2>2. /\ result[c] # "none" /\ kind' = kind
        /\ kind[c] = "atomic" => result[c] # "false"
        /\ result'[c] = IF result[c] = "running" THEN "killed" ELSE result[c]
        /\ \A p \in Procs : current'[p] = None
    BY <1>2, <2>1 DEF PowerCut, AtPath
  <2> QED  BY <2>2
<1>3. ASSUME NEW p \in Procs, Acts(p), NEW e \in dirs, e[Path] = c
      PROVE  /\ result'[c] # "none"
             /\ kind'[c] = "atomic" =>
                  /\ result'[c] # "false"
                  /\ \A q \in Procs : current'[q] = c => pc'[q] = "dirsync"
  <2>1. /\ result[c] # "none"
        /\ kind[c] = "atomic" => /\ result[c] # "false"
                                 /\ \A q \in Procs : current[q] = c => pc[q] = "dirsync"
    BY <1>3 DEF AtPath
  <2>2. result'[c] # "none" /\ kind'[c] = kind[c]
    BY <2>1, CallsMove
  <2> SUFFICES ASSUME kind[c] = "atomic"
               PROVE  /\ result'[c] # "false"
                      /\ \A q \in Procs : current'[q] = c => pc'[q] = "dirsync"
    BY <2>2
  <2>3. \A q \in Procs : current[q] = c => pc[q] = "dirsync"
    BY <2>1
  <2>4. CASE current[p] = c
    <3>1. pc[p] = "dirsync"
      BY <2>3, <2>4
    <3>2. SyncDir(p) \/ Kill(p)
      BY <1>3, <3>1 DEF Acts, Begin, Fails, WriteSome, Sync, OpenTemp, CloseTemp, Rename,
         OpenFile, CloseFile, OpenRead, Size, Read, Stat, Mkdir
    <3>3. PICK r \in {"true", "killed"} : Return(p, r)
      BY <3>2 DEF SyncDir, Kill
    <3>4. result'[c] = r /\ current'[p] = None
      BY <1>t, <2>4, <3>3 DEF Return, ProcsTyped
    <3>5. \A q \in Procs \ {p} : pc'[q] = pc[q] /\ current'[q] = current[q]
      BY <1>3, OthersKept DEF Acts
    <3> QED  BY <2>3, <3>4, <3>5
  <2>5. CASE current[p] # c
    <3>1. \A q \in Procs \ {p} : pc'[q] = pc[q] /\ current'[q] = current[q]
      BY <1>3, OthersKept DEF Acts
    <3>2. result'[c] = result[c] /\ current'[p] # c
      <4>1. CASE Begins(p)
        BY <1>t, <2>1, <4>1 DEF Begins, ProcsTyped
      <4>2. CASE Continues(p)
        BY <2>5, <4>2 DEF Continues
      <4>3. ASSUME NEW r \in {"true", "false", "killed"}, Returns(p, r)
            PROVE  result'[c] = result[c] /\ current'[p] # c
        BY <1>t, <2>5, <4>3 DEF Returns, Return, ProcsTyped
      <4> QED  BY <1>3, <4>1, <4>2, <4>3, StepKinds
    <3> QED  BY <2>1, <2>3, <3>1, <3>2
  <2> QED  BY <2>4, <2>5
<1>4. ASSUME NEW p \in Procs, Acts(p), d = dir', ~ \E e \in dirs : e[Path] = c
      PROVE  /\ result'[c] # "none"
             /\ kind'[c] = "atomic" =>
                  /\ result'[c] # "false"
                  /\ \A q \in Procs : current'[q] = c => pc'[q] = "dirsync"
  <2>1. dir[Path] # c /\ dir \in dirs
    BY <1>4 DEF Bound
  <2>2. \/ Rename(p) /\ dir[current[p]] = c
        \/ OpenFile(p) /\ current[p] = c
    BY <1>4, <2>1, DirMoves
  <2>3. current[p] = c
    <3>1. CASE Rename(p) /\ dir[current[p]] = c
      <4>1. current[p] \in Calls
        BY <1>t, <3>1 DEF Rename, CallsOwned, ProcsTyped
      <4> QED  BY <2>1, <3>1, <4>1 DEF OwnNames
    <3> QED  BY <2>2, <3>1
  <2>4. result[c] = "running" /\ UNCHANGED <<kind, result, current>>
    BY <2>2, <2>3 DEF CallsOwned, Rename, OpenFile, callVars
  <2>5. CASE OpenFile(p)
    BY <2>3, <2>4, <2>5 DEF OpenFile
  <2>6. CASE Rename(p)
    <3>1. pc'[p] = "dirsync"
      BY <1>t, <2>6 DEF Rename, Enter, ProcsTyped
    <3>2. \A q \in Procs : current[q] = c => q = p
      BY <2>3 DEF CallsOwned
    <3> QED  BY <2>4, <3>1, <3>2
  <2> QED  BY <2>2, <2>5, <2>6
<1>5. ASSUME NEW p \in Procs, Acts(p)
      PROVE  d = dir' \/ \E e \in dirs : e[Path] = c
  <2>1. dirs' \subseteq dirs \/ dirs' = dirs \cup {dir'}
    BY <1>5, DirMoves
  <2> QED  BY <2>1
<1> QED  BY <1>1, <1>2, <1>3, <1>4, <1>5, NextActs

LEMMA TempsPreserved ==
  ASSUME TypeOK, CallsOwned, Bound, OwnNames, AllDoing, Temps, [Next]_vars
  PROVE  Temps'
<1> SUFFICES ASSUME cuts' = 0, NEW c \in Calls, dir'[c] # None
             PROVE  /\ kind'[c] = "atomic"
                    /\ \/ result'[c] = "killed"
                       \/ \E p \in Procs : /\ current'[p] = c
                                           /\ pc'[p] \in {"write", "sync", "close", "rename"}
  BY DEF Temps
<1> USE Numbers
<1>t. ProcsTyped /\ DiskTyped
  BY TypeParts
<1>0. cuts = 0
  BY CallsMove
<1>1. CASE UNCHANGED vars
  BY <1>0, <1>1 DEF vars, callVars, procVars, diskVars, Temps
<1>2. ~PowerCut
  BY <1>0 DEF PowerCut
<1>3. ASSUME NEW p \in Procs, Acts(p)
      PROVE  /\ kind'[c] = "atomic"
             /\ \/ result'[c] = "killed"
                \/ \E q \in Procs : /\ current'[q] = c
                                    /\ pc'[q] \in {"write", "sync", "close", "rename"}
  <2>1. CASE OpenTemp(p) /\ current[p] = c
    <3>1. current'[p] = c /\ pc'[p] = "write" /\ kind'[c] = "atomic"
      BY <1>t, <2>1 DEF OpenTemp, Enter, callVars, ProcsTyped
    <3> QED  BY <3>1
  <2>2. CASE ~(OpenTemp(p) /\ current[p] = c)
    <3>1. dir[c] # None /\ ~(Fails(p) /\ current[p] = c /\ ~UNCHANGED <<dir, dirs>>)
          /\ ~(Rename(p) /\ current[p] = c)
      <4>1. Rename(p) => dir'[current[p]] = None
        <5>1. Rename(p) => current[p] \in Calls
          BY <1>t DEF Rename, CallsOwned, ProcsTyped
        <5> QED  BY <1>t, <5>1 DEF Rename, Rebind, DiskTyped
      <4>2. Fails(p) /\ ~UNCHANGED <<dir, dirs>> => dir'[current[p]] = None
        <5>1. Fails(p) => current[p] \in Calls
          BY <1>t DEF Fails, CallsOwned, ProcsTyped
        <5> QED  BY <1>t, <5>1 DEF Fails, Rebind, DiskTyped
      <4>3. dir[c] # None
        BY <1>3, <2>2, DirMoves
      <4> QED  BY <4>1, <4>2, <4>3
    <3>2. /\ kind[c] = "atomic"
          /\ \/ result[c] = "killed"
             \/ \E q \in Procs : /\ current[q] = c
                                 /\ pc[q] \in {"write", "sync", "close", "rename"}
      BY <1>0, <3>1 DEF Temps
    <3>3. result[c] # "none"
      BY <3>2 DEF CallsOwned
    <3>4. kind'[c] = "atomic"
      BY <3>2, <3>3, CallsMove
    <3>5. CASE result[c] = "killed"
      <4>1. result'[c] = "killed"
        <5>1. CASE Begins(p)
          BY <1>t, <3>5, <5>1 DEF Begins, ProcsTyped
        <5>2. CASE Continues(p)
          BY <3>5, <5>2 DEF Continues
        <5>3. ASSUME NEW r \in {"true", "false", "killed"}, Returns(p, r)
              PROVE  result'[c] = "killed"
          BY <1>t, <3>5, <5>3 DEF Returns, Return, ProcsTyped, CallsOwned
        <5> QED  BY <1>3, <5>1, <5>2, <5>3, StepKinds
      <4> QED  BY <3>4, <4>1
    <3>6. ASSUME NEW q \in Procs, current[q] = c,
                 pc[q] \in {"write", "sync", "close", "rename"}
          PROVE  \/ result'[c] = "killed"
                 \/ \E r \in Procs : /\ current'[r] = c
                                     /\ pc'[r] \in {"write", "sync", "close", "rename"}
      <4>1. CASE q # p
        BY <1>3, <3>6, <4>1, OthersKept DEF Acts
      <4>2. CASE q = p
        <5>1. kind[current[p]] = "atomic" /\ current[p] = c
          BY <3>2, <3>6, <4>2
        <5>2. WriteSome(p) \/ Sync(p) \/ CloseTemp(p) \/ Kill(p)
          <6>1. CASE Fails(p)
            <7>1. Rebind([dir EXCEPT ![c] = None])
              BY <3>6, <4>2, <5>1, <6>1 DEF Fails
            <7> QED  BY <1>t, <7>1 DEF Rebind, DiskTyped
          <6> QED
            BY <1>3, <3>1, <3>6, <4>2, <5>1, <6>1 DEF Acts, Begin, OpenTemp, SyncDir,
               OpenFile, CloseFile, OpenRead, Size, Read, Stat, Mkdir
        <5>3. CASE Kill(p)
          BY <1>t, <5>1, <5>3 DEF Kill, Return, ProcsTyped
        <5>4. CASE WriteSome(p) \/ Sync(p) \/ CloseTemp(p)
          <6>1. current'[p] = c /\ pc'[p] \in {"write", "sync", "close", "rename"}
            BY <1>t, <5>1, <5>4, ZenonT(60) DEF WriteSome, Sync, CloseTemp, Enter, AfterWrite, ProcsTyped
          <6> QED  BY <6>1
        <5> QED  BY <5>2, <5>3, <5>4
      <4> QED  BY <4>1, <4>2
    <3> QED  BY <3>2, <3>4, <3>5, <3>6
  <2> QED  BY <2>1, <2>2
<1> QED  BY <1>1, <1>2, <1>3, NextActs

-----------------------------------------------------------------------------
(* The contents.                                                           *)

Content == Seq(Inodes \X {1, 2})

\* t continues s.
Continued(s, t) == Len(s) <= Len(t) /\ \A k \in 1 .. Len(s) : t[k] = s[k]

LEMMA ContinuedSelf ==
  ASSUME NEW s \in Content
  PROVE  Continued(s, s)
BY DEF Continued, Content

LEMMA PrefixContinued ==
  ASSUME NEW s \in Content, NEW t \in Content, IsPrefixOf(s, t)
  PROVE  Continued(s, t)
<1>1. Len(s) \in Nat /\ Len(t) \in Nat /\ Len(s) <= Len(t) /\ SubSeq(t, 1, Len(s)) = s
  BY DEF IsPrefixOf, Content
<1>2. ASSUME NEW k \in 1 .. Len(s) PROVE t[k] = s[k]
  <2>1. SubSeq(t, 1, Len(s))[k] = t[k]
    BY <1>1 DEF Content
  <2> QED  BY <1>1, <2>1
<1> QED  BY <1>1, <1>2 DEF Continued

\* What a power cut leaves is between what is on the disk and what was written.
LEMMA LeftBetween ==
  ASSUME DiskTyped, NEW i \in Inodes, IsPrefixOf(durable[i], data[i]), NEW s \in Left(i)
  PROVE  s \in Content /\ Continued(durable[i], s) /\ Continued(s, data[i])
<1>0. s \in Content
  BY LeftType DEF Content
<1>1. data[i] \in Content /\ durable[i] \in Content /\ Continued(durable[i], data[i])
  BY PrefixContinued DEF DiskTyped, Content
<1>2. CASE s = durable[i]
  BY <1>1, <1>2, ContinuedSelf
<1>3. ASSUME NEW n \in Len(durable[i]) .. Len(data[i]), s = SubSeq(data[i], 1, n)
      PROVE  Continued(durable[i], s) /\ Continued(s, data[i])
  <2>1. Len(durable[i]) \in Nat /\ Len(data[i]) \in Nat /\ n \in Nat /\ n <= Len(data[i])
        /\ Len(durable[i]) <= n
    BY <1>1 DEF Content
  <2>2. Len(s) = n
    BY <1>1, <1>3, <2>1 DEF Content
  <2>3. \A k \in 1 .. n : s[k] = data[i][k]
    BY <1>1, <1>3, <2>1 DEF Content
  <2> QED  BY <1>1, <2>1, <2>2, <2>3, SMTT(60) DEF Continued
<1> QED  BY <1>0, <1>2, <1>3 DEF Left

\* What writing halves from the m-th to the n-th makes of a content, point by point.
Joined(s, c, m, n, t) ==
  /\ t \in Content /\ Len(t) = Len(s) + n - m + 1
  /\ Continued(s, t)
  /\ \A k \in 1 .. n - m + 1 : t[Len(s) + k] = Half(c, m + k - 1)

LEMMA JoinedPoints ==
  ASSUME NEW s \in Content, NEW c \in Calls, NEW m \in 1 .. 2, NEW n \in m .. 2
  PROVE  Joined(s, c, m, n, s \o Halves(c, m, n))
<1> DEFINE t == Halves(c, m, n)
<1>0. m \in Nat /\ n \in Nat /\ m >= 1 /\ n <= 2 /\ m <= n + 1 /\ n - m + 1 \in Nat
  OBVIOUS
<1>1. t \in Content /\ Len(t) = n - m + 1
  BY <1>0, HalvesType DEF Content
<1>2. \A k \in 1 .. n - m + 1 : t[k] = Half(c, m + k - 1)
  BY <1>0 DEF Halves
<1> HIDE DEF t
<1>3. s \o t \in Content /\ Len(s \o t) = Len(s) + Len(t)
  BY <1>1, SMTT(60) DEF Content
<1>4. \A k \in 1 .. Len(s) : (s \o t)[k] = s[k]
  BY <1>1 DEF Content
<1>5. \A k \in 1 .. n - m + 1 : (s \o t)[Len(s) + k] = t[k]
  BY <1>0, <1>1 DEF Content
<1>6. Len(s) \in Nat
  BY DEF Content
<1> QED  BY <1>0, <1>1, <1>2, <1>3, <1>4, <1>5, <1>6, SMTT(60) DEF Joined, Continued, t

\* Where an element of a joined content comes from.
LEMMA JoinedFrom ==
  ASSUME NEW s \in Content, NEW c \in Calls, NEW m \in 1 .. 2, NEW n \in m .. 2,
         NEW t, Joined(s, c, m, n, t), NEW j \in DOMAIN t
  PROVE  \/ j \in DOMAIN s /\ t[j] = s[j] /\ j <= Len(s)
         \/ /\ j > Len(s) /\ m + (j - Len(s)) - 1 \in m .. n
            /\ t[j] = Half(c, m + (j - Len(s)) - 1)
<1>1. Len(s) \in Nat /\ Len(t) \in Nat /\ DOMAIN t = 1 .. Len(t) /\ DOMAIN s = 1 .. Len(s)
  BY DEF Joined, Content
<1>2. CASE j <= Len(s)
  BY <1>1, <1>2 DEF Joined, Continued
<1>3. CASE j > Len(s)
  <2>1. j - Len(s) \in 1 .. n - m + 1 /\ j = Len(s) + (j - Len(s))
    BY <1>1, <1>3 DEF Joined
  <2>2. t[Len(s) + (j - Len(s))] = Half(c, m + (j - Len(s)) - 1)
    BY <2>1 DEF Joined
  <2>3. t[j] = Half(c, m + (j - Len(s)) - 1)
    BY <2>1, <2>2
  <2>4. j > Len(s) /\ m + (j - Len(s)) - 1 \in m .. n
    BY <1>1, <1>3, <2>1, SMTT(60)
  <2> QED  BY <2>3, <2>4
<1> QED  BY <1>1, <1>2, <1>3

LEMMA HasOther ==
  ASSUME NEW s \in Content, NEW b \in Calls, NEW m \in 1 .. 2, NEW n \in m .. 2,
         NEW t, Joined(s, b, m, n, t), NEW c \in Calls, c # b, NEW k \in Nat, Has(s, c, k)
  PROVE  Has(t, c, k)
<1>1. Len(s) \in Nat /\ Len(t) \in Nat /\ DOMAIN t = 1 .. Len(t) /\ DOMAIN s = 1 .. Len(s)
      /\ Len(s) <= Len(t)
  BY DEF Joined, Content, Continued
<1>2. \A j \in DOMAIN s : j \in DOMAIN t /\ t[j] = s[j]
  BY <1>1 DEF Joined, Continued
<1>3. ASSUME NEW j \in DOMAIN t, t[j][1] = c PROVE j \in DOMAIN s
  <2>1. Half(b, m + (j - Len(s)) - 1)[1] = b
    BY DEF Half
  <2> QED  BY <1>3, <2>1, JoinedFrom
<1> QED  BY <1>2, <1>3 DEF Has

LEMMA HasAppend ==
  ASSUME NEW s \in Content, NEW c \in Calls, NEW m \in 0 .. 1, NEW n \in m + 1 .. 2,
         NEW t, Joined(s, c, m + 1, n, t), Has(s, c, m)
  PROVE  Has(t, c, n)
<1>0. m + 1 \in 1 .. 2 /\ m \in Nat /\ n \in Nat /\ n \in m + 1 .. 2
  OBVIOUS
<1>1. Len(s) \in Nat /\ Len(t) \in Nat /\ DOMAIN t = 1 .. Len(t) /\ DOMAIN s = 1 .. Len(s)
      /\ Len(s) <= Len(t) /\ Len(t) = Len(s) + n - m
  BY <1>0 DEF Joined, Content, Continued
<1>2. \A j \in DOMAIN s : j \in DOMAIN t /\ t[j] = s[j]
  BY <1>1 DEF Joined, Continued
<1>3. \A k : Half(c, k)[1] = c /\ Half(c, k)[2] = k
  BY DEF Half
<1>4. ASSUME NEW j \in DOMAIN t
      PROVE  \/ j \in DOMAIN s /\ t[j] = s[j] /\ j <= Len(s)
             \/ /\ j > Len(s) /\ m + (j - Len(s)) \in m + 1 .. n
                /\ t[j] = Half(c, m + (j - Len(s)))
  <2>1. (m + 1) + (j - Len(s)) - 1 = m + (j - Len(s))
    BY <1>0, <1>1, SMTT(60)
  <2> QED  BY <1>0, <2>1, JoinedFrom
<1>5. ASSUME NEW k \in 1 .. n PROVE \E j \in DOMAIN t : t[j] = Half(c, k)
  <2>1. CASE k <= m
    BY <1>2, <2>1 DEF Has
  <2>2. CASE k > m
    <3>1. k - m \in 1 .. n - (m + 1) + 1 /\ (m + 1) + (k - m) - 1 = k
          /\ Len(s) + (k - m) \in DOMAIN t
      BY <1>0, <1>1, <2>2
    <3>2. t[Len(s) + (k - m)] = Half(c, k)
      BY <3>1 DEF Joined
    <3> QED  BY <3>1, <3>2
  <2> QED  BY <1>0, <2>1, <2>2
<1>6. ASSUME NEW j \in DOMAIN t, t[j][1] = c PROVE t[j][2] \in 1 .. n
  <2>1. CASE j \in DOMAIN s /\ t[j] = s[j]
    BY <1>0, <1>6, <2>1 DEF Has
  <2>2. CASE m + (j - Len(s)) \in m + 1 .. n /\ t[j] = Half(c, m + (j - Len(s)))
    BY <1>0, <1>3, <2>2
  <2> QED  BY <1>4, <2>1, <2>2
<1>7. ASSUME NEW i \in DOMAIN t, NEW j \in DOMAIN t, i < j, t[i][1] = c, t[j][1] = c
      PROVE  t[i][2] < t[j][2]
  <2>1. CASE j <= Len(s)
    <3>1. i \in DOMAIN s /\ j \in DOMAIN s
      BY <1>1, <1>7, <2>1
    <3> QED  BY <1>2, <1>7, <3>1 DEF Has
  <2>2. CASE i <= Len(s) /\ j > Len(s)
    <3>1. i \in DOMAIN s /\ t[i] = s[i]
      BY <1>1, <1>2, <2>2
    <3>2. t[i][2] \in 1 .. m
      BY <1>7, <3>1 DEF Has
    <3>3. t[j][2] = m + (j - Len(s))
      BY <1>1, <1>3, <1>4, <2>2
    <3>4. j - Len(s) >= 1
      BY <1>1, <2>2
    <3> QED  BY <1>0, <1>1, <3>2, <3>3, <3>4, SMTT(60)
  <2>3. CASE i > Len(s)
    <3>1. t[i][2] = m + (i - Len(s)) /\ t[j][2] = m + (j - Len(s))
      BY <1>1, <1>3, <1>4, <1>7, <2>3, SMTT(60)
    <3> QED  BY <1>0, <1>1, <1>7, <3>1, SMTT(60)
  <2> QED  BY <1>1, <2>1, <2>2, <2>3
<1> QED  BY <1>5, <1>6, <1>7 DEF Has

LEMMA HasLeft ==
  ASSUME NEW s \in Content, NEW t \in Content, NEW u \in Content, Continued(s, t), Continued(t, u),
         NEW c \in Calls, NEW k \in Nat, Has(s, c, k), Has(u, c, k)
  PROVE  Has(t, c, k)
<1>1. /\ Len(s) \in Nat /\ Len(t) \in Nat /\ Len(u) \in Nat /\ Len(s) <= Len(t) /\ Len(t) <= Len(u)
      /\ DOMAIN s = 1 .. Len(s) /\ DOMAIN t = 1 .. Len(t) /\ DOMAIN u = 1 .. Len(u)
  BY DEF Content, Continued
<1>2. \A j \in DOMAIN s : j \in DOMAIN t /\ t[j] = s[j]
  BY <1>1 DEF Continued
<1>3. \A j \in DOMAIN t : j \in DOMAIN u /\ u[j] = t[j]
  BY <1>1 DEF Continued
<1> QED  BY <1>2, <1>3 DEF Has

\* What a step does to a content when nobody truncates.
LEMMA ContentMoves ==
  ASSUME TypeOK, CallsOwned, ~Truncates, SyncedFirst, [Next]_vars, NEW i \in Inodes
  PROVE  \/ data'[i] = data[i] /\ durable'[i] = durable[i]
         \/ \E p \in Procs : \E n \in off[p] + 1 .. 2 :
              /\ WriteSome(p) /\ fd[p] = i /\ off[p] \in 0 .. 1 /\ off'[p] = n
              /\ Joined(data[i], current[p], off[p] + 1, n, data'[i]) /\ durable'[i] = durable[i]
         \/ data'[i] = data[i] /\ durable'[i] = data[i]
         \/ /\ PowerCut /\ durable'[i] = data'[i] /\ data'[i] \in Content
            /\ Continued(durable[i], data'[i]) /\ Continued(data'[i], data[i])
<1> USE Numbers
<1>t. ProcsTyped /\ DiskTyped
  BY TypeParts
<1>c. data[i] \in Content /\ durable[i] \in Content
  BY <1>t DEF DiskTyped, Content
<1>0. CASE UNCHANGED <<data, durable>>
  BY <1>0
<1>1. ASSUME NEW p \in Procs, WriteSome(p), fd[p] = i
      PROVE  \E n \in off[p] + 1 .. 2 :
               /\ WriteSome(p) /\ fd[p] = i /\ off[p] \in 0 .. 1 /\ off'[p] = n
               /\ Joined(data[i], current[p], off[p] + 1, n, data'[i]) /\ durable'[i] = durable[i]
  <2>1. current[p] \in Calls /\ off[p] \in Nat
    BY <1>1, <1>t DEF WriteSome, CallsOwned, ProcsTyped
  <2>2. PICK n \in off[p] + 1 .. 2 : WriteSome(p)!2!(n)
    BY <1>1 DEF WriteSome
  <2>3. off[p] \in 0 .. 1 /\ off[p] + 1 \in 1 .. 2 /\ n \in off[p] + 1 .. 2
    BY <2>1
  <2>4. off'[p] = n
    BY <1>t, <2>2 DEF ProcsTyped
  <2>5. data'[i] = data[i] \o Halves(current[p], off[p] + 1, n)
    BY <1>t, <1>1, <2>2 DEF DiskTyped
  <2>6. Joined(data[i], current[p], off[p] + 1, n, data'[i])
    BY <1>c, <2>1, <2>3, <2>5, JoinedPoints, ZenonT(60)
  <2>7. durable' = durable
    BY <1>1 DEF WriteSome
  <2> QED  BY <1>1, <2>3, <2>4, <2>6, <2>7
<1>2. ASSUME NEW p \in Procs, WriteSome(p), fd[p] # i
      PROVE  data'[i] = data[i] /\ durable'[i] = durable[i]
  <2>1. fd[p] \in Inodes
    BY <1>2 DEF WriteSome, CallsOwned
  <2> QED  BY <1>2, <1>t, <2>1 DEF WriteSome, DiskTyped
<1>3. ASSUME NEW p \in Procs, Sync(p)
      PROVE  data'[i] = data[i] /\ durable'[i] \in {data[i], durable[i]}
  BY <1>3, <1>t DEF Sync, DiskTyped
<1>4. ASSUME PowerCut
      PROVE  /\ durable'[i] = data'[i] /\ data'[i] \in Content
             /\ Continued(durable[i], data'[i]) /\ Continued(data'[i], data[i])
  <2>1. PICK d \in dirs : PowerCut!3!(d)
    BY <1>4 DEF PowerCut
  <2>2. IsPrefixOf(durable[i], data[i])
    BY DEF SyncedFirst
  <2>3. data'[i] \in Left(i)
    <3>1. durable[i] \in Left(i)
      BY DEF Left
    <3>2. CASE d[Path] = i
      BY <2>1, <3>2
    <3>3. CASE d[Path] # i
      BY <2>1, <3>1, <3>3
    <3> QED  BY <3>2, <3>3
  <2> QED  BY <1>t, <2>1, <2>2, <2>3, LeftBetween
<1> QED
  BY <1>0, <1>1, <1>2, <1>3, <1>4, OnlyOpenWritten DEF Next, vars, diskVars

-----------------------------------------------------------------------------
(* Where the halves are.                                                   *)

\* The call that made an inode, or whose half it is, has come to making it.
Born(c) == c = Old \/ (c \in Calls /\ ~Unborn(c))

\* Every half in a content is of a call that has begun to write, and a version
\* is in its own file only.
Origin(s, i) ==
  \A k \in DOMAIN s : Born(s[k][1]) /\ (Version(s[k][1]) => s[k][1] = i)
Origins == \A i \in Inodes : Origin(data[i], i) /\ Origin(durable[i], i)

\* A version that is being read is whole.
Reader(p) ==
  pc[p] \in {"size", "read"} /\ Version(fd[p]) =>
    WholeBase(data[fd[p]], fd[p]) /\ (pc[p] = "read" => off[p] >= 2)
Readers == \A p \in Procs : Reader(p)

\* What was read begins with a whole version if it begins with one.
GotWhole ==
  \A c \in Calls : got[c] # <<>> =>
    LET i == got[c][1][1]
    IN Born(i) /\ (Version(i) => WholeBase(got[c], i))

\* The path names the file an append wrote, or what replaced it.
Placed(c, i) ==
  cuts > 0 \/ dir[Path] = i \/ dir[Path] > c \/ dir[Path] \in beside[c]

\* How far an append is, and what is left of one that is done.
Appending(p) ==
  pc[p] \in {"write", "sync", "close"} /\ kind[current[p]] = "append" =>
    LET c == current[p]
        i == fd[p]
    IN /\ off[p] \in 0 .. 2 /\ Has(data[i], c, off[p])
       /\ pc[p] # "write" => off[p] = 2
       /\ pc[p] = "close" => Has(durable[i], c, 2)
       /\ Placed(c, i)
Progress == \A p \in Procs : Appending(p)
Appended(c) ==
  \E i \in Inodes : Has(durable[i], c, 2) /\ Has(data[i], c, 2) /\ Placed(c, i)
Done == \A c \in Calls : kind[c] = "append" /\ result[c] = "true" => Appended(c)

LEMMA BornKept ==
  ASSUME TypeOK, CallsOwned, [Next]_vars, NEW c \in Inodes, Born(c)
  PROVE  Born(c)' /\ (Version(c)' <=> Version(c))
<1>1. CASE c = Old
  BY <1>1 DEF Born, Version
<1>2. CASE c \in Calls
  <2>1. ~Unborn(c)
    BY <1>2, Numbers DEF Born, Old, Calls
  <2>2. ~Unborn(c)'
    BY <1>2, <2>1, UnbornBefore
  <2>3. kind'[c] = kind[c]
    BY <1>2, <2>1, CallsMove DEF Unborn
  <2> QED  BY <1>2, <2>2, <2>3 DEF Born, Version
<1> QED  BY <1>1, <1>2 DEF Inodes

LEMMA OriginKept ==
  ASSUME TypeOK, CallsOwned, [Next]_vars, NEW s \in Content, NEW i \in Inodes, Origin(s, i)
  PROVE  Origin(s, i)'
<1> SUFFICES ASSUME NEW k \in DOMAIN s
             PROVE  Born(s[k][1])' /\ (Version(s[k][1])' => s[k][1] = i)
  BY DEF Origin
<1>1. s[k][1] \in Inodes
  BY DEF Content
<1>2. Born(s[k][1]) /\ (Version(s[k][1]) => s[k][1] = i)
  BY DEF Origin
<1> QED  BY <1>1, <1>2, BornKept

LEMMA OriginPart ==
  ASSUME NEW s \in Content, NEW t \in Content, Continued(s, t), NEW i \in Inodes, Origin(t, i)
  PROVE  Origin(s, i)
<1>1. /\ Len(s) \in Nat /\ Len(t) \in Nat /\ Len(s) <= Len(t)
      /\ DOMAIN s = 1 .. Len(s) /\ DOMAIN t = 1 .. Len(t)
  BY DEF Content, Continued
<1>2. \A k \in DOMAIN s : k \in DOMAIN t /\ t[k] = s[k]
  BY <1>1 DEF Continued
<1> QED  BY <1>2 DEF Origin

LEMMA OriginJoined ==
  ASSUME NEW s \in Content, NEW c \in Calls, NEW m \in 1 .. 2, NEW n \in m .. 2,
         NEW t, Joined(s, c, m, n, t), NEW i \in Inodes, Origin(s, i),
         Born(c), Version(c) => c = i
  PROVE  Origin(t, i)
<1> SUFFICES ASSUME NEW k \in DOMAIN t
             PROVE  Born(t[k][1]) /\ (Version(t[k][1]) => t[k][1] = i)
  BY DEF Origin
<1>1. CASE k \in DOMAIN s /\ t[k] = s[k]
  BY <1>1 DEF Origin
<1>2. CASE t[k] = Half(c, m + (k - Len(s)) - 1)
  <2>1. t[k][1] = c
    BY <1>2 DEF Half
  <2> QED  BY <2>1
<1> QED  BY <1>1, <1>2, JoinedFrom

LEMMA OriginsPreserved ==
  ASSUME TypeOK, CallsOwned, ~Truncates, SyncedFirst, StagedWhole, Origins, [Next]_vars
  PROVE  Origins'
<1> SUFFICES ASSUME NEW i \in Inodes PROVE Origin(data[i], i)' /\ Origin(durable[i], i)'
  BY DEF Origins
<1> USE Numbers
<1>t. ProcsTyped /\ DiskTyped
  BY TypeParts
<1>c. data[i] \in Content /\ durable[i] \in Content
  BY <1>t DEF DiskTyped, Content
<1>o. Origin(data[i], i) /\ Origin(durable[i], i)
  BY DEF Origins
<1>s. ASSUME NEW s \in Content, Origin(s, i) PROVE s = data'[i] => Origin(data[i], i)'
  BY <1>s, OriginKept DEF Origin
<1>d. ASSUME NEW s \in Content, Origin(s, i) PROVE s = durable'[i] => Origin(durable[i], i)'
  BY <1>d, OriginKept DEF Origin
<1>1. CASE data'[i] = data[i] /\ durable'[i] \in {data[i], durable[i]}
  BY <1>1, <1>c, <1>o, <1>s, <1>d
<1>2. ASSUME NEW p \in Procs, NEW n \in off[p] + 1 .. 2, WriteSome(p), fd[p] = i, off[p] \in 0 .. 1,
             Joined(data[i], current[p], off[p] + 1, n, data'[i]), durable'[i] = durable[i]
      PROVE  Origin(data[i], i)' /\ Origin(durable[i], i)'
  <2>1. current[p] \in Calls /\ pc[p] = "write"
    BY <1>2, <1>t DEF WriteSome, CallsOwned, ProcsTyped
  <2>2. Born(current[p])
    BY <2>1 DEF Born, Unborn, CallsOwned
  <2>3. Version(current[p]) => current[p] = i
    <3>1. Version(current[p]) => Staged(p)
      BY <2>1 DEF Version, Staged, Old, Calls
    <3> QED  BY <1>2, <2>1, <3>1 DEF StagedWhole
  <2>4. off[p] + 1 \in 1 .. 2 /\ data'[i] \in Content
    BY <1>2 DEF Joined
  <2>5. Origin(data'[i], i)
    BY <1>c, <1>o, <1>2, <2>1, <2>2, <2>3, <2>4, OriginJoined, ZenonT(60)
  <2> QED  BY <1>2, <1>c, <1>o, <1>s, <1>d, <2>4, <2>5
<1>3. CASE /\ durable'[i] = data'[i] /\ data'[i] \in Content
           /\ Continued(data'[i], data[i])
  <2>1. Origin(data'[i], i)
    BY <1>3, <1>c, <1>o, OriginPart
  <2> QED  BY <1>3, <1>s, <1>d, <2>1
<1> QED  BY <1>1, <1>2, <1>3, ContentMoves

\* A whole version stays whole but for a power cut.
LEMMA WholeKept ==
  ASSUME TypeOK, CallsOwned, ~Truncates, SyncedFirst, [Next]_vars, ~PowerCut,
         NEW i \in Inodes, WholeBase(data[i], i)
  PROVE  WholeBase(data'[i], i)
<1>1. ASSUME NEW t \in Content, Continued(data[i], t), data[i] \in Content
      PROVE  WholeBase(t, i)
  <2>1. Len(data[i]) \in Nat /\ Len(t) \in Nat
    BY <1>1 DEF Content
  <2> QED  BY <1>1, <2>1 DEF WholeBase, Continued
<1>2. data[i] \in Content
  BY TypeParts DEF DiskTyped, Content
<1> QED  BY <1>1, <1>2, ContentMoves DEF Joined

LEMMA ReadersPreserved ==
  ASSUME TypeOK, CallsOwned, Bound, ~Truncates, SyncedFirst, UnbornEmpty, WholeAtPath, AllDoing,
         Readers, [Next]_vars
  PROVE  Readers'
<1> SUFFICES ASSUME NEW q \in Procs, pc'[q] \in {"size", "read"}, Version(fd[q])'
             PROVE  /\ WholeBase(data'[fd'[q]], fd'[q])
                    /\ pc'[q] = "read" => off'[q] >= 2
  BY DEF Readers, Reader
<1> USE Numbers
<1>t. ProcsTyped /\ DiskTyped
  BY TypeParts
<1>0. ~PowerCut
  BY DEF PowerCut
\* A process that has been reading goes on.
<1>1. ASSUME pc[q] \in {"size", "read"}, fd'[q] = fd[q]
      PROVE  /\ WholeBase(data'[fd'[q]], fd'[q])
             /\ pc[q] = "read" => off[q] >= 2
             /\ WholeBase(data[fd[q]], fd[q]) /\ fd[q] \in Inodes
  <2>1. fd[q] \in Inodes
    BY <1>1 DEF CallsOwned
  <2>2. Born(fd[q])
    <3>1. ASSUME fd[q] \in Calls, Unborn(fd[q]) PROVE FALSE
      <4>1. Hidden(fd[q])
        BY <3>1 DEF UnbornEmpty
      <4>2. current[q] = fd[q]
        BY <4>1 DEF Hidden
      <4>3. result[current[q]] = "running" /\ current[q] # None
        BY <1>1 DEF CallsOwned
      <4>4. PICK r \in Procs : current[r] = fd[q] /\ pc[r] = "open"
        BY <3>1, <4>2, <4>3 DEF Unborn
      <4>5. r = q
        BY <4>2, <4>3, <4>4 DEF CallsOwned
      <4> QED  BY <1>1, <4>4, <4>5
    <3> QED  BY <2>1, <3>1 DEF Born, Inodes
  <2>3. Version(fd[q])
    BY <1>1, <2>1, <2>2, BornKept DEF Version
  <2>4. WholeBase(data[fd[q]], fd[q]) /\ (pc[q] = "read" => off[q] >= 2)
    BY <1>1, <2>3 DEF Readers, Reader
  <2> QED  BY <1>0, <1>1, <2>1, <2>4, WholeKept
<1>2. CASE UNCHANGED <<pc, fd, off>>
  BY <1>1, <1>2
<1>3. ASSUME NEW p \in Procs, Acts(p), p # q
      PROVE  /\ WholeBase(data'[fd'[q]], fd'[q])
             /\ pc'[q] = "read" => off'[q] >= 2
  <2>1. pc'[q] = pc[q] /\ fd'[q] = fd[q] /\ off'[q] = off[q]
    BY <1>3, OthersKept DEF Acts
  <2> QED  BY <1>1, <2>1
<1>4. CASE Size(q)
  <2>1. pc[q] = "size" /\ fd' = fd /\ off'[q] = Len(data[fd[q]])
    BY <1>t, <1>4 DEF Size, ProcsTyped
  <2> QED  BY <1>1, <2>1 DEF WholeBase
<1>5. CASE OpenRead(q)
  <2>1. dir[Path] # None
    BY <1>t, <1>5 DEF OpenRead, Return, Enter, ProcsTyped
  <2>2. fd'[q] = dir[Path] /\ pc'[q] = "size" /\ kind' = kind /\ data' = data
    BY <1>t, <1>5, <2>1 DEF OpenRead, Enter, ProcsTyped, diskVars
  <2> QED  BY <2>2 DEF WholeAtPath, Bound, Version
<1>6. ASSUME Acts(q), ~Size(q), ~OpenRead(q) PROVE FALSE
  <2>1. CASE Begins(q)
    BY <1>t, <2>1 DEF Begins, ProcsTyped
  <2>2. ASSUME NEW r \in {"true", "false", "killed"}, Returns(q, r) PROVE FALSE
    BY <1>t, <2>2 DEF Returns, Return, Enter, ProcsTyped
  <2>3. ASSUME NextDir(q) PROVE FALSE
    BY <1>t, <2>3 DEF NextDir, Return, Enter, ProcsTyped
  <2>4. CASE WriteSome(q) \/ Sync(q) \/ OpenTemp(q) \/ CloseTemp(q) \/ Rename(q) \/ OpenFile(q)
    BY <1>t, <2>4, ZenonT(60) DEF WriteSome, Sync, OpenTemp, CloseTemp, Rename, OpenFile, Enter, AfterWrite, ProcsTyped
  <2>5. CASE Stat(q) \/ Mkdir(q)
    BY <1>t, <2>3, <2>5 DEF Stat, Mkdir, Enter, ProcsTyped
  <2>6. CASE Fails(q) \/ SyncDir(q) \/ CloseFile(q) \/ Read(q) \/ Kill(q)
    <3>1. \E r \in {"true", "false", "killed"} : Return(q, r)
      BY <2>6 DEF Fails, SyncDir, CloseFile, Read, Kill
    <3> QED  BY <1>t, <3>1 DEF Return, Enter, ProcsTyped
  <2>7. CASE Begin(q)
    BY <1>t, <2>7 DEF Begin, Enter, ProcsTyped
  <2> QED  BY <1>6, <2>4, <2>5, <2>6, <2>7 DEF Acts
<1> QED
  BY <1>0, <1>2, <1>3, <1>4, <1>5, <1>6, NextActs DEF vars, procVars

LEMMA GotPreserved ==
  ASSUME TypeOK, CallsOwned, ~Truncates, Origins, Readers, GotWhole, [Next]_vars
  PROVE  GotWhole'
<1> SUFFICES ASSUME NEW c \in Calls, got'[c] # <<>>, NEW j, j = got'[c][1][1]
             PROVE  Born(j)' /\ (Version(j)' => WholeBase(got'[c], j))
  BY DEF GotWhole
<1> USE Numbers
<1>t. ProcsTyped /\ DiskTyped /\ RestTyped
  BY TypeParts
<1>1. CASE got'[c] = got[c]
  <2>1. got[c] \in Content /\ got[c] # <<>>
    BY <1>1, <1>t DEF RestTyped, Content
  <2>2. j \in Inodes
    BY <1>1, <2>1 DEF Content
  <2>3. Born(j) /\ (Version(j) => WholeBase(got[c], j))
    BY <1>1, <2>1 DEF GotWhole
  <2> QED  BY <1>1, <2>2, <2>3, BornKept
<1>2. ASSUME NEW p \in Procs, Read(p), c = current[p], got'[c] # got[c]
      PROVE  Born(j)' /\ (Version(j)' => WholeBase(got'[c], j))
  <2> DEFINE s == data[fd[p]]
  <2>1. fd[p] \in Inodes /\ s \in Content /\ off[p] \in Nat /\ pc[p] = "read"
    BY <1>2, <1>t, ZenonT(60) DEF Read, CallsOwned, ProcsTyped, DiskTyped, Content
  <2>2. Len(s) >= off[p] /\ got'[c] = SubSeq(s, 1, off[p])
    <3>1. ~(Len(s) < off[p])
      BY <1>2 DEF Read
    <3> QED  BY <1>2, <1>t, <2>1, <3>1, SMTT(60) DEF Read, RestTyped, Content
  <2> HIDE DEF s
  <2>3. off[p] >= 1
    BY <2>1, <2>2 DEF Content
  <2>4. Len(got'[c]) = off[p] /\ got'[c][1] = s[1] /\ (off[p] >= 2 => got'[c][2] = s[2])
        /\ 1 \in DOMAIN s /\ j = s[1][1] /\ j \in Inodes
    BY <2>1, <2>2, <2>3, SMTT(60) DEF Content
  <2>5. Born(j) /\ (Version(j) => j = fd[p])
    BY <2>1, <2>4 DEF Origins, Origin, s
  <2>6. Version(j) => WholeBase(s, j) /\ off[p] >= 2
    BY <2>1, <2>5 DEF Readers, Reader, s
  <2>7. Version(j) => WholeBase(got'[c], j)
    BY <2>1, <2>4, <2>6 DEF WholeBase
  <2>8. Born(j)' /\ (Version(j)' <=> Version(j))
    BY <2>4, <2>5, BornKept
  <2> QED  BY <2>7, <2>8
<1>3. ASSUME NEW p \in Procs, Acts(p), ~(Read(p) /\ c = current[p]) PROVE got'[c] = got[c]
  <2>1. CASE Read(p)
    BY <1>3, <1>t, <2>1, SMTT(60) DEF Read, RestTyped
  <2>2. CASE ~Read(p)
    BY <1>3, <2>2 DEF Acts, Begin, Fails, WriteSome, Sync, OpenTemp, CloseTemp, Rename, SyncDir,
       OpenFile, CloseFile, OpenRead, Size, Stat, Mkdir, Kill, callVars
  <2> QED  BY <2>1, <2>2
<1>4. CASE UNCHANGED vars \/ PowerCut
  BY <1>1, <1>4 DEF vars, callVars, PowerCut
<1> QED  BY <1>1, <1>2, <1>3, <1>4, NextActs

-----------------------------------------------------------------------------
(* The appends.                                                            *)

\* The path goes on to name the file or what may replace it: whoever renames a
\* file over it began later, or was running when the append began.
LEMMA PlacedKept ==
  ASSUME TypeOK, CallsOwned, Bound, OwnNames, Earlier, ~Truncates, StagedWhole, [Next]_vars,
         NEW c \in Calls, kind[c] = "append", result[c] # "none", NEW i \in Inodes, Placed(c, i)
  PROVE  Placed(c, i)'
<1> USE Numbers
<1>t. ProcsTyped /\ DiskTyped /\ RestTyped
  BY TypeParts
<1>1. beside'[c] = beside[c] /\ beside[c] \subseteq Calls /\ cuts \in Nat
  BY <1>t, CallsMove DEF RestTyped
<1>2. CASE cuts > 0
  BY <1>1, <1>2, CallsMove DEF Placed
<1>3. CASE PowerCut
  BY <1>1, <1>3 DEF PowerCut, Placed
<1>4. CASE dir'[Path] = dir[Path] /\ cuts' = cuts
  BY <1>1, <1>4 DEF Placed
<1>5. ASSUME NEW p \in Procs, Acts(p), ~(cuts > 0), dir'[Path] # dir[Path] PROVE Placed(c, i)'
  <2>1. \/ Rename(p) /\ dir'[Path] = dir[current[p]]
        \/ OpenFile(p) /\ dir[Path] = None
    BY <1>5, DirMoves
  <2>2. CASE Rename(p) /\ dir'[Path] = dir[current[p]]
    <3>1. current[p] \in Calls /\ Staged(p) /\ result[current[p]] = "running"
      BY <1>t, <2>2 DEF Rename, CallsOwned, ProcsTyped, Staged
    <3>2. dir[current[p]] = current[p] /\ kind[current[p]] = "atomic"
      BY <3>1 DEF StagedWhole, Staged
    <3>3. current[p] # c
      BY <3>2
    <3>4. CASE current[p] > c
      BY <2>2, <3>2, <3>4 DEF Placed
    <3>5. CASE current[p] < c
      <4>1. current[p] \in beside[c]
        BY <3>1, <3>5 DEF Earlier
      <4> QED  BY <1>1, <2>2, <3>2, <4>1 DEF Placed
    <3>6. current[p] \in Nat /\ c \in Nat
      BY <3>1
    <3> QED  BY <3>3, <3>4, <3>5, <3>6
  <2>3. CASE dir[Path] = None
    <3>1. dir[Path] = -1 /\ i >= 0 /\ c >= 1
      BY <2>3 DEF None, Inodes, Calls, Old
    <3>2. dir[Path] \notin beside[c]
      BY <1>1, <2>3
    <3> QED  BY <1>5, <3>1, <3>2 DEF Placed
  <2> QED  BY <2>1, <2>2, <2>3
<1>6. CASE UNCHANGED vars
  BY <1>4, <1>6 DEF vars, diskVars
<1>7. \A p \in Procs : Acts(p) => cuts' = cuts
  BY StepKinds DEF Grows
<1> QED  BY <1>2, <1>3, <1>4, <1>5, <1>6, <1>7, NextActs

\* The halves of a call that does not write stay what they are.
LEMMA HasKept ==
  ASSUME TypeOK, CallsOwned, ~Truncates, SyncedFirst, [Next]_vars, ~PowerCut,
         NEW c \in Calls, NEW i \in Inodes, NEW k \in Nat, Has(data[i], c, k),
         \A p \in Procs : current[p] = c => ~WriteSome(p)
  PROVE  Has(data'[i], c, k) /\ (Has(durable[i], c, k) => Has(durable'[i], c, k))
<1>1. data[i] \in Content
  BY TypeParts DEF DiskTyped, Content
<1>2. ASSUME NEW p \in Procs, NEW n \in off[p] + 1 .. 2, WriteSome(p), off[p] \in 0 .. 1,
             Joined(data[i], current[p], off[p] + 1, n, data'[i])
      PROVE  Has(data'[i], c, k)
  <2>0. ProcsTyped
    BY TypeParts
  <2>1. current[p] \in Calls /\ current[p] # c
    <3>1. pc[p] # "idle" /\ current[p] # c
      BY <1>2 DEF WriteSome
    <3> QED  BY <2>0, <3>1, SMTT(60) DEF CallsOwned, ProcsTyped
  <2>2. off[p] + 1 \in 1 .. 2
    BY <1>2
  <2> QED  BY <1>1, <1>2, <2>1, <2>2, HasOther
<1> QED  BY <1>2, ContentMoves

\* An append that goes on keeps its place.
LEMMA ProgressPreserved ==
  ASSUME TypeOK, CallsOwned, Bound, OwnNames, Earlier, ~Truncates, StagedWhole, SyncedFirst,
         Origins, Progress, [Next]_vars
  PROVE  Progress'
<1> SUFFICES ASSUME NEW q \in Procs, pc'[q] \in {"write", "sync", "close"},
                    kind'[current'[q]] = "append", NEW c, c = current'[q], NEW i, i = fd'[q]
             PROVE  /\ off'[q] \in 0 .. 2 /\ Has(data'[i], c, off'[q])
                    /\ pc'[q] # "write" => off'[q] = 2
                    /\ pc'[q] = "close" => Has(durable'[i], c, 2)
                    /\ Placed(c, i)'
  BY DEF Progress, Appending
<1> USE Numbers
<1>t. ProcsTyped /\ DiskTyped /\ RestTyped
  BY TypeParts
<1>0. ~PowerCut
  BY DEF PowerCut
\* An append that was under way.
<1>1. ASSUME pc[q] \in {"write", "sync", "close"}, c = current[q], i = fd[q]
      PROVE  /\ c \in Calls /\ i \in Inodes /\ kind[c] = "append" /\ result[c] # "none"
             /\ off[q] \in 0 .. 2 /\ Has(data[i], c, off[q])
             /\ pc[q] # "write" => off[q] = 2
             /\ pc[q] = "close" => Has(durable[i], c, 2)
             /\ Placed(c, i)'
  <2>1. c \in Calls /\ i \in Inodes /\ result[c] = "running"
    BY <1>1, <1>t DEF CallsOwned, ProcsTyped
  <2>2. kind[c] = "append"
    BY <2>1, CallsMove
  <2>3. /\ off[q] \in 0 .. 2 /\ Has(data[i], c, off[q])
        /\ pc[q] # "write" => off[q] = 2
        /\ pc[q] = "close" => Has(durable[i], c, 2)
        /\ Placed(c, i)
    BY <1>1, <2>2 DEF Progress, Appending
  <2>4. Placed(c, i)'
    BY <2>1, <2>2, <2>3, PlacedKept
  <2> QED  BY <2>1, <2>2, <2>3, <2>4
<1>2. ASSUME pc'[q] = pc[q], c = current[q], i = fd[q], off'[q] = off[q], ~WriteSome(q)
      PROVE  /\ off'[q] \in 0 .. 2 /\ Has(data'[i], c, off'[q])
             /\ pc'[q] # "write" => off'[q] = 2
             /\ pc'[q] = "close" => Has(durable'[i], c, 2)
             /\ Placed(c, i)'
  <2>1. \A p \in Procs : current[p] = c => ~WriteSome(p)
    BY <1>1, <1>2 DEF CallsOwned
  <2>2. off[q] \in Nat
    BY <1>t DEF ProcsTyped
  <2>3. Has(data'[i], c, off[q]) /\ (Has(durable[i], c, off[q]) => Has(durable'[i], c, off[q]))
    BY <1>0, <1>1, <1>2, <2>1, <2>2, HasKept
  <2> QED  BY <1>1, <1>2, <2>3
<1>3. CASE UNCHANGED vars
  <2>1. ~WriteSome(q)
    <3>1. ASSUME WriteSome(q) PROVE FALSE
      <4>1. PICK n \in off[q] + 1 .. 2 : off' = [off EXCEPT ![q] = n]
        BY <3>1 DEF WriteSome
      <4>2. off'[q] = n /\ off[q] \in Nat
        BY <1>t, <4>1 DEF ProcsTyped
      <4> QED  BY <1>3, <4>2 DEF vars, procVars
    <3> QED  BY <3>1
  <2> QED  BY <1>2, <1>3, <2>1 DEF vars, procVars
<1>4. ASSUME NEW p \in Procs, Acts(p), p # q
      PROVE  /\ off'[q] \in 0 .. 2 /\ Has(data'[i], c, off'[q])
             /\ pc'[q] # "write" => off'[q] = 2
             /\ pc'[q] = "close" => Has(durable'[i], c, 2)
             /\ Placed(c, i)'
  <2>1. pc'[q] = pc[q] /\ c = current[q] /\ i = fd[q] /\ off'[q] = off[q]
    BY <1>4, OthersKept DEF Acts
  <2>2. ~WriteSome(q)
    <3>1. ASSUME WriteSome(q) PROVE FALSE
      <4>1. PICK n \in off[q] + 1 .. 2 : off' = [off EXCEPT ![q] = n]
        BY <3>1 DEF WriteSome
      <4>2. off'[q] = n /\ off[q] \in Nat
        BY <1>t, <4>1 DEF ProcsTyped
      <4> QED  BY <2>1, <4>2
    <3> QED  BY <3>1
  <2> QED  BY <1>2, <2>1, <2>2
<1>5. CASE OpenFile(q)
  <2>1. /\ c = current[q] /\ c \in Calls /\ pc[q] = "open" /\ off'[q] = 0 /\ pc'[q] = "write"
        /\ result[c] = "running" /\ kind' = kind
    BY <1>t, <1>5 DEF OpenFile, CallsOwned, ProcsTyped, Enter, callVars
  <2>2. i = dir'[Path] /\ i \in Inodes
    <3>1. CASE dir[Path] = None
      BY <1>t, <1>5, <2>1, <3>1 DEF OpenFile, Rebind, DiskTyped, ProcsTyped
    <3>2. CASE dir[Path] # None
      BY <1>t, <1>5, <3>2 DEF OpenFile, DiskTyped, ProcsTyped
    <3> QED  BY <3>1, <3>2
  <2>3. data' = data
    BY <1>5, OnlyOpenWritten
  <2>4. Unborn(c)
    BY <2>1 DEF Unborn
  <2>5. \A k \in DOMAIN data[i] : data[i][k][1] # c
    BY <2>2, <2>1, <2>4 DEF Origins, Origin, Born, Calls, Old
  <2>6. Has(data[i], c, 0)
    BY <2>5 DEF Has
  <2> QED  BY <2>1, <2>2, <2>3, <2>6 DEF Placed
<1>6. CASE WriteSome(q)
  <2>1. pc[q] = "write" /\ c = current[q] /\ i = fd[q]
    BY <1>6 DEF WriteSome
  <2>2. /\ c \in Calls /\ i \in Inodes /\ kind[c] = "append" /\ off[q] \in 0 .. 2
        /\ Has(data[i], c, off[q]) /\ Placed(c, i)'
    BY <1>1, <2>1
  <2>3. data[i] \in Content
    BY <1>t, <2>2 DEF DiskTyped, Content
  <2>4. PICK n \in off[q] + 1 .. 2 : WriteSome(q)!2!(n)
    BY <1>6 DEF WriteSome
  <2>5. off[q] \in 0 .. 1 /\ off[q] + 1 \in 1 .. 2 /\ n \in 1 .. 2 /\ n \in off[q] + 1 .. 2
    BY <2>2
  <2>6. data'[i] = data[i] \o Halves(c, off[q] + 1, n)
    BY <1>t, <2>1, <2>2, <2>4 DEF DiskTyped
  <2>7. Has(data'[i], c, n)
    <3>1. Joined(data[i], c, off[q] + 1, n, data'[i])
      BY <2>2, <2>3, <2>5, <2>6, JoinedPoints, ZenonT(60)
    <3> QED  BY <2>2, <2>3, <2>5, <3>1, HasAppend
  <2>8. off'[q] = n /\ pc'[q] = IF n < 2 THEN "write" ELSE "sync"
    BY <1>t, <2>1, <2>2, <2>4 DEF Enter, AfterWrite, ProcsTyped
  <2>9. pc'[q] # "write" => n = 2
    BY <2>5, <2>8
  <2>10. pc'[q] # "close"
    BY <2>8
  <2> QED  BY <2>2, <2>5, <2>7, <2>8, <2>9, <2>10
<1>7. CASE Sync(q)
  <2>1. /\ pc[q] = "sync" /\ c = current[q] /\ i = fd[q] /\ off'[q] = off[q] /\ pc'[q] = "close"
        /\ data' = data
    BY <1>t, <1>7 DEF Sync, Enter, ProcsTyped
  <2>2. /\ c \in Calls /\ i \in Inodes /\ off[q] = 2 /\ Has(data[i], c, 2) /\ Placed(c, i)'
    BY <1>1, <2>1
  <2>3. durable'[i] = data[i]
    BY <1>t, <1>7, <2>1, <2>2 DEF Sync, DiskTyped
  <2> QED  BY <2>1, <2>2, <2>3
<1>8. ASSUME OpenTemp(q) \/ CloseTemp(q) \/ Rename(q) PROVE FALSE
  <2>1. kind' = kind /\ current' = current
    BY <1>8 DEF OpenTemp, CloseTemp, Rename, callVars
  <2>2. kind[current[q]] = "atomic"
    BY <1>8 DEF OpenTemp, CloseTemp, Rename, CallsOwned
  <2> QED  BY <2>1, <2>2
<1>9. ASSUME Acts(q), ~WriteSome(q), ~Sync(q), ~OpenFile(q),
             ~(OpenTemp(q) \/ CloseTemp(q) \/ Rename(q))
      PROVE FALSE
  <2>1. ASSUME NEW r, Return(q, r) PROVE FALSE
    BY <1>t, <2>1 DEF Return, Enter, ProcsTyped
  <2>2. ASSUME NextDir(q) PROVE FALSE
    BY <1>t, <2>1, <2>2 DEF NextDir, Enter, ProcsTyped
  <2>3. CASE Stat(q) \/ Mkdir(q)
    BY <1>t, <2>2, <2>3 DEF Stat, Mkdir, Enter, ProcsTyped
  <2>4. CASE Fails(q) \/ SyncDir(q) \/ CloseFile(q) \/ Read(q) \/ Kill(q)
    BY <2>1, <2>4 DEF Fails, SyncDir, CloseFile, Read, Kill
  <2>5. CASE Begin(q)
    BY <1>t, <2>5 DEF Begin, Enter, ProcsTyped
  <2>6. CASE Size(q)
    BY <1>t, <2>6 DEF Size, Enter, ProcsTyped
  <2>7. CASE OpenRead(q)
    BY <1>t, <2>1, <2>7 DEF OpenRead, Enter, ProcsTyped
  <2> QED  BY <1>9, <2>3, <2>4, <2>5, <2>6, <2>7 DEF Acts
<1> QED  BY <1>0, <1>3, <1>4, <1>5, <1>6, <1>7, <1>8, <1>9, NextActs

LEMMA DonePreserved ==
  ASSUME TypeOK, CallsOwned, Bound, OwnNames, AllDoing, Earlier, ~Truncates, StagedWhole,
         SyncedFirst, Progress, Done, [Next]_vars
  PROVE  Done'
<1> SUFFICES ASSUME NEW c \in Calls, kind'[c] = "append", result'[c] = "true"
             PROVE  Appended(c)'
  BY DEF Done
<1> USE Numbers
<1>t. ProcsTyped /\ DiskTyped
  BY TypeParts
\* It was done before.
<1>1. CASE result[c] = "true"
  <2>1. kind[c] = "append"
    BY <1>1, CallsMove
  <2>2. PICK i \in Inodes : Has(durable[i], c, 2) /\ Has(data[i], c, 2) /\ Placed(c, i)
    BY <1>1, <2>1 DEF Done, Appended
  <2>3. Placed(c, i)'
    BY <1>1, <2>1, <2>2, PlacedKept
  <2>4. \A p \in Procs : current[p] = c => ~WriteSome(p)
    BY <1>1 DEF CallsOwned, WriteSome
  <2>5. CASE ~PowerCut
    <3>1. Has(durable'[i], c, 2) /\ Has(data'[i], c, 2)
      BY <2>2, <2>4, <2>5, HasKept
    <3> QED  BY <2>3, <3>1 DEF Appended
  <2>6. CASE PowerCut
    <3>1. data[i] \in Content /\ durable[i] \in Content
      BY <1>t DEF DiskTyped, Content
    <3>2. \/ data'[i] \in {data[i]} /\ durable'[i] \in {data[i], durable[i]}
          \/ /\ durable'[i] = data'[i] /\ data'[i] \in Content
             /\ Continued(durable[i], data'[i]) /\ Continued(data'[i], data[i])
      <4>1. \A p \in Procs : ~WriteSome(p)
        <5>1. ASSUME NEW p \in Procs, WriteSome(p) PROVE FALSE
          <6>1. pc[p] = "write" /\ cuts' = cuts
            BY <5>1 DEF WriteSome
          <6>2. cuts \in Nat /\ cuts' = cuts + 1
            BY <2>6, CallsMove DEF PowerCut
          <6> QED  BY <6>1, <6>2
        <5> QED  BY <5>1
      <4> QED  BY <4>1, ContentMoves
    <3>3. Has(durable'[i], c, 2) /\ Has(data'[i], c, 2)
      BY <2>2, <3>1, <3>2, HasLeft
    <3> QED  BY <2>3, <3>3 DEF Appended
  <2> QED  BY <2>5, <2>6
\* It is done now.
<1>2. CASE result[c] # "true"
  <2>1. PICK p \in Procs : Acts(p)
    <3>1. ~UNCHANGED vars
      BY <1>2 DEF vars, callVars
    <3>2. ~PowerCut
      BY <1>2, <1>t DEF PowerCut, ProcsTyped
    <3> QED  BY <3>1, <3>2, NextActs
  <2>2. PICK r \in {"true", "false", "killed"} : Returns(p, r)
    <3>1. ~Begins(p)
      BY <1>2, <1>t DEF Begins, ProcsTyped
    <3>2. ~Continues(p)
      BY <1>2 DEF Continues
    <3> QED  BY <2>1, <3>1, <3>2, StepKinds
  <2>3. c = current[p] /\ r = "true" /\ kind' = kind /\ result[c] = "running"
    BY <1>2, <1>t, <2>2 DEF Returns, Return, ProcsTyped, CallsOwned
  <2>4. pc[p] = "close" /\ CloseFile(p)
    <3>1. Doing(p) /\ kind[current[p]] = "append" /\ pc[p] # "idle"
      BY <2>2, <2>3 DEF AllDoing, Returns
    <3>2. pc[p] = "close"
      BY <2>2, <2>3, <3>1 DEF Returns, Doing
    <3>3. ~Fails(p) /\ ~Kill(p)
      <4>1. ASSUME NEW x \in {"false", "killed"}, Return(p, x) PROVE FALSE
        BY <1>t, <2>3, <4>1 DEF Return, ProcsTyped
      <4> QED  BY <4>1 DEF Fails, Kill
    <3> QED  BY <2>1, <3>1, <3>2, <3>3 DEF Acts, Begin, WriteSome, Sync, OpenTemp, CloseTemp,
         Rename, SyncDir, OpenFile, OpenRead, Size, Read, Stat, Mkdir
  <2>5. fd[p] \in Inodes
    BY <2>4 DEF CallsOwned
  <2>6. PICK i \in Inodes : i = fd[p]
    BY <2>5
  <2>7. Has(durable[i], c, 2) /\ Has(data[i], c, 2) /\ Placed(c, i)
    BY <2>3, <2>4, <2>6 DEF Progress, Appending
  <2>8. data' = data /\ durable' = durable
    BY <2>4 DEF CloseFile, diskVars
  <2>9. Placed(c, i)'
    BY <2>3, <2>7, PlacedKept
  <2> QED  BY <2>7, <2>8, <2>9 DEF Appended
<1> QED  BY <1>1, <1>2

-----------------------------------------------------------------------------
(* The theorems.                                                           *)

Ledger == AllDoing /\ Answered /\ Earlier /\ OwnNames /\ AtPath /\ Temps
Contents == Origins /\ Readers /\ GotWhole /\ Progress /\ Done
Books == IInv /\ Ledger /\ (~Truncates => Contents)

LEMMA InitBooks == Init => Books
<1> SUFFICES ASSUME Init PROVE Books
  OBVIOUS
<1> USE Numbers
<1>1. IInv
  BY InitWhole
<1>2. ProcsTyped /\ DiskTyped
  BY <1>1, TypeParts DEF IInv
<1>3. Ledger
  <2>1. \A p \in Procs : pc[p] = "idle" /\ current[p] = None
    BY DEF Init
  <2>2. \A c \in Calls : kind[c] = "none" /\ result[c] = "none"
    BY DEF Init
  <2>3. \A d \in dirs : d = dir /\ d[Path] \in {Old, None} /\ \A n \in Calls : d[n] = None
    BY DEF Init
  <2>4. \A c \in Calls : dir[c] = None
    BY DEF Init
  <2>5. AllDoing
    BY <2>1 DEF AllDoing, Doing
  <2>6. Answered /\ Earlier
    BY <2>2 DEF Answered, Earlier
  <2>7. OwnNames
    BY <2>3 DEF OwnNames
  <2>8. AtPath
    BY <2>3 DEF AtPath, Calls, Old, None
  <2>9. Temps
    BY <2>4 DEF Temps
  <2> QED  BY <2>5, <2>6, <2>7, <2>8, <2>9 DEF Ledger
<1>4. Contents
  <2>1. ASSUME NEW i \in Inodes PROVE Origin(data[i], i) /\ Origin(durable[i], i)
    <3>1. CASE i = Old
      <4>1. data[i] = Halves(Old, 1, 2) /\ durable[i] = data[i]
        BY <3>1 DEF Init
      <4>2. \A k \in DOMAIN data[i] : data[i][k][1] = Old
        BY <4>1 DEF Halves, Half
      <4> QED  BY <3>1, <4>1, <4>2 DEF Origin, Born
    <3>2. CASE i # Old
      <4>1. data[i] = <<>> /\ durable[i] = <<>>
        BY <3>2 DEF Init
      <4> QED  BY <4>1 DEF Origin
    <3> QED  BY <3>1, <3>2
  <2>2. Readers /\ Progress
    BY DEF Init, Readers, Reader, Progress, Appending
  <2>3. GotWhole /\ Done
    BY DEF Init, GotWhole, Done
  <2> QED  BY <2>1, <2>2, <2>3 DEF Contents, Origins
<1> QED  BY <1>1, <1>3, <1>4 DEF Books

LEMMA BooksPreserved == Books /\ [Next]_vars => Books'
<1> SUFFICES ASSUME Books, [Next]_vars PROVE Books'
  OBVIOUS
<1>0. IInv /\ TypeOK /\ CallsOwned /\ Bound
  BY DEF Books, IInv
<1>1. IInv'
  BY <1>0, IInvPreserved
<1>2. Ledger'
  <2>1. AllDoing /\ Answered /\ Earlier /\ OwnNames /\ AtPath /\ Temps
    BY DEF Books, Ledger
  <2> QED
    BY <1>0, <2>1, DoingPreserved, AnsweredPreserved, EarlierPreserved, OwnNamesPreserved,
       AtPathPreserved, TempsPreserved DEF Ledger
<1>3. ASSUME ~Truncates PROVE Contents'
  <2>1. /\ UnbornEmpty /\ StagedWhole /\ SyncedFirst /\ WholeAtPath /\ AllDoing /\ Earlier
        /\ OwnNames /\ Origins /\ Readers /\ GotWhole /\ Progress /\ Done
    BY <1>3 DEF Books, IInv, Ledger, Contents
  <2>2. Origins'
    BY <1>0, <1>3, <2>1, OriginsPreserved
  <2>3. Readers'
    BY <1>0, <1>3, <2>1, ReadersPreserved
  <2>4. GotWhole'
    BY <1>0, <1>3, <2>1, GotPreserved
  <2>5. Progress'
    BY <1>0, <1>3, <2>1, ProgressPreserved
  <2>6. Done'
    BY <1>0, <1>3, <2>1, DonePreserved
  <2> QED  BY <2>2, <2>3, <2>4, <2>5, <2>6 DEF Contents
<1>4. Truncates' <=> Truncates
  BY <1>0, CallsMove DEF Truncates
<1> QED  BY <1>1, <1>2, <1>3, <1>4 DEF Books

\* What an append with sync reported written is on the disk, once and in order,
\* whoever else appends, and the path names it until a call that began later, or
\* that was running when the append began, replaces the file.
THEOREM Survive == Spec => []AppendsSurvive
<1>1. Books => AppendsSurvive
  BY DEF Books, Contents, Done, Appended, Placed, AppendsSurvive
<1> QED  BY <1>1, InitBooks, BooksPreserved, PTL DEF Spec

\* What the calls report is so: a directory reported made is there, a call that
\* returned false met a failing system call and has not put its content at the
\* path, temporary names belong to calls at work or killed, and a read returned
\* a whole version with what was appended to it.
THEOREM Reported == Spec => []ResultsAreTrue
<1>1. Books => ResultsAreTrue
  <2> SUFFICES ASSUME Books, NEW c \in Calls
               PROVE  /\ got[c] # <<>> /\ ~Truncates =>
                           (Version(got[c][1][1]) => WholeBase(got[c], got[c][1][1]))
                      /\ kind[c] = "mkdir" /\ result[c] = "true" => made = 1 .. Depth
                      /\ result[c] = "false" => c \in faulted
                      /\ result[c] = "false" /\ kind[c] = "atomic" => \A d \in dirs : d[Path] # c
                      /\ dir[c] # None => cuts > 0 \/ result[c] \in {"running", "killed"}
    BY DEF ResultsAreTrue
  <2>1. got[c] # <<>> /\ ~Truncates => (Version(got[c][1][1]) => WholeBase(got[c], got[c][1][1]))
    BY DEF Books, Contents, GotWhole
  <2>2. /\ kind[c] = "mkdir" /\ result[c] = "true" => made = 1 .. Depth
        /\ result[c] = "false" => c \in faulted
    BY DEF Books, Ledger, Answered
  <2>3. result[c] = "false" /\ kind[c] = "atomic" => \A d \in dirs : d[Path] # c
    BY DEF Books, Ledger, AtPath
  <2>4. dir[c] # None => cuts > 0 \/ result[c] \in {"running", "killed"}
    <3>1. cuts \in Nat
      BY DEF Books, IInv, TypeOK
    <3>2. ASSUME cuts = 0, dir[c] # None PROVE result[c] \in {"running", "killed"}
      BY <3>2 DEF Books, Ledger, Temps, IInv, CallsOwned
    <3> QED  BY <3>1, <3>2
  <2> QED  BY <2>1, <2>2, <2>3, <2>4
<1> QED  BY <1>1, InitBooks, BooksPreserved, PTL DEF Spec

-----------------------------------------------------------------------------
(* Reading by pages. *)

\* The passes of a loop over 1..n, and the one before each.
LEMMA PassesOf ==
  ASSUME NEW n \in Nat
  PROVE  /\ 0 \in 0 .. n /\ \A k \in 1 .. n : k \in 0 .. n /\ k - 1 \in 0 .. n
OBVIOUS

LEMMA LargestIs ==
  ASSUME NEW S, NEW m \in S, S \subseteq Nat, \A i \in S : i <= m
  PROVE  Largest(S) = m
<1>1. \A i \in S : (\A j \in S : j <= i) => i = m
  <2> TAKE i \in S
  <2>1. i \in Nat /\ m \in Nat /\ i <= m
    OBVIOUS
  <2>2. (\A j \in S : j <= i) => m <= i
    OBVIOUS
  <2> QED
    BY <2>1, <2>2
<1> QED
  BY <1>1 DEF Largest

LEMMA LargestExists ==
  ASSUME NEW N \in Nat, NEW S, 0 \in S, S \subseteq 0 .. N
  PROVE  Largest(S) \in S /\ \A i \in S : i <= Largest(S)
<1> DEFINE T == {N - i : i \in S}
<1>1. T \subseteq Nat /\ T # {}
  OBVIOUS
<1>2. PICK t \in T : \A u \in T : t <= u
  <2> HIDE DEF T
  <2> QED
    BY <1>1, LeastNatural
<1>3. PICK m \in S : t = N - m
  BY <1>2
<1>4. \A i \in S : i <= m
  <2> TAKE i \in S
  <2>1. N - m <= N - i
    BY <1>2, <1>3
  <2>2. i \in 0 .. N /\ m \in 0 .. N
    OBVIOUS
  <2> QED
    BY <2>1, <2>2
<1>5. S \subseteq Nat
  OBVIOUS
<1> QED
  BY <1>3, <1>4, <1>5, LargestIs

\* How the lines are counted, byte by byte.
LEMMA LineFirst ==
  ASSUME NEW s
  PROVE  LineOf(s, 1) = 0
<1>1. {j \in 1 .. 1 - 1 : s[j] = "b"} = {}
  OBVIOUS
<1> QED
  BY <1>1, FS_EmptySet DEF LineOf

LEMMA LineNatural ==
  ASSUME NEW s, NEW i \in Nat
  PROVE  LineOf(s, i) \in Nat /\ IsFiniteSet({j \in 1 .. i - 1 : s[j] = "b"})
<1>1. IsFiniteSet(1 .. i - 1)
  BY FS_Interval
<1>2. IsFiniteSet({j \in 1 .. i - 1 : s[j] = "b"})
  BY <1>1, FS_Subset
<1> QED
  BY <1>2, FS_CardinalityType DEF LineOf

LEMMA LineClimbs ==
  ASSUME NEW s, NEW i \in Nat, NEW j \in Nat, i <= j
  PROVE  LineOf(s, i) <= LineOf(s, j)
<1> DEFINE A == {k \in 1 .. i - 1 : s[k] = "b"}
           B == {k \in 1 .. j - 1 : s[k] = "b"}
<1>1. A \subseteq B
  OBVIOUS
<1>2. IsFiniteSet(B)
  BY LineNatural
<1> HIDE DEF A, B
<1>3. Cardinality(A) <= Cardinality(B)
  BY <1>1, <1>2, FS_Subset
<1> QED
  BY <1>3 DEF A, B, LineOf

LEMMA LineSame ==
  ASSUME NEW s, NEW i \in Nat, NEW j \in Nat, i <= j, i > 0,
         \A k \in i .. j - 1 : s[k] # "b"
  PROVE  LineOf(s, i) = LineOf(s, j)
<1>1. {k \in 1 .. i - 1 : s[k] = "b"} = {k \in 1 .. j - 1 : s[k] = "b"}
  <2>1. ASSUME NEW k \in 1 .. j - 1, s[k] = "b" PROVE k \in 1 .. i - 1
    <3>1. k \notin i .. j - 1
      BY <2>1
    <3> QED
      BY <3>1
  <2> QED
    BY <2>1
<1> QED
  BY <1>1 DEF LineOf

LEMMA LineAfter ==
  ASSUME NEW s, NEW i \in Nat, i > 0
  PROVE  LineOf(s, i + 1) = IF s[i] = "b" THEN LineOf(s, i) + 1 ELSE LineOf(s, i)
<1>1. CASE s[i] # "b"
  BY <1>1, LineSame
<1>2. CASE s[i] = "b"
  <2> DEFINE A == {k \in 1 .. i - 1 : s[k] = "b"}
             B == {k \in 1 .. (i + 1) - 1 : s[k] = "b"}
  <2>1. B = A \cup {i} /\ i \notin A
    BY <1>2
  <2>2. IsFiniteSet(A)
    BY LineNatural
  <2> HIDE DEF A, B
  <2>3. Cardinality(B) = Cardinality(A) + 1
    BY <2>1, <2>2, FS_AddElement
  <2> QED
    BY <1>2, <2>3 DEF A, B, LineOf
<1> QED
  BY <1>1, <1>2

\* The bytes before a line are those of the lines before it.
LEMMA BeforeIs ==
  ASSUME NEW X, NEW s \in Seq(X), NEW k \in Nat
  PROVE  /\ Before(s, k) \in 0 .. Len(s)
         /\ \A i \in 1 .. Len(s) : i <= Before(s, k) <=> LineOf(s, i) < k
<1> DEFINE S == {0} \cup {i \in DOMAIN s : LineOf(s, i) < k}
<1>1. Len(s) \in Nat /\ DOMAIN s = 1 .. Len(s)
  BY PointsOf
<1>2. 0 \in S /\ S \subseteq 0 .. Len(s)
  BY <1>1
<1>3. Before(s, k) = Largest(S)
  BY DEF Before
<1> HIDE DEF S
<1>4. Before(s, k) \in S /\ \A i \in S : i <= Before(s, k)
  BY <1>1, <1>2, <1>3, LargestExists
<1>5. ASSUME NEW i \in 1 .. Len(s) PROVE i <= Before(s, k) <=> LineOf(s, i) < k
  <2>1. CASE LineOf(s, i) < k
    <3>1. i \in S
      BY <1>1, <2>1 DEF S
    <3> QED
      BY <1>4, <2>1, <3>1
  <2>2. ASSUME i <= Before(s, k) PROVE LineOf(s, i) < k
    <3> DEFINE m == Before(s, k)
    <3>1. m \in S /\ m \in 0 .. Len(s)
      BY <1>2, <1>4
    <3> HIDE DEF m
    <3>2. m # 0 /\ m \in Nat /\ i \in Nat /\ i <= m
      BY <2>2, <3>1 DEF m
    <3>3. LineOf(s, m) < k
      BY <3>1, <3>2 DEF S
    <3>4. LineOf(s, i) <= LineOf(s, m) /\ LineOf(s, i) \in Nat /\ LineOf(s, m) \in Nat
      BY <3>2, LineClimbs, LineNatural
    <3> QED
      BY <3>3, <3>4
  <2> QED
    BY <2>1, <2>2
<1> QED
  BY <1>2, <1>4, <1>5

LEMMA BeforeClimbs ==
  ASSUME NEW X, NEW s \in Seq(X), NEW k \in Nat, NEW l \in Nat, k <= l
  PROVE  Before(s, k) <= Before(s, l)
<1> DEFINE a == Before(s, k)
           b == Before(s, l)
<1>1. a \in 0 .. Len(s) /\ b \in 0 .. Len(s) /\ Len(s) \in Nat
  BY BeforeIs, PointsOf
<1>2. CASE a = 0
  BY <1>1, <1>2
<1>3. CASE a # 0
  <2>1. a \in 1 .. Len(s) /\ a <= a
    BY <1>1, <1>3
  <2>2. LineOf(s, a) < k
    BY <2>1, BeforeIs
  <2>3. LineOf(s, a) < l
    <3>0. a \in Nat
      BY <1>1
    <3>1. LineOf(s, a) \in Nat
      BY <3>0, LineNatural
    <3> HIDE DEF a
    <3> QED
      BY <2>2, <3>1
  <2> QED
    BY <2>1, <2>3, BeforeIs
<1> QED
  BY <1>2, <1>3

\* A span begins where the last one ended; it is in one line and one block.
LEMMA SpanEndIs ==
  ASSUME NEW X, NEW s \in Seq(X), NEW at \in 0 .. Len(s), at # Len(s)
  PROVE  /\ SpanEnd(s, at) \in at + 1 .. Len(s)
         /\ SpanEnds(s, SpanEnd(s, at))
         /\ \A j \in at + 1 .. SpanEnd(s, at) - 1 : ~SpanEnds(s, j)
<1> DEFINE T == {i \in at + 1 .. Len(s) : SpanEnds(s, i)}
<1>1. Len(s) \in Nat
  BY PointsOf
<1>2. Len(s) \in T /\ T \subseteq Nat
  BY <1>1 DEF SpanEnds
<1>3. PICK m \in T : \A n \in T : m <= n
  <2> HIDE DEF T
  <2>1. T # {}
    BY <1>2
  <2> QED
    BY <1>2, <2>1, LeastNatural
<1>4. \A j \in at + 1 .. m - 1 : ~SpanEnds(s, j)
  <2> TAKE j \in at + 1 .. m - 1
  <2>1. ~(m <= j) /\ j \in at + 1 .. Len(s)
    BY <1>1, <1>3
  <2>2. j \notin T
    BY <1>3, <2>1
  <2> QED
    BY <2>1, <2>2
<1>5. m \in at + 1 .. Len(s) /\ SpanEnds(s, m)
  OBVIOUS
<1> HIDE DEF T
<1> QED
  BY <1>4, <1>5 DEF SpanEnd

\* A window of a window.
LEMMA CutCut ==
  ASSUME NEW X, NEW s \in Seq(X), NEW m \in Nat, NEW n \in Nat, m <= n, n <= Len(s),
         NEW k \in Nat, k <= n - m
  PROVE  SubSeq(SubSeq(s, m + 1, n), 1, k) = SubSeq(s, m + 1, m + k)
<1>1. Len(s) \in Nat
  BY PointsOf
<1>2. CASE k = 0
  <2>1. SubSeq(SubSeq(s, m + 1, n), 1, k) = << >> /\ SubSeq(s, m + 1, m + k) = << >>
    BY <1>2, SubSeqEmpty
  <2> QED
    BY <2>1
<1>3. CASE k > 0
  <2>1. /\ m + 1 \in 1 .. Len(s) /\ n \in 1 .. Len(s)
        /\ 1 \in 1 .. n - (m + 1) + 1 /\ k \in 1 .. n - (m + 1) + 1
    BY <1>1, <1>3
  <2>2. SubSeq(SubSeq(s, m + 1, n), 1, k) = SubSeq(s, (m + 1) + 1 - 1, (m + 1) + k - 1)
    <3>1. s \in Seq(X)
      OBVIOUS
    <3> QED
      BY <2>1, <3>1, SubSeqOfSubSeq
  <2>3. (m + 1) + 1 - 1 = m + 1 /\ (m + 1) + k - 1 = m + k
    BY <1>1
  <2> QED
    BY <2>2, <2>3
<1> QED
  BY <1>2, <1>3

\* What the loop has after the bytes up to c.at: those of the window, as many as
\* fit.
Fits(c, s, lo, hi, cap) ==
  LET upto == Smaller(c.at, hi)
  IN /\ c.at \in 0 .. Len(s)
     /\ c.line = LineOf(s, c.at + 1)
     /\ c.out = SubSeq(s, lo + 1, Smaller(upto, lo + cap))
     /\ c.cut <=> upto > lo + cap

Pages(X) == [at : Nat, out : Seq(X), cut : BOOLEAN, line : Nat]

LEMMA TakeFits ==
  ASSUME NEW X, NEW s \in Seq(X), NEW offset \in Nat, NEW limit \in Nat \ {0}, NEW cap \in Nat \ {0},
         NEW c \in Pages(X),
         Fits(c, s, Before(s, offset), Before(s, offset + limit), cap)
  PROVE  LET d == Take(c, s, offset, limit, cap)
         IN  /\ d \in Pages(X)
             /\ Fits(d, s, Before(s, offset), Before(s, offset + limit), cap)
             /\ d.at = Len(s) \/ d.at > c.at
<1> DEFINE d == Take(c, s, offset, limit, cap)
           lo == Before(s, offset)
           hi == Before(s, offset + limit)
           to == SpanEnd(s, c.at)
           inside == c.line >= offset /\ c.line - offset < limit /\ ~c.cut
           want == IF inside THEN Smaller(to - c.at, cap - Len(c.out)) ELSE 0
           out == c.out \o SubSeq(s, c.at + 1, c.at + want)
           line == IF s[to] = "b" THEN c.line + 1 ELSE c.line
           cut == c.cut \/ (inside /\ want < to - c.at)
<1>1. CASE c.at = Len(s)
  <2>1. d = c
    BY <1>1 DEF Take
  <2> QED
    BY <1>1, <2>1
<1>2. CASE c.at # Len(s)
  <2>0. Len(s) \in Nat /\ c.at \in 0 .. Len(s) /\ c.line \in Nat /\ c.cut \in BOOLEAN /\ c.out \in Seq(X)
    BY PointsOf DEF Fits, Pages
  <2>1. d = [at |-> to, out |-> out, cut |-> cut, line |-> line]
    BY <1>2 DEF Take
  <2>2. /\ to \in c.at + 1 .. Len(s) /\ \A j \in c.at + 1 .. to - 1 : s[j] # "b"
    BY <1>2, <2>0, SpanEndIs DEF SpanEnds
  <2>3. /\ lo \in 0 .. Len(s) /\ hi \in 0 .. Len(s) /\ lo <= hi
        /\ \A i \in 1 .. Len(s) : i <= lo <=> LineOf(s, i) < offset
        /\ \A i \in 1 .. Len(s) : i <= hi <=> LineOf(s, i) < offset + limit
    <3>1. offset + limit \in Nat /\ offset <= offset + limit
      OBVIOUS
    <3> QED
      BY <3>1, BeforeIs, BeforeClimbs
  <2>4. c.line = LineOf(s, c.at + 1) /\ c.line = LineOf(s, to)
    <3>1. c.line = LineOf(s, c.at + 1)
      BY DEF Fits
    <3>2. c.at + 1 \in Nat /\ to \in Nat /\ c.at + 1 <= to /\ c.at + 1 > 0
      BY <2>0, <2>2, SMTT(60)
    <3>3. LineOf(s, c.at + 1) = LineOf(s, to)
      <4> HIDE DEF to
      <4> QED
        BY <2>2, <3>2, LineSame
    <3> QED
      BY <3>1, <3>3
  <2>5. line = LineOf(s, to + 1) /\ line \in Nat
    <3>1. to \in Nat /\ to > 0
      BY <2>0, <2>2, SMTT(60)
    <3>2. LineOf(s, to + 1) = IF s[to] = "b" THEN LineOf(s, to) + 1 ELSE LineOf(s, to)
      <4> HIDE DEF to
      <4> QED
        BY <3>1, LineAfter
    <3> HIDE DEF to
    <3> QED
      BY <2>0, <2>4, <3>2, SMTT(60)
  <2>6. /\ c.line < offset => to <= lo
        /\ c.line >= offset => lo <= c.at
        /\ c.line < offset + limit => to <= hi
        /\ c.line >= offset + limit => hi <= c.at
    <3>1. c.at + 1 \in 1 .. Len(s) /\ to \in 1 .. Len(s)
      BY <1>2, <2>0, <2>2, SMTT(60)
    <3>2. /\ c.at + 1 <= lo <=> c.line < offset
          /\ to <= lo <=> c.line < offset
          /\ c.at + 1 <= hi <=> c.line < offset + limit
          /\ to <= hi <=> c.line < offset + limit
      BY <2>3, <2>4, <3>1
    <3> HIDE DEF to, lo, hi
    <3> QED
      BY <2>0, <2>3, <3>1, <3>2, SMTT(60)
  <2>7. /\ c.out = SubSeq(s, lo + 1, Smaller(Smaller(c.at, hi), lo + cap))
        /\ c.cut <=> Smaller(c.at, hi) > lo + cap
    BY DEF Fits
  <2> HIDE DEF d, lo, hi, to, line
  <2>8. CASE inside
    <3>1. lo <= c.at /\ to <= hi /\ c.at < to
      <4>1. c.line < offset + limit
        BY <2>0, <2>8
      <4> QED
        BY <2>0, <2>2, <2>6, <2>8, <4>1
    <3>2. Smaller(c.at, hi) = c.at /\ c.at <= lo + cap /\ Smaller(to, hi) = to
      <4>1. Smaller(c.at, hi) = c.at
        BY <2>0, <2>2, <2>3, <3>1 DEF Smaller
      <4>2. Smaller(to, hi) = to
        BY <2>0, <2>2, <2>3, <3>1 DEF Smaller
      <4> QED
        BY <2>0, <2>3, <2>7, <2>8, <4>1, <4>2, SMTT(60)
    <3>3. Smaller(c.at, lo + cap) = c.at
      <4> DEFINE x == c.at
                 y == lo + cap
      <4>1. x \in Int /\ y \in Int
        BY <2>0, <2>3
      <4>2. x <= y
        BY <3>2
      <4> HIDE DEF x, y, inside, want, out, cut
      <4>3. Smaller(x, y) = x
        BY <4>1, <4>2 DEF Smaller
      <4> QED
        BY <4>3 DEF x, y
    <3>4. c.out = SubSeq(s, lo + 1, c.at) /\ Len(c.out) = c.at - lo
      <4>1. c.out = SubSeq(s, lo + 1, c.at)
        BY <2>7, <3>2, <3>3
      <4>2. lo \in Nat /\ c.at \in Nat /\ c.at <= Len(s)
        BY <2>0, <2>3
      <4> QED
        BY <3>1, <4>1, <4>2, CutPoints, SMTT(60)
    <3>5. want = Smaller(to - c.at, cap - (c.at - lo))
      BY <2>8, <3>4
    <3> HIDE DEF inside, want
    <3>6. /\ want \in Nat /\ c.at + want = Smaller(to, lo + cap) /\ c.at + want <= Len(s)
          /\ want < to - c.at <=> to > lo + cap
      <4>1. to \in Nat /\ c.at \in Nat /\ lo \in Nat /\ to <= Len(s)
        BY <2>0, <2>2, <2>3
      <4> HIDE DEF out, cut
      <4>2. CASE to - c.at < cap - (c.at - lo)
        <5>1. want = to - c.at
          BY <3>5, <4>2 DEF Smaller
        <5>2. to < lo + cap
          BY <4>1, <4>2, SMTT(60)
        <5> QED
          BY <2>0, <3>1, <4>1, <5>1, <5>2, SMTT(60) DEF Smaller
      <4>3. CASE ~(to - c.at < cap - (c.at - lo))
        <5>1. want = cap - (c.at - lo)
          BY <3>5, <4>3 DEF Smaller
        <5>2. ~(to < lo + cap) /\ c.at + want = lo + cap /\ want \in Nat
          BY <3>2, <4>1, <4>3, <5>1, SMTT(60)
        <5> QED
          BY <2>0, <3>1, <4>1, <5>1, <5>2, SMTT(60) DEF Smaller
      <4> QED
        BY <4>2, <4>3
    <3>7. out = SubSeq(s, lo + 1, Smaller(to, lo + cap)) /\ out \in Seq(X)
      <4>1. lo \in Nat /\ c.at \in Nat /\ c.at + want \in Nat /\ c.at <= c.at + want
        BY <2>0, <2>3, <3>6, SMTT(60)
      <4>2. out = SubSeq(s, lo + 1, c.at + want)
        <5>1. SubSeq(s, lo + 1, c.at) \o SubSeq(s, c.at + 1, c.at + want) = SubSeq(s, lo + 1, c.at + want)
          <6> DEFINE m == c.at
                     n == m + want
          <6>1. m \in Nat /\ n \in Nat /\ lo <= m /\ m <= n /\ n <= Len(s)
            BY <3>1, <3>6, <4>1
          <6> HIDE DEF m, n, out
          <6>2. SubSeq(s, lo + 1, m) \o SubSeq(s, m + 1, n) = SubSeq(s, lo + 1, n)
            BY <4>1, <6>1, CutJoin, SMTT(60)
          <6> QED
            BY <6>2 DEF m, n
        <5> QED
          BY <3>4, <5>1
      <4>3. SubSeq(s, lo + 1, c.at + want) \in Seq(X)
        BY <3>6, <4>1, CutPoints
      <4> QED
        BY <3>6, <4>2, <4>3
    <3>8. cut \in BOOLEAN /\ (cut <=> to > lo + cap)
      BY <2>0, <2>8, <3>6 DEF inside
    <3> HIDE DEF out, cut
    <3>9. d.at = to /\ d.out = out /\ d.cut = cut /\ d.line = line
      BY <2>1
    <3>10. d \in Pages(X)
      <4>1. to \in Nat
        BY <2>0, <2>2
      <4> QED
        BY <2>1, <2>5, <3>7, <3>8, <4>1 DEF Pages
    <3>11. Fits(d, s, lo, hi, cap)
      <4>1. to \in 0 .. Len(s)
        BY <2>0, <2>2
      <4> QED
        BY <2>5, <3>2, <3>7, <3>8, <3>9, <4>1 DEF Fits
    <3>12. d.at > c.at
      BY <3>1, <3>9, <2>0, <2>2
    <3> QED
      BY <3>10, <3>11, <3>12 DEF d, lo, hi
  <2>9. CASE ~inside
    <3>1. want = 0 /\ cut = c.cut
      BY <2>0, <2>9
    <3>2. out = c.out
      <4>1. c.at + 0 = c.at /\ SubSeq(s, c.at + 1, c.at) = << >>
        BY <2>0, SubSeqEmpty
      <4>2. out = c.out \o << >>
        BY <3>1, <4>1
      <4> QED
        BY <2>0, <4>2, ConcatEmptySeq
    <3>3. SubSeq(s, lo + 1, Smaller(Smaller(to, hi), lo + cap))
            = SubSeq(s, lo + 1, Smaller(Smaller(c.at, hi), lo + cap))
      <4>1. CASE c.line < offset
        <5>1. to <= lo /\ c.at < lo /\ lo <= hi
          BY <2>0, <2>2, <2>3, <2>6, <4>1
        <5>2. Smaller(Smaller(to, hi), lo + cap) < lo + 1 /\ Smaller(Smaller(c.at, hi), lo + cap) < lo + 1
              /\ Smaller(Smaller(to, hi), lo + cap) \in Int /\ Smaller(Smaller(c.at, hi), lo + cap) \in Int
          BY <2>0, <2>2, <2>3, <5>1, SMTT(60) DEF Smaller
        <5>3. lo + 1 \in Int
          BY <2>3
        <5> QED
          BY <5>2, <5>3, SubSeqEmpty
      <4>2. CASE c.line >= offset + limit
        <5>1. hi <= c.at /\ hi <= to
          BY <2>0, <2>2, <2>3, <2>6, <4>2
        <5>2. Smaller(to, hi) = hi /\ Smaller(c.at, hi) = hi
          BY <2>0, <2>2, <2>3, <5>1 DEF Smaller
        <5> QED
          BY <5>2
      <4>3. CASE c.cut
        <5>1. Smaller(c.at, hi) > lo + cap /\ Smaller(to, hi) > lo + cap
          BY <2>0, <2>2, <2>3, <2>7, <4>3, SMTT(60) DEF Smaller
        <5>2. /\ Smaller(c.at, hi) \in Int /\ Smaller(to, hi) \in Int /\ lo + cap \in Int
          BY <2>0, <2>2, <2>3 DEF Smaller
        <5>3. Smaller(Smaller(c.at, hi), lo + cap) = lo + cap /\ Smaller(Smaller(to, hi), lo + cap) = lo + cap
          BY <5>1, <5>2 DEF Smaller
        <5> QED
          BY <5>3
      <4>4. c.cut \/ c.line < offset \/ c.line >= offset + limit
        BY <2>0, <2>9
      <4> QED
        BY <4>1, <4>2, <4>3, <4>4, Zenon
    <3>4. c.cut <=> Smaller(to, hi) > lo + cap
      <4>1. CASE c.cut
        BY <2>0, <2>2, <2>3, <2>7, <4>1, SMTT(60) DEF Smaller
      <4>2. CASE c.line < offset
        <5>1. to <= lo /\ c.at < lo
          BY <2>0, <2>2, <2>3, <2>6, <4>2, SMTT(60)
        <5> QED
          BY <2>0, <2>2, <2>3, <2>7, <5>1, SMTT(60) DEF Smaller
      <4>3. CASE c.line >= offset + limit
        <5>1. hi <= c.at /\ hi <= to
          BY <2>0, <2>2, <2>3, <2>6, <4>3
        <5> QED
          BY <2>0, <2>2, <2>3, <2>7, <5>1, SMTT(60) DEF Smaller
      <4>4. c.cut \/ c.line < offset \/ c.line >= offset + limit
        BY <2>0, <2>9
      <4> QED
        BY <4>1, <4>2, <4>3, <4>4, Zenon
    <3> HIDE DEF out, cut, inside, want
    <3>5. d.at = to /\ d.out = c.out /\ d.cut = c.cut /\ d.line = line
      BY <2>1, <3>1, <3>2
    <3>6. d \in Pages(X)
      <4>1. to \in Nat
        BY <2>0, <2>2
      <4> QED
        BY <2>0, <2>1, <2>5, <3>1, <3>2, <4>1 DEF Pages
    <3>7. Fits(d, s, lo, hi, cap)
      <4>1. to \in 0 .. Len(s)
        BY <2>0, <2>2
      <4>2. c.out = SubSeq(s, lo + 1, Smaller(Smaller(to, hi), lo + cap))
        BY <2>7, <3>3
      <4> QED
        BY <2>5, <3>4, <3>5, <4>1, <4>2 DEF Fits
    <3>8. d.at > c.at
      BY <3>5, <2>0, <2>2
    <3> QED
      BY <3>6, <3>7, <3>8 DEF d, lo, hi
  <2> QED
    BY <2>8, <2>9
<1> QED
  BY <1>1, <1>2

\* The loop ends at the end of the file.
LEMMA TakenFits ==
  ASSUME NEW X, NEW s \in Seq(X), NEW offset \in Nat, NEW limit \in Nat \ {0}, NEW cap \in Nat \ {0}
  PROVE  LET c == Taken(s, offset, limit, cap)
         IN  /\ c \in Pages(X) /\ c.at = Len(s)
             /\ Fits(c, s, Before(s, offset), Before(s, offset + limit), cap)
<1> DEFINE lo == Before(s, offset)
           hi == Before(s, offset + limit)
           N == Len(s)
           Good == {c \in Pages(X) : Fits(c, s, lo, hi, cap)}
           start == [at |-> 0, out |-> << >>, cut |-> FALSE, line |-> 0]
           step == [p \in (1 .. N) \X Good |-> Take(p[2], s, offset, limit, cap)]
           Eqn(f) == f = [n \in 0 .. N |-> IF n = 0 THEN start ELSE Take(f[n - 1], s, offset, limit, cap)]
           after == CHOOSE f : Eqn(f)
<1>0. N \in Nat /\ lo \in 0 .. N /\ hi \in 0 .. N
  BY PointsOf, BeforeIs, SMTT(60)
<1>1. \A c \in Good : LET d == Take(c, s, offset, limit, cap)
                      IN d \in Good /\ (d.at = N \/ d.at > c.at)
  <2> TAKE c \in Good
  <2>1. c \in Pages(X) /\ Fits(c, s, Before(s, offset), Before(s, offset + limit), cap)
    OBVIOUS
  <2> HIDE DEF Good
  <2>2. /\ Take(c, s, offset, limit, cap) \in Pages(X)
        /\ Fits(Take(c, s, offset, limit, cap), s, lo, hi, cap)
        /\ Take(c, s, offset, limit, cap).at = N \/ Take(c, s, offset, limit, cap).at > c.at
    BY <2>1, TakeFits
  <2> QED
    BY <2>2 DEF Good
<1>2. start \in Good
  <2> HIDE DEF lo, hi
  <2>1. start \in Pages(X)
    BY DEF Pages
  <2>2. Smaller(0, hi) = 0 /\ Smaller(0, lo + cap) = 0
    BY <1>0 DEF Smaller
  <2>3. SubSeq(s, lo + 1, 0) = << >>
    BY <1>0, SubSeqEmpty
  <2>4. LineOf(s, 0 + 1) = 0
    BY LineFirst
  <2>5. Fits(start, s, lo, hi, cap)
    BY <1>0, <2>2, <2>3, <2>4 DEF Fits
  <2> QED
    BY <2>1, <2>5
<1>3. \A c \in Good : c \in Pages(X) /\ Fits(c, s, lo, hi, cap) /\ c.at \in 0 .. N
  BY DEF Fits
<1> HIDE DEF Good, lo, hi, start
<1>4. step \in [(1 .. N) \X Good -> Good]
  <2>1. \A p \in (1 .. N) \X Good : Take(p[2], s, offset, limit, cap) \in Good
    BY <1>1
  <2> QED
    BY <2>1
<1>5. PICK g : IteratesIn(g, N, Good, start, step)
  <2> HIDE DEF step, N
  <2>1. \E f : IteratesIn(f, N, Good, start, step)
    BY <1>0, <1>2, <1>4, IterationIn
  <2> QED
    BY <2>1
<1>6. \A n \in 1 .. N : g[n] = Take(g[n - 1], s, offset, limit, cap)
  <2> TAKE n \in 1 .. N
  <2>1. n - 1 \in 0 .. N
    BY <1>0
  <2>2. <<n, g[n - 1]>> \in (1 .. N) \X Good
    BY <1>5, <2>1 DEF IteratesIn
  <2> QED
    BY <1>5, <2>2 DEF IteratesIn
<1>7. Eqn(g)
  <2>1. \A n \in 0 .. N : n # 0 => n \in 1 .. N
    BY <1>0
  <2>2. \A n \in 0 .. N : g[n] = IF n = 0 THEN start ELSE Take(g[n - 1], s, offset, limit, cap)
    <3> HIDE DEF N, step
    <3> QED
      BY <1>5, <1>6, <2>1 DEF IteratesIn
  <2> QED
    BY <1>5, <2>2 DEF IteratesIn
<1>8. Eqn(after)
  <2> HIDE DEF Eqn
  <2> QED
    BY <1>7
<1>9. \A n \in 0 .. N : after[n] \in Good /\ after[n].at >= n
  <2> DEFINE From(n) == {c \in Good : c.at >= n}
             Y == [n \in 0 .. N |-> From(n)]
  <2>1. /\ 0 \in 0 .. N /\ \A n \in 1 .. N : n \in 0 .. N /\ n # 0 /\ n - 1 \in 0 .. N
    BY <1>0
  <2>2. after[0] = start /\ \A n \in 1 .. N : after[n] = Take(after[n - 1], s, offset, limit, cap)
    <3> HIDE DEF after, N
    <3> QED
      BY <1>8, <2>1
  <2>3. after[0] \in Y[0]
    <3>1. start.at >= 0
      BY DEF start
    <3> QED
      BY <1>2, <2>1, <2>2, <3>1
  <2>4. ASSUME NEW n \in 1 .. N, after[n - 1] \in Y[n - 1] PROVE after[n] \in Y[n]
    <3> HIDE DEF after
    <3>1. after[n - 1] \in Good /\ after[n - 1].at >= n - 1 /\ after[n - 1].at \in 0 .. N
      BY <1>3, <2>1, <2>4
    <3>2. after[n] \in Good /\ (after[n].at = N \/ after[n].at > after[n - 1].at) /\ after[n].at \in 0 .. N
      BY <1>1, <1>3, <2>1, <2>2, <3>1
    <3>3. after[n].at >= n
      BY <1>0, <3>1, <3>2, SMTT(60)
    <3> QED
      BY <2>1, <3>2, <3>3
  <2>5. \A n \in 0 .. N : after[n] \in Y[n]
    <3> HIDE DEF Y, N, after
    <3> QED
      BY <1>0, <2>3, <2>4, Induct
  <2> HIDE DEF after
  <2> QED
    BY <2>5
<1>10. Taken(s, offset, limit, cap) = after[N]
  BY DEF Taken, start
<1>11. after[N] \in Good /\ after[N].at = N
  <2>1. N \in 0 .. N
    BY <1>0
  <2> HIDE DEF after, N
  <2>2. after[N] \in Good /\ after[N].at >= N
    BY <1>9, <2>1
  <2>3. after[N].at \in 0 .. N
    BY <1>3, <2>2
  <2> QED
    BY <1>0, <2>2, <2>3
<1> HIDE DEF after
<1> QED
  BY <1>3, <1>10, <1>11 DEF lo, hi

LEMMA SliceCovers ==
  ASSUME NEW X, NEW s \in Seq(X), NEW offset \in Nat, NEW a \in Int, NEW b \in Int
  PROVE  LET page == Slice(s, offset, a, b)
             n == LinesIn(s)
             limit == Limit(a)
             cap == Cap(b)
             whole == SubSeq(s, Before(s, offset) + 1, Before(s, offset + limit))
         IN  /\ page.total = n
             /\ page.next = IF offset + limit < n THEN offset + limit ELSE NoNext
             /\ page.text = Stripped(SubSeq(whole, 1, Smaller(cap, Len(whole))))
             /\ page.truncatedBytes <=> Len(whole) > cap
             /\ page.truncated <=> page.next # NoNext \/ page.truncatedBytes
<1> DEFINE page == Slice(s, offset, a, b)
           n == LinesIn(s)
           limit == Limit(a)
           cap == Cap(b)
           lo == Before(s, offset)
           hi == Before(s, offset + limit)
           whole == SubSeq(s, lo + 1, hi)
           end == Taken(s, offset, limit, cap)
           total == IF s # << >> /\ Last(s) # "b" THEN end.line + 1 ELSE end.line
           more == offset < total /\ limit < total - offset
<1>1. limit \in Nat \ {0} /\ cap \in Nat \ {0}
  BY SizesAssumption DEF Limit, Cap, Larger
<1>2. Larger(0, offset) = offset
  BY DEF Larger
<1>3. page = [text |-> Stripped(end.out), total |-> total,
              next |-> IF more THEN offset + limit ELSE NoNext,
              truncated |-> more \/ end.cut, truncatedBytes |-> end.cut]
  BY <1>2 DEF Slice
<1> HIDE DEF limit, cap
<1>4. end \in Pages(X) /\ end.at = Len(s) /\ Fits(end, s, lo, hi, cap)
  BY <1>1, TakenFits
<1>5. /\ Len(s) \in Nat /\ lo \in 0 .. Len(s) /\ hi \in 0 .. Len(s) /\ lo <= hi
      /\ s = << >> <=> Len(s) = 0
  <2>1. offset + limit \in Nat /\ offset <= offset + limit
    BY <1>1
  <2> QED
    BY <2>1, PointsOf, BeforeIs, BeforeClimbs, EmptySeq
<1> HIDE DEF end
<1>6. total = n /\ n \in Nat
  <2>1. end.line = LineOf(s, Len(s) + 1)
    BY <1>4 DEF Fits
  <2>2. CASE s = << >>
    BY <1>5, <2>1, <2>2, LineFirst DEF LinesIn
  <2>3. CASE s # << >>
    <3>1. Len(s) > 0
      BY <1>5, <2>3
    <3>2. /\ LineOf(s, Len(s) + 1) = IF s[Len(s)] = "b" THEN LineOf(s, Len(s)) + 1 ELSE LineOf(s, Len(s))
          /\ LineOf(s, Len(s)) \in Nat
      BY <1>5, <3>1, LineAfter, LineNatural
    <3> QED
      BY <2>1, <2>3, <3>2 DEF LinesIn, Last
  <2> QED
    BY <2>2, <2>3
<1>7. Smaller(Len(s), hi) = hi
  BY <1>5 DEF Smaller
<1>8. end.out = SubSeq(s, lo + 1, Smaller(hi, lo + cap)) /\ (end.cut <=> hi > lo + cap) /\ end.cut \in BOOLEAN
  BY <1>4, <1>7 DEF Fits, Pages
<1> HIDE DEF total, n, lo, hi
<1>9. Len(whole) = hi - lo
  BY <1>5, CutPoints
<1>10. SubSeq(whole, 1, Smaller(cap, hi - lo)) = SubSeq(s, lo + 1, lo + Smaller(cap, hi - lo))
  <2>1. Smaller(cap, hi - lo) \in Nat /\ Smaller(cap, hi - lo) <= hi - lo
    BY <1>1, <1>5 DEF Smaller
  <2> QED
    BY <1>5, <2>1, CutCut, SMTT(60)
<1>11. lo + Smaller(cap, hi - lo) = Smaller(hi, lo + cap)
  BY <1>1, <1>5 DEF Smaller
<1>12. end.out = SubSeq(whole, 1, Smaller(cap, Len(whole)))
  BY <1>8, <1>9, <1>10, <1>11
<1>13. end.cut <=> Len(whole) > cap
  BY <1>1, <1>5, <1>8, <1>9
<1>14. more <=> offset + limit < n
  BY <1>1, <1>6
<1>15. offset + limit # NoNext
  BY <1>1 DEF NoNext
<1> HIDE DEF whole, more
<1>16. /\ page.total = n
       /\ page.next = IF offset + limit < n THEN offset + limit ELSE NoNext
       /\ page.text = Stripped(SubSeq(whole, 1, Smaller(cap, Len(whole))))
  BY <1>3, <1>6, <1>12, <1>14
<1>17. page.truncatedBytes <=> Len(whole) > cap
  BY <1>3, <1>13
<1>18. page.truncated <=> page.next # NoNext \/ page.truncatedBytes
  <2>1. page.truncated = (more \/ end.cut) /\ page.truncatedBytes = end.cut
    BY <1>3
  <2>2. page.next # NoNext <=> more
    <3>1. page.next = IF more THEN offset + limit ELSE NoNext
      BY <1>3
    <3> QED
      BY <1>15, <3>1
  <2> HIDE DEF page
  <2> QED
    BY <2>1, <2>2, Zenon
<1> QED
  BY <1>16, <1>17, <1>18 DEF page, n, limit, cap, whole, lo, hi

\* What a reader has after some ranges: the bytes before the next one, or all.
ReadTo(r, s) ==
  \/ r.next = NoNext /\ r.bytes = s
  \/ r.next \in 0 .. Len(s) /\ r.bytes = SubSeq(s, 1, r.next)

\* The reader goes on where the last range told it to.
GoesOn(r, s, asked) ==
  IF r.next = NoNext THEN r
  ELSE [bytes |-> r.bytes \o Bytes(s, r.next, asked).bytes, next |-> Bytes(s, r.next, asked).next]

LEMMA GoesOnTo ==
  ASSUME NEW X, NEW s \in Seq(X), NEW asked \in Int, NEW r, ReadTo(r, s)
  PROVE  /\ ReadTo(GoesOn(r, s, asked), s)
         /\ GoesOn(r, s, asked).next = NoNext \/ GoesOn(r, s, asked).next > r.next
<1>1. CASE r.next = NoNext
  <2>1. GoesOn(r, s, asked) = r
    BY <1>1 DEF GoesOn
  <2> QED
    BY <1>1, <2>1
<1>2. CASE r.next # NoNext
  <2> DEFINE o == r.next
             n == Smaller(ByteLimit(asked), Len(s) - o)
             page == Bytes(s, o, asked)
             next == GoesOn(r, s, asked)
  <2>1. Len(s) \in Nat /\ o \in 0 .. Len(s) /\ r.bytes = SubSeq(s, 1, o)
    BY <1>2, PointsOf DEF ReadTo
  <2>2. Smaller(Larger(0, o), Len(s)) = o
    BY <2>1 DEF Smaller, Larger
  <2>3. page = [bytes |-> SubSeq(s, o + 1, o + n), next |-> IF o + n < Len(s) THEN o + n ELSE NoNext]
    BY <2>2 DEF Bytes
  <2>4. ByteLimit(asked) \in Nat \ {0}
    BY SizesAssumption DEF ByteLimit, Smaller, Larger
  <2>5. /\ n \in Nat /\ o + n \in 0 .. Len(s) /\ (o + n < Len(s) => n > 0)
        /\ (~(o + n < Len(s)) => o + n = Len(s))
    <3> HIDE DEF o
    <3> QED
      BY <2>1, <2>4 DEF Smaller
  <2>6. next = [bytes |-> r.bytes \o page.bytes, next |-> page.next]
    BY <1>2 DEF GoesOn
  <2> HIDE DEF n, page, next, o
  <2>7. next.bytes = SubSeq(s, 1, o + n)
    <3>1. 0 \in Nat /\ o \in Nat /\ o + n \in Nat /\ 0 <= o /\ o <= o + n /\ o + n <= Len(s) /\ 0 + 1 = 1
      BY <2>1, <2>5
    <3>2. SubSeq(s, 0 + 1, o) \o SubSeq(s, o + 1, o + n) = SubSeq(s, 0 + 1, o + n)
      BY <3>1, CutJoin, SMTT(60)
    <3>3. next.bytes = SubSeq(s, 1, o) \o SubSeq(s, o + 1, o + n)
      BY <2>1, <2>3, <2>6
    <3> QED
      BY <3>1, <3>2, <3>3
  <2>8. CASE o + n < Len(s)
    <3>1. next.next = o + n
      BY <2>3, <2>6, <2>8
    <3>2. o + n > o
      BY <2>1, <2>5, <2>8
    <3> QED
      BY <2>5, <2>7, <3>1, <3>2 DEF ReadTo, next, o
  <2>9. CASE ~(o + n < Len(s))
    <3>1. next.next = NoNext
      BY <2>3, <2>6, <2>9
    <3>2. next.bytes = s
      BY <2>5, <2>7, <2>9, SubSeqFull
    <3> QED
      BY <3>1, <3>2 DEF ReadTo, next
  <2> QED
    BY <2>8, <2>9
<1> QED
  BY <1>1, <1>2

LEMMA RangesCover ==
  ASSUME NEW X, NEW s \in Seq(X), NEW asked \in Int
  PROVE  Ranges(s, asked) = [bytes |-> s, next |-> NoNext]
<1> DEFINE N == Len(s) + 1
           Rs == [bytes : Seq(X), next : Int]
           Good == {r \in Rs : ReadTo(r, s)}
           start == [bytes |-> << >>, next |-> 0]
           step == [p \in (1 .. N) \X Good |-> GoesOn(p[2], s, asked)]
           Eqn(f) == f = [n \in 0 .. N |->
                            IF n = 0 THEN start
                            ELSE LET had == f[n - 1]
                                     page == Bytes(s, had.next, asked)
                                 IN IF had.next = NoNext THEN had
                                    ELSE [bytes |-> had.bytes \o page.bytes, next |-> page.next]]
           after == CHOOSE f : Eqn(f)
<1>0. N \in Nat /\ Len(s) \in Nat
  BY PointsOf
<1>1. \A r \in Good : /\ GoesOn(r, s, asked) \in Good
                      /\ GoesOn(r, s, asked).next = NoNext \/ GoesOn(r, s, asked).next > r.next
  <2> TAKE r \in Good
  <2> DEFINE d == GoesOn(r, s, asked)
  <2>1. ReadTo(r, s)
    OBVIOUS
  <2>2. ReadTo(d, s) /\ (d.next = NoNext \/ d.next > r.next)
    BY <2>1, GoesOnTo
  <2>3. d \in Rs
    <3>1. d = r \/ d = [bytes |-> d.bytes, next |-> d.next]
      BY DEF GoesOn
    <3>2. d.next \in Int /\ d.bytes \in Seq(X)
      <4> HIDE DEF d
      <4>1. CASE d.next = NoNext /\ d.bytes = s
        BY <4>1 DEF NoNext
      <4>2. CASE d.next \in 0 .. Len(s) /\ d.bytes = SubSeq(s, 1, d.next)
        <5>1. 0 + 1 = 1 /\ 0 \in Nat /\ d.next \in Nat /\ d.next <= Len(s)
          BY <1>0, <4>2
        <5>2. SubSeq(s, 0 + 1, d.next) \in Seq(X)
          BY <5>1, CutPoints
        <5> QED
          BY <4>2, <5>1, <5>2
      <4> QED
        BY <2>2, <4>1, <4>2 DEF ReadTo
    <3> HIDE DEF d
    <3> QED
      BY <3>1, <3>2
  <2> HIDE DEF d
  <2>4. d \in Good
    BY <2>2, <2>3
  <2> QED
    BY <2>2, <2>4 DEF d
<1>2. start \in Good
  <2>1. start \in Rs
    OBVIOUS
  <2>2. SubSeq(s, 1, 0) = << >>
    BY SubSeqEmpty
  <2>3. ReadTo(start, s)
    BY <1>0, <2>2 DEF ReadTo
  <2> QED
    BY <2>1, <2>3
<1>3. \A r \in Good : ReadTo(r, s) /\ r \in Rs
  OBVIOUS
<1> HIDE DEF Good, start
<1>4. step \in [(1 .. N) \X Good -> Good]
  <2>1. \A p \in (1 .. N) \X Good : GoesOn(p[2], s, asked) \in Good
    BY <1>1
  <2> QED
    BY <2>1
<1>5. PICK g : IteratesIn(g, N, Good, start, step)
  <2> HIDE DEF step, N
  <2>1. \E f : IteratesIn(f, N, Good, start, step)
    BY <1>0, <1>2, <1>4, IterationIn
  <2> QED
    BY <2>1
<1>6. \A n \in 1 .. N : g[n] = GoesOn(g[n - 1], s, asked)
  <2> TAKE n \in 1 .. N
  <2>1. n - 1 \in 0 .. N
    BY <1>0
  <2>2. <<n, g[n - 1]>> \in (1 .. N) \X Good
    BY <1>5, <2>1, SMTT(60) DEF IteratesIn
  <2> QED
    BY <1>5, <2>2 DEF IteratesIn
<1>7. Eqn(g)
  <2>1. \A n \in 0 .. N : n # 0 => n \in 1 .. N
    BY <1>0
  <2>2. \A n \in 0 .. N : g[n] = IF n = 0 THEN start ELSE GoesOn(g[n - 1], s, asked)
    <3> HIDE DEF N, step
    <3> QED
      BY <1>5, <1>6, <2>1 DEF IteratesIn
  <2> QED
    BY <1>5, <2>2 DEF IteratesIn, GoesOn
<1>8. Eqn(after)
  <2> HIDE DEF Eqn
  <2> QED
    BY <1>7
<1>9. \A n \in 0 .. N : after[n] \in Good /\ (after[n].next = NoNext \/ after[n].next >= n)
  <2> DEFINE From(n) == {r \in Good : r.next = NoNext \/ r.next >= n}
             Y == [n \in 0 .. N |-> From(n)]
  <2>1. /\ 0 \in 0 .. N /\ \A n \in 1 .. N : n \in 0 .. N /\ n # 0 /\ n - 1 \in 0 .. N
    BY ONLY <1>0
  <2>2. after[0] = start /\ \A n \in 1 .. N : after[n] = GoesOn(after[n - 1], s, asked)
    <3> HIDE DEF after, N
    <3> QED
      BY <1>8, <2>1, ZenonT(60) DEF GoesOn
  <2>3. after[0] \in Y[0]
    <3>1. start.next = 0
      BY DEF start
    <3>2. start \in From(0)
      <4>1. start.next >= 0
        BY <3>1
      <4> QED
        BY <1>2, <4>1
    <3>3. Y[0] = From(0)
      BY <2>1
    <3> HIDE DEF From, Y, after
    <3> QED
      BY <2>2, <3>2, <3>3
  <2>4. ASSUME NEW n \in 1 .. N, after[n - 1] \in Y[n - 1] PROVE after[n] \in Y[n]
    <3> HIDE DEF after
    <3> DEFINE r == after[n - 1]
               d == after[n]
    <3>1. r \in Good /\ (r.next = NoNext \/ r.next >= n - 1) /\ r.next \in Int
      BY <1>3, <2>1, <2>4
    <3>2. d = GoesOn(r, s, asked) /\ d \in Good /\ d.next \in Int
      BY <1>1, <1>3, <2>1, <2>2, <3>1
    <3>3. d.next = NoNext \/ d.next >= n
      <4>1. CASE r.next = NoNext
        BY <3>2, <4>1 DEF GoesOn
      <4>2. CASE r.next >= n - 1
        BY <1>0, <1>1, <3>1, <3>2, <4>2
      <4> QED
        BY <3>1, <4>1, <4>2
    <3> QED
      BY <2>1, <3>2, <3>3
  <2>5. \A n \in 0 .. N : after[n] \in Y[n]
    <3> HIDE DEF Y, N, after
    <3> QED
      BY <1>0, <2>3, <2>4, Induct
  <2> HIDE DEF after
  <2> QED
    BY <2>5
<1>10. Ranges(s, asked) = after[N]
  BY DEF Ranges, start
<1>11. after[N].next = NoNext /\ after[N].bytes = s /\ after[N] \in Rs
  <2>1. N \in 0 .. N
    BY <1>0
  <2> HIDE DEF after
  <2>2. after[N] \in Good /\ (after[N].next = NoNext \/ after[N].next >= N)
    BY <1>9, <2>1
  <2>3. ReadTo(after[N], s) /\ after[N] \in Rs
    BY <1>3, <2>2
  <2>4. ASSUME after[N].next \in 0 .. Len(s), after[N].next >= N PROVE FALSE
    BY <1>0, <2>4
  <2>5. CASE after[N].next = NoNext
    <3>1. after[N].next \notin 0 .. Len(s)
      BY <2>5 DEF NoNext
    <3> QED
      BY <2>3, <2>5, <3>1 DEF ReadTo
  <2>6. CASE after[N].next # NoNext
    <3>1. after[N].next \in 0 .. Len(s) /\ after[N].next >= N
      <4> HIDE DEF N
      <4> QED
        BY <2>2, <2>3, <2>6 DEF ReadTo
    <3> QED
      BY <2>4, <3>1
  <2> QED
    BY <2>5, <2>6
<1> HIDE DEF after, N
<1> QED
  BY <1>10, <1>11

LEMMA PrefixIs ==
  ASSUME NEW X, NEW s \in Seq(X), NEW asked \in Nat \ {0}
  PROVE  Prefix(s, asked) = Bytes(s, 0, asked).bytes
<1>1. Len(s) \in Nat
  BY PointsOf
<1>2. Smaller(Larger(0, 0), Len(s)) = 0 /\ Larger(0, asked) = asked /\ Larger(1, asked) = asked
  BY <1>1 DEF Smaller, Larger
<1> DEFINE n == Smaller(ByteLimit(asked), Len(s) - 0)
<1>3. Bytes(s, 0, asked).bytes = SubSeq(s, 0 + 1, 0 + n)
  BY <1>2 DEF Bytes
<1>4. n = Smaller(Len(s), Smaller(ReadMax, asked)) /\ n \in Int
  BY <1>1, <1>2, SizesAssumption DEF ByteLimit, Smaller
<1> HIDE DEF n
<1>5. Prefix(s, asked) = SubSeq(s, 1, n)
  BY <1>2, <1>4 DEF Prefix
<1> QED
  BY <1>3, <1>4, <1>5

TextIn == text \in Seq(UNION Alphabets) /\ alphabet \in Alphabets

LEMMA TextType == TextSpec => []TextIn
<1>1. TextInit => TextIn
  BY DEF TextInit, TextIn
<1>2. TextIn /\ [TextNext]_textVars => TextIn'
  BY DEF TextIn, TextNext, textVars
<1> QED
  BY <1>1, <1>2, PTL DEF TextSpec

LEMMA TextCovers == TextIn => PagesCover
<1> SUFFICES ASSUME TextIn PROVE PagesCover
  OBVIOUS
<1> DEFINE X == UNION Alphabets
           n == LinesIn(text)
<1>1. text \in Seq(X)
  BY DEF TextIn
<1> HIDE DEF X
<1>2. n \in Nat
  <2>1. Len(text) \in Nat
    BY <1>1, PointsOf
  <2>2. LineOf(text, Len(text)) \in Nat
    BY <2>1, LineNatural
  <2> QED
    BY <2>2 DEF LinesIn
<1> HIDE DEF n
<1>3. ASSUME NEW offset \in 0 .. n + 1, NEW a \in Asked, NEW c \in Asked
      PROVE  LET page == Slice(text, offset, a, c)
                 limit == Limit(a)
                 cap == Cap(c)
                 whole == SubSeq(text, Before(text, offset) + 1, Before(text, offset + limit))
             IN /\ page.total = n
                /\ page.next = IF offset + limit < n THEN offset + limit ELSE NoNext
                /\ page.text = Stripped(SubSeq(whole, 1, Smaller(cap, Len(whole))))
                /\ page.truncatedBytes <=> Len(whole) > cap
                /\ page.truncated <=> page.next # NoNext \/ page.truncatedBytes
  <2>1. offset \in Nat /\ a \in Int /\ c \in Int
    BY <1>2, SizesAssumption
  <2> QED
    BY <1>1, <2>1, SliceCovers DEF n
<1>4. ASSUME NEW a \in Asked
      PROVE  /\ Ranges(text, a) = [bytes |-> text, next |-> NoNext]
             /\ a > 0 => Prefix(text, a) = Bytes(text, 0, a).bytes
  <2>1. a \in Int
    BY SizesAssumption
  <2>2. a > 0 => a \in Nat \ {0}
    BY <2>1
  <2> QED
    BY <1>1, <2>1, <2>2, RangesCover, PrefixIs
<1> QED
  BY <1>3, <1>4 DEF PagesCover, n

\* Whatever the file, the page, the limit and the cap, and wherever the blocks of
\* fread end: pages, and ranges of bytes, tile the file.
THEOREM PagesTrue == TextSpec => []PagesCover
<1> QED
  BY TextCovers, TextType, PTL
=============================================================================
