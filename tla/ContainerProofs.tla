----------------------------- MODULE ContainerProofs -----------------------------
(***************************************************************************)
(* Proofs about the container: the types for any number of launchers, the  *)
(* other properties for one launcher that is started any number of times   *)
(* on the same root directory.                                             *)
(***************************************************************************)
EXTENDS Container, TLAPS

-----------------------------------------------------------------------------
(* What is set up, and in which order it is removed.                       *)

\* The directories that are made, the files written, and the order of removal.
LEMMA Layout ==
    /\ ToSet(Directories) = {"fs", "cgroup", "pids"}
    /\ Len(Directories) = 3
    /\ Directories[1] = "fs" /\ Directories[2] = "cgroup" /\ Directories[3] = "pids"
    /\ Files = {"cgroup.procs", "notify_on_release", "pids.max"}
    /\ All = {"fs", "cgroup", "pids", "cgroup.procs", "notify_on_release", "pids.max"}
    /\ Len(Removals) = 6
    /\ Removals[1] = "pids.max" /\ Removals[2] = "notify_on_release"
    /\ Removals[3] = "cgroup.procs" /\ Removals[4] = "pids"
    /\ Removals[5] = "cgroup" /\ Removals[6] = "fs"
<1>1. /\ Len(Directories) = 3 /\ DOMAIN Directories = 1 .. 3
      /\ Len(Removals) = 6 /\ DOMAIN Removals = 1 .. 6
  BY DEF Directories, Removals
<1>2. /\ Directories[1] = "fs" /\ Directories[2] = "cgroup" /\ Directories[3] = "pids"
      /\ Removals[1] = "pids.max" /\ Removals[2] = "notify_on_release"
      /\ Removals[3] = "cgroup.procs" /\ Removals[4] = "pids"
      /\ Removals[5] = "cgroup" /\ Removals[6] = "fs"
  BY DEF Directories, Removals
<1>3. ToSet(Directories) = {"fs", "cgroup", "pids"}
  <2>1. ToSet(Directories) = {Directories[i] : i \in 1 .. 3}
    BY <1>1 DEF ToSet
  <2>2. \A i \in 1 .. 3 : i = 1 \/ i = 2 \/ i = 3
    OBVIOUS
  <2> QED
    BY <1>2, <2>1, <2>2
<1>4. All = {"fs", "cgroup", "pids", "cgroup.procs", "notify_on_release", "pids.max"}
  <2>1. All = {Removals[i] : i \in 1 .. 6}
    BY <1>1 DEF ToSet, All
  <2>2. \A i \in 1 .. 6 : i = 1 \/ i = 2 \/ i = 3 \/ i = 4 \/ i = 5 \/ i = 6
    OBVIOUS
  <2> QED
    BY <1>2, <2>1, <2>2
<1> QED
  BY <1>1, <1>2, <1>3, <1>4 DEF Files

\* What a mount and the loss of the last one leave of the mounts.
LEMMA OneMount ==
    ASSUME NEW l
    PROVE  /\ Append(<<>>, l) = <<l>> /\ Front(<<l>>) = <<>>
           /\ Last(<<l>>) = l /\ Len(<<l>>) = 1 /\ <<l>> # <<>>
BY DEF Front, Last

-----------------------------------------------------------------------------
(* The types, for any number of launchers.                                 *)

\* A launcher's child makes no more directories than there are.
MkdirInv == \A l \in Launchers : pc[l] = "mkdir" => at[l] \in 1 .. 3

\* Every step of any launcher keeps the types.
LEMMA StepTypes ==
    ASSUME TypeOK, MkdirInv, [Next]_vars
    PROVE  TypeOK' /\ MkdirInv'
<1> USE Layout
<1>1. CASE UNCHANGED vars
  BY <1>1 DEF TypeOK, MkdirInv, vars, run_vars
<1>2. ASSUME NEW l \in Launchers, Launch(l) PROVE TypeOK' /\ MkdirInv'
  <2>1. runs[l] + 1 \in 0 .. MaxRuns
    BY <1>2, RunsAssumption DEF TypeOK, Launch
  <2>2. pc' = [pc EXCEPT ![l] = "enter"] \/ pc' = [pc EXCEPT ![l] = "idle"]
    BY <1>2 DEF Launch, Goto, Exit
  <2>3. result' = [result EXCEPT ![l] = "none"] \/ result' = [result EXCEPT ![l] = "failure"]
    BY <1>2 DEF Launch, Exit
  <2>4. pc' \in [Launchers -> ChildPcs \union {"idle", "program", "umount", "chdir", "remove"}]
    BY <2>2 DEF TypeOK, ChildPcs
  <2>5. result' \in [Launchers -> {"none", "success", "failure"}]
    BY <2>3 DEF TypeOK
  <2>6. runs' \in [Launchers -> 0 .. MaxRuns] /\ ran' \in [Launchers -> BOOLEAN]
    BY <1>2, <2>1 DEF TypeOK, Launch
  <2>7. UNCHANGED <<entries, made, mounts, at, cwd>>
    BY <1>2 DEF Launch
  <2>8. pc'[l] # "mkdir" /\ \A k \in Launchers \ {l} : pc'[k] = pc[k]
    BY <2>2 DEF TypeOK
  <2>9. TypeOK'
    BY <2>4, <2>5, <2>6, <2>7 DEF TypeOK
  <2> QED
    BY <2>7, <2>8, <2>9 DEF MkdirInv
<1>3. ASSUME NEW l \in Launchers, Enter(l) PROVE TypeOK' /\ MkdirInv'
  BY <1>3 DEF TypeOK, MkdirInv, Enter, Goto, ChildPcs, run_vars
<1>4. ASSUME NEW l \in Launchers, MakeDirectory(l) PROVE TypeOK' /\ MkdirInv'
  <2>1. at[l] \in 1 .. 3
    BY <1>4 DEF MkdirInv, MakeDirectory, Goto
  <2>2. Directories[at[l]] \in All
    BY <2>1
  <2>3. entries' \subseteq All
    BY <1>4, <2>2 DEF TypeOK, MakeDirectory
  <2>4. made' \in Nat /\ cwd' \in [Launchers -> Nat]
    BY <1>4 DEF TypeOK, MakeDirectory
  <2>5. at' = [at EXCEPT ![l] = at[l] + 1] /\ UNCHANGED <<mounts, result, ran, runs>>
    BY <1>4 DEF MakeDirectory, run_vars
  <2>6. at' \in [Launchers -> 1 .. 6]
    BY <2>1, <2>5 DEF TypeOK
  <2>7. CASE at[l] = 3
    <3>1. pc' = [pc EXCEPT ![l] = "files"]
      BY <1>4, <2>7 DEF MakeDirectory, Goto
    <3> QED
      BY <2>3, <2>4, <2>5, <2>6, <3>1 DEF TypeOK, MkdirInv, ChildPcs
  <2>8. CASE at[l] # 3
    <3>1. pc' = [pc EXCEPT ![l] = "mkdir"]
      BY <1>4, <2>8 DEF MakeDirectory, Goto
    <3>2. at[l] + 1 \in 1 .. 3
      BY <2>1, <2>8
    <3> QED
      BY <2>3, <2>4, <2>5, <2>6, <3>1, <3>2 DEF TypeOK, MkdirInv, ChildPcs
  <2> QED
    BY <2>7, <2>8
<1>5. ASSUME NEW l \in Launchers, WriteFiles(l) PROVE TypeOK' /\ MkdirInv'
  BY <1>5 DEF TypeOK, MkdirInv, WriteFiles, Goto, ChildPcs, run_vars
<1>6. ASSUME NEW l \in Launchers, Mount(l) PROVE TypeOK' /\ MkdirInv'
  BY <1>6 DEF TypeOK, MkdirInv, Mount, Goto, ChildPcs, run_vars
<1>7. ASSUME NEW l \in Launchers, Exec(l) PROVE TypeOK' /\ MkdirInv'
  BY <1>7 DEF TypeOK, MkdirInv, Exec, Goto, ChildPcs
<1>8. ASSUME NEW l \in Launchers, ProgramEnds(l) \/ ChildFails(l) PROVE TypeOK' /\ MkdirInv'
  <2>1. pc' = [pc EXCEPT ![l] = "umount"]
    BY <1>8 DEF ProgramEnds, ChildFails, Goto
  <2>2. UNCHANGED <<entries, made, mounts, at, cwd, result, ran, runs>>
    BY <1>8 DEF ProgramEnds, ChildFails, run_vars
  <2>3. TypeOK'
    BY <2>1, <2>2 DEF TypeOK
  <2> QED
    BY <2>1, <2>2, <2>3 DEF TypeOK, MkdirInv
<1>9. ASSUME NEW l \in Launchers, Umount(l) PROVE TypeOK' /\ MkdirInv'
  <2>1. Front(mounts) \in Seq(Launchers)
    BY <1>9 DEF TypeOK, Umount, Front
  <2>2. pc' = [pc EXCEPT ![l] = "chdir"] /\ mounts' \in Seq(Launchers)
    BY <1>9, <2>1 DEF TypeOK, Umount, Goto
  <2>3. UNCHANGED <<entries, made, at, cwd, result, ran, runs>>
    BY <1>9 DEF Umount, run_vars
  <2>4. TypeOK'
    BY <2>2, <2>3 DEF TypeOK
  <2> QED
    BY <2>2, <2>3, <2>4 DEF TypeOK, MkdirInv
<1>10. ASSUME NEW l \in Launchers, EnterPids(l) PROVE TypeOK' /\ MkdirInv'
  BY <1>10 DEF TypeOK, MkdirInv, EnterPids, Goto, ChildPcs, run_vars
<1>11. ASSUME NEW l \in Launchers, RemoveEntry(l) PROVE TypeOK' /\ MkdirInv'
  <2>1. pc' = pc \/ pc' = [pc EXCEPT ![l] = "idle"]
    BY <1>11 DEF RemoveEntry, Exit
  <2>2. result' = result \/ result' = [result EXCEPT ![l] = "success"]
    BY <1>11 DEF RemoveEntry, Exit
  <2>3. (IF at[l] = 6 THEN 1 ELSE at[l] + 1) \in 1 .. 6
    <3>1. at[l] \in 1 .. 6
      BY DEF TypeOK
    <3> QED
      BY <3>1
  <2>4. at' \in [Launchers -> 1 .. 6] /\ \A k \in Launchers : k # l => at'[k] = at[k]
    BY <1>11, <2>3 DEF TypeOK, RemoveEntry
  <2>5. entries' \subseteq All /\ UNCHANGED <<made, mounts, cwd, ran, runs>> /\ pc[l] = "remove"
    BY <1>11 DEF TypeOK, RemoveEntry
  <2>6. pc' \in [Launchers -> ChildPcs \union {"idle", "program", "umount", "chdir", "remove"}]
    BY <2>1 DEF TypeOK
  <2>7. result' \in [Launchers -> {"none", "success", "failure"}]
    BY <2>2 DEF TypeOK
  <2>8. TypeOK'
    BY <2>4, <2>5, <2>6, <2>7 DEF TypeOK, Removals
  <2>9. pc'[l] # "mkdir" /\ \A k \in Launchers \ {l} : pc'[k] = pc[k]
    BY <2>1, <2>5 DEF TypeOK
  <2>10. MkdirInv'
    BY <2>4, <2>9 DEF MkdirInv
  <2> QED
    BY <2>8, <2>10
<1>12. ASSUME NEW l \in Launchers, LauncherFails(l) PROVE TypeOK' /\ MkdirInv'
  BY <1>12 DEF TypeOK, MkdirInv, LauncherFails, Exit, ChildPcs
<1> QED
  BY <1>1, <1>2, <1>3, <1>4, <1>5, <1>6, <1>7, <1>8, <1>9, <1>10, <1>11, <1>12 DEF Next

\* The variables have their types: no directory and no entry beyond the last
\* one is made or removed (limiting_number_processes,
\* releasing_all_resources).
THEOREM TypesCorrect == Spec => []TypeOK
<1>1. Init => TypeOK /\ MkdirInv
  BY Layout, RunsAssumption DEF Init, TypeOK, MkdirInv, ChildPcs
<1> QED
  BY <1>1, StepTypes, PTL DEF Spec

-----------------------------------------------------------------------------
(* One launcher.  A second one with the same root would unmount the first  *)
(* one's proc, and no property below would hold.                           *)

\* A directory is there with those above it.
TreeInv ==
    /\ Files \cap entries # {} => "pids" \in entries
    /\ "pids" \in entries => "cgroup" \in entries
    /\ "cgroup" \in entries => "fs" \in entries

\* The only mount is the launcher's own, and what is mounted while nothing
\* runs belongs to a complete container.
MountInv(l) ==
    /\ mounts = <<>> \/ mounts = <<l>>
    /\ mounts # <<>> => Prepared

\* What the child has set up at each of its calls, and what is left to
\* remove.  The first mkdir succeeds in an empty directory only, and in that
\* nothing is mounted.
PlaceInv(l) ==
    /\ pc[l] = "mkdir" =>
          /\ at[l] = 2 => entries = {"fs"}
          /\ at[l] = 3 => entries = {"fs", "cgroup"}
    /\ pc[l] = "files" => entries = {"fs", "cgroup", "pids"}
    /\ pc[l] \in {"mount", "exec", "program"} => Prepared
    /\ pc[l] \in {"exec", "program"} => mounts = <<l>>
    /\ pc[l] \in {"files", "mount", "chdir", "remove"} => mounts = <<>>
    /\ pc[l] = "remove" => \A i \in 1 .. Len(Removals) : i < at[l] => Removals[i] \notin entries
    /\ pc[l] = "idle" /\ result[l] = "success" => entries = {} /\ mounts = <<>>

\* The inductive invariant, while l is the only launcher.
ContainerInv(l) == TypeOK /\ MkdirInv /\ TreeInv /\ MountInv(l) /\ PlaceInv(l)

\* Its parts, with the constants of the layout expanded.
LEMMA Expanded ==
    /\ TreeInv <=> /\ "cgroup.procs" \in entries => "pids" \in entries
                   /\ "notify_on_release" \in entries => "pids" \in entries
                   /\ "pids.max" \in entries => "pids" \in entries
                   /\ "pids" \in entries => "cgroup" \in entries
                   /\ "cgroup" \in entries => "fs" \in entries
    /\ Prepared <=> "fs" \in entries /\ "cgroup" \in entries /\ "pids" \in entries
BY Layout DEF TreeInv, Prepared

\* Without fs there is nothing.
LEMMA EmptyWithoutFs ==
    ASSUME TypeOK, TreeInv, "fs" \notin entries
    PROVE  entries = {} /\ ~Prepared
<1>1. entries \subseteq {"fs", "cgroup", "pids", "cgroup.procs", "notify_on_release", "pids.max"}
  BY Layout DEF TypeOK
<1>2. /\ "cgroup" \notin entries /\ "pids" \notin entries /\ "cgroup.procs" \notin entries
      /\ "notify_on_release" \notin entries /\ "pids.max" \notin entries
  BY Expanded
<1> QED
  BY <1>1, <1>2, Expanded

\* What only moves the program counter, and the launcher's result.
LEMMA MovesPreserve ==
    ASSUME NEW l, Launchers = {l}, ContainerInv(l), UNCHANGED <<entries, mounts>>,
           pc'[l] \in {"idle", "enter", "umount"} \/ (pc[l] = "exec" /\ pc'[l] = "program"),
           pc'[l] = "idle" => result'[l] = "failure"
    PROVE  TreeInv' /\ MountInv(l)' /\ PlaceInv(l)'
BY DEF ContainerInv, TreeInv, MountInv, PlaceInv, Prepared

\* The child changes to sys.
LEMMA EnterPreserves ==
    ASSUME NEW l, Launchers = {l}, ContainerInv(l), Enter(l)
    PROVE  TreeInv' /\ MountInv(l)' /\ PlaceInv(l)'
<1>1. pc'[l] = "mkdir" /\ at'[l] = 1 /\ UNCHANGED <<entries, mounts>>
  BY DEF Enter, Goto, ContainerInv, TypeOK
<1> QED
  BY <1>1 DEF ContainerInv, TreeInv, MountInv, PlaceInv, Prepared

\* The child makes a directory: the first one shows that all were missing.
LEMMA MakeDirectoryPreserves ==
    ASSUME NEW l, Launchers = {l}, ContainerInv(l), MakeDirectory(l)
    PROVE  TreeInv' /\ MountInv(l)' /\ PlaceInv(l)'
<1>1. /\ pc[l] = "mkdir" /\ at[l] \in {1, 2, 3} /\ at'[l] = at[l] + 1
      /\ pc'[l] = IF at[l] = 3 THEN "files" ELSE "mkdir"
      /\ entries' = entries \union {Directories[at[l]]}
      /\ Directories[at[l]] \notin entries
      /\ UNCHANGED mounts
  BY Layout DEF MakeDirectory, Goto, ContainerInv, TypeOK, MkdirInv
<1>2. ~Prepared /\ mounts = <<>>
  BY <1>1, Layout, Expanded DEF ContainerInv, MountInv
<1>3. CASE at[l] = 1
  <2>1. entries' = {"fs"}
    BY <1>1, <1>3, Layout, EmptyWithoutFs DEF ContainerInv
  <2> QED
    BY <1>1, <1>2, <1>3, <2>1, Layout DEF TreeInv, MountInv, PlaceInv
<1>4. CASE at[l] = 2
  <2>1. entries' = {"fs", "cgroup"}
    BY <1>1, <1>4, Layout DEF ContainerInv, PlaceInv
  <2> QED
    BY <1>1, <1>2, <1>4, <2>1, Layout DEF TreeInv, MountInv, PlaceInv
<1>5. CASE at[l] = 3
  <2>1. entries' = {"fs", "cgroup", "pids"}
    BY <1>1, <1>5, Layout DEF ContainerInv, PlaceInv
  <2> QED
    BY <1>1, <1>2, <1>5, <2>1, Layout DEF TreeInv, MountInv, PlaceInv
<1> QED
  BY <1>1, <1>3, <1>4, <1>5

\* The child writes the files it can.
LEMMA WriteFilesPreserves ==
    ASSUME NEW l, Launchers = {l}, ContainerInv(l), WriteFiles(l)
    PROVE  TreeInv' /\ MountInv(l)' /\ PlaceInv(l)'
<1>1. pc[l] = "files" /\ pc'[l] = "mount" /\ UNCHANGED mounts
  BY DEF WriteFiles, Goto, ContainerInv, TypeOK
<1>2. entries = {"fs", "cgroup", "pids"} /\ mounts = <<>>
  BY <1>1 DEF ContainerInv, PlaceInv
<1>3. entries \subseteq entries' /\ entries' \subseteq entries \union Files
  BY DEF WriteFiles
<1> QED
  BY <1>1, <1>2, <1>3, Layout DEF TreeInv, MountInv, PlaceInv, Prepared

\* The child mounts its proc where none is mounted.
LEMMA MountPreserves ==
    ASSUME NEW l, Launchers = {l}, ContainerInv(l), Mount(l)
    PROVE  TreeInv' /\ MountInv(l)' /\ PlaceInv(l)'
<1>1. /\ pc[l] = "mount" /\ pc'[l] = "exec" /\ UNCHANGED entries
      /\ mounts' = Append(mounts, l)
  BY DEF Mount, Goto, ContainerInv, TypeOK
<1>2. mounts' = <<l>> /\ Prepared
  BY <1>1, OneMount DEF ContainerInv, PlaceInv
<1> QED
  BY <1>1, <1>2 DEF ContainerInv, TreeInv, MountInv, PlaceInv, Prepared

\* The launcher unmounts the only mount.
LEMMA UmountPreserves ==
    ASSUME NEW l, Launchers = {l}, ContainerInv(l), Umount(l)
    PROVE  TreeInv' /\ MountInv(l)' /\ PlaceInv(l)'
<1>1. /\ pc[l] = "umount" /\ pc'[l] = "chdir" /\ UNCHANGED entries
      /\ mounts # <<>> /\ mounts' = Front(mounts)
  BY DEF Umount, Goto, ContainerInv, TypeOK
<1>2. mounts' = <<>>
  BY <1>1, OneMount DEF ContainerInv, MountInv
<1> QED
  BY <1>1, <1>2 DEF ContainerInv, TreeInv, MountInv, PlaceInv, Prepared

\* The launcher changes to pids.
LEMMA EnterPidsPreserves ==
    ASSUME NEW l, Launchers = {l}, ContainerInv(l), EnterPids(l)
    PROVE  TreeInv' /\ MountInv(l)' /\ PlaceInv(l)'
<1>1. /\ pc[l] = "chdir" /\ pc'[l] = "remove" /\ at'[l] = 1
      /\ UNCHANGED <<entries, mounts>>
  BY DEF EnterPids, Goto, ContainerInv, TypeOK
<1> QED
  BY <1>1, Layout DEF ContainerInv, TreeInv, MountInv, PlaceInv, Prepared

\* The launcher removes an entry below which nothing is left.
LEMMA RemoveEntryPreserves ==
    ASSUME NEW l, Launchers = {l}, ContainerInv(l), RemoveEntry(l)
    PROVE  TreeInv' /\ MountInv(l)' /\ PlaceInv(l)'
<1>1. /\ pc[l] = "remove" /\ at[l] \in 1 .. 6 /\ UNCHANGED mounts
      /\ entries' = entries \ {Removals[at[l]]}
      /\ at'[l] = IF at[l] = 6 THEN 1 ELSE at[l] + 1
  BY Layout DEF RemoveEntry, ContainerInv, TypeOK
<1>2. /\ at[l] = 6 => pc'[l] = "idle"
      /\ at[l] # 6 => pc'[l] = "remove"
  BY <1>1, Layout DEF RemoveEntry, Exit, ContainerInv, TypeOK
<1>3. mounts' = <<>> /\ \A i \in 1 .. 6 : i <= at[l] => Removals[i] \notin entries'
  BY <1>1, Layout DEF ContainerInv, PlaceInv
<1>4. TreeInv'
  <2>1. at[l] \in {1, 2, 3, 4, 5, 6}
    BY <1>1
  <2>2. TreeInv
    BY DEF ContainerInv
  <2> QED
    BY <1>1, <1>3, <2>1, <2>2, Layout, Expanded DEF TreeInv
<1>5. at[l] = 6 => entries' = {}
  <2>1. ASSUME at[l] = 6
        PROVE  \A i \in 1 .. 6 : Removals[i] \notin entries'
    BY <1>3, <2>1
  <2>2. entries' \subseteq All
    BY <1>1 DEF ContainerInv, TypeOK
  <2>3. ASSUME at[l] = 6
        PROVE  entries' = {}
    BY <2>1, <2>2, <2>3, Layout
  <2> QED
    BY <2>3
<1>6. at[l] # 6 => \A i \in 1 .. 6 : i < at'[l] => Removals[i] \notin entries'
  BY <1>1, <1>3
<1> QED
  BY <1>1, <1>2, <1>3, <1>4, <1>5, <1>6, Layout DEF MountInv, PlaceInv

\* The invariant of one launcher.
LEMMA ContainerInvHolds ==
    ASSUME NEW l, Launchers = {l}
    PROVE  Spec => []ContainerInv(l)
<1>1. Init => ContainerInv(l)
  BY Layout, RunsAssumption
     DEF Init, ContainerInv, TypeOK, MkdirInv, TreeInv, MountInv, PlaceInv, ChildPcs
<1>2. ASSUME ContainerInv(l), [Next]_vars
      PROVE  ContainerInv(l)'
  <2>1. TypeOK' /\ MkdirInv'
    BY <1>2, StepTypes DEF ContainerInv
  <2>2. CASE UNCHANGED vars
    BY <1>2, <2>2
       DEF ContainerInv, TypeOK, MkdirInv, TreeInv, MountInv, PlaceInv, Prepared, vars, run_vars
  <2>3. CASE Launch(l)
    <3>1. /\ UNCHANGED <<entries, mounts>>
          /\ pc'[l] \in {"idle", "enter"} /\ (pc'[l] = "idle" => result'[l] = "failure")
      BY <1>2, <2>3 DEF Launch, Goto, Exit, ContainerInv, TypeOK
    <3> QED
      BY <1>2, <2>1, <3>1, MovesPreserve DEF ContainerInv
  <2>4. CASE Exec(l) \/ ProgramEnds(l) \/ ChildFails(l)
    <3>1. /\ UNCHANGED <<entries, mounts>>
          /\ pc'[l] = "umount" \/ (pc[l] = "exec" /\ pc'[l] = "program")
      BY <1>2, <2>4 DEF Exec, ProgramEnds, ChildFails, Goto, ContainerInv, TypeOK
    <3> QED
      BY <1>2, <2>1, <3>1, MovesPreserve DEF ContainerInv
  <2>5. CASE LauncherFails(l)
    <3>1. /\ UNCHANGED <<entries, mounts>>
          /\ pc'[l] = "idle" /\ result'[l] = "failure"
      BY <1>2, <2>5 DEF LauncherFails, Exit, ContainerInv, TypeOK
    <3> QED
      BY <1>2, <2>1, <3>1, MovesPreserve DEF ContainerInv
  <2>6. CASE Enter(l)
    BY <1>2, <2>1, <2>6, EnterPreserves DEF ContainerInv
  <2>7. CASE MakeDirectory(l)
    BY <1>2, <2>1, <2>7, MakeDirectoryPreserves DEF ContainerInv
  <2>8. CASE WriteFiles(l)
    BY <1>2, <2>1, <2>8, WriteFilesPreserves DEF ContainerInv
  <2>9. CASE Mount(l)
    BY <1>2, <2>1, <2>9, MountPreserves DEF ContainerInv
  <2>10. CASE Umount(l)
    BY <1>2, <2>1, <2>10, UmountPreserves DEF ContainerInv
  <2>11. CASE EnterPids(l)
    BY <1>2, <2>1, <2>11, EnterPidsPreserves DEF ContainerInv
  <2>12. CASE RemoveEntry(l)
    BY <1>2, <2>1, <2>12, RemoveEntryPreserves DEF ContainerInv
  <2> QED
    BY <1>2, <2>2, <2>3, <2>4, <2>5, <2>6, <2>7, <2>8, <2>9, <2>10, <2>11, <2>12 DEF Next
<1> QED
  BY <1>1, <1>2, PTL DEF Spec

-----------------------------------------------------------------------------
(* The properties.                                                         *)

\* A program runs under its own proc and in complete directories, whatever
\* earlier runs have left (create_container, run_program).
THEOREM ProgramContainedHolds ==
    ASSUME NEW l, Launchers = {l}
    PROVE  Spec => []ProgramContained
<1>1. ContainerInv(l) => ProgramContained
  BY OneMount DEF ContainerInv, PlaceInv, ProgramContained
<1> QED
  BY <1>1, ContainerInvHolds, PTL

\* Over any number of runs there is one mount at most, and what it covers is
\* complete (create_container, umount_container).
THEOREM MountedOnceAndWholeHolds ==
    ASSUME NEW l, Launchers = {l}
    PROVE  Spec => []MountedOnceAndWhole
<1>1. ContainerInv(l) => MountedOnceAndWhole
  BY OneMount DEF ContainerInv, MountInv, MountedOnceAndWhole
<1> QED
  BY <1>1, ContainerInvHolds, PTL

\* A run that reports success has left nothing, of its own or of an earlier
\* one (releasing_all_resources).
THEOREM CleanAfterSuccessHolds ==
    ASSUME NEW l, Launchers = {l}
    PROVE  Spec => []CleanAfterSuccess
<1>1. ContainerInv(l) => CleanAfterSuccess
  BY DEF ContainerInv, PlaceInv, CleanAfterSuccess
<1> QED
  BY <1>1, ContainerInvHolds, PTL
=============================================================================
