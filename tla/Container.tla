------------------------------- MODULE Container -------------------------------
(***************************************************************************)
(* The container of ex5/container.cpp: a launcher process that makes a     *)
(* child in new namespaces, waits for it, and takes down what the child    *)
(* has set up below the container's root directory.                        *)
(*                                                                         *)
(* A launcher waits as long as its child lives, so that the two have one   *)
(* program counter.  The root directory outlives the launchers: a run      *)
(* meets what earlier runs, and other launchers with the same root, have   *)
(* left there.                                                             *)
(*                                                                         *)
(* The child's mount is seen by the launcher, which unmounts it: the       *)
(* mounts of the host are shared, as systemd sets them up.                 *)
(***************************************************************************)
EXTENDS Naturals, Sequences, SequencesExt

CONSTANTS
    Launchers,    \* the processes that run main with one root directory
    MaxRuns       \* bound: how often each of them is started

Directories == <<"fs", "cgroup", "pids">>
Files == {"cgroup.procs", "notify_on_release", "pids.max"}

\* What a container sets up, in the order in which it is removed.
Removals == <<"pids.max", "notify_on_release", "cgroup.procs", "pids", "cgroup", "fs">>
All == ToSet(Removals)

ASSUME RunsAssumption == MaxRuns \in Nat

VARIABLES
    entries,  \* the files and directories below the root's sys
    made,     \* how often fs has been made: another fs is another directory
    mounts,   \* the proc file systems mounted on the root's proc, by launcher
    pc,       \* where each launcher or its child is
    at,       \* the next directory to make, or the next entry to remove
    cwd,      \* which fs the launcher has changed into
    result,   \* the exit status of each launcher's last run
    ran,      \* history: whether the program of this run was started
    runs      \* how often each launcher was started

run_vars == <<result, ran, runs>>
vars == <<entries, made, mounts, pc, at, cwd, result, ran, runs>>

ChildPcs == {"enter", "mkdir", "files", "mount", "exec"}

Init ==
    /\ entries = {}
    /\ made = 0
    /\ mounts = <<>>
    /\ pc = [l \in Launchers |-> "idle"]
    /\ at = [l \in Launchers |-> 1]
    /\ cwd = [l \in Launchers |-> 0]
    /\ result = [l \in Launchers |-> "none"]
    /\ ran = [l \in Launchers |-> FALSE]
    /\ runs = [l \in Launchers |-> 0]

Goto(l, from, to) == pc[l] = from /\ pc' = [pc EXCEPT ![l] = to]

Exit(l, status) ==
    /\ pc' = [pc EXCEPT ![l] = "idle"]
    /\ result' = [result EXCEPT ![l] = status]

\* main, with the child of clone or, if clone fails, without one: then there
\* is nothing to wait for.
Launch(l) ==
    /\ runs[l] < MaxRuns
    /\ runs' = [runs EXCEPT ![l] = @ + 1]
    /\ ran' = [ran EXCEPT ![l] = FALSE]
    /\ \/ Goto(l, "idle", "enter") /\ result' = [result EXCEPT ![l] = "none"]
       \/ pc[l] = "idle" /\ Exit(l, "failure")
    /\ UNCHANGED <<entries, made, mounts, at, cwd>>

\* create_container: sethostname, chdir, chroot; and chdir to sys.
Enter(l) ==
    /\ Goto(l, "enter", "mkdir")
    /\ at' = [at EXCEPT ![l] = 1]
    /\ cwd' = [cwd EXCEPT ![l] = made]
    /\ UNCHANGED <<entries, made, mounts, run_vars>>

\* The directory that the process has changed into still exists.
InPlace(l) == cwd[l] = made

\* Seeded fault: a directory that exists already is not an error.
MakeDirectoryLenient(l) ==
    /\ Goto(l, "mkdir", IF at[l] = Len(Directories) THEN "files" ELSE "mkdir")
    /\ entries' = entries \union {Directories[at[l]]}
    /\ at' = [at EXCEPT ![l] = @ + 1]
    /\ made' = IF at[l] = 1 THEN made + 1 ELSE made
    /\ cwd' = IF at[l] = 1 THEN [cwd EXCEPT ![l] = made'] ELSE cwd
    /\ UNCHANGED <<mounts, run_vars>>

\* limiting_number_processes: one mkdir, and chdir into the new directory.
MakeDirectory(l) ==
    /\ Goto(l, "mkdir", IF at[l] = Len(Directories) THEN "files" ELSE "mkdir")
    /\ Directories[at[l]] \notin entries
    /\ at[l] > 1 => InPlace(l) /\ Directories[at[l] - 1] \in entries
    /\ entries' = entries \union {Directories[at[l]]}
    /\ at' = [at EXCEPT ![l] = @ + 1]
    /\ made' = IF at[l] = 1 THEN made + 1 ELSE made
    /\ cwd' = IF at[l] = 1 THEN [cwd EXCEPT ![l] = made'] ELSE cwd
    /\ UNCHANGED <<mounts, run_vars>>

\* limiting_number_processes: the three files; nobody looks at whether an
\* ofstream could open and write its file.
WriteFiles(l) ==
    /\ Goto(l, "files", "mount")
    /\ \E lost \in SUBSET Files :
          entries' = IF InPlace(l) /\ "pids" \in entries
                     THEN entries \union (Files \ lost) ELSE entries
    /\ UNCHANGED <<made, mounts, at, cwd, run_vars>>

\* create_container: mount, and chdir back to the root.
Mount(l) ==
    /\ Goto(l, "mount", "exec")
    /\ mounts' = Append(mounts, l)
    /\ UNCHANGED <<entries, made, at, cwd, run_vars>>

\* Seeded fault: the program is started before proc is mounted.
ExecUnmounted(l) ==
    /\ Goto(l, "mount", "program")
    /\ ran' = [ran EXCEPT ![l] = TRUE]
    /\ UNCHANGED <<entries, made, mounts, at, cwd, result, runs>>

\* run_program: execvp.
Exec(l) ==
    /\ Goto(l, "exec", "program")
    /\ ran' = [ran EXCEPT ![l] = TRUE]
    /\ UNCHANGED <<entries, made, mounts, at, cwd, result, runs>>

\* The program ends, and wait returns.
ProgramEnds(l) ==
    /\ Goto(l, "program", "umount")
    /\ UNCHANGED <<entries, made, mounts, at, cwd, run_vars>>

\* A call of the child fails: error_handler ends the child, and the
\* launcher's wait returns as it does for a program that has ended.
ChildFails(l) ==
    /\ pc[l] \in ChildPcs
    /\ Goto(l, pc[l], "umount")
    /\ UNCHANGED <<entries, made, mounts, at, cwd, run_vars>>

\* umount_container.
Umount(l) ==
    /\ Goto(l, "umount", "chdir")
    /\ mounts # <<>>
    /\ mounts' = Front(mounts)
    /\ UNCHANGED <<entries, made, at, cwd, run_vars>>

\* releasing_all_resources: chdir to pids.
EnterPids(l) ==
    /\ Goto(l, "chdir", "remove")
    /\ "pids" \in entries
    /\ at' = [at EXCEPT ![l] = 1]
    /\ cwd' = [cwd EXCEPT ![l] = made]
    /\ UNCHANGED <<entries, made, mounts, run_vars>>

\* Seeded fault: the last directory is left where it is.
RemoveButLast(l) ==
    /\ pc[l] = "remove"
    /\ Removals[at[l]] \in entries
    /\ InPlace(l)
    /\ entries' = IF at[l] = Len(Removals) THEN entries ELSE entries \ {Removals[at[l]]}
    /\ at' = [at EXCEPT ![l] = IF @ = Len(Removals) THEN 1 ELSE @ + 1]
    /\ IF at[l] = Len(Removals) THEN Exit(l, "success") ELSE UNCHANGED <<pc, result>>
    /\ UNCHANGED <<made, mounts, cwd, ran, runs>>

\* Seeded fault: the next run begins where this one has ended.
RemovePastEnd(l) ==
    /\ pc[l] = "remove"
    /\ Removals[at[l]] \in entries
    /\ InPlace(l)
    /\ entries' = entries \ {Removals[at[l]]}
    /\ at' = [at EXCEPT ![l] = @ + 1]
    /\ IF at[l] = Len(Removals) THEN Exit(l, "success") ELSE UNCHANGED <<pc, result>>
    /\ UNCHANGED <<made, mounts, cwd, ran, runs>>

\* releasing_all_resources: one remove; main returns after the last.
RemoveEntry(l) ==
    /\ pc[l] = "remove"
    /\ Removals[at[l]] \in entries
    /\ InPlace(l)
    /\ entries' = entries \ {Removals[at[l]]}
    /\ at' = [at EXCEPT ![l] = IF @ = Len(Removals) THEN 1 ELSE @ + 1]
    /\ IF at[l] = Len(Removals) THEN Exit(l, "success") ELSE UNCHANGED <<pc, result>>
    /\ UNCHANGED <<made, mounts, cwd, ran, runs>>

\* A call of the launcher fails: error_handler ends it where it is.
LauncherFails(l) ==
    /\ pc[l] \in {"umount", "chdir", "remove"}
    /\ Exit(l, "failure")
    /\ UNCHANGED <<entries, made, mounts, at, cwd, ran, runs>>

Next ==
    \E l \in Launchers :
        \/ Launch(l)
        \/ Enter(l)
        \/ MakeDirectory(l)
        \/ WriteFiles(l)
        \/ Mount(l)
        \/ Exec(l)
        \/ ProgramEnds(l)
        \/ ChildFails(l)
        \/ Umount(l)
        \/ EnterPids(l)
        \/ RemoveEntry(l)
        \/ LauncherFails(l)

Spec == Init /\ [][Next]_vars

-----------------------------------------------------------------------------
(* Properties.                                                             *)

\* Every variable has its type.
TypeOK ==
    /\ entries \subseteq All
    /\ made \in Nat
    /\ mounts \in Seq(Launchers)
    /\ pc \in [Launchers -> ChildPcs \union {"idle", "program", "umount", "chdir", "remove"}]
    /\ at \in [Launchers -> 1 .. Len(Removals)]
    /\ cwd \in [Launchers -> Nat]
    /\ result \in [Launchers -> {"none", "success", "failure"}]
    /\ ran \in [Launchers -> BOOLEAN]
    /\ runs \in [Launchers -> 0 .. MaxRuns]

\* The directories of a container, without which no file can limit it.
Prepared == ToSet(Directories) \subseteq entries

\* A program runs under its own proc file system and in directories that
\* are complete, whatever earlier runs have left behind.  Whether the files
\* that limit it have been written is not said: the code does not look (139).
ProgramContained ==
    \A l \in Launchers :
        pc[l] = "program" => mounts # <<>> /\ Last(mounts) = l /\ Prepared

\* Over any number of runs that end at any of their calls there is one
\* mount at most, and it covers a complete container: what a failing run
\* leaves is never hidden below the mount of a later one.
MountedOnceAndWhole == mounts # <<>> => Len(mounts) = 1 /\ Prepared

\* A launcher that reports success has left nothing behind, neither of its
\* own run nor of an earlier one, and the root can be used again.
CleanAfterSuccess ==
    \A l \in Launchers :
        pc[l] = "idle" /\ result[l] = "success" => entries = {} /\ mounts = <<>>

\* What main's comment says: success means that the program was run.
SuccessMeansRan ==
    \A l \in Launchers : pc[l] = "idle" /\ result[l] = "success" => ran[l]
=============================================================================
