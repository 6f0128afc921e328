-------------------------------- MODULE S2FS --------------------------------
(***************************************************************************)
(* The s2fs file system of src/Project_4/part4/s2fs.c: mounting it walks   *)
(* the task tree and makes a directory for every task that has children    *)
(* and a file for every task; reading a file looks the task up again and   *)
(* prints what it is then.                                                 *)
(*                                                                         *)
(* Neither the walk nor the read takes a lock, so the kernel forks, ends   *)
(* and reaps tasks between their steps.                                    *)
(***************************************************************************)
EXTENDS Integers, Sequences, FiniteSets

CONSTANTS
    NewPids,    \* the pids of tasks that may be forked
    InfoLen,    \* InfoLen[v]: length of what is printed of a task in version v
    MaxCount,   \* bound: the longest read
    ExitInWalk  \* tasks also exit and are reaped while a mount walks the tree

Versions == {0, 1}

ASSUME PidsAssumption == NewPids \subseteq Nat \ {0, 1, 2}
ASSUME LenAssumption == InfoLen \in [Versions -> Nat \ {0}]
ASSUME CountAssumption == MaxCount \in Nat \ {0}
ASSUME ExitAssumption == ExitInWalk \in BOOLEAN

Swapper == 0
Reaper == 1         \* init, which adopts orphans
Kthreadd == 2
Pids == {Swapper, Reaper, Kthreadd} \cup NewPids

VARIABLES
    life,       \* life[t]: "none" before the fork, "gone" once it is reaped
    children,   \* task->children, in list order
    mm,         \* tasks whose mm is not NULL
    pgrp,       \* process group; it keeps the leader's struct pid in use
    mount,      \* where the mount is
    stack,      \* the calls of recursive_add, the innermost one last
    tree,       \* dentries below the root of s2fs
    snap,       \* snap[t]: parent of t when the mount began
    rpc,        \* where the reader is
    file,       \* the file it has open, by the pid that is its name
    info,       \* version of what there is to print of that file's task
    found,      \* what its look-up found
    offset,     \* its position
    got,        \* what it has read since open
    eof,        \* its last read returned 0
    fixed       \* the task of its file has not changed since open

kernelVars == <<life, children, mm, pgrp>>
mountVars == <<mount, stack, tree, snap>>
readVars == <<rpc, file, info, found, offset, got, eof, fixed>>
vars == <<kernelVars, mountVars, readVars>>

Lives == {"none", "running", "zombie", "gone"}
Tasks == {t \in Pids : life[t] \in {"running", "zombie"}}

\* Where the sibling node of task t is linked.
Place(q, t) == {i \in 1 .. Len(children[q]) : children[q][i] = t}
Parent(t) == CHOOSE q \in Pids : Place(q, t) # {}
Rank(t) == CHOOSE i \in Place(Parent(t), t) : TRUE
Without(s, i) == SubSeq(s, 1, i - 1) \o SubSeq(s, i + 1, Len(s))

\* A kernel that has booted.
Init ==
    /\ life = [t \in Pids |-> IF t \in NewPids THEN "none" ELSE "running"]
    /\ children = [t \in Pids |-> IF t = Swapper THEN <<Reaper, Kthreadd>> ELSE <<>>]
    /\ mm = {Reaper}
    /\ pgrp = [t \in Pids |-> t]
    /\ mount = "none"
    /\ stack = <<>>
    /\ tree = {}
    /\ snap = <<>>
    /\ rpc = "closed"
    /\ file = 0
    /\ info = 0
    /\ found = "none"
    /\ offset = 0
    /\ got = <<>>
    /\ eof = FALSE
    /\ fixed = TRUE
-----------------------------------------------------------------------------
(* The kernel's side: tasks come and go.                                   *)

Fork(t, c) ==
    /\ t # Swapper /\ life[t] = "running"
    /\ life[c] = "none"
    /\ life' = [life EXCEPT ![c] = "running"]
    /\ children' = [children EXCEPT ![t] = Append(@, c)]
    /\ mm' = IF t \in mm THEN mm \cup {c} ELSE mm
    /\ pgrp' = [pgrp EXCEPT ![c] = pgrp[t]]
    /\ UNCHANGED <<mountVars, readVars>>

Setpgrp(t) ==
    /\ t \in mm /\ pgrp[t] # t
    /\ pgrp' = [pgrp EXCEPT ![t] = t]
    /\ UNCHANGED <<life, children, mm, mountVars, readVars>>

MayExit == ExitInWalk \/ mount # "walking"

\* The mm goes, and the children are spliced to the tail of init's.
Exit(t) ==
    /\ life[t] = "running" /\ MayExit
    /\ life' = [life EXCEPT ![t] = "zombie"]
    /\ mm' = mm \ {t}
    /\ children' = [children EXCEPT ![t] = <<>>, ![Reaper] = @ \o children[t]]
    /\ UNCHANGED <<pgrp, mountVars, readVars>>

\* The task leaves its parent's list by list_del_init, and its pid's hash
\* entry if no process group needs it.
Reap(t) ==
    /\ life[t] = "zombie" /\ MayExit
    /\ life' = [life EXCEPT ![t] = "gone"]
    /\ children' = [children EXCEPT ![Parent(t)] = Without(@, Rank(t))]
    /\ UNCHANGED <<mm, pgrp, mountVars, readVars>>

\* A task runs: its state, priority, mappings are not what they were.  It
\* matters for the one whose file is open.
Run ==
    /\ rpc # "closed" /\ file \in mm
    /\ info' = 1 - info
    /\ fixed' = FALSE
    /\ UNCHANGED <<rpc, file, found, offset, got, eof, kernelVars, mountVars>>

Kernel ==
    \/ \E t \in Pids, c \in NewPids : Fork(t, c)
    \/ \E t \in NewPids : Setpgrp(t) \/ Exit(t) \/ Reap(t)
    \/ Run
-----------------------------------------------------------------------------
(* Mounting.  A frame is a call of recursive_add: the task, the directory  *)
(* its children go to, and the node of the sibling list it has reached.    *)

Enter == -1     \* the call has just begun
Head0 == -2     \* at the list head &task->children
Astray == -3    \* at the head of some other task's list

Frame(t, d) == [task |-> t, dir |-> d, cur |-> Enter]
Top == stack[Len(stack)]
Pop == SubSeq(stack, 1, Len(stack) - 1)
Dentry(kind, p) == [kind |-> kind, path |-> p]

\* s2fs_fill_super makes the root and calls recursive_add for init_task.
Mount ==
    /\ mount = "none"
    /\ mount' = "walking"
    /\ stack' = <<Frame(Swapper, <<>>)>>
    /\ snap' = [t \in Tasks \ {Swapper} |-> Parent(t)]
    /\ UNCHANGED <<tree, kernelVars, readVars>>

\* A task without children is a file in its parent's directory.
AddFile ==
    /\ mount = "walking" /\ Top.cur = Enter
    /\ children[Top.task] = <<>>
    /\ tree' = tree \cup {Dentry("file", Append(Top.dir, Top.task))}
    /\ stack' = Pop
    /\ mount' = IF Len(stack) = 1 THEN "mounted" ELSE mount
    /\ UNCHANGED <<snap, kernelVars, readVars>>

\* A task with children is a directory there, and a file in that directory.
MutAddDir ==
    /\ mount = "walking" /\ Top.cur = Enter
    /\ children[Top.task] # <<>>
    /\ LET p == Append(Top.dir, Top.task)
       IN  /\ tree' = tree \cup {Dentry("dir", p)}
           /\ stack' = Append(Pop, [task |-> Top.task, dir |-> p, cur |-> Head0])
    /\ UNCHANGED <<mount, snap, kernelVars, readVars>>
Mut2AddDir ==
    /\ mount = "walking" /\ Top.cur = Enter
    /\ children[Top.task] # <<>>
    /\ LET p == Append(Top.dir, Top.task)
       IN  /\ tree' = tree \cup {Dentry("dir", p), Dentry("file", p)}
           /\ stack' = Append(Pop, [task |-> Top.task, dir |-> p, cur |-> Head0])
    /\ UNCHANGED <<mount, snap, kernelVars, readVars>>
AddDir ==
    /\ mount = "walking" /\ Top.cur = Enter
    /\ children[Top.task] # <<>>
    /\ LET p == Append(Top.dir, Top.task)
       IN  /\ tree' = tree \cup {Dentry("dir", p), Dentry("file", Append(p, Top.task))}
           /\ stack' = Append(Pop, [task |-> Top.task, dir |-> p, cur |-> Head0])
    /\ UNCHANGED <<mount, snap, kernelVars, readVars>>

\* list->next, wherever the node is by now: list_del_init has left a reaped
\* task's node pointing at itself, and an adopted one is in init's list.
MutNextNode(t, c) ==
    IF children[t] = <<>> THEN Head0 ELSE children[t][1]
NextNode(t, c) ==
    IF c = Head0
      THEN IF children[t] = <<>> THEN Head0 ELSE children[t][1]
    ELSE IF life[c] = "gone" THEN c
    ELSE LET q == Parent(c)
         IN  IF Rank(c) < Len(children[q]) THEN children[q][Rank(c) + 1]
             ELSE IF q = t THEN Head0 ELSE Astray

\* One turn of list_for_each; the children are visited while there are any.
NextChild ==
    /\ mount = "walking" /\ Top.cur # Enter
    /\ LET n == NextNode(Top.task, Top.cur)
           at == Append(Pop, [Top EXCEPT !.cur = n])
       IN  /\ stack' = IF n = Astray THEN stack
                       ELSE IF n = Head0 THEN Pop
                       ELSE IF children[Top.task] # <<>> THEN Append(at, Frame(n, Top.dir))
                       ELSE at
           /\ mount' = IF n = Astray THEN "astray"
                       ELSE IF n = Head0 /\ Len(stack) = 1 THEN "mounted"
                       ELSE mount
    /\ UNCHANGED <<tree, snap, kernelVars, readVars>>

\* kill_litter_super drops the dentries; an open file keeps s2fs busy.
Unmount ==
    /\ mount = "mounted" /\ rpc = "closed"
    /\ mount' = "none"
    /\ tree' = {}
    /\ snap' = <<>>
    /\ UNCHANGED <<stack, kernelVars, readVars>>

Walk == AddFile \/ AddDir \/ NextChild
-----------------------------------------------------------------------------
(* Reading a file.                                                         *)

Files == {d \in tree : d.kind = "file"}
NameOf(d) == d.path[Len(d.path)]

Open(d) ==
    /\ rpc = "closed" /\ mount = "mounted"
    /\ rpc' = "open"
    /\ file' = NameOf(d)
    /\ info' \in Versions
    /\ fixed' = TRUE
    /\ UNCHANGED <<found, offset, got, eof, kernelVars, mountVars>>

\* find_get_pid knows a pid while a task or a process group has it, never 0;
\* pid_task finds the task until it is reaped.
Lookup ==
    /\ rpc = "open"
    /\ rpc' = "print"
    /\ found' = IF file # Swapper /\ file \in Tasks THEN "task"
                ELSE IF file # Swapper /\ \E t \in Tasks : pgrp[t] = file THEN "pid"
                ELSE "none"
    /\ UNCHANGED <<file, info, offset, got, eof, fixed, kernelVars, mountVars>>

\* What snprintf prints of the task in its present version.
Info == [i \in 1 .. InfoLen[info] |-> <<info, i>>]

\* The bytes that are copied, and where that leaves the offset.
Copied(s, count) == IF count > Len(s) - offset THEN Len(s) - offset ELSE count
MutChunk(s, n) == SubSeq(s, 1, n)
Chunk(s, n) == SubSeq(s, offset + 1, offset + n)
NewOffset(s, count) == offset + Copied(s, count)

\* get_task_info reports -1 for a task that is gone, which is less than any
\* offset: the read returns 0.
ReadGone ==
    /\ rpc = "print" /\ found = "none"
    /\ rpc' = "open"
    /\ eof' = TRUE
    /\ UNCHANGED <<file, info, found, offset, got, fixed, kernelVars, mountVars>>

\* task_pid, or its mm, is NULL: the reader is killed.
ReadOops ==
    /\ rpc = "print"
    /\ found = "pid" \/ (found = "task" /\ file \notin mm)
    /\ rpc' = "oops"
    /\ UNCHANGED <<file, info, found, offset, got, eof, fixed, kernelVars, mountVars>>

ReadInfo(count) ==
    /\ rpc = "print" /\ found = "task" /\ file \in mm
    /\ rpc' = "open"
    /\ LET s == Info
       IN  \/ /\ offset > Len(s)
              /\ eof' = TRUE
              /\ UNCHANGED <<got, offset>>
           \/ /\ offset <= Len(s)
              /\ got' = got \o Chunk(s, Copied(s, count))
              /\ offset' = NewOffset(s, count)
              /\ eof' = (Copied(s, count) = 0)
    /\ UNCHANGED <<file, info, found, fixed, kernelVars, mountVars>>

\* The struct file goes, its offset with it; do_exit closes it for a reader
\* that was killed.
Close ==
    /\ rpc \in {"open", "oops"}
    /\ rpc' = "closed"
    /\ file' = 0 /\ info' = 0 /\ found' = "none"
    /\ offset' = 0 /\ got' = <<>> /\ eof' = FALSE
    /\ UNCHANGED <<fixed, kernelVars, mountVars>>

Read ==
    \/ \E d \in Files : Open(d)
    \/ Lookup \/ ReadGone \/ ReadOops \/ Close
    \/ \E n \in 1 .. MaxCount : ReadInfo(n)
-----------------------------------------------------------------------------
Next == Kernel \/ Mount \/ Walk \/ Unmount \/ Read

Spec == Init /\ [][Next]_vars

\* The process that mounts keeps running.
FairSpec == Spec /\ WF_vars(Walk)
-----------------------------------------------------------------------------
(* Properties.                                                             *)

\* The directories of a path follow the task tree as it was when the mount
\* began; tasks that came later have no place in it.
FollowsTree(p) ==
    /\ p[1] = Swapper
    /\ \A i \in 2 .. Len(p) : p[i] \in DOMAIN snap => snap[p[i]] = p[i - 1]

\* With no exit during the walk, forks or not: the mounted tree has exactly
\* one file for every task there was when the mount began, below the
\* directories of its ancestors, and later exits do not change that.
TreeComplete ==
    mount = "mounted" =>
        \A t \in DOMAIN snap \cup {Swapper} :
            LET mine == {d \in Files : NameOf(d) = t}
            IN  /\ Cardinality(mine) = 1
                /\ \A d \in mine :
                      LET p == d.path
                          inner == Len(p) > 1 /\ p[Len(p) - 1] = t
                      IN  FollowsTree(IF inner THEN SubSeq(p, 1, Len(p) - 1) ELSE p)

\* With no exit during the walk: d_add is never given a name its directory
\* already has.
NamesUnique ==
    LET paths == {d.path : d \in tree}
    IN  /\ Cardinality(paths) = Cardinality(tree)
        /\ mount = "walking" /\ Top.cur = Enter => Append(Top.dir, Top.task) \notin paths

\* A reader that has come to the end of the file of a task that runs and has
\* not changed since open has got its text, whole and once, however the
\* reads were cut.
ReadWhole ==
    rpc = "open" /\ eof /\ fixed /\ file \in mm => got = Info

\* The mount returns.
MountReturns == mount = "walking" ~> mount # "walking"
=============================================================================
