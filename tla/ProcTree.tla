------------------------------- MODULE ProcTree ------------------------------
(***************************************************************************)
(* Project_4/part1/proj4.c: reading /proc/proj4 walks the process tree and *)
(* prints it, while tasks go on forking.  The walk takes no lock.  Tasks   *)
(* that exit during the walk are not in this model.                        *)
(***************************************************************************)
EXTENDS Naturals, Sequences

CONSTANT MaxPid     \* bound: tasks are 0 (init_task) .. MaxPid

ASSUME ProcTreeAssumption == MaxPid \in Nat \ {0}

VARIABLES parent,   \* of each task but 0, in the order the tasks were made
          children, \* of each task, as its list holds them
          walk,     \* the frames of recursive_search, the innermost last
          lines,    \* what was printed: task and indentation
          begun     \* history: the last task when the walk began
pt_vars == <<parent, children, walk, lines, begun>>

PtInit ==
  /\ parent = <<0>>     \* 1 is init
  /\ children = [t \in 0..MaxPid |-> IF t = 0 THEN <<1>> ELSE <<>>]
  /\ walk = <<>>
  /\ lines = <<>>
  /\ begun = 0

(* The new task goes to the tail of its parent's list. *)
fork ==
  /\ Len(parent) < MaxPid
  /\ \E p \in 0..Len(parent) :
       /\ parent' = Append(parent, p)
       /\ children' = [children EXCEPT ![p] = Append(@, Len(parent) + 1)]
  /\ UNCHANGED <<walk, lines, begun>>

(* The loop starts at 1: space 0 and space 1 are both printed at the margin. *)
Indent(space) == IF space = 0 THEN 0 ELSE space - 1

(* The call: the line is printed, then the list is walked. *)
recursive_search(task, space, callers) ==
  /\ lines' = Append(lines, [task |-> task, indent |-> Indent(space)])
  /\ walk' = Append(callers, [task |-> task, space |-> space + 1, done |-> 0])

proj4_proc_show ==
  /\ walk = <<>> /\ lines = <<>>
  /\ recursive_search(0, 0, <<>>)
  /\ begun' = Len(parent)
  /\ UNCHANGED <<parent, children>>

Frame == walk[Len(walk)]

(* Mutant: space is not handed down. *)
Mutlist_for_each ==
  /\ walk # <<>>
  /\ Frame.done < Len(children[Frame.task])
  /\ recursive_search(children[Frame.task][Frame.done + 1], 1,
                      [walk EXCEPT ![Len(walk)].done = @ + 1])
  /\ UNCHANGED <<parent, children, begun>>

(* list_for_each, one step: the next child there is now is gone into. *)
list_for_each ==
  /\ walk # <<>>
  /\ Frame.done < Len(children[Frame.task])
  /\ recursive_search(children[Frame.task][Frame.done + 1], Frame.space,
                      [walk EXCEPT ![Len(walk)].done = @ + 1])
  /\ UNCHANGED <<parent, children, begun>>

(* The end of the list: back to the caller. *)
Return0 ==
  /\ walk # <<>>
  /\ Frame.done = Len(children[Frame.task])
  /\ walk' = SubSeq(walk, 1, Len(walk) - 1)
  /\ UNCHANGED <<parent, children, lines, begun>>

PtNext == fork \/ proj4_proc_show \/ list_for_each \/ Return0
PtSpec == PtInit /\ [][PtNext]_pt_vars
-----------------------------------------------------------------------------
(* The text can be read as the tree: a line at the margin is init_task's   *)
(* or one of its children's; above any other, the last line indented less  *)
(* is its parent's.  No task is printed twice, and when the walk is over   *)
(* no task is missing that was there at its start, whatever was forked     *)
(* meanwhile.                                                              *)
TreeReadable ==
  /\ \A i, j \in DOMAIN lines : i # j => lines[i].task # lines[j].task
  /\ \A k \in DOMAIN lines \ {1} :
       IF lines[k].indent = 0
       THEN parent[lines[k].task] = lines[1].task
       ELSE \E j \in 1..k - 1 :
              /\ lines[j].task = parent[lines[k].task]
              /\ lines[j].indent < lines[k].indent
              /\ \A i \in j + 1..k - 1 : lines[i].indent >= lines[k].indent
  /\ walk = <<>> /\ lines # <<>> =>
       \A t \in 0..begun : \E k \in DOMAIN lines : lines[k].task = t
=============================================================================
