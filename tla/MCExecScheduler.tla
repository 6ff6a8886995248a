--------------------------- MODULE MCExecScheduler ---------------------------
(***************************************************************************)
(* The scheduler and its callbacks with a few interchangeable tasks, and   *)
(* the Exec lists that tasks and all else are linked in, as they lie in    *)
(* memory.  A behaviour is one of the two.                                 *)
(***************************************************************************)
EXTENDS ExecScheduler, ExecLists

CONSTANT n1

VARIABLE part

Pri == [n \in Nodes |-> IF n = n1 THEN 1 ELSE 0]
Symmetry == Permutations(Tasks) \cup Permutations(Lists)

TaskListVars == <<part, exec_vars, list_vars>>

TaskListInit ==
  /\ part \in {"tasks", "lists"}
  /\ ExecInit /\ ListsInit

TaskListNext ==
  /\ UNCHANGED part
  /\ \/ part = "tasks" /\ ExecNext /\ UNCHANGED list_vars
     \/ part = "lists" /\ ListsNext /\ UNCHANGED exec_vars
     \/ list_error /\ UNCHANGED <<exec_vars, list_vars>>

TaskListSpec == TaskListInit /\ [][TaskListNext]_TaskListVars
==============================================================================
