---------------------------- MODULE ExecScheduler ----------------------------
(***************************************************************************)
(* The scheduler composed with its two event callbacks: ExecScheduler      *)
(* (vamos/task/execscheduler.py), which keeps exec.library's view of the   *)
(* tasks in Amiga memory, and scheduler_event_callback() (vamos/libmgr/    *)
(* setup.py), which tells the library functions on whose behalf they run.  *)
(*                                                                         *)
(* A task's Node is in at most one Exec list, so the two lists are         *)
(* sequences; linking a node a second time or unlinking one that is in no  *)
(* list makes lists_ok false and the lists mean nothing from there on.     *)
(***************************************************************************)
EXTENDS Scheduler

VARIABLE exec   \* exec.library's TaskReady, TaskWait and ThisTask; ctx.task

exec_vars == <<vars, exec>>

ExecInit ==
    /\ Init
    /\ exec = [task_ready |-> <<>>, task_wait |-> <<>>, this_task |-> NoTask,
               ctx_task |-> NoTask, lists_ok |-> TRUE]

Linked(ex, t) == Contains(ex.task_ready, t) \/ Contains(ex.task_wait, t)

\* Node.remove()
remove(ex, t) ==
    [ex EXCEPT !.task_ready = RemoveFirst(@, t), !.task_wait = RemoveFirst(@, t),
               !.lists_ok = @ /\ Linked(ex, t)]

\* List.add_head() and List.add_tail()
add_head_ready(ex, t) ==
    [ex EXCEPT !.task_ready = <<t>> \o @, !.lists_ok = @ /\ ~Linked(ex, t)]
add_head_wait(ex, t) ==
    [ex EXCEPT !.task_wait = <<t>> \o @, !.lists_ok = @ /\ ~Linked(ex, t)]

add_tail_ready(ex, t) ==
    [ex EXCEPT !.task_ready = Append(@, t), !.lists_ok = @ /\ ~Linked(ex, t)]

\* scheduler_event_callback()
set_cur_task(ex, t) == [ex EXCEPT !.ctx_task = t]

on_wake_up(ex, t) == add_head_ready(remove(ex, t), t)

\* Mutant: a task that is ready again goes to TaskWait
on_ready_waits(ex, t) == add_head_wait(ex, t)

on_ready(ex, t) == add_head_ready(ex, t)

\* event_handler(); REMOVE_TASK is not among the events it handles
event_handler(ex, ev) ==
    LET type == ev[1]
        t == ev[2]
    IN CASE type = "ACTIVE_TASK" ->
              LET unlinked == IF t = NoTask THEN ex ELSE remove(ex, t)
              IN set_cur_task([unlinked EXCEPT !.this_task = t], t)
         [] type = "READY_TASK" -> on_ready(ex, t)
         [] type = "WAITING_TASK" -> add_head_wait(ex, t)
         [] type = "WAKE_UP_TASK" -> on_wake_up(ex, t)
         [] type = "ADD_TASK" -> add_tail_ready(ex, t)
         [] OTHER -> ex

\* the events of a step reach the callbacks one after the other
Handled(ex, evs) ==
    LET after[n \in 0..Len(evs)] == IF n = 0 THEN ex ELSE event_handler(after[n - 1], evs[n])
    IN after[Len(evs)]

\* every step delivers the events it reports to the callbacks
ExecNext ==
    \/ /\ ctl \notin Ended
       /\ exec.lists_ok
       /\ Next
       /\ exec' = Handled(exec, events')
    \/ Terminated /\ UNCHANGED exec

ExecSpec == ExecInit /\ [][ExecNext]_exec_vars

\* exec FindTask(): the caller, or a task with that name in one of the lists
FindTask(t) == exec.ctx_task = t \/ Linked(exec, t)

-----------------------------------------------------------------------------

\* exec.library's lists hold task nodes, ThisTask and ctx.task a task or none.
ExecTypeOK ==
    /\ exec.task_ready \in Seq(Tasks) /\ exec.task_wait \in Seq(Tasks)
    /\ exec.this_task \in TaskOrNone /\ exec.ctx_task \in TaskOrNone
    /\ exec.lists_ok \in BOOLEAN

\* The scheduler's order of events never links a task's node twice and never
\* unlinks one that is in no list, so the Exec lists stay intact.
NodesLinkedOnce == exec.lists_ok

\* "The ExecScheduler syns the scheduler state into the ExecLibrary": once
\* schedule() runs, TaskReady and TaskWait hold the tasks the scheduler has
\* ready and waiting.
ExecListsMirror ==
    ctl \in {"loop", "task"} =>
        /\ ToSet(exec.task_ready) = ToSet(ready_tasks)
        /\ ToSet(exec.task_wait) = ToSet(waiting_tasks)

\* Library functions act for the task that executes: Wait(), Forbid() and
\* AllocSignal() reach the caller, and FindTask(NULL) names it.
CallerIsCurrent ==
    ctl = "task" => exec.this_task = cur_task /\ exec.ctx_task = cur_task

\* FindTask() finds a task as long as it is scheduled, and no longer.
FindTaskExact ==
    ctl = "task" => \A t \in Tasks :
        FindTask(t) <=> state[t] \in {"TS_ADDED", "TS_READY", "TS_RUN", "TS_WAIT"}

\* What programs see of the scheduler in Amiga memory is what it does: lists, ThisTask
\* and FindTask() (ExecScheduler, ctx.task).
ExecMirrors == ExecTypeOK /\ NodesLinkedOnce /\ ExecListsMirror /\ CallerIsCurrent /\ FindTaskExact
==============================================================================
