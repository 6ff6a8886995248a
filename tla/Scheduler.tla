------------------------------ MODULE Scheduler ------------------------------
(***************************************************************************)
(* The cooperative task scheduler of vamos (vamos/schedule/scheduler.py)   *)
(* and the tasks it runs (vamos/schedule/task.py).                         *)
(*                                                                         *)
(* Every task runs in a greenlet of its own, and schedule() runs in the    *)
(* main greenlet.  Only one greenlet executes at a time and control moves  *)
(* only where the code switches, so a step here is what one greenlet does  *)
(* from one such point to the next.  ctl says who executes:                *)
(*   "setup"   the caller of add_task() and schedule(), before schedule()  *)
(*   "loop"    the main loop of schedule()                                 *)
(*   "task"    the greenlet of cur_task                                    *)
(*   "done"    schedule() returned True                                    *)
(*   "stuck"   schedule() returned False ("no task to run?!")              *)
(*   "raised"  an exception left schedule(); error names it                *)
(***************************************************************************)
EXTENDS Integers, SequencesExt

CONSTANTS
    Tasks,      \* the task objects
    NoTask,     \* Python's None where a task is expected
    Signals,    \* the signal bits the tasks use
    MaxForbid,  \* bound on the nesting of forbid() and of permit()
    Calls       \* which of the optional calls below the tasks make

(***************************************************************************)
(* "forbid"          forbid() and permit()                                 *)
(* "wait_forbidden"  wait() inside a forbid()                              *)
(* "rem_task"        rem_task() on another task                            *)
(* "code"            m68k code, by a native task or in a sub_run()         *)
(* "fail"            a task function ends in an uncaught exception         *)
(***************************************************************************)
AllCalls == {"forbid", "wait_forbidden", "rem_task", "code", "fail"}

ASSUME NoTaskAssumption == NoTask \notin Tasks
ASSUME MaxForbidAssumption == MaxForbid \in Nat
ASSUME CallsAssumption == Calls \subseteq AllCalls

VARIABLES
    ready_tasks,        \* Scheduler.ready_tasks
    waiting_tasks,      \* Scheduler.waiting_tasks
    cur_task,           \* Scheduler.cur_task
    running,            \* Scheduler.running
    ctl,                \* which greenlet executes
    error,              \* the exception that left schedule()
    events,             \* the SchedulerEvents the last step reported, in order
    state,              \* per task: TaskBase.state
    pc,                 \* per task: where its greenlet is
    forbid_cnt,         \* per task: TaskBase.forbid_cnt
    forbid_reschedule,  \* per task: TaskBase.forbid_reschedule
    sigmask_wait,       \* per task: TaskBase.sigmask_wait
    sigmask_received,   \* per task: TaskBase.sigmask_received
    in_code,            \* the tasks whose runtime.is_running()
    cpu,                \* whose registers are in the CPU
    cpu_ctx             \* per task: whose registers TaskBase.cpu_ctx holds

lists == <<ready_tasks, waiting_tasks, cur_task>>
forbids == <<forbid_cnt, forbid_reschedule>>
sigs == <<sigmask_wait, sigmask_received>>
machine == <<in_code, cpu, cpu_ctx>>
vars == <<lists, running, ctl, error, events, state, pc, forbids, sigs, machine>>

TaskState == {"TS_INVALID", "TS_ADDED", "TS_RUN", "TS_READY", "TS_WAIT", "TS_REMOVED"}
EventType == {"ACTIVE_TASK", "WAITING_TASK", "ADD_TASK", "REMOVE_TASK",
              "WAKE_UP_TASK", "READY_TASK"}
Ended == {"done", "stuck", "raised"}

\* greenlet not started, in the task's code, suspended in wait(), finished
PC == {"new", "run", "wait", "dead"}

Event(type, task) == <<type, task>>

Init ==
    /\ ready_tasks = <<>> /\ waiting_tasks = <<>> /\ cur_task = NoTask
    /\ running = FALSE
    /\ ctl = "setup" /\ error = "none" /\ events = <<>>
    /\ state = [t \in Tasks |-> "TS_INVALID"]
    /\ pc = [t \in Tasks |-> "new"]
    /\ forbid_cnt = [t \in Tasks |-> 0]
    /\ forbid_reschedule = [t \in Tasks |-> FALSE]
    /\ sigmask_wait = [t \in Tasks |-> {}]
    /\ sigmask_received = [t \in Tasks |-> {}]
    /\ in_code = {} /\ cpu = NoTask /\ cpu_ctx = [t \in Tasks |-> NoTask]

-----------------------------------------------------------------------------
(* Setting up: add_task() for every task of the mode, then schedule().      *)

add_task(t) ==
    /\ ctl = "setup"
    /\ state[t] = "TS_INVALID"
    /\ ready_tasks' = Append(ready_tasks, t)
    /\ state' = [state EXCEPT ![t] = "TS_ADDED"]
    /\ events' = IF running THEN <<Event("ADD_TASK", t)>> ELSE <<>>
    /\ UNCHANGED <<waiting_tasks, cur_task, running, ctl, error, pc, forbids, sigs, machine>>

schedule ==
    /\ ctl = "setup"
    /\ ready_tasks # <<>>
    /\ running' = TRUE
    /\ ctl' = "loop"
    /\ events' = [i \in 1..Len(ready_tasks) |-> Event("ADD_TASK", ready_tasks[i])]
    /\ UNCHANGED <<lists, error, state, pc, forbids, sigs, machine>>

-----------------------------------------------------------------------------
(* The main loop of schedule().                                             *)

get_num_tasks ==
    Len(ready_tasks) + Len(waiting_tasks) + (IF cur_task = NoTask THEN 0 ELSE 1)

is_forbidden(t) == forbid_cnt[t] > 0

\* Mutant: the loop does not ask for the forbid state
CurForbids_never == FALSE

\* The loop lets the current task go on if it is in a forbid().
CurForbids == cur_task # NoTask /\ is_forbidden(cur_task)

\* task.switch(): enter the greenlet, for the first time or where it left off
switch(t) ==
    /\ ctl' = "task"
    /\ pc' = [pc EXCEPT ![t] = IF @ = "new" THEN "run" ELSE @]

\* _find_run_task() keeps the current task if it does not wait
Runnable(t) == state[t] \in {"TS_READY", "TS_RUN"}

\* Mutant: the reschedule that a forbid() holds back is forgotten
keep_scheduled_forget(t) == UNCHANGED forbid_reschedule

\* "set a flag that we scheduled and kept the task"
keep_scheduled(t) ==
    forbid_reschedule' = [forbid_reschedule EXCEPT ![t] = @ \/ is_forbidden(t)]

\* the current task stays
LoopKeep ==
    /\ ctl = "loop"
    /\ cur_task # NoTask
    /\ \/ is_forbidden(cur_task)
       \/ ready_tasks = <<>> /\ Runnable(cur_task)
    /\ keep_scheduled(cur_task)
    /\ switch(cur_task)
    /\ events' = <<>>
    /\ UNCHANGED <<lists, running, error, state, forbid_cnt, sigs, machine>>

\* Mutant: the context of the old task is not saved
SwitchContext_nosave(old, new) ==
    /\ cpu' = IF new \in in_code THEN cpu_ctx[new] ELSE cpu
    /\ UNCHANGED <<in_code, cpu_ctx>>

\* save_ctx() of the task switched out, restore_ctx() of the task switched in
SwitchContext(old, new) ==
    /\ cpu_ctx' = IF old \in in_code THEN [cpu_ctx EXCEPT ![old] = cpu] ELSE cpu_ctx
    /\ cpu' = IF new \in in_code THEN cpu_ctx'[new] ELSE cpu
    /\ UNCHANGED in_code

\* the first ready task is taken; a task that still runs goes to the back
LoopSwitch ==
    /\ ctl = "loop"
    /\ ~CurForbids
    /\ ready_tasks # <<>>
    /\ LET task == Head(ready_tasks)
           old  == cur_task
           preempted == old # NoTask /\ old # task /\ state[old] = "TS_RUN"
           st   == IF preempted THEN [state EXCEPT ![old] = "TS_READY"] ELSE state
       IN /\ ready_tasks' = IF preempted THEN Append(Tail(ready_tasks), old)
                                         ELSE Tail(ready_tasks)
          /\ switch(task)
          /\ IF task = old
             THEN events' = <<>> /\ UNCHANGED <<cur_task, state, machine>>
             ELSE /\ cur_task' = task
                  /\ state' = [st EXCEPT ![task] = "TS_RUN"]
                  /\ SwitchContext(old, task)
                  /\ events' = (IF preempted THEN <<Event("READY_TASK", old)>> ELSE <<>>)
                                  \o <<Event("ACTIVE_TASK", task)>>
    /\ UNCHANGED <<waiting_tasks, running, error, forbids, sigs>>

\* nothing to do any more: schedule() returns True
LoopDone ==
    /\ ctl = "loop"
    /\ get_num_tasks = 0
    /\ cur_task' = NoTask
    /\ running' = FALSE
    /\ ctl' = "done"
    /\ events' = <<Event("ACTIVE_TASK", NoTask)>>
    /\ UNCHANGED <<ready_tasks, waiting_tasks, error, state, pc, forbids, sigs, machine>>

\* _find_run_task() finds none: schedule() returns False and cleans up nothing;
\* with no current task either, the lookup of its name raises
LoopNoTask ==
    /\ ctl = "loop"
    /\ ~CurForbids
    /\ ready_tasks = <<>>
    /\ get_num_tasks > 0
    /\ \/ /\ cur_task # NoTask
          /\ ~Runnable(cur_task)
          /\ ctl' = "stuck" /\ UNCHANGED error
       \/ /\ cur_task = NoTask
          /\ ctl' = "raised" /\ error' = "AttributeError"
    /\ events' = <<>>
    /\ UNCHANGED <<lists, running, state, pc, forbids, sigs, machine>>

Loop == LoopKeep \/ LoopSwitch \/ LoopDone \/ LoopNoTask

-----------------------------------------------------------------------------
(* What a task does while it executes.                                      *)

Executes(t) == ctl = "task" /\ cur_task = t /\ pc[t] = "run"

\* reschedule(): also what the slice hook of the runtime calls
reschedule(t) ==
    /\ Executes(t)
    /\ ctl' = "loop"
    /\ events' = <<>>
    /\ UNCHANGED <<lists, running, error, state, pc, forbids, sigs, machine>>

forbid(t) ==
    /\ Executes(t) /\ "forbid" \in Calls
    /\ forbid_cnt[t] < MaxForbid
    /\ forbid_cnt' = [forbid_cnt EXCEPT ![t] = @ + 1]
    /\ events' = <<>>
    /\ UNCHANGED <<lists, running, ctl, error, state, pc, forbid_reschedule, sigs, machine>>

\* the reschedule a forbid() held back is made up for by the last permit()
permit(t) ==
    /\ Executes(t) /\ "forbid" \in Calls
    /\ forbid_cnt[t] > -MaxForbid
    /\ forbid_cnt' = [forbid_cnt EXCEPT ![t] = @ - 1]
    /\ IF forbid_cnt[t] = 1 /\ forbid_reschedule[t]
       THEN /\ forbid_reschedule' = [forbid_reschedule EXCEPT ![t] = FALSE]
            /\ ctl' = "loop"
       ELSE UNCHANGED <<forbid_reschedule, ctl>>
    /\ events' = <<>>
    /\ UNCHANGED <<lists, running, error, state, pc, sigs, machine>>

\* Mutant: the signals already received are not looked at
MustWait_always(t, mask) == TRUE

\* none of the signals of mask is there yet
MustWait(t, mask) == sigmask_received[t] \cap mask = {}

\* wait() returns at once if a signal is there; else the task suspends.
\* Bound: a task that waits in a forbid() does not do so again while the
\* first wait still has it in waiting_tasks.
wait(t, mask) ==
    /\ Executes(t)
    /\ is_forbidden(t) => "wait_forbidden" \in Calls
    /\ ~Contains(waiting_tasks, t)
    /\ MustWait(t, mask)
    /\ sigmask_wait' = [sigmask_wait EXCEPT ![t] = mask]
    /\ waiting_tasks' = Append(waiting_tasks, t)
    /\ state' = [state EXCEPT ![t] = "TS_WAIT"]
    /\ pc' = [pc EXCEPT ![t] = "wait"]
    /\ ctl' = "loop"
    /\ events' = <<Event("WAITING_TASK", t)>>
    /\ UNCHANGED <<ready_tasks, cur_task, running, error, forbids, sigmask_received, machine>>

\* what wait() returns
got_mask(t) == sigmask_received[t] \cap sigmask_wait[t]

\* the rest of wait(), once the scheduler has switched back to the task
leave_wait(t) ==
    /\ ctl = "task" /\ cur_task = t /\ pc[t] = "wait"
    /\ sigmask_wait' = [sigmask_wait EXCEPT ![t] = {}]
    /\ pc' = [pc EXCEPT ![t] = "run"]
    /\ events' = <<>>
    /\ UNCHANGED <<lists, running, ctl, error, state, forbids, sigmask_received, machine>>

\* "add to front"
ReadyFirst(t) == <<t>> \o ready_tasks

\* waiting_tasks.remove()
StopWaiting(t) == RemoveFirst(waiting_tasks, t)

\* wake_up_task(): to the front of ready_tasks, and reschedule;
\* list.remove() raises if the task is not waiting
wake_up_task(t) ==
    IF Contains(waiting_tasks, t)
    THEN /\ waiting_tasks' = StopWaiting(t)
         /\ ready_tasks' = ReadyFirst(t)
         /\ state' = [state EXCEPT ![t] = "TS_READY"]
         /\ events' = <<Event("WAKE_UP_TASK", t)>>
         /\ ctl' = "loop"
         /\ UNCHANGED error
    ELSE /\ ctl' = "raised" /\ error' = "ValueError"
         /\ events' = <<>>
         /\ UNCHANGED <<waiting_tasks, ready_tasks, state>>

\* the task waits for one of the signals received
WakesUp(t, received) == received \cap sigmask_wait[t] # {}

set_signal(t, new_signals, mask) ==
    LET received == new_signals \cup (sigmask_received[t] \ mask)
    IN /\ sigmask_received' = [sigmask_received EXCEPT ![t] = received]
       /\ IF WakesUp(t, received)
          THEN wake_up_task(t)
          ELSE events' = <<>> /\ UNCHANGED <<ready_tasks, waiting_tasks, state, ctl, error>>
       /\ UNCHANGED <<cur_task, running, pc, forbids, sigmask_wait, machine>>

\* find_task_pred_func(): only tasks the scheduler still has are found
find_task(t) == cur_task = t \/ Contains(ready_tasks, t) \/ Contains(waiting_tasks, t)

\* exec Signal() on any task, exec SetSignal() on the caller itself
Signal(c, t, signals) == Executes(c) /\ find_task(t) /\ set_signal(t, signals, signals)
SetSignal(t, new_signals, mask) == Executes(t) /\ set_signal(t, new_signals, mask)

-----------------------------------------------------------------------------
(* The end of a task.                                                       *)

\* Mutant: the task keeps its state
mark_removed_not(t) == UNCHANGED state

mark_removed(t) == state' = [state EXCEPT ![t] = "TS_REMOVED"]

\* a task is looked for as the current one, among the ready, among the waiting
terminate_task(t) ==
    LET isCur == cur_task = t
        isReady == ~isCur /\ Contains(ready_tasks, t)
        isWaiting == ~isCur /\ ~isReady /\ Contains(waiting_tasks, t)
    IN /\ cur_task' = IF isCur THEN NoTask ELSE cur_task
       /\ ready_tasks' = IF isReady THEN RemoveFirst(ready_tasks, t) ELSE ready_tasks
       /\ waiting_tasks' = IF isWaiting THEN RemoveFirst(waiting_tasks, t) ELSE waiting_tasks
       /\ IF find_task(t)
          THEN /\ mark_removed(t)
               /\ events' = IF running THEN <<Event("REMOVE_TASK", t)>> ELSE <<>>
          ELSE events' = <<>> /\ UNCHANGED state

\* the greenlet ends, and control goes to its parent: the main greenlet
EndOf(t) ==
    /\ terminate_task(t)
    /\ pc' = [pc EXCEPT ![t] = "dead"]
    /\ ctl' = "loop"
    /\ UNCHANGED <<running, error, forbids, sigs, machine>>

\* start() gets to its end, or rem_task() stops the caller itself
exit(t) == Executes(t) /\ EndOf(t)

\* rem_task() of another task: its greenlet gets TaskStop where it is
\* suspended; if it never started or is over, main gets the exception
rem_task(c, t) ==
    /\ Executes(c) /\ "rem_task" \in Calls
    /\ t # c
    /\ \/ pc[t] \in {"run", "wait"} /\ EndOf(t)
       \/ /\ pc[t] \in {"new", "dead"} /\ state[t] # "TS_INVALID"
          /\ ctl' = "raised" /\ error' = "TaskStop"
          /\ pc' = [pc EXCEPT ![t] = "dead"]
          /\ events' = <<>>
          /\ UNCHANGED <<lists, running, state, forbids, sigs, machine>>

\* an exception the task does not catch ends schedule()
fail(t) ==
    /\ Executes(t) /\ "fail" \in Calls
    /\ ctl' = "raised" /\ error' = "TaskError"
    /\ pc' = [pc EXCEPT ![t] = "dead"]
    /\ events' = <<>>
    /\ UNCHANGED <<lists, running, state, forbids, sigs, machine>>

-----------------------------------------------------------------------------
(* m68k code: Runtime.start() loads the registers, and the task's own       *)
(* registers are in the CPU until it returns.                               *)

start_code(t) ==
    /\ Executes(t) /\ "code" \in Calls
    /\ t \notin in_code
    /\ in_code' = in_code \cup {t}
    /\ cpu' = t
    /\ events' = <<>>
    /\ UNCHANGED <<lists, running, ctl, error, state, pc, forbids, sigs, cpu_ctx>>

end_code(t) ==
    /\ Executes(t)
    /\ t \in in_code
    /\ in_code' = in_code \ {t}
    /\ events' = <<>>
    /\ UNCHANGED <<lists, running, ctl, error, state, pc, forbids, sigs, cpu, cpu_ctx>>

-----------------------------------------------------------------------------

TaskStep(t) ==
    \/ reschedule(t) \/ forbid(t) \/ permit(t) \/ leave_wait(t)
    \/ exit(t) \/ fail(t) \/ start_code(t) \/ end_code(t)
    \/ \E mask \in SUBSET Signals : wait(t, mask)
    \/ \E u \in Tasks, signals \in SUBSET Signals : Signal(t, u, signals)
    \/ \E new, mask \in SUBSET Signals : SetSignal(t, new, mask)
    \/ \E u \in Tasks : rem_task(t, u)

\* schedule() is over
Terminated == ctl \in Ended /\ UNCHANGED vars

Next ==
    \/ \E t \in Tasks : add_task(t)
    \/ schedule
    \/ Loop
    \/ \E t \in Tasks : TaskStep(t)
    \/ Terminated

Spec == Init /\ [][Next]_vars

(***************************************************************************)
(* Fairness.  The main loop and the code that follows a switch run on by   *)
(* themselves.  A task that executes gives up control some time: m68k code *)
(* because the runtime calls the slice hook when the slice is used up, a   *)
(* Python task because it has to for anyone else to run.  A task that is   *)
(* in a forbid() time and again calls permit() time and again.             *)
(***************************************************************************)
Yields(t) == TaskStep(t) /\ ctl' # "task"

Fairness ==
    /\ WF_vars(Loop)
    /\ \A t \in Tasks : /\ WF_vars(leave_wait(t))
                        /\ WF_vars(Yields(t))
                        /\ SF_vars(is_forbidden(t) /\ permit(t))

FairSpec == Spec /\ Fairness

-----------------------------------------------------------------------------
(* Properties.                                                              *)

TaskOrNone == Tasks \cup {NoTask}

\* The variables of scheduler and tasks have their types.
TypeOK ==
    /\ ready_tasks \in Seq(Tasks) /\ waiting_tasks \in Seq(Tasks)
    /\ cur_task \in TaskOrNone
    /\ running \in BOOLEAN
    /\ ctl \in {"setup", "loop", "task"} \cup Ended
    /\ error \in {"none", "AttributeError", "ValueError", "TaskStop", "TaskError"}
    /\ events \in Seq(EventType \X TaskOrNone)
    /\ state \in [Tasks -> TaskState]
    /\ pc \in [Tasks -> PC]
    /\ forbid_cnt \in [Tasks -> Int]
    /\ forbid_reschedule \in [Tasks -> BOOLEAN]
    /\ sigmask_wait \in [Tasks -> SUBSET Signals]
    /\ sigmask_received \in [Tasks -> SUBSET Signals]
    /\ in_code \subseteq Tasks
    /\ cpu \in TaskOrNone
    /\ cpu_ctx \in [Tasks -> TaskOrNone]

\* No task is twice in one of the lists, or in both (the lists of
\* scheduler.py are only ever appended to, inserted into and popped).
NoDuplicates ==
    /\ IsInjective(ready_tasks) /\ IsInjective(waiting_tasks)
    /\ ToSet(ready_tasks) \cap ToSet(waiting_tasks) = {}

\* Every task is where its state says: the loop finds runnable tasks by the
\* lists, and decides whether to requeue the old one by its state.
PlacedByState ==
    \A t \in Tasks :
        /\ Contains(ready_tasks, t) <=> state[t] \in {"TS_ADDED", "TS_READY"}
        /\ Contains(waiting_tasks, t) <=> state[t] = "TS_WAIT"
        /\ state[t] = "TS_RUN" => cur_task = t
        /\ cur_task = t /\ ctl = "task" => state[t] = "TS_RUN"
        /\ cur_task = t => state[t] \in {"TS_RUN", "TS_WAIT"}

\* No lost wake-up: set_signal() never leaves a task in waiting_tasks that
\* has one of the signals it waits for.
NoLostWakeup ==
    \A t \in Tasks : Contains(waiting_tasks, t) => got_mask(t) = {}

\* wait() returns with a signal: "we will return here if we were removed from
\* waiting list and our got mask is not empty anymore" (task.py).
WaitDelivers ==
    \A t \in Tasks : ctl = "task" /\ cur_task = t /\ pc[t] = "wait" => got_mask(t) # {}

\* forbid(): "do not switch away from my task until permit() is called";
\* only its own end takes the CPU from a task that is in a forbid().
ForbidKeepsTask ==
    [][\A t \in Tasks : cur_task = t /\ is_forbidden(t) =>
            cur_task' = t \/ state'[t] = "TS_REMOVED"]_vars

\* Whatever the interleaving, a task that executes m68k code finds its own
\* registers: save_ctx() and restore_ctx() pair up across all switches.
OwnRegisters ==
    ctl = "task" /\ cur_task \in in_code => cpu = cur_task

\* Woken tasks run before all others: insertion at the front of ready_tasks
\* lets a task leave wait(), and clear its sigmask_wait, before any other ready
\* task executes and could signal it again.
WokenFirst ==
    \A t \in Tasks : pc[t] = "wait" /\ state[t] \in {"TS_READY", "TS_RUN"} =>
        \/ cur_task = t
        \/ \E j \in 1..Len(ready_tasks) :
                /\ ready_tasks[j] = t
                /\ \A i \in 1..(j - 1) : pc[ready_tasks[i]] = "wait"

\* schedule() gives up with tasks left only when every one of them waits for
\* a signal that nobody can send any more.
GivesUpOnlyOnDeadlock ==
    ctl = "stuck" \/ error = "AttributeError" =>
        /\ waiting_tasks # <<>>
        /\ \A t \in Tasks : state[t] \in {"TS_INVALID", "TS_REMOVED"}
                            \/ (state[t] = "TS_WAIT" /\ got_mask(t) = {})

\* schedule() returns True only when every task that was added has ended.
DoneMeansAllEnded ==
    ctl = "done" => \A t \in Tasks : state[t] \in {"TS_INVALID", "TS_REMOVED"}

\* No ready task starves, whatever the others do with signals, forbid() and
\* permit(): it becomes the current one, is removed, or schedule() ends.
NoStarvation ==
    \A t \in Tasks : Contains(ready_tasks, t) /\ ctl # "setup" ~>
                     (cur_task = t \/ state[t] = "TS_REMOVED" \/ ctl \in Ended)

\* Each task is in the one place its state names, and in it once, whatever the
\* interleaving of slices, wake-ups, removals and failures (Scheduler).
TasksPlaced == TypeOK /\ NoDuplicates /\ PlacedByState

\* wait() and set_signal() meet in any order: no waiting task misses a signal it waits
\* for, and none goes on without one (TaskBase).
SignalsArrive == NoLostWakeup /\ WaitDelivers

\* schedule() goes on with the right task, on its own registers, and returns only when
\* there is nothing to go on with (Scheduler.schedule()).
RightTaskRuns == OwnRegisters /\ WokenFirst /\ GivesUpOnlyOnDeadlock /\ DoneMeansAllEnded
==============================================================================
