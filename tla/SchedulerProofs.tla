--------------------------- MODULE SchedulerProofs ---------------------------
(***************************************************************************)
(* Proofs about the scheduler, for any set of tasks and of signals, of     *)
(* tasks that do not call wait() inside a forbid(), and about its event    *)
(* callbacks, without rem_task() on another task as well.                  *)
(***************************************************************************)
EXTENDS ExecScheduler, ListLemmas

(***************************************************************************)
(* The inductive invariant.  Beyond the properties themselves it says that *)
(* a waiting task is not in a forbid(), so the loop cannot keep it, and    *)
(* that a task taken out of waiting_tasks has a signal from then on.       *)
(***************************************************************************)
ListsInjective == IsInjective(ready_tasks) /\ IsInjective(waiting_tasks)

WaitingNotForbidden == \A t \in Tasks : state[t] = "TS_WAIT" => ~is_forbidden(t)

WokenHasSignal ==
    \A t \in Tasks : pc[t] = "wait" /\ state[t] \notin {"TS_WAIT", "TS_REMOVED"}
                        => got_mask(t) # {}

Inv ==
    /\ TypeOK
    /\ ListsInjective
    /\ PlacedByState
    /\ WaitingNotForbidden
    /\ NoLostWakeup
    /\ WokenHasSignal

USE NoTaskAssumption, MaxForbidAssumption

-----------------------------------------------------------------------------
\* A new scheduler satisfies the invariant.
LEMMA InitInv == Init => Inv
<1> SUFFICES ASSUME Init PROVE Inv
  OBVIOUS
<1>1. \A t : ~Contains(<<>>, t)
  BY DEF Contains
<1>2. IsInjective(<<>>)
  BY DEF IsInjective
<1>3. TypeOK
  <2>1. running \in BOOLEAN /\ forbid_reschedule \in [Tasks -> BOOLEAN]
    BY Zenon DEF Init
  <2> QED BY <2>1 DEF Init, TypeOK, TaskState, PC, TaskOrNone, EventType, Ended
<1> QED BY <1>1, <1>2, <1>3 DEF Init, Inv, ListsInjective, PlacedByState,
          WaitingNotForbidden, NoLostWakeup, WokenHasSignal, got_mask, is_forbidden

\* add_task() preserves it: the new task is in no list yet.
LEMMA AddTaskInv ==
    ASSUME Inv, NEW t \in Tasks, add_task(t) PROVE Inv'
<1> USE DEF Inv
<1>1. /\ ready_tasks' \in Seq(Tasks)
      /\ \A x : Contains(ready_tasks', x) <=> Contains(ready_tasks, x) \/ x = t
      /\ IsInjective(ready_tasks')
  BY AppendFacts DEF add_task, TypeOK, ListsInjective, PlacedByState
<1>2. events' \in Seq(EventType \X TaskOrNone)
  <2>1. <<Event("ADD_TASK", t)>> \in Seq(EventType \X TaskOrNone)
    BY DEF Event, EventType, TaskOrNone
  <2>2. events' = <<Event("ADD_TASK", t)>> \/ events' = <<>>
    BY Zenon DEF add_task
  <2>3. <<>> \in Seq(EventType \X TaskOrNone)
    OBVIOUS
  <2> QED BY <2>1, <2>2, <2>3, Zenon
<1>3. TypeOK'
  BY <1>1, <1>2 DEF add_task, TypeOK, TaskState, forbids, sigs, machine
<1>4. PlacedByState'
  BY <1>1 DEF add_task, PlacedByState, TypeOK
<1> QED BY <1>1, <1>3, <1>4 DEF add_task, TypeOK, ListsInjective, WaitingNotForbidden, NoLostWakeup,
          WokenHasSignal, got_mask, is_forbidden, forbids, sigs, PlacedByState

\* The start of schedule() preserves it.
LEMMA ScheduleInv ==
    ASSUME Inv, schedule PROVE Inv'
<1> USE DEF Inv
<1>1. events' \in Seq(EventType \X TaskOrNone)
  <2>1. \A i \in 1..Len(ready_tasks) : Event("ADD_TASK", ready_tasks[i]) \in EventType \X TaskOrNone
    BY DEF Event, EventType, TaskOrNone, TypeOK
  <2> QED BY <2>1 DEF schedule, TypeOK
<1>2. TypeOK'
  BY <1>1 DEF schedule, TypeOK, lists, forbids, sigs, machine
<1> QED BY <1>2 DEF schedule, lists, ListsInjective, PlacedByState, WaitingNotForbidden, NoLostWakeup,
          WokenHasSignal, got_mask, is_forbidden, forbids, sigs

-----------------------------------------------------------------------------
\* The loop that stays with the current task because of a forbid().
LEMMA LoopKeepInv ==
    ASSUME Inv, LoopKeep PROVE Inv'
<1> USE DEF Inv
<1>1. cur_task \in Tasks
  BY DEF LoopKeep, TypeOK, TaskOrNone
<1>2. state[cur_task] = "TS_RUN"
  BY <1>1 DEF LoopKeep, Runnable, PlacedByState, WaitingNotForbidden
<1>3. /\ pc' \in [Tasks -> PC]
      /\ \A u \in Tasks : pc'[u] = "wait" => pc[u] = "wait"
  BY <1>1 DEF LoopKeep, switch, TypeOK, PC
<1>4. TypeOK'
  BY <1>1, <1>3 DEF LoopKeep, keep_scheduled, switch, TypeOK, lists, sigs, machine, is_forbidden
<1> QED BY <1>1, <1>2, <1>3, <1>4 DEF LoopKeep, switch, lists, ListsInjective, PlacedByState,
          WaitingNotForbidden, NoLostWakeup, WokenHasSignal, got_mask, is_forbidden, sigs

\* The loop that requeues the old task and switches to the first ready one.
LEMMA LoopSwitchInv ==
    ASSUME Inv, LoopSwitch PROVE Inv'
<1> USE DEF Inv
<1> DEFINE task == Head(ready_tasks)
           old == cur_task
           preempted == old # NoTask /\ old # task /\ state[old] = "TS_RUN"
<1>1. /\ task \in Tasks /\ Contains(ready_tasks, task)
      /\ Tail(ready_tasks) \in Seq(Tasks)
      /\ IsInjective(Tail(ready_tasks))
      /\ \A x : Contains(Tail(ready_tasks), x) <=> Contains(ready_tasks, x) /\ x # task
  BY TailFacts DEF LoopSwitch, TypeOK, ListsInjective
<1>2. task # old /\ state[task] \in {"TS_ADDED", "TS_READY"}
  BY <1>1 DEF PlacedByState
<1>3. preempted => old \in Tasks /\ ~Contains(Tail(ready_tasks), old)
  BY <1>1 DEF TypeOK, TaskOrNone, PlacedByState
<1>4. /\ ready_tasks' \in Seq(Tasks)
      /\ IsInjective(ready_tasks')
      /\ \A x : Contains(ready_tasks', x) <=> \/ Contains(ready_tasks, x) /\ x # task
                                              \/ preempted /\ x = old
  <2>1. CASE preempted
    <3>1. ready_tasks' = Append(Tail(ready_tasks), old)
      BY <2>1 DEF LoopSwitch
    <3> HIDE DEF Inv, preempted, old, task
    <3>2. /\ Append(Tail(ready_tasks), old) \in Seq(Tasks)
          /\ IsInjective(Append(Tail(ready_tasks), old))
          /\ \A x : Contains(Append(Tail(ready_tasks), old), x) <=>
                    Contains(Tail(ready_tasks), x) \/ x = old
      BY <1>1, <1>3, <2>1, AppendFacts
    <3> QED BY <1>1, <2>1, <3>1, <3>2, Zenon
  <2>2. CASE ~preempted
    BY <1>1, <2>2 DEF LoopSwitch
  <2> QED BY <2>1, <2>2
<1>5. /\ cur_task' = task
      /\ state' \in [Tasks -> TaskState]
      /\ \A u \in Tasks : state'[u] = IF u = task THEN "TS_RUN"
                                      ELSE IF preempted /\ u = old THEN "TS_READY" ELSE state[u]
  <2>1. CASE preempted
    BY <1>1, <1>2, <1>3, <2>1 DEF LoopSwitch, TypeOK, TaskState
  <2>2. CASE ~preempted
    BY <1>1, <1>2, <2>2 DEF LoopSwitch, TypeOK, TaskState
  <2> QED BY <2>1, <2>2
<1>6. /\ pc' \in [Tasks -> PC]
      /\ \A u \in Tasks : pc'[u] = "wait" => pc[u] = "wait"
      /\ ctl' = "task"
  BY <1>1 DEF LoopSwitch, switch, TypeOK, PC
<1>7. /\ cpu_ctx' \in [Tasks -> TaskOrNone]
      /\ cpu' \in TaskOrNone
      /\ in_code' = in_code
  <2>1. SwitchContext(old, task)
    BY <1>2 DEF LoopSwitch
  <2>2. cpu_ctx' \in [Tasks -> TaskOrNone]
    BY <2>1 DEF SwitchContext, TypeOK
  <2>3. cpu' = cpu \/ cpu' = cpu_ctx'[task]
    BY <2>1 DEF SwitchContext
  <2> QED BY <1>1, <2>1, <2>2, <2>3 DEF SwitchContext, TypeOK
<1>8. events' \in Seq(EventType \X TaskOrNone)
  <2>1. Event("ACTIVE_TASK", task) \in EventType \X TaskOrNone
    BY <1>1 DEF Event, EventType, TaskOrNone
  <2>2. preempted => Event("READY_TASK", old) \in EventType \X TaskOrNone
    BY <1>3 DEF Event, EventType, TaskOrNone
  <2>3. events' = (IF preempted THEN <<Event("READY_TASK", old)>> ELSE <<>>)
                     \o <<Event("ACTIVE_TASK", task)>>
    BY <1>2 DEF LoopSwitch
  <2> QED BY <2>1, <2>2, <2>3
<1>9. TypeOK'
  BY <1>1, <1>4, <1>5, <1>6, <1>7, <1>8 DEF LoopSwitch, TypeOK, TaskOrNone, forbids, sigs
<1> HIDE DEF task, old, preempted
<1>10. UNCHANGED <<waiting_tasks, forbids, sigs>>
  BY DEF LoopSwitch
<1>11. PlacedByState'
  BY <1>1, <1>2, <1>3, <1>4, <1>5, <1>6, <1>10 DEF PlacedByState, old, preempted
<1> QED BY <1>1, <1>2, <1>4, <1>5, <1>6, <1>9, <1>10, <1>11 DEF ListsInjective,
          WaitingNotForbidden, NoLostWakeup, WokenHasSignal, got_mask, is_forbidden, forbids, sigs,
          PlacedByState, preempted, old

\* The loop that ends because no task is left.
LEMMA LoopDoneInv ==
    ASSUME Inv, LoopDone PROVE Inv'
<1> USE DEF Inv
<1>1. cur_task = NoTask
  BY DEF LoopDone, get_num_tasks, TypeOK
<1>2. events' \in Seq(EventType \X TaskOrNone)
  BY DEF LoopDone, Event, EventType, TaskOrNone
<1>3. TypeOK'
  BY <1>1, <1>2 DEF LoopDone, TypeOK, TaskOrNone, Ended, forbids, sigs, machine
<1> QED BY <1>1, <1>3 DEF LoopDone, ListsInjective, PlacedByState, WaitingNotForbidden,
          NoLostWakeup, WokenHasSignal, got_mask, is_forbidden, forbids, sigs

\* A step that changes none of the lists, the states, the signals and the
\* forbids, and starts no task, keeps the invariant if it keeps the types.
LEMMA QuietInv ==
    ASSUME Inv, TypeOK', UNCHANGED <<lists, state, sigs, forbid_cnt>>,
           ctl' = "task" => ctl = "task",
           \A t \in Tasks : pc'[t] = "wait" => pc[t] = "wait"
    PROVE  Inv'
BY DEF Inv, lists, ListsInjective, PlacedByState, WaitingNotForbidden,
       NoLostWakeup, WokenHasSignal, got_mask, is_forbidden, sigs

\* The loop that finds no task to run.
LEMMA LoopNoTaskInv ==
    ASSUME Inv, LoopNoTask PROVE Inv'
<1>1. TypeOK'
  BY DEF Inv, LoopNoTask, TypeOK, Ended, lists, forbids, sigs, machine
<1> QED BY <1>1, QuietInv DEF LoopNoTask, lists, forbids, sigs

-----------------------------------------------------------------------------
\* reschedule() by a task, at the end of its slice or by its own will.
LEMMA RescheduleInv ==
    ASSUME Inv, NEW t \in Tasks, reschedule(t) PROVE Inv'
<1>1. TypeOK'
  BY DEF Inv, reschedule, TypeOK, lists, forbids, sigs, machine
<1> QED BY <1>1, QuietInv DEF reschedule, forbids

\* forbid() preserves the invariant.
LEMMA ForbidInv ==
    ASSUME Inv, NEW t \in Tasks, forbid(t) PROVE Inv'
<1> USE DEF Inv
<1>1. TypeOK'
  BY DEF forbid, TypeOK, lists, sigs, machine
<1>2. state[t] = "TS_RUN"
  BY DEF forbid, Executes, PlacedByState
<1>3. \A u \in Tasks : u # t => forbid_cnt'[u] = forbid_cnt[u]
  BY DEF forbid, TypeOK
<1> QED BY <1>1, <1>2, <1>3 DEF forbid, lists, ListsInjective, PlacedByState, WaitingNotForbidden,
          NoLostWakeup, WokenHasSignal, got_mask, is_forbidden, sigs

\* permit(), which may make up for a reschedule that was held back.
LEMMA PermitInv ==
    ASSUME Inv, NEW t \in Tasks, permit(t) PROVE Inv'
<1> USE DEF Inv
<1>1. /\ forbid_reschedule' \in [Tasks -> BOOLEAN]
      /\ ctl' \in {"loop", ctl}
  <2>1. \/ forbid_reschedule' = [forbid_reschedule EXCEPT ![t] = FALSE] /\ ctl' = "loop"
        \/ UNCHANGED <<forbid_reschedule, ctl>>
    BY DEF permit
  <2>2. forbid_reschedule \in [Tasks -> BOOLEAN] /\ ctl \in {"loop", ctl}
    BY DEF TypeOK
  <2>3. FALSE \in BOOLEAN
    BY Zenon
  <2>4. [forbid_reschedule EXCEPT ![t] = FALSE] \in [Tasks -> BOOLEAN]
    BY <2>2, <2>3
  <2> QED BY <2>1, <2>2, <2>4
<1>2. TypeOK'
  <2>1. forbid_cnt' \in [Tasks -> Int]
    BY DEF permit, TypeOK
  <2>2. /\ UNCHANGED <<lists, running, error, state, pc, sigs, machine>>
        /\ events' = <<>>
    BY DEF permit
  <2> QED BY <1>1, <2>1, <2>2 DEF TypeOK, lists, sigs, machine
<1>3. state[t] = "TS_RUN"
  BY DEF permit, Executes, PlacedByState
<1>4. \A u \in Tasks : u # t => forbid_cnt'[u] = forbid_cnt[u]
  BY DEF permit, TypeOK
<1> QED BY <1>1, <1>2, <1>3, <1>4 DEF permit, lists, ListsInjective, PlacedByState,
          WaitingNotForbidden, NoLostWakeup, WokenHasSignal, got_mask, is_forbidden, sigs

\* wait() outside of a forbid(): the task moves to waiting_tasks or has its signal.
LEMMA WaitInv ==
    ASSUME Inv, NEW t \in Tasks, NEW mask \in SUBSET Signals, wait(t, mask),
           "wait_forbidden" \notin Calls
    PROVE  Inv'
<1> USE DEF Inv
<1>1. state[t] = "TS_RUN" /\ cur_task = t /\ ~is_forbidden(t)
  BY DEF wait, Executes, PlacedByState
<1>2. /\ waiting_tasks' \in Seq(Tasks)
      /\ IsInjective(waiting_tasks')
      /\ \A x : Contains(waiting_tasks', x) <=> Contains(waiting_tasks, x) \/ x = t
  BY AppendFacts DEF wait, TypeOK, ListsInjective
<1>3. events' \in Seq(EventType \X TaskOrNone)
  BY DEF wait, Event, EventType, TaskOrNone
<1>4. TypeOK'
  BY <1>2, <1>3 DEF wait, TypeOK, TaskState, PC, forbids, machine
<1>5. PlacedByState'
  BY <1>1, <1>2 DEF wait, PlacedByState, TypeOK
<1>6. NoLostWakeup'
  BY <1>1, <1>2 DEF wait, MustWait, NoLostWakeup, got_mask, TypeOK
<1> QED BY <1>1, <1>2, <1>4, <1>5, <1>6 DEF wait, TypeOK, ListsInjective, WaitingNotForbidden,
          WokenHasSignal, got_mask, is_forbidden, forbids

\* The end of wait(), when the task was switched to again.
LEMMA LeaveWaitInv ==
    ASSUME Inv, NEW t \in Tasks, leave_wait(t) PROVE Inv'
<1> USE DEF Inv
<1>1. TypeOK'
  BY DEF leave_wait, TypeOK, PC, lists, forbids, machine
<1>2. state[t] = "TS_RUN" /\ ~Contains(waiting_tasks, t)
  BY DEF leave_wait, PlacedByState
<1>3. \A u \in Tasks : u # t => pc'[u] = pc[u] /\ sigmask_wait'[u] = sigmask_wait[u]
  BY DEF leave_wait, TypeOK
<1>4. pc'[t] = "run"
  BY DEF leave_wait, TypeOK
<1> QED BY <1>1, <1>2, <1>3, <1>4 DEF leave_wait, lists, ListsInjective, PlacedByState,
          WaitingNotForbidden, NoLostWakeup, WokenHasSignal, got_mask, is_forbidden, forbids

\* set_signal() on a task, by a caller that executes; other signals of a task
\* that has left waiting_tasks may only be cleared by itself.
LEMMA SetSignalInv ==
    ASSUME Inv, NEW t \in Tasks, NEW new \in SUBSET Signals, NEW mask \in SUBSET Signals,
           set_signal(t, new, mask),
           ctl = "task",
           mask \subseteq new \/ pc[t] = "run"
    PROVE  Inv'
<1> USE DEF Inv
<1> DEFINE received == new \cup (sigmask_received[t] \ mask)
<1>1. /\ sigmask_received' = [sigmask_received EXCEPT ![t] = received]
      /\ sigmask_received' \in [Tasks -> SUBSET Signals]
      /\ UNCHANGED <<cur_task, running, pc, forbids, sigmask_wait, machine>>
  BY DEF set_signal, TypeOK
<1>2. \A u \in Tasks : u # t => got_mask(u)' = got_mask(u)
  BY <1>1 DEF got_mask, TypeOK
<1>3. got_mask(t)' = received \cap sigmask_wait[t]
  BY <1>1 DEF got_mask, TypeOK
<1>4. pc[t] = "wait" /\ got_mask(t) # {} => got_mask(t)' # {}
  BY <1>3 DEF got_mask
<1> HIDE DEF received
<1>5. CASE received \cap sigmask_wait[t] # {} /\ Contains(waiting_tasks, t)
  <2>1. /\ waiting_tasks' = RemoveFirst(waiting_tasks, t)
        /\ ready_tasks' = <<t>> \o ready_tasks
        /\ state' = [state EXCEPT ![t] = "TS_READY"]
        /\ events' = <<Event("WAKE_UP_TASK", t)>>
        /\ ctl' = "loop" /\ error' = error
    BY <1>5 DEF set_signal, WakesUp, wake_up_task, StopWaiting, ReadyFirst, received
  <2>2. state[t] = "TS_WAIT" /\ ~Contains(ready_tasks, t) /\ cur_task # t
    BY <1>5 DEF PlacedByState
  <2>3. /\ waiting_tasks' \in Seq(Tasks)
        /\ IsInjective(waiting_tasks')
        /\ \A x : Contains(waiting_tasks', x) <=> Contains(waiting_tasks, x) /\ x # t
    BY <1>5, <2>1, RemoveFacts DEF TypeOK, ListsInjective
  <2>4. /\ ready_tasks' \in Seq(Tasks)
        /\ IsInjective(ready_tasks')
        /\ \A x : Contains(ready_tasks', x) <=> Contains(ready_tasks, x) \/ x = t
    BY <2>1, <2>2, ConsFacts DEF TypeOK, ListsInjective
  <2>5. events' \in Seq(EventType \X TaskOrNone)
    BY <2>1 DEF Event, EventType, TaskOrNone
  <2>6. TypeOK'
    BY <1>1, <2>1, <2>3, <2>4, <2>5 DEF TypeOK, TaskState, forbids, machine
  <2>7. PlacedByState'
    BY <1>1, <2>1, <2>2, <2>3, <2>4 DEF PlacedByState, TypeOK
  <2>8. NoLostWakeup' /\ WokenHasSignal'
    BY <1>1, <1>2, <1>3, <1>5, <2>1, <2>3 DEF NoLostWakeup, WokenHasSignal, TypeOK
  <2> QED BY <1>1, <2>1, <2>3, <2>4, <2>6, <2>7, <2>8 DEF ListsInjective,
            WaitingNotForbidden, is_forbidden, forbids, TypeOK
<1>6. CASE received \cap sigmask_wait[t] # {} /\ ~Contains(waiting_tasks, t)
  <2>1. /\ UNCHANGED <<waiting_tasks, ready_tasks, state>>
        /\ events' = <<>> /\ ctl' = "raised" /\ error' = "ValueError"
    BY <1>6 DEF set_signal, WakesUp, wake_up_task, StopWaiting, ReadyFirst, received
  <2>2. TypeOK'
    BY <1>1, <2>1 DEF TypeOK, Ended, forbids, machine
  <2>3. NoLostWakeup' /\ WokenHasSignal'
    BY <1>1, <1>2, <1>3, <1>6, <2>1 DEF NoLostWakeup, WokenHasSignal
  <2> QED BY <1>1, <2>1, <2>2, <2>3 DEF ListsInjective, PlacedByState,
            WaitingNotForbidden, is_forbidden, forbids
<1>7. CASE received \cap sigmask_wait[t] = {}
  <2>1. /\ UNCHANGED <<waiting_tasks, ready_tasks, state, ctl, error>>
        /\ events' = <<>>
    BY <1>7 DEF set_signal, WakesUp, received
  <2>2. TypeOK'
    BY <1>1, <2>1 DEF TypeOK, forbids, machine
  <2>3. NoLostWakeup' /\ WokenHasSignal'
    BY <1>1, <1>2, <1>3, <1>4, <1>7, <2>1 DEF NoLostWakeup, WokenHasSignal
  <2> QED BY <1>1, <2>1, <2>2, <2>3 DEF ListsInjective, PlacedByState,
            WaitingNotForbidden, is_forbidden, forbids
<1> QED BY <1>5, <1>6, <1>7

-----------------------------------------------------------------------------
\* The end of a task, by its own return or by terminate_task().
LEMMA EndOfInv ==
    ASSUME Inv, NEW t \in Tasks, EndOf(t), ctl = "task" PROVE Inv'
<1> USE DEF Inv
<1>1. /\ pc' = [pc EXCEPT ![t] = "dead"] /\ ctl' = "loop"
      /\ UNCHANGED <<running, error, forbids, sigs, machine>>
      /\ terminate_task(t)
  BY DEF EndOf
<1>2. events' \in Seq(EventType \X TaskOrNone)
  <2>1. <<Event("REMOVE_TASK", t)>> \in Seq(EventType \X TaskOrNone)
    BY DEF Event, EventType, TaskOrNone
  <2>2. events' = <<Event("REMOVE_TASK", t)>> \/ events' = <<>>
    BY <1>1, Zenon DEF terminate_task
  <2>3. <<>> \in Seq(EventType \X TaskOrNone)
    OBVIOUS
  <2> QED BY <2>1, <2>2, <2>3, Zenon
<1>3. CASE cur_task = t
  <2>1. /\ cur_task' = NoTask /\ UNCHANGED <<ready_tasks, waiting_tasks>>
        /\ state' = [state EXCEPT ![t] = "TS_REMOVED"]
    BY <1>1, <1>3 DEF terminate_task, mark_removed, find_task
  <2>2. state[t] = "TS_RUN"
    BY <1>3 DEF PlacedByState
  <2>3. TypeOK'
    BY <1>1, <1>2, <2>1 DEF TypeOK, TaskState, TaskOrNone, PC, forbids, sigs, machine
  <2>4. PlacedByState'
    BY <1>1, <1>3, <2>1, <2>2 DEF PlacedByState, TypeOK
  <2> QED BY <1>1, <2>1, <2>3, <2>4 DEF ListsInjective, WaitingNotForbidden,
            NoLostWakeup, WokenHasSignal, got_mask, is_forbidden, forbids, sigs, TypeOK
<1>4. CASE cur_task # t /\ Contains(ready_tasks, t)
  <2>1. /\ ready_tasks' = RemoveFirst(ready_tasks, t) /\ UNCHANGED <<cur_task, waiting_tasks>>
        /\ state' = [state EXCEPT ![t] = "TS_REMOVED"]
    BY <1>1, <1>4 DEF terminate_task, mark_removed, find_task
  <2>2. /\ ready_tasks' \in Seq(Tasks)
        /\ IsInjective(ready_tasks')
        /\ \A x : Contains(ready_tasks', x) <=> Contains(ready_tasks, x) /\ x # t
    BY <1>4, <2>1, RemoveFacts DEF TypeOK, ListsInjective
  <2>3. TypeOK'
    BY <1>1, <1>2, <2>1, <2>2 DEF TypeOK, TaskState, PC, forbids, sigs, machine
  <2>4. PlacedByState'
    BY <1>1, <1>4, <2>1, <2>2 DEF PlacedByState, TypeOK
  <2> QED BY <1>1, <2>1, <2>2, <2>3, <2>4 DEF ListsInjective, WaitingNotForbidden,
            NoLostWakeup, WokenHasSignal, got_mask, is_forbidden, forbids, sigs, TypeOK
<1>5. CASE cur_task # t /\ ~Contains(ready_tasks, t) /\ Contains(waiting_tasks, t)
  <2>1. /\ waiting_tasks' = RemoveFirst(waiting_tasks, t) /\ UNCHANGED <<cur_task, ready_tasks>>
        /\ state' = [state EXCEPT ![t] = "TS_REMOVED"]
    BY <1>1, <1>5 DEF terminate_task, mark_removed, find_task
  <2>2. /\ waiting_tasks' \in Seq(Tasks)
        /\ IsInjective(waiting_tasks')
        /\ \A x : Contains(waiting_tasks', x) <=> Contains(waiting_tasks, x) /\ x # t
    BY <1>5, <2>1, RemoveFacts DEF TypeOK, ListsInjective
  <2>3. TypeOK'
    BY <1>1, <1>2, <2>1, <2>2 DEF TypeOK, TaskState, PC, forbids, sigs, machine
  <2>4. PlacedByState'
    BY <1>1, <1>5, <2>1, <2>2 DEF PlacedByState, TypeOK
  <2> QED BY <1>1, <2>1, <2>2, <2>3, <2>4 DEF ListsInjective, WaitingNotForbidden,
            NoLostWakeup, WokenHasSignal, got_mask, is_forbidden, forbids, sigs, TypeOK
<1>6. CASE ~find_task(t)
  <2>1. UNCHANGED <<lists, state>>
    BY <1>1, <1>6 DEF terminate_task, find_task, lists
  <2>2. TypeOK'
    BY <1>1, <1>2, <2>1 DEF TypeOK, PC, lists, forbids, sigs, machine
  <2> QED BY <1>1, <2>1, <2>2, QuietInv DEF forbids, TypeOK
<1> QED BY <1>3, <1>4, <1>5, <1>6 DEF find_task

\* rem_task() of any task, the caller itself included.
LEMMA RemTaskInv ==
    ASSUME Inv, NEW c \in Tasks, NEW t \in Tasks, rem_task(c, t) PROVE Inv'
<1>1. ctl = "task"
  BY DEF rem_task, Executes
<1>2. CASE EndOf(t)
  BY <1>1, <1>2, EndOfInv
<1>3. CASE ~EndOf(t)
  <2>1. /\ ctl' = "raised" /\ error' = "TaskStop" /\ events' = <<>>
        /\ pc' = [pc EXCEPT ![t] = "dead"]
        /\ UNCHANGED <<lists, running, state, forbids, sigs, machine>>
    BY <1>3 DEF rem_task
  <2>2. TypeOK'
    BY <2>1 DEF Inv, TypeOK, PC, Ended, lists, forbids, sigs, machine
  <2> QED BY <2>1, <2>2, QuietInv DEF Inv, TypeOK, forbids
<1> QED BY <1>2, <1>3

\* A task function that ends in an exception, which leaves schedule().
LEMMA FailInv ==
    ASSUME Inv, NEW t \in Tasks, fail(t) PROVE Inv'
<1>1. TypeOK'
  BY DEF Inv, fail, TypeOK, PC, Ended, lists, forbids, sigs, machine
<1> QED BY <1>1, QuietInv DEF Inv, TypeOK, fail, forbids

\* Entering and leaving m68k code changes no list and no state.
LEMMA CodeInv ==
    ASSUME Inv, NEW t \in Tasks, start_code(t) \/ end_code(t) PROVE Inv'
<1>1. TypeOK'
  <2>1. CASE start_code(t)
    BY <2>1 DEF Inv, start_code, TypeOK, TaskOrNone, lists, forbids, sigs
  <2>2. CASE end_code(t)
    BY <2>2 DEF Inv, end_code, TypeOK, lists, forbids, sigs
  <2> QED BY <2>1, <2>2
<1> QED BY <1>1, QuietInv DEF start_code, end_code, forbids

-----------------------------------------------------------------------------
\* Every step preserves the invariant, if no task waits inside a forbid().
LEMMA NextInv ==
    ASSUME "wait_forbidden" \notin Calls, Inv, [Next]_vars PROVE Inv'
<1>1. CASE UNCHANGED vars
  BY <1>1 DEF Inv, vars, lists, forbids, sigs, machine, TypeOK, ListsInjective, PlacedByState,
     WaitingNotForbidden, NoLostWakeup, WokenHasSignal, got_mask, is_forbidden
<1>2. ASSUME NEW t \in Tasks, TaskStep(t)
      PROVE  Inv'
  <2>1. ASSUME NEW u \in Tasks, NEW signals \in SUBSET Signals, Signal(t, u, signals)
        PROVE  Inv'
    BY <2>1, SetSignalInv DEF Signal, Executes
  <2>2. ASSUME NEW new \in SUBSET Signals, NEW mask \in SUBSET Signals, SetSignal(t, new, mask)
        PROVE  Inv'
    BY <2>2, SetSignalInv DEF SetSignal, Executes
  <2>3. CASE exit(t)
    BY <2>3, EndOfInv DEF exit, Executes
  <2> QED BY <1>2, <2>1, <2>2, <2>3, RescheduleInv, ForbidInv, PermitInv, LeaveWaitInv,
            FailInv, CodeInv, WaitInv, RemTaskInv DEF TaskStep
<1>3. CASE Loop
  BY <1>3, LoopKeepInv, LoopSwitchInv, LoopDoneInv, LoopNoTaskInv DEF Loop
<1> QED BY <1>1, <1>2, <1>3, AddTaskInv, ScheduleInv DEF Next, Terminated

\* The inductive invariant holds in every reachable state of the scheduler,
\* for tasks that never call wait() inside a forbid().
THEOREM Invariance == ASSUME "wait_forbidden" \notin Calls PROVE Spec => []Inv
<1>1. Init => Inv
  BY InitInv
<1>2. Inv /\ [Next]_vars => Inv'
  BY NextInv
<1> QED BY <1>1, <1>2, PTL DEF Spec

\* Every variable of the scheduler keeps its type.
THEOREM TypeCorrect == ASSUME "wait_forbidden" \notin Calls PROVE Spec => []TypeOK
<1>1. Inv => TypeOK
  BY DEF Inv
<1> QED BY <1>1, Invariance, PTL

\* No task is ever twice in the lists, and every task is in the list its state
\* names: add_task(), the loop, wait(), wake_up_task() and terminate_task()
\* keep the lists and the states together.
THEOREM Placement ==
    ASSUME "wait_forbidden" \notin Calls PROVE Spec => []TasksPlaced
<1>1. Inv => NoDuplicates
  <2> SUFFICES ASSUME Inv PROVE ToSet(ready_tasks) \cap ToSet(waiting_tasks) = {}
    BY DEF Inv, ListsInjective, NoDuplicates
  <2>1. \A t \in Tasks : ~(Contains(ready_tasks, t) /\ Contains(waiting_tasks, t))
    BY DEF Inv, PlacedByState
  <2>2. ready_tasks \in Seq(Tasks) /\ waiting_tasks \in Seq(Tasks)
    BY DEF Inv, TypeOK
  <2> QED BY <2>1, <2>2 DEF ToSet, Contains
<1>2. Inv => TasksPlaced
  BY <1>1, Zenon DEF Inv, TasksPlaced
<1> QED BY <1>2, Invariance, PTL

\* set_signal() loses no wake-up, and wait() only returns with a signal.
THEOREM Signalling ==
    ASSUME "wait_forbidden" \notin Calls PROVE Spec => []SignalsArrive
<1>1. Inv => NoLostWakeup /\ WaitDelivers
  BY DEF Inv, WokenHasSignal, WaitDelivers, PlacedByState
<1>2. Inv => SignalsArrive
  BY <1>1, Zenon DEF SignalsArrive
<1> QED BY <1>2, Invariance, PTL

\* Only its own end takes the CPU from a task that is in a forbid(), whatever
\* the other tasks and the slice hook do.
THEOREM Forbidding ==
    ASSUME "wait_forbidden" \notin Calls PROVE Spec => ForbidKeepsTask
<1>1. ASSUME Inv, [Next]_vars, NEW t \in Tasks, cur_task = t, is_forbidden(t)
      PROVE  cur_task' = t \/ state'[t] = "TS_REMOVED"
  <2>1. CASE UNCHANGED vars
    BY <1>1, <2>1 DEF vars, lists
  <2>2. CASE Loop
    BY <1>1, <2>2 DEF Loop, LoopKeep, LoopSwitch, LoopDone, LoopNoTask, CurForbids,
       get_num_tasks, lists, Inv, TypeOK
  <2>3. ASSUME NEW c \in Tasks, TaskStep(c), cur_task' # t
        PROVE  state'[t] = "TS_REMOVED"
    <3>1. exit(c) \/ \E u \in Tasks : rem_task(c, u) /\ EndOf(u)
      BY <1>1, <2>3 DEF TaskStep, reschedule, forbid, permit, leave_wait, fail, start_code,
         end_code, wait, Signal, SetSignal, set_signal, rem_task, lists
    <3>2. EndOf(t)
      BY <1>1, <2>3, <3>1 DEF exit, EndOf, terminate_task
    <3> QED BY <1>1, <3>2 DEF EndOf, terminate_task, mark_removed, find_task, Inv, TypeOK
  <2> QED BY <1>1, <2>1, <2>2, <2>3 DEF Next, add_task, schedule, Terminated, lists
<1>2. Inv /\ [Next]_vars =>
        [\A t \in Tasks : cur_task = t /\ is_forbidden(t) =>
            cur_task' = t \/ state'[t] = "TS_REMOVED"]_vars
  BY <1>1
<1> QED BY <1>2, Invariance, PTL DEF Spec, ForbidKeepsTask

-----------------------------------------------------------------------------
(***************************************************************************)
(* Which task runs, and on which registers.  The properties rest on the    *)
(* placement above and on more:                                            *)
(*   RegistersKept     a task inside m68k code that is not the current one *)
(*                     has its own registers saved                         *)
(*   WaitersSuspended  where the greenlets of waiting tasks are; a task    *)
(*                     the loop takes the CPU from is out of wait()        *)
(*   WokenInFront      the ready tasks that are still in wait() are a      *)
(*                     prefix of ready_tasks                               *)
(*   ErrorRaised       an exception ends schedule()                        *)
(***************************************************************************)
RegistersKept ==
    /\ \A t \in in_code : /\ state[t] # "TS_INVALID"
                          /\ cur_task # t /\ state[t] # "TS_REMOVED" => cpu_ctx[t] = t
    /\ cur_task \in in_code => cpu = cur_task

WaitersSuspended ==
    \A t \in Tasks :
        /\ state[t] = "TS_WAIT" => pc[t] = "wait"
        /\ state[t] = "TS_INVALID" => pc[t] # "wait"
        /\ state[t] = "TS_RUN" /\ ctl # "task" => pc[t] # "wait"

InFront(p, s) ==
    \A j \in 1..Len(s) : p[s[j]] = "wait" => \A i \in 1..(j - 1) : p[s[i]] = "wait"

WokenInFront == InFront(pc, ready_tasks)

ErrorRaised == error # "none" => ctl = "raised"

RunInv ==
    /\ RegistersKept
    /\ WaitersSuspended
    /\ WokenInFront
    /\ ErrorRaised
    /\ GivesUpOnlyOnDeadlock
    /\ DoneMeansAllEnded

\* schedule() goes on, or ends with an exception of a task.
GoesOn ==
    \/ ctl' \notin Ended /\ error' = error
    \/ ctl' = "raised" /\ error' \notin {"none", "AttributeError"}

\* Nothing is to be shown of the end of schedule() while it goes on.
LEMMA GoesOnRun ==
    ASSUME RunInv, ctl \notin Ended, GoesOn
    PROVE  ErrorRaised' /\ GivesUpOnlyOnDeadlock' /\ DoneMeansAllEnded'
<1>1. error = "none"
  BY DEF RunInv, ErrorRaised, Ended
<1> QED BY <1>1 DEF GoesOn, Ended, ErrorRaised, GivesUpOnlyOnDeadlock, DoneMeansAllEnded

\* The order among the tasks that are left does not change when one is taken out.
LEMMA RemoveInFront ==
    ASSUME NEW p, NEW s \in Seq(Tasks), NEW e, Contains(s, e), IsInjective(s), InFront(p, s)
    PROVE  InFront(p, RemoveFirst(s, e))
<1>1. PICK k \in 1..Len(s) :
        /\ Len(RemoveFirst(s, e)) = Len(s) - 1
        /\ \A i \in 1..(Len(s) - 1) : RemoveFirst(s, e)[i] = IF i < k THEN s[i] ELSE s[i + 1]
  BY RemoveOrder
<1> DEFINE r == RemoveFirst(s, e)
<1> SUFFICES ASSUME NEW j \in 1..Len(r), p[r[j]] = "wait", NEW i \in 1..(j - 1)
             PROVE  p[r[i]] = "wait"
  BY DEF InFront
<1>2. /\ Len(s) \in Nat /\ j \in 1..(Len(s) - 1) /\ i \in 1..(Len(s) - 1) /\ i < j
      /\ r[j] = IF j < k THEN s[j] ELSE s[j + 1]
      /\ r[i] = IF i < k THEN s[i] ELSE s[i + 1]
  BY <1>1, SMTT(30)
<1> HIDE DEF r
<1>3. PICK jj \in 1..Len(s), ii \in 1..Len(s) : ii < jj /\ r[j] = s[jj] /\ r[i] = s[ii]
  <2> DEFINE b == IF j < k THEN j ELSE j + 1
             a == IF i < k THEN i ELSE i + 1
  <2>1. a \in 1..Len(s) /\ b \in 1..Len(s) /\ a < b
    BY <1>2
  <2>2. r[j] = s[b] /\ r[i] = s[a]
    BY <1>2
  <2> HIDE DEF a, b
  <2> QED BY <2>1, <2>2
<1> QED BY <1>3 DEF InFront

\* It matters only which of the tasks are in wait().
LEMMA SameInFront ==
    ASSUME NEW p, NEW q, NEW s \in Seq(Tasks), InFront(p, s),
           \A t \in Tasks : q[t] = "wait" <=> p[t] = "wait"
    PROVE  InFront(q, s)
<1>1. \A i \in 1..Len(s) : s[i] \in Tasks
  OBVIOUS
<1>2. \A j \in 1..Len(s) : \A i \in 1..(j - 1) : i \in 1..Len(s)
  OBVIOUS
<1> QED BY <1>1, <1>2 DEF InFront

\* The same when the first one is taken.
LEMMA TailInFront ==
    ASSUME NEW p, NEW s \in Seq(Tasks), s # <<>>, InFront(p, s)
    PROVE  InFront(p, Tail(s))
<1>1. /\ Len(s) \in Nat /\ Len(Tail(s)) = Len(s) - 1
      /\ \A i \in 1..Len(Tail(s)) : Tail(s)[i] = s[i + 1]
  BY HeadTailProperties
<1> SUFFICES ASSUME NEW j \in 1..Len(Tail(s)), p[Tail(s)[j]] = "wait", NEW i \in 1..(j - 1)
             PROVE  p[Tail(s)[i]] = "wait"
  BY DEF InFront
<1>2. /\ j + 1 \in 1..Len(s) /\ i + 1 \in 1..((j + 1) - 1) /\ i \in 1..Len(Tail(s))
      /\ Tail(s)[j] = s[j + 1] /\ Tail(s)[i] = s[i + 1]
  BY <1>1
<1> QED BY <1>2 DEF InFront

\* A task that is not in wait() may join at the end.
LEMMA AppendInFront ==
    ASSUME NEW p, NEW s \in Seq(Tasks), NEW e \in Tasks, p[e] # "wait", InFront(p, s)
    PROVE  InFront(p, Append(s, e))
<1>1. /\ Len(s) \in Nat /\ Len(Append(s, e)) = Len(s) + 1
      /\ \A i \in 1..Len(s) : Append(s, e)[i] = s[i]
      /\ Append(s, e)[Len(s) + 1] = e
  OBVIOUS
<1> DEFINE r == Append(s, e)
<1> SUFFICES ASSUME NEW j \in 1..Len(r), p[r[j]] = "wait", NEW i \in 1..(j - 1)
             PROVE  p[r[i]] = "wait"
  BY DEF InFront
<1> HIDE DEF r
<1>2. j \in 1..Len(s) /\ i \in 1..Len(s) /\ r[j] = s[j] /\ r[i] = s[i]
  BY <1>1 DEF r
<1> QED BY <1>2 DEF InFront

\* A task that is in wait() may join in front.
LEMMA ConsInFront ==
    ASSUME NEW p, NEW s \in Seq(Tasks), NEW e \in Tasks, p[e] = "wait", InFront(p, s)
    PROVE  InFront(p, <<e>> \o s)
<1> DEFINE r == <<e>> \o s
<1>1. /\ Len(s) \in Nat /\ Len(r) = Len(s) + 1
      /\ r[1] = e /\ \A i \in 2..Len(r) : r[i] = s[i - 1]
  OBVIOUS
<1> SUFFICES ASSUME NEW j \in 1..Len(r), p[r[j]] = "wait", NEW i \in 1..(j - 1)
             PROVE  p[r[i]] = "wait"
  BY DEF InFront
<1> HIDE DEF r
<1>2. CASE i = 1
  BY <1>1, <1>2
<1>3. CASE i # 1
  <2>1. /\ j - 1 \in 1..Len(s) /\ i - 1 \in 1..((j - 1) - 1)
        /\ r[j] = s[j - 1] /\ r[i] = s[i - 1]
    BY <1>1, <1>3
  <2> QED BY <2>1 DEF InFront
<1> QED BY <1>2, <1>3
-----------------------------------------------------------------------------
\* A new scheduler satisfies RunInv.
LEMMA InitRun == Init => RunInv
BY DEF Init, RunInv, RegistersKept, WaitersSuspended, WokenInFront, InFront, ErrorRaised,
       GivesUpOnlyOnDeadlock, DoneMeansAllEnded

\* A step that moves no task, no register and no greenlet into or out of wait().
LEMMA QuietRun ==
    ASSUME Inv, RunInv, UNCHANGED <<lists, state, machine>>, ctl \notin Ended, GoesOn,
           \A t \in Tasks : pc'[t] = "wait" <=> pc[t] = "wait",
           ctl = "task" /\ ctl' # "task" => pc[cur_task] # "wait"
    PROVE  RunInv'
<1>1. RegistersKept'
  BY DEF RunInv, RegistersKept, lists, machine
<1>2. WaitersSuspended'
  BY DEF RunInv, WaitersSuspended, Inv, PlacedByState
<1>3. WokenInFront'
  BY SameInFront DEF RunInv, WokenInFront, Inv, TypeOK, lists
<1> QED BY <1>1, <1>2, <1>3, GoesOnRun DEF RunInv

\* add_task(): the new task is in no m68k code and in no wait().
LEMMA AddTaskRun ==
    ASSUME Inv, RunInv, NEW t \in Tasks, add_task(t) PROVE RunInv'
<1> USE DEF add_task
<1>1. pc[t] # "wait" /\ t \notin in_code /\ ctl \notin Ended /\ GoesOn
  BY DEF RunInv, WaitersSuspended, RegistersKept, GoesOn, Ended
<1>2. state' = [state EXCEPT ![t] = "TS_ADDED"] /\ \A u \in Tasks : u # t => state'[u] = state[u]
  BY DEF Inv, TypeOK
<1>3. RegistersKept'
  BY <1>1, <1>2 DEF RunInv, RegistersKept, machine, Inv, TypeOK
<1>4. WaitersSuspended'
  BY <1>1, <1>2 DEF RunInv, WaitersSuspended, Inv, TypeOK
<1>5. WokenInFront'
  BY <1>1, AppendInFront DEF RunInv, WokenInFront, Inv, TypeOK
<1> QED BY <1>1, <1>3, <1>4, <1>5, GoesOnRun DEF RunInv

\* The start of schedule().
LEMMA ScheduleRun ==
    ASSUME Inv, RunInv, schedule PROVE RunInv'
BY QuietRun DEF schedule, GoesOn, Ended

\* The loop that stays with the current task because of a forbid().
LEMMA LoopKeepRun ==
    ASSUME Inv, RunInv, LoopKeep PROVE RunInv'
<1>1. cur_task \in Tasks /\ \A t \in Tasks : pc'[t] = "wait" <=> pc[t] = "wait"
  BY DEF LoopKeep, switch, Inv, TypeOK, TaskOrNone
<1> QED BY <1>1, QuietRun DEF LoopKeep, switch, GoesOn, Ended

\* The loop that switches: the registers of the old task are saved, and it
\* joins the ready tasks only when it is out of wait().
LEMMA LoopSwitchRun ==
    ASSUME Inv, RunInv, LoopSwitch PROVE RunInv'
<1> DEFINE task == Head(ready_tasks)
           old == cur_task
           preempted == old # NoTask /\ old # task /\ state[old] = "TS_RUN"
<1>1. /\ task \in Tasks /\ ready_tasks # <<>>
      /\ task # old /\ state[task] \in {"TS_ADDED", "TS_READY"}
  BY TailFacts DEF LoopSwitch, Inv, TypeOK, ListsInjective, PlacedByState
<1>2. /\ ready_tasks' = IF preempted THEN Append(Tail(ready_tasks), old) ELSE Tail(ready_tasks)
      /\ cur_task' = task
      /\ state' = IF preempted THEN [[state EXCEPT ![old] = "TS_READY"] EXCEPT ![task] = "TS_RUN"]
                               ELSE [state EXCEPT ![task] = "TS_RUN"]
      /\ SwitchContext(old, task)
      /\ ctl = "loop" /\ ctl' = "task" /\ error' = error
      /\ pc' = [pc EXCEPT ![task] = IF @ = "new" THEN "run" ELSE @]
  BY <1>1 DEF LoopSwitch, switch
<1>3. preempted => old \in Tasks /\ pc[old] # "wait"
  BY <1>2 DEF Inv, TypeOK, TaskOrNone, RunInv, WaitersSuspended
<1>4. \A u \in Tasks : state'[u] = IF u = task THEN "TS_RUN"
                                   ELSE IF preempted /\ u = old THEN "TS_READY" ELSE state[u]
  <2>1. CASE preempted
    BY <1>1, <1>2, <1>3, <2>1 DEF Inv, TypeOK
  <2>2. CASE ~preempted
    BY <1>1, <1>2, <2>2 DEF Inv, TypeOK
  <2> QED BY <2>1, <2>2
<1>5. \A t \in Tasks : pc'[t] = "wait" <=> pc[t] = "wait"
  BY <1>1, <1>2 DEF Inv, TypeOK
<1>6. RegistersKept'
  <2>1. /\ in_code' = in_code /\ in_code \subseteq Tasks
        /\ cpu_ctx \in [Tasks -> TaskOrNone]
        /\ cpu_ctx' = IF old \in in_code THEN [cpu_ctx EXCEPT ![old] = cpu] ELSE cpu_ctx
        /\ cpu' = IF task \in in_code THEN cpu_ctx'[task] ELSE cpu
    BY <1>2 DEF SwitchContext, Inv, TypeOK
  <2>2. ASSUME NEW t \in in_code, t # old
        PROVE  cpu_ctx'[t] = cpu_ctx[t]
    BY <2>1, <2>2
  <2>3. old \in in_code => cpu_ctx'[old] = old
    BY <2>1 DEF RunInv, RegistersKept
  <2>4. \A t \in in_code : state'[t] \notin {"TS_INVALID", "TS_REMOVED"} => cpu_ctx'[t] = t
    BY <1>1, <1>4, <2>1, <2>2, <2>3 DEF RunInv, RegistersKept
  <2>5. \A t \in in_code : state'[t] # "TS_INVALID"
    BY <1>1, <1>4, <2>1 DEF RunInv, RegistersKept
  <2>6. task \in in_code => cpu' = task
    BY <1>1, <1>4, <2>1, <2>4
  <2> QED BY <1>2, <2>1, <2>4, <2>5, <2>6 DEF RegistersKept
<1>7. WokenInFront'
  <2> DEFINE q == IF preempted THEN Append(Tail(ready_tasks), old) ELSE Tail(ready_tasks)
  <2>1. Tail(ready_tasks) \in Seq(Tasks) /\ InFront(pc, Tail(ready_tasks))
    BY <1>1, TailInFront, TailFacts DEF RunInv, WokenInFront, Inv, TypeOK
  <2>2. InFront(pc, q) /\ q \in Seq(Tasks)
    <3>1. CASE preempted
      <4>1. InFront(pc, Append(Tail(ready_tasks), old))
        BY <1>3, <2>1, <3>1, AppendInFront
      <4>2. Append(Tail(ready_tasks), old) \in Seq(Tasks)
        BY <1>3, <2>1, <3>1
      <4> QED BY <3>1, <4>1, <4>2
    <3>2. CASE ~preempted
      BY <2>1, <3>2
    <3> QED BY <3>1, <3>2
  <2>3. ready_tasks' = q
    BY <1>2
  <2> HIDE DEF q
  <2> QED BY <1>5, <2>2, <2>3, SameInFront DEF WokenInFront
<1> HIDE DEF task, old, preempted
<1>8. WaitersSuspended'
  <2>1. ctl' = "task"
    BY <1>2
  <2> QED BY <1>1, <1>4, <1>5, <2>1 DEF RunInv, WaitersSuspended
<1>9. ctl = "loop" /\ ctl' = "task" /\ error' = error
  BY <1>2
<1> QED BY <1>6, <1>7, <1>8, <1>9, GoesOnRun DEF RunInv, GoesOn, Ended

\* The loop that ends as no task is left: every task that was added has ended.
LEMMA LoopDoneRun ==
    ASSUME Inv, RunInv, LoopDone PROVE RunInv'
<1> USE DEF LoopDone
<1>1. /\ cur_task = NoTask /\ Len(ready_tasks) = 0 /\ Len(waiting_tasks) = 0
      /\ UNCHANGED <<lists, state, machine, pc, error>>
  BY DEF get_num_tasks, Inv, TypeOK, lists
<1>2. \A t \in Tasks : state[t] \in {"TS_INVALID", "TS_REMOVED"}
  BY <1>1 DEF Inv, TypeOK, TaskState, PlacedByState, Contains
<1>3. DoneMeansAllEnded'
  BY <1>1, <1>2 DEF DoneMeansAllEnded
<1>4. RegistersKept' /\ WaitersSuspended' /\ WokenInFront'
  BY <1>1 DEF RunInv, RegistersKept, WaitersSuspended, WokenInFront, lists, machine
<1>5. error = "none"
  BY DEF RunInv, ErrorRaised
<1> QED BY <1>1, <1>3, <1>4, <1>5 DEF RunInv, ErrorRaised, GivesUpOnlyOnDeadlock

\* The loop that finds no task to run: all that are left wait, without a signal.
LEMMA LoopNoTaskRun ==
    ASSUME Inv, RunInv, LoopNoTask PROVE RunInv'
<1> USE DEF LoopNoTask
<1>1. /\ UNCHANGED <<lists, state, machine, pc, sigs>>
      /\ ready_tasks = <<>>
      /\ \/ ctl' = "stuck" /\ error' = error
         \/ ctl' = "raised" /\ error' = "AttributeError"
      /\ cur_task # NoTask => state[cur_task] \notin {"TS_READY", "TS_RUN"}
  BY DEF Runnable
<1>2. error = "none"
  BY DEF RunInv, ErrorRaised
<1>3. \A t \in Tasks : state[t] \in {"TS_INVALID", "TS_REMOVED", "TS_WAIT"}
  BY <1>1, NoTaskAssumption DEF Inv, TypeOK, TaskState, PlacedByState, Contains
<1>4. waiting_tasks # <<>>
  <2>1. CASE cur_task = NoTask
    BY <1>1, <2>1 DEF get_num_tasks, Inv, TypeOK
  <2>2. CASE cur_task # NoTask
    BY <1>1, <2>2 DEF Inv, TypeOK, TaskOrNone, PlacedByState, Contains
  <2> QED BY <2>1, <2>2
<1>5. GivesUpOnlyOnDeadlock'
  BY <1>1, <1>3, <1>4 DEF GivesUpOnlyOnDeadlock, Inv, NoLostWakeup, PlacedByState,
     got_mask, lists, sigs
<1>6. RegistersKept' /\ WaitersSuspended' /\ WokenInFront'
  BY <1>1 DEF RunInv, RegistersKept, WaitersSuspended, WokenInFront, lists, machine
<1> QED BY <1>1, <1>2, <1>5, <1>6 DEF RunInv, ErrorRaised, DoneMeansAllEnded

\* wait(): the task suspends, and is still the current one.
LEMMA WaitRun ==
    ASSUME Inv, RunInv, NEW t \in Tasks, NEW mask \in SUBSET Signals, wait(t, mask)
    PROVE  RunInv'
<1>1. /\ ctl = "task" /\ ctl' = "loop" /\ error' = error
      /\ cur_task = t /\ state[t] = "TS_RUN"
      /\ UNCHANGED <<cur_task, ready_tasks, machine>>
  BY DEF wait, Executes, Inv, PlacedByState
<1>2. /\ \A u \in Tasks : state'[u] = IF u = t THEN "TS_WAIT" ELSE state[u]
      /\ \A u \in Tasks : pc'[u] = IF u = t THEN "wait" ELSE pc[u]
  BY DEF wait, Inv, TypeOK
<1>3. RegistersKept'
  BY <1>1, <1>2 DEF RunInv, RegistersKept, machine, Inv, TypeOK
<1>4. WaitersSuspended'
  BY <1>1, <1>2 DEF RunInv, WaitersSuspended, Inv, PlacedByState
<1>5. WokenInFront'
  <2>0. ~Contains(ready_tasks, t)
    BY <1>1 DEF Inv, PlacedByState
  <2>1. \A i \in 1..Len(ready_tasks) : ready_tasks[i] \in Tasks \ {t}
    BY <2>0 DEF Inv, TypeOK, Contains
  <2>2. \A j \in 1..Len(ready_tasks) : \A i \in 1..(j - 1) : i \in 1..Len(ready_tasks)
    BY DEF Inv, TypeOK
  <2> QED BY <1>1, <1>2, <2>1, <2>2 DEF RunInv, WokenInFront, InFront
<1> QED BY <1>1, <1>3, <1>4, <1>5, GoesOnRun DEF RunInv, GoesOn, Ended

\* A greenlet that leaves wait(), or ends, takes its task out of the front of
\* ready_tasks only if it is not there.
LEMMA AwakeRun ==
    ASSUME Inv, RunInv, NEW t \in Tasks, ~Contains(ready_tasks, t), state[t] # "TS_WAIT",
           UNCHANGED <<lists, state, machine>>, ctl = "task", cur_task # t => pc[cur_task] # "wait",
           \A u \in Tasks : pc'[u] = "wait" <=> pc[u] = "wait" /\ u # t,
           GoesOn
    PROVE  RunInv'
<1>1. RegistersKept'
  BY DEF RunInv, RegistersKept, lists, machine
<1>2. WaitersSuspended'
  BY DEF RunInv, WaitersSuspended, Inv, PlacedByState
<1>3. WokenInFront'
  <2>1. \A i \in 1..Len(ready_tasks) : ready_tasks[i] \in Tasks \ {t}
    <3>1. ready_tasks \in Seq(Tasks)
      BY DEF Inv, TypeOK
    <3> QED BY <3>1 DEF Contains
  <2>2. \A j \in 1..Len(ready_tasks) : \A i \in 1..(j - 1) : i \in 1..Len(ready_tasks)
    BY DEF Inv, TypeOK
  <2> QED BY <2>1, <2>2 DEF RunInv, WokenInFront, InFront, lists
<1> QED BY <1>1, <1>2, <1>3, GoesOnRun DEF RunInv, Ended

\* The end of wait(), when the task was switched to again.
LEMMA LeaveWaitRun ==
    ASSUME Inv, RunInv, NEW t \in Tasks, leave_wait(t) PROVE RunInv'
<1>1. /\ cur_task = t /\ ctl = "task" /\ ctl' = ctl /\ error' = error
      /\ UNCHANGED <<lists, state, machine>>
      /\ \A u \in Tasks : pc'[u] = IF u = t THEN "run" ELSE pc[u]
  BY DEF leave_wait, Inv, TypeOK
<1>2. state[t] = "TS_RUN" /\ ~Contains(ready_tasks, t)
  BY <1>1 DEF Inv, PlacedByState
<1> QED BY <1>1, <1>2, AwakeRun DEF GoesOn, Ended

\* set_signal(), by a caller that executes: a task woken up goes to the front.
LEMMA SetSignalRun ==
    ASSUME Inv, RunInv, NEW t \in Tasks, NEW new, NEW mask, set_signal(t, new, mask),
           ctl = "task", pc[cur_task] = "run"
    PROVE  RunInv'
<1>1. UNCHANGED <<cur_task, pc, machine>>
  BY DEF set_signal
<1>2. CASE state' = state /\ ready_tasks' = ready_tasks /\ GoesOn
  <2>1. RegistersKept' /\ WaitersSuspended' /\ WokenInFront'
    BY <1>1, <1>2 DEF RunInv, RegistersKept, WaitersSuspended, WokenInFront, machine,
       Inv, PlacedByState
  <2> QED BY <1>2, <2>1, GoesOnRun DEF RunInv, Ended
<1>3. CASE /\ Contains(waiting_tasks, t)
           /\ ready_tasks' = <<t>> \o ready_tasks
           /\ state' = [state EXCEPT ![t] = "TS_READY"]
           /\ ctl' = "loop" /\ error' = error
  <2>1. state[t] = "TS_WAIT" /\ pc[t] = "wait"
    BY <1>3 DEF Inv, PlacedByState, RunInv, WaitersSuspended
  <2>2. \A u \in Tasks : state'[u] = IF u = t THEN "TS_READY" ELSE state[u]
    BY <1>3 DEF Inv, TypeOK
  <2>3. cur_task # t
    BY <2>1
  <2>4. RegistersKept'
    BY <1>1, <2>1, <2>2 DEF RunInv, RegistersKept, machine, Inv, TypeOK
  <2>5. WaitersSuspended'
    BY <1>1, <2>2 DEF RunInv, WaitersSuspended, Inv, PlacedByState
  <2>6. WokenInFront'
    BY <1>1, <1>3, <2>1, ConsInFront DEF RunInv, WokenInFront, Inv, TypeOK
  <2> QED BY <1>3, <2>4, <2>5, <2>6, GoesOnRun DEF RunInv, GoesOn, Ended
<1> QED BY <1>2, <1>3 DEF set_signal, wake_up_task, ReadyFirst, GoesOn, Ended

\* The end of a task.
LEMMA EndOfRun ==
    ASSUME Inv, RunInv, NEW t \in Tasks, EndOf(t), ctl = "task", pc[cur_task] = "run"
    PROVE  RunInv'
<1>1. /\ ctl' = "loop" /\ UNCHANGED <<error, machine>>
      /\ terminate_task(t)
      /\ \A u \in Tasks : pc'[u] = IF u = t THEN "dead" ELSE pc[u]
  BY DEF EndOf, Inv, TypeOK
<1>2. GoesOn
  BY <1>1 DEF GoesOn, Ended
<1>3. CASE find_task(t)
  <2>1. \A u \in Tasks : state'[u] = IF u = t THEN "TS_REMOVED" ELSE state[u]
    BY <1>1, <1>3 DEF terminate_task, mark_removed, Inv, TypeOK
  <2>2. cur_task' = IF cur_task = t THEN NoTask ELSE cur_task
    BY <1>1 DEF terminate_task
  <2>3. RegistersKept'
    BY <1>1, <2>1, <2>2 DEF RunInv, RegistersKept, machine, Inv, TypeOK
  <2>4. WaitersSuspended'
    BY <1>1, <2>1 DEF RunInv, WaitersSuspended, Inv, PlacedByState
  <2>5. InFront(pc, ready_tasks') /\ ready_tasks' \in Seq(Tasks) /\ ~Contains(ready_tasks', t)
    <3>1. CASE cur_task # t /\ Contains(ready_tasks, t)
      <4>1. ready_tasks' = RemoveFirst(ready_tasks, t)
        BY <1>1, <3>1 DEF terminate_task
      <4> QED BY <3>1, <4>1, RemoveInFront, RemoveFacts DEF RunInv, WokenInFront, Inv, TypeOK,
                ListsInjective
    <3>2. CASE cur_task = t \/ ~Contains(ready_tasks, t)
      <4>1. ready_tasks' = ready_tasks
        BY <1>1, <3>2 DEF terminate_task
      <4>2. ~Contains(ready_tasks, t)
        BY <3>2 DEF Inv, PlacedByState
      <4> QED BY <4>1, <4>2 DEF RunInv, WokenInFront, Inv, TypeOK
    <3> QED BY <3>1, <3>2
  <2>6. WokenInFront'
    <3>1. \A i \in 1..Len(ready_tasks') : ready_tasks'[i] \in Tasks \ {t}
      BY <2>5 DEF Contains
    <3>2. \A j \in 1..Len(ready_tasks') : \A i \in 1..(j - 1) : i \in 1..Len(ready_tasks')
      BY <2>5
    <3> QED BY <1>1, <2>5, <3>1, <3>2 DEF WokenInFront, InFront
  <2> QED BY <1>2, <2>3, <2>4, <2>6, GoesOnRun DEF RunInv, Ended
<1>4. CASE ~find_task(t)
  <2>1. /\ UNCHANGED <<lists, state>> /\ cur_task # t
        /\ ~Contains(ready_tasks, t) /\ ~Contains(waiting_tasks, t)
    BY <1>1, <1>4 DEF terminate_task, find_task, lists
  <2>2. state[t] # "TS_WAIT"
    BY <2>1 DEF Inv, PlacedByState
  <2>3. \A u \in Tasks : pc'[u] = "wait" <=> pc[u] = "wait" /\ u # t
    BY <1>1
  <2> QED BY <1>1, <1>2, <2>1, <2>2, <2>3, AwakeRun
<1> QED BY <1>3, <1>4

\* rem_task() of another task, which may leave schedule() with an exception.
LEMMA RemTaskRun ==
    ASSUME Inv, RunInv, NEW c \in Tasks, NEW t \in Tasks, rem_task(c, t) PROVE RunInv'
<1>1. ctl = "task" /\ cur_task = c /\ pc[c] = "run"
  BY DEF rem_task, Executes
<1>2. CASE EndOf(t)
  BY <1>1, <1>2, EndOfRun
<1>3. CASE ~EndOf(t)
  <2>1. /\ ctl' = "raised" /\ error' = "TaskStop" /\ pc[t] \in {"new", "dead"}
        /\ UNCHANGED <<lists, state, machine>>
        /\ \A u \in Tasks : pc'[u] = IF u = t THEN "dead" ELSE pc[u]
    BY <1>3 DEF rem_task, Inv, TypeOK
  <2> QED BY <1>1, <2>1, QuietRun DEF GoesOn, Ended
<1> QED BY <1>2, <1>3

\* A step of a task that executes and moves nothing.
LEMMA TaskQuietRun ==
    ASSUME Inv, RunInv, NEW t \in Tasks,
           reschedule(t) \/ forbid(t) \/ permit(t) \/ fail(t)
    PROVE  RunInv'
<1>1. /\ ctl = "task" /\ cur_task = t /\ pc[t] = "run"
      /\ UNCHANGED <<lists, state, machine>>
  BY DEF reschedule, forbid, permit, fail, Executes
<1>2. \A u \in Tasks : pc'[u] = "wait" <=> pc[u] = "wait"
  BY <1>1 DEF reschedule, forbid, permit, fail, Inv, TypeOK
<1>3. GoesOn
  BY <1>1 DEF reschedule, forbid, permit, fail, GoesOn, Ended
<1> QED BY <1>1, <1>2, <1>3, QuietRun DEF Ended

\* Entering and leaving m68k code: the current task's registers are in the CPU.
LEMMA CodeRun ==
    ASSUME Inv, RunInv, NEW t \in Tasks, start_code(t) \/ end_code(t) PROVE RunInv'
<1>1. /\ ctl = "task" /\ cur_task = t /\ state[t] = "TS_RUN"
      /\ UNCHANGED <<lists, state, pc, ctl, error, cpu_ctx>>
  BY DEF start_code, end_code, Executes, Inv, PlacedByState
<1>2. \/ in_code' = in_code \cup {t} /\ cpu' = t
      \/ in_code' = in_code \ {t} /\ cpu' = cpu
  BY DEF start_code, end_code
<1>3. RegistersKept'
  BY <1>1, <1>2 DEF RunInv, RegistersKept, lists
<1>4. WaitersSuspended' /\ WokenInFront'
  BY <1>1 DEF RunInv, WaitersSuspended, WokenInFront, lists
<1> QED BY <1>1, <1>3, <1>4, GoesOnRun DEF RunInv, GoesOn, Ended

\* Every step preserves RunInv.
LEMMA NextRun ==
    ASSUME Inv, RunInv, [Next]_vars PROVE RunInv'
<1>1. CASE UNCHANGED vars
  BY <1>1 DEF RunInv, RegistersKept, WaitersSuspended, WokenInFront, ErrorRaised,
     GivesUpOnlyOnDeadlock, DoneMeansAllEnded, got_mask, vars, lists, sigs, machine
<1>2. ASSUME NEW t \in Tasks, TaskStep(t)
      PROVE  RunInv'
  <2>1. ASSUME NEW u \in Tasks, NEW signals \in SUBSET Signals, Signal(t, u, signals)
        PROVE  RunInv'
    BY <2>1, SetSignalRun DEF Signal, Executes
  <2>2. ASSUME NEW new \in SUBSET Signals, NEW mask \in SUBSET Signals, SetSignal(t, new, mask)
        PROVE  RunInv'
    BY <2>2, SetSignalRun DEF SetSignal, Executes
  <2>3. CASE exit(t)
    BY <2>3, EndOfRun DEF exit, Executes
  <2> QED BY <1>2, <2>1, <2>2, <2>3, TaskQuietRun, LeaveWaitRun, CodeRun, WaitRun,
            RemTaskRun DEF TaskStep
<1>3. CASE Loop
  BY <1>3, LoopKeepRun, LoopSwitchRun, LoopDoneRun, LoopNoTaskRun DEF Loop
<1> QED BY <1>1, <1>2, <1>3, AddTaskRun, ScheduleRun DEF Next, Terminated

\* The loop goes on with the right task: registers are saved and restored in
\* pairs whatever the order of the switches, woken tasks run before all others,
\* and schedule() returns only when it has nothing to go on with.
THEOREM RunsRight ==
    ASSUME "wait_forbidden" \notin Calls PROVE Spec => []RightTaskRuns
<1>1. Init => RunInv
  BY InitRun
<1>2. Inv /\ RunInv /\ [Next]_vars => RunInv'
  BY NextRun
<1>3. Inv /\ RunInv => OwnRegisters
  BY DEF RunInv, RegistersKept, OwnRegisters
<1>4. Inv /\ RunInv => WokenFirst
  <2> SUFFICES ASSUME Inv, RunInv, NEW t \in Tasks, pc[t] = "wait", state[t] = "TS_READY"
               PROVE  \E j \in 1..Len(ready_tasks) :
                        /\ ready_tasks[j] = t
                        /\ \A i \in 1..(j - 1) : pc[ready_tasks[i]] = "wait"
    BY DEF Inv, PlacedByState, WokenFirst
  <2>1. PICK j \in 1..Len(ready_tasks) : ready_tasks[j] = t
    BY DEF Inv, PlacedByState, Contains
  <2> QED BY <2>1 DEF RunInv, WokenInFront, InFront
<1>5. Inv /\ RunInv => RightTaskRuns
  BY <1>3, <1>4, Zenon DEF RunInv, RightTaskRuns
<1> QED BY <1>1, <1>2, <1>5, Invariance, PTL DEF Spec

-----------------------------------------------------------------------------
(* The Exec lists that the event callbacks keep.                            *)

(***************************************************************************)
(* The inductive invariant: the Exec lists hold the tasks the scheduler    *)
(* has, each once, from the start of schedule() until it ends.  ThisTask   *)
(* and ctx.task may name a task that has ended until the next one is       *)
(* switched to; before schedule() no event is delivered at all.            *)
(***************************************************************************)
ExecState == [task_ready : Seq(Tasks), task_wait : Seq(Tasks), this_task : TaskOrNone,
              ctx_task : TaskOrNone, lists_ok : BOOLEAN]

\* the Exec lists hold the tasks of ready and of waiting
Mirrors(ex, ready, waiting) ==
    /\ ex \in ExecState /\ ex.lists_ok
    /\ IsInjective(ex.task_ready) /\ IsInjective(ex.task_wait)
    /\ \A t \in Tasks : /\ Contains(ex.task_ready, t) <=> t \in ready
                        /\ Contains(ex.task_wait, t) <=> t \in waiting

ReadySet == {t \in Tasks : state[t] \in {"TS_ADDED", "TS_READY"}}
WaitingSet == {t \in Tasks : state[t] = "TS_WAIT"}

NotYet ==
    /\ ctl = "setup" => ~running /\ cur_task = NoTask /\ WaitingSet = {}
    /\ ctl = "setup" => Mirrors(exec, {}, {})

CurrentNamed == cur_task # NoTask => exec.this_task = cur_task /\ exec.ctx_task = cur_task

ExecInv ==
    /\ exec \in ExecState /\ exec.lists_ok
    /\ NotYet
    /\ ctl = "task" => cur_task # NoTask
    /\ ctl \in {"loop", "task"} => Mirrors(exec, ReadySet, WaitingSet) /\ CurrentNamed

-----------------------------------------------------------------------------
\* after[n] is what the first n of the events make of ex
Steps(ex, evs, after) ==
    /\ Handled(ex, evs) = after[Len(evs)]
    /\ after[0] = ex
    /\ \A n \in 1..Len(evs) : after[n] = event_handler(after[n - 1], evs[n])

\* Handled() is what the events do one after the other.
LEMMA HandledSteps ==
    ASSUME NEW ex, NEW evs, Len(evs) \in Nat
    PROVE  \E after : Steps(ex, evs, after)
<1> DEFINE N == Len(evs)
           Upto(m, f) == f = [n \in 0..m |-> IF n = 0 THEN ex ELSE event_handler(f[n - 1], evs[n])]
           T == {m \in Nat : \E f : Upto(m, f)}
<1>1. 0 \in T
  <2> DEFINE f == [n \in 0..0 |-> ex]
  <2>1. Upto(0, f)
    OBVIOUS
  <2> QED BY <2>1
<1>2. ASSUME NEW m \in Nat, m \in T
      PROVE  m + 1 \in T
  <2>1. PICK f : Upto(m, f)
    BY <1>2
  <2> DEFINE g == [n \in 0..(m + 1) |-> IF n = m + 1 THEN event_handler(f[m], evs[m + 1]) ELSE f[n]]
  <2>2. \A n \in 0..m : f[n] = IF n = 0 THEN ex ELSE event_handler(f[n - 1], evs[n])
    BY <2>1
  <2>3. \A n \in 0..(m + 1) : g[n] = IF n = 0 THEN ex ELSE event_handler(g[n - 1], evs[n])
    <3> SUFFICES ASSUME NEW n \in 0..(m + 1)
                 PROVE  g[n] = IF n = 0 THEN ex ELSE event_handler(g[n - 1], evs[n])
      OBVIOUS
    <3>1. CASE n = m + 1
      <4>1. n # 0 /\ n - 1 = m /\ m \in 0..(m + 1) /\ m # m + 1
        BY <3>1
      <4> QED BY <3>1, <4>1
    <3>2. CASE n # m + 1 /\ n # 0
      <4>1. n \in 0..m /\ n - 1 \in 0..(m + 1) /\ n - 1 # m + 1
        BY <3>2
      <4> QED BY <2>2, <3>2, <4>1
    <3>3. CASE n = 0
      BY <2>2, <3>3
    <3> QED BY <3>1, <3>2, <3>3
  <2>4. Upto(m + 1, g)
    <3> HIDE DEF g
    <3>1. g = [n \in 0..(m + 1) |-> g[n]]
      BY DEF g
    <3> QED BY <2>3, <3>1
  <2> HIDE DEF g, Upto
  <2> QED BY <2>4
<1>3. \E f : Upto(N, f)
  <2> HIDE DEF Upto, T
  <2>1. Nat \subseteq T
    BY <1>1, <1>2, NatInd
  <2>2. N \in T
    BY <2>1
  <2> QED BY <2>2 DEF T
<1> DEFINE a == CHOOSE f : Upto(N, f)
<1>4. Upto(N, a)
  <2> HIDE DEF Upto
  <2> QED BY <1>3
<1>5. Handled(ex, evs) = a[N]
  BY DEF Handled
<1> HIDE DEF a
<1>6. \A n \in 0..N : a[n] = IF n = 0 THEN ex ELSE event_handler(a[n - 1], evs[n])
  BY <1>4
<1> QED BY <1>5, <1>6 DEF Steps

\* Two events.
LEMMA HandledTwo ==
    ASSUME NEW ex, NEW evs, Len(evs) = 2
    PROVE  Handled(ex, evs) = event_handler(event_handler(ex, evs[1]), evs[2])
<1>1. PICK f : Steps(ex, evs, f)
  <2>1. Len(evs) \in Nat
    OBVIOUS
  <2> QED BY <2>1, HandledSteps
<1>2. f[1] = event_handler(f[1 - 1], evs[1]) /\ f[2] = event_handler(f[2 - 1], evs[2])
  BY <1>1 DEF Steps
<1>3. Handled(ex, evs) = f[2] /\ f[0] = ex
  BY <1>1 DEF Steps
<1> QED BY <1>2, <1>3

\* No event, or one.
LEMMA HandledFew ==
    ASSUME NEW ex, NEW a
    PROVE  /\ Handled(ex, <<>>) = ex
           /\ Handled(ex, <<a>>) = event_handler(ex, a)
<1>1. Handled(ex, <<>>) = ex
  <2>1. PICK f : Steps(ex, <<>>, f)
    BY HandledSteps
  <2> QED BY <2>1 DEF Steps
<1>2. Handled(ex, <<a>>) = event_handler(ex, a)
  <2>1. Len(<<a>>) = 1 /\ <<a>>[1] = a
    OBVIOUS
  <2>2. PICK f : Steps(ex, <<a>>, f)
    BY <2>1, HandledSteps
  <2>3. f[1] = event_handler(f[1 - 1], <<a>>[1])
    BY <2>1, <2>2 DEF Steps
  <2> QED BY <2>1, <2>2, <2>3 DEF Steps
<1> QED BY <1>1, <1>2

-----------------------------------------------------------------------------
(* What each event does to lists that mirror the scheduler's.               *)

\* a task joins TaskReady
LEMMA ReadyEvent ==
    ASSUME NEW ex, NEW R, NEW W, Mirrors(ex, R, W), NEW t \in Tasks, t \notin R \cup W,
           NEW type \in {"ADD_TASK", "READY_TASK"}
    PROVE  LET ex1 == event_handler(ex, Event(type, t))
           IN  /\ Mirrors(ex1, R \cup {t}, W)
               /\ ex1.this_task = ex.this_task /\ ex1.ctx_task = ex.ctx_task
<1>1. ~Contains(ex.task_ready, t) /\ ~Contains(ex.task_wait, t) /\ ~Linked(ex, t)
  BY DEF Mirrors, Linked
<1>2. CASE type = "ADD_TASK"
  <2>1. event_handler(ex, Event(type, t)) =
            [ex EXCEPT !.task_ready = Append(@, t), !.lists_ok = @ /\ ~Linked(ex, t)]
    BY <1>2 DEF event_handler, Event, add_tail_ready
  <2>2. Append(ex.task_ready, t) \in Seq(Tasks)
        /\ IsInjective(Append(ex.task_ready, t))
        /\ \A x : Contains(Append(ex.task_ready, t), x) <=> Contains(ex.task_ready, x) \/ x = t
    BY <1>1, AppendFacts DEF Mirrors, ExecState
  <2> QED BY <1>1, <2>1, <2>2 DEF Mirrors, ExecState
<1>3. CASE type = "READY_TASK"
  <2>1. event_handler(ex, Event(type, t)) =
            [ex EXCEPT !.task_ready = <<t>> \o @, !.lists_ok = @ /\ ~Linked(ex, t)]
    BY <1>3 DEF event_handler, Event, on_ready, add_head_ready
  <2>2. <<t>> \o ex.task_ready \in Seq(Tasks)
        /\ IsInjective(<<t>> \o ex.task_ready)
        /\ \A x : Contains(<<t>> \o ex.task_ready, x) <=> Contains(ex.task_ready, x) \/ x = t
    BY <1>1, ConsFacts DEF Mirrors, ExecState
  <2> QED BY <1>1, <2>1, <2>2 DEF Mirrors, ExecState
<1> QED BY <1>2, <1>3

\* a task joins TaskWait
LEMMA WaitingEvent ==
    ASSUME NEW ex, NEW R, NEW W, Mirrors(ex, R, W), NEW t \in Tasks, t \notin R \cup W
    PROVE  LET ex1 == event_handler(ex, Event("WAITING_TASK", t))
           IN  /\ Mirrors(ex1, R, W \cup {t})
               /\ ex1.this_task = ex.this_task /\ ex1.ctx_task = ex.ctx_task
<1>1. ~Contains(ex.task_ready, t) /\ ~Contains(ex.task_wait, t) /\ ~Linked(ex, t)
  BY DEF Mirrors, Linked
<1>2. event_handler(ex, Event("WAITING_TASK", t)) =
          [ex EXCEPT !.task_wait = <<t>> \o @, !.lists_ok = @ /\ ~Linked(ex, t)]
  BY DEF event_handler, Event, add_head_wait
<1>3. <<t>> \o ex.task_wait \in Seq(Tasks)
      /\ IsInjective(<<t>> \o ex.task_wait)
      /\ \A x : Contains(<<t>> \o ex.task_wait, x) <=> Contains(ex.task_wait, x) \/ x = t
  BY <1>1, ConsFacts DEF Mirrors, ExecState
<1> QED BY <1>1, <1>2, <1>3 DEF Mirrors, ExecState

\* Node.remove() of a task that is linked
LEMMA RemoveNode ==
    ASSUME NEW ex, NEW R, NEW W, Mirrors(ex, R, W), NEW t \in Tasks, t \in R \cup W,
           t \notin R \cap W
    PROVE  /\ Mirrors(remove(ex, t), R \ {t}, W \ {t})
           /\ remove(ex, t).this_task = ex.this_task /\ remove(ex, t).ctx_task = ex.ctx_task
<1> DEFINE r == RemoveFirst(ex.task_ready, t)
           w == RemoveFirst(ex.task_wait, t)
<1>1. remove(ex, t) = [ex EXCEPT !.task_ready = r, !.task_wait = w, !.lists_ok = @ /\ Linked(ex, t)]
  BY DEF remove
<1>2. Linked(ex, t)
  BY DEF Mirrors, Linked
<1>3. /\ r \in Seq(Tasks) /\ IsInjective(r)
      /\ \A x \in Tasks : Contains(r, x) <=> x \in R \ {t}
  <2>1. CASE t \in R
    BY <2>1, RemoveFacts DEF Mirrors, ExecState
  <2>2. CASE t \notin R
    <3>1. r = ex.task_ready
      BY <2>2, RemoveAbsent DEF Mirrors
    <3> QED BY <2>2, <3>1 DEF Mirrors, ExecState
  <2> QED BY <2>1, <2>2
<1>4. /\ w \in Seq(Tasks) /\ IsInjective(w)
      /\ \A x \in Tasks : Contains(w, x) <=> x \in W \ {t}
  <2>1. CASE t \in W
    BY <2>1, RemoveFacts DEF Mirrors, ExecState
  <2>2. CASE t \notin W
    <3>1. w = ex.task_wait
      BY <2>2, RemoveAbsent DEF Mirrors
    <3> QED BY <2>2, <3>1 DEF Mirrors, ExecState
  <2> QED BY <2>1, <2>2
<1> HIDE DEF r, w
<1> QED BY <1>1, <1>2, <1>3, <1>4 DEF Mirrors, ExecState

\* a task moves from TaskWait to TaskReady
LEMMA WakeUpEvent ==
    ASSUME NEW ex, NEW R, NEW W, Mirrors(ex, R, W), NEW t \in Tasks, t \in W, t \notin R
    PROVE  LET ex1 == event_handler(ex, Event("WAKE_UP_TASK", t))
           IN  /\ Mirrors(ex1, R \cup {t}, W \ {t})
               /\ ex1.this_task = ex.this_task /\ ex1.ctx_task = ex.ctx_task
<1> DEFINE gone == remove(ex, t)
<1>1. /\ Mirrors(gone, R \ {t}, W \ {t})
      /\ gone.this_task = ex.this_task /\ gone.ctx_task = ex.ctx_task
  BY RemoveNode
<1>2. event_handler(ex, Event("WAKE_UP_TASK", t)) = add_head_ready(gone, t)
  BY DEF event_handler, Event, on_wake_up
<1>3. event_handler(gone, Event("READY_TASK", t)) = add_head_ready(gone, t)
  BY DEF event_handler, Event, on_ready
<1> HIDE DEF gone
<1>4. LET ex1 == event_handler(gone, Event("READY_TASK", t))
      IN  /\ Mirrors(ex1, (R \ {t}) \cup {t}, W \ {t})
          /\ ex1.this_task = gone.this_task /\ ex1.ctx_task = gone.ctx_task
  BY <1>1, ReadyEvent
<1>5. (R \ {t}) \cup {t} = R \cup {t}
  OBVIOUS
<1> QED BY <1>1, <1>2, <1>3, <1>4, <1>5

\* a task leaves TaskReady and becomes ThisTask
LEMMA ActiveEvent ==
    ASSUME NEW ex, NEW R, NEW W, Mirrors(ex, R, W), NEW t \in Tasks, t \in R, t \notin W
    PROVE  LET ex1 == event_handler(ex, Event("ACTIVE_TASK", t))
           IN  /\ Mirrors(ex1, R \ {t}, W)
               /\ ex1.this_task = t /\ ex1.ctx_task = t
<1> DEFINE gone == remove(ex, t)
<1>1. Mirrors(gone, R \ {t}, W \ {t}) /\ W \ {t} = W
  BY RemoveNode
<1>2. event_handler(ex, Event("ACTIVE_TASK", t)) = [[gone EXCEPT !.this_task = t] EXCEPT !.ctx_task = t]
  BY NoTaskAssumption DEF event_handler, Event, set_cur_task
<1> HIDE DEF gone
<1> QED BY <1>1, <1>2 DEF Mirrors, ExecState, TaskOrNone

-----------------------------------------------------------------------------
\* New callbacks satisfy the invariant.
LEMMA ExecInitInv == ExecInit => ExecInv
<1> SUFFICES ASSUME ExecInit PROVE ExecInv
  OBVIOUS
<1>1. /\ exec.task_ready = <<>> /\ exec.task_wait = <<>> /\ exec.lists_ok = TRUE
      /\ exec.this_task = NoTask /\ exec.ctx_task = NoTask
      /\ exec \in ExecState
  BY DEF ExecInit, ExecState, TaskOrNone
<1>2. IsInjective(<<>>) /\ \A t : ~Contains(<<>>, t)
  BY DEF IsInjective, Contains
<1>3. Mirrors(exec, {}, {}) /\ WaitingSet = {}
  BY <1>1, <1>2 DEF Mirrors, ExecInit, Init, WaitingSet
<1> QED BY <1>1, <1>3 DEF ExecInv, NotYet, ExecInit, Init

\* A step that reports nothing and moves no task keeps the mirror.
LEMMA QuietExec ==
    ASSUME ExecInv, ctl \in {"loop", "task"}, ctl' # "setup", events' = <<>>,
           ctl' = "task" => cur_task # NoTask, exec' = Handled(exec, events'), UNCHANGED <<state, cur_task>>
    PROVE  ExecInv'
<1>1. exec' = exec
  BY HandledFew
<1> QED BY <1>1 DEF ExecInv, NotYet, CurrentNamed, ReadySet, WaitingSet

\* add_task() before schedule() is not told to anybody.
LEMMA AddTaskExec ==
    ASSUME Inv, ExecInv, NEW t \in Tasks, add_task(t), exec' = Handled(exec, events')
    PROVE  ExecInv'
<1>1. /\ ctl = "setup" /\ ~running /\ cur_task = NoTask /\ WaitingSet = {}
      /\ Mirrors(exec, {}, {})
  BY DEF add_task, ExecInv, NotYet
<1>2. events' = <<>>
  BY <1>1, Zenon DEF add_task
<1>3. exec' = exec
  BY <1>2, HandledFew
<1>4. /\ \A u \in Tasks : state'[u] = IF u = t THEN "TS_ADDED" ELSE state[u]
      /\ UNCHANGED <<cur_task, running, ctl>>
  BY DEF add_task, Inv, TypeOK
<1>5. WaitingSet' = {}
  BY <1>1, <1>4 DEF WaitingSet
<1> QED BY <1>1, <1>3, <1>4, <1>5 DEF ExecInv, NotYet

\* The start of schedule() reports every ready task, in turn.
LEMMA ScheduleExec ==
    ASSUME Inv, ExecInv, schedule, exec' = Handled(exec, events')
    PROVE  ExecInv'
<1>1. /\ ctl = "setup" /\ cur_task = NoTask /\ WaitingSet = {}
      /\ Mirrors(exec, {}, {}) /\ ctl' = "loop" /\ UNCHANGED <<cur_task, state>>
      /\ ready_tasks \in Seq(Tasks) /\ IsInjective(ready_tasks)
      /\ events' = [i \in 1..Len(ready_tasks) |-> Event("ADD_TASK", ready_tasks[i])]
  BY DEF schedule, ExecInv, NotYet, lists, Inv, TypeOK, ListsInjective
<1> DEFINE N == Len(ready_tasks)
           First(n) == {ready_tasks[i] : i \in 1..n}
<1>2. N \in Nat /\ Len(events') = N
  BY <1>1
<1>0. PICK after : Steps(exec, events', after)
  BY <1>2, HandledSteps
<1>3. /\ exec' = after[N] /\ after[0] = exec
      /\ \A n \in 1..N : after[n] = event_handler(after[n - 1], Event("ADD_TASK", ready_tasks[n]))
  BY <1>0, <1>1, <1>2 DEF Steps
<1> DEFINE T == {n \in Nat : n <= N => Mirrors(after[n], First(n), {})}
<1>4. 0 \in T
  <2>1. First(0) = {}
    OBVIOUS
  <2> QED BY <1>1, <1>3, <2>1
<1>5. ASSUME NEW n \in Nat, n \in T PROVE n + 1 \in T
  <2> SUFFICES ASSUME n + 1 <= N PROVE Mirrors(after[n + 1], First(n + 1), {})
    OBVIOUS
  <2>1. Mirrors(after[n], First(n), {})
    BY <1>2, <1>5
  <2>2. n + 1 \in 1..N /\ (n + 1) - 1 = n
    BY <1>2
  <2>3. ready_tasks[n + 1] \in Tasks /\ ready_tasks[n + 1] \notin First(n)
    BY <1>1, <1>2, <2>2 DEF IsInjective
  <2>4. First(n + 1) = First(n) \cup {ready_tasks[n + 1]}
    <3>1. \A i : i \in 1..(n + 1) <=> i \in 1..n \/ i = n + 1
      OBVIOUS
    <3> QED BY <3>1
  <2>5. after[n + 1] = event_handler(after[n], Event("ADD_TASK", ready_tasks[n + 1]))
    BY <1>3, <2>2
  <2> HIDE DEF First
  <2> QED BY <2>1, <2>3, <2>4, <2>5, ReadyEvent
<1>6. Mirrors(exec', First(N), {})
  <2> HIDE DEF T
  <2>1. N \in T
    BY <1>2, <1>4, <1>5, NatInd
  <2> QED BY <1>2, <1>3, <2>1 DEF T
<1>7. First(N) = ReadySet
  <2>1. \A t \in Tasks : Contains(ready_tasks, t) <=> t \in ReadySet
    BY DEF Inv, PlacedByState, ReadySet
  <2>2. First(N) \subseteq Tasks
    BY <1>1
  <2> QED BY <2>1, <2>2 DEF Contains, ReadySet
<1> HIDE DEF First, N
<1>8. ReadySet' = ReadySet /\ WaitingSet' = {}
  BY <1>1 DEF ReadySet, WaitingSet
<1> QED BY <1>1, <1>6, <1>7, <1>8 DEF ExecInv, NotYet, CurrentNamed, Mirrors

\* The loop that keeps the current task, or finds none, reports nothing.
LEMMA LoopQuietExec ==
    ASSUME ExecInv, LoopKeep \/ LoopNoTask, exec' = Handled(exec, events')
    PROVE  ExecInv'
<1>1. /\ ctl = "loop" /\ ctl' # "setup" /\ events' = <<>>
      /\ UNCHANGED <<state, cur_task>>
  BY DEF LoopKeep, LoopNoTask, switch, lists
<1>2. ctl' = "task" => cur_task # NoTask
  BY DEF LoopKeep, LoopNoTask
<1> QED BY <1>1, <1>2, QuietExec

\* The loop that switches: the old task, if it is preempted, goes to TaskReady
\* before the new one is taken out of it and named.
LEMMA LoopSwitchExec ==
    ASSUME Inv, ExecInv, LoopSwitch, exec' = Handled(exec, events')
    PROVE  ExecInv'
<1> DEFINE task == Head(ready_tasks)
           old == cur_task
           preempted == old # NoTask /\ old # task /\ state[old] = "TS_RUN"
           ex == IF preempted THEN event_handler(exec, Event("READY_TASK", old)) ELSE exec
<1>1. /\ task \in Tasks /\ ready_tasks # <<>> /\ ctl = "loop"
      /\ task # old /\ state[task] \in {"TS_ADDED", "TS_READY"}
  BY TailFacts DEF LoopSwitch, Inv, TypeOK, ListsInjective, PlacedByState
<1>2. /\ cur_task' = task /\ ctl' = "task"
      /\ state' = IF preempted THEN [[state EXCEPT ![old] = "TS_READY"] EXCEPT ![task] = "TS_RUN"]
                               ELSE [state EXCEPT ![task] = "TS_RUN"]
      /\ events' = (IF preempted THEN <<Event("READY_TASK", old)>> ELSE <<>>)
                         \o <<Event("ACTIVE_TASK", task)>>
  BY <1>1 DEF LoopSwitch, switch
<1>3. preempted => old \in Tasks
  BY DEF Inv, TypeOK, TaskOrNone
<1>4. \A u \in Tasks : state'[u] = IF u = task THEN "TS_RUN"
                                   ELSE IF preempted /\ u = old THEN "TS_READY" ELSE state[u]
  <2>1. CASE preempted
    BY <1>1, <1>2, <1>3, <2>1 DEF Inv, TypeOK
  <2>2. CASE ~preempted
    BY <1>1, <1>2, <2>2 DEF Inv, TypeOK
  <2> QED BY <2>1, <2>2
<1>5. Mirrors(exec, ReadySet, WaitingSet)
  BY <1>1 DEF ExecInv
<1>6. Mirrors(ex, ReadySet \cup (IF preempted THEN {old} ELSE {}), WaitingSet)
  <2>1. CASE preempted
    <3>1. old \notin ReadySet \cup WaitingSet
      BY <2>1 DEF ReadySet, WaitingSet
    <3> QED BY <1>3, <1>5, <2>1, <3>1, ReadyEvent
  <2>2. CASE ~preempted
    BY <1>5, <2>2
  <2> QED BY <2>1, <2>2
<1>7. exec' = event_handler(ex, Event("ACTIVE_TASK", task))
  <2>1. CASE preempted
    <3>1. events' = <<Event("READY_TASK", old)>> \o <<Event("ACTIVE_TASK", task)>>
      BY <1>2, <2>1
    <3>2. events' = <<Event("READY_TASK", old), Event("ACTIVE_TASK", task)>>
      BY <3>1, SingleConcat, Zenon
    <3>3. exec' = event_handler(event_handler(exec, Event("READY_TASK", old)), Event("ACTIVE_TASK", task))
      <4>1. Len(events') = 2 /\ events'[1] = Event("READY_TASK", old) /\ events'[2] = Event("ACTIVE_TASK", task)
        BY <3>2
      <4> QED BY <4>1, HandledTwo
    <3> QED BY <2>1, <3>3
  <2>2. CASE ~preempted
    <3>1. events' = <<>> \o <<Event("ACTIVE_TASK", task)>>
      BY <1>2, <2>2
    <3>2. events' = <<Event("ACTIVE_TASK", task)>>
      BY <3>1, SingleConcat, Zenon
    <3>3. exec' = event_handler(exec, Event("ACTIVE_TASK", task))
      BY <3>2, HandledFew, Zenon
    <3> QED BY <2>2, <3>3
  <2> QED BY <2>1, <2>2
<1> DEFINE R == ReadySet \cup (IF preempted THEN {old} ELSE {})
<1>8. task \in R /\ task \notin WaitingSet
  BY <1>1 DEF ReadySet, WaitingSet
<1>9. ReadySet' = R \ {task} /\ WaitingSet' = WaitingSet
  BY <1>1, <1>3, <1>4 DEF ReadySet, WaitingSet
<1> HIDE DEF ex, R, task, preempted
<1>10. Mirrors(ex, R, WaitingSet)
  BY <1>6 DEF R
<1>11. /\ Mirrors(exec', R \ {task}, WaitingSet)
       /\ exec'.this_task = task /\ exec'.ctx_task = task
  BY <1>1, <1>7, <1>8, <1>10, ActiveEvent
<1> QED BY <1>1, <1>2, <1>9, <1>11, NoTaskAssumption DEF ExecInv, NotYet, CurrentNamed, Mirrors

\* The end of schedule() names no task and touches no list.
LEMMA LoopDoneExec ==
    ASSUME ExecInv, LoopDone, exec' = Handled(exec, events')
    PROVE  ExecInv'
<1>1. exec' = event_handler(exec, Event("ACTIVE_TASK", NoTask)) /\ ctl' = "done"
  BY HandledFew DEF LoopDone
<1>2. exec' = [[exec EXCEPT !.this_task = NoTask] EXCEPT !.ctx_task = NoTask]
  BY <1>1 DEF event_handler, Event, set_cur_task
<1> QED BY <1>1, <1>2 DEF ExecInv, NotYet, ExecState, TaskOrNone

\* wait(): the task's node goes to TaskWait.
LEMMA WaitExec ==
    ASSUME Inv, ExecInv, NEW t \in Tasks, NEW mask, wait(t, mask), exec' = Handled(exec, events')
    PROVE  ExecInv'
<1>1. /\ ctl = "task" /\ ctl' = "loop" /\ cur_task' = cur_task
      /\ state[t] = "TS_RUN"
      /\ events' = <<Event("WAITING_TASK", t)>>
  BY DEF wait, Executes, Inv, PlacedByState
<1>2. \A u \in Tasks : state'[u] = IF u = t THEN "TS_WAIT" ELSE state[u]
  BY DEF wait, Inv, TypeOK
<1>3. exec' = event_handler(exec, Event("WAITING_TASK", t))
  BY <1>1, HandledFew
<1>4. Mirrors(exec, ReadySet, WaitingSet) /\ CurrentNamed
  BY <1>1 DEF ExecInv
<1>5. t \notin ReadySet \cup WaitingSet
  BY <1>1 DEF ReadySet, WaitingSet
<1>6. /\ Mirrors(exec', ReadySet, WaitingSet \cup {t})
      /\ exec'.this_task = exec.this_task /\ exec'.ctx_task = exec.ctx_task
  BY <1>3, <1>4, <1>5, WaitingEvent
<1>7. ReadySet' = ReadySet /\ WaitingSet' = WaitingSet \cup {t}
  BY <1>1, <1>2 DEF ReadySet, WaitingSet
<1> QED BY <1>1, <1>4, <1>6, <1>7 DEF ExecInv, NotYet, CurrentNamed, Mirrors

\* set_signal(): the node of a task woken up goes to TaskReady.
LEMMA SetSignalExec ==
    ASSUME Inv, ExecInv, NEW t \in Tasks, NEW new, NEW mask, set_signal(t, new, mask),
           ctl = "task", exec' = Handled(exec, events')
    PROVE  ExecInv'
<1>1. cur_task' = cur_task
  BY DEF set_signal
<1>2. CASE events' = <<>> /\ state' = state /\ ctl' \in {"task", "raised"}
  BY <1>1, <1>2, QuietExec DEF ExecInv
<1>3. CASE /\ Contains(waiting_tasks, t)
           /\ state' = [state EXCEPT ![t] = "TS_READY"]
           /\ events' = <<Event("WAKE_UP_TASK", t)>>
           /\ ctl' = "loop"
  <2>1. state[t] = "TS_WAIT"
    BY <1>3 DEF Inv, PlacedByState
  <2>2. \A u \in Tasks : state'[u] = IF u = t THEN "TS_READY" ELSE state[u]
    BY <1>3 DEF Inv, TypeOK
  <2>3. exec' = event_handler(exec, Event("WAKE_UP_TASK", t))
    BY <1>3, HandledFew
  <2>4. Mirrors(exec, ReadySet, WaitingSet) /\ CurrentNamed
    BY DEF ExecInv
  <2>5. t \in WaitingSet /\ t \notin ReadySet
    BY <2>1 DEF ReadySet, WaitingSet
  <2>6. /\ Mirrors(exec', ReadySet \cup {t}, WaitingSet \ {t})
        /\ exec'.this_task = exec.this_task /\ exec'.ctx_task = exec.ctx_task
    BY <2>3, <2>4, <2>5, WakeUpEvent
  <2>7. ReadySet' = ReadySet \cup {t} /\ WaitingSet' = WaitingSet \ {t}
    BY <2>1, <2>2 DEF ReadySet, WaitingSet
  <2> QED BY <1>1, <1>3, <2>4, <2>6, <2>7 DEF ExecInv, NotYet, CurrentNamed, Mirrors
<1> QED BY <1>2, <1>3 DEF set_signal, wake_up_task

\* The end of the current task: its node is in no list.
LEMMA ExitExec ==
    ASSUME Inv, ExecInv, NEW t \in Tasks, exit(t), exec' = Handled(exec, events')
    PROVE  ExecInv'
<1>1. /\ ctl = "task" /\ cur_task = t /\ state[t] = "TS_RUN" /\ ctl' = "loop"
      /\ cur_task' = NoTask
      /\ events' \in {<<Event("REMOVE_TASK", t)>>, <<>>}
  <2>1. events' = <<Event("REMOVE_TASK", t)>> \/ events' = <<>>
    BY Zenon DEF exit, EndOf, terminate_task
  <2> QED BY <2>1 DEF exit, Executes, EndOf, terminate_task, Inv, PlacedByState
<1>2. \A u \in Tasks : state'[u] = IF u = t THEN "TS_REMOVED" ELSE state[u]
  BY <1>1 DEF exit, EndOf, terminate_task, mark_removed, find_task, Inv, TypeOK
<1>3. exec' = exec
  <2>1. event_handler(exec, Event("REMOVE_TASK", t)) = exec
    BY DEF event_handler, Event
  <2> QED BY <1>1, <2>1, HandledFew
<1>4. ReadySet' = ReadySet /\ WaitingSet' = WaitingSet
  BY <1>1, <1>2 DEF ReadySet, WaitingSet
<1> QED BY <1>1, <1>3, <1>4 DEF ExecInv, NotYet, CurrentNamed, Mirrors

\* The other steps of a task report nothing.
LEMMA TaskQuietExec ==
    ASSUME ExecInv, NEW t \in Tasks, exec' = Handled(exec, events'),
           \/ reschedule(t) \/ forbid(t) \/ permit(t) \/ leave_wait(t)
           \/ fail(t) \/ start_code(t) \/ end_code(t)
    PROVE  ExecInv'
<1>1. /\ ctl = "task" /\ ctl' # "setup" /\ events' = <<>>
      /\ UNCHANGED <<state, cur_task>>
  BY DEF reschedule, forbid, permit, leave_wait, fail, start_code, end_code, Executes, lists
<1> QED BY <1>1, QuietExec DEF ExecInv

-----------------------------------------------------------------------------
\* Every step of the two together preserves the invariant.
LEMMA ExecNextInv ==
    ASSUME "rem_task" \notin Calls, Inv, ExecInv, [ExecNext]_exec_vars PROVE ExecInv'
<1>1. CASE UNCHANGED exec_vars
  BY <1>1 DEF ExecInv, NotYet, CurrentNamed, ReadySet, WaitingSet, exec_vars, vars, lists
<1>2. CASE Terminated /\ UNCHANGED exec
  BY <1>2 DEF Terminated, ExecInv, NotYet, CurrentNamed, ReadySet, WaitingSet, vars, lists
<1>3. CASE ctl \notin Ended /\ Next /\ exec' = Handled(exec, events')
  <2>1. ASSUME NEW t \in Tasks, TaskStep(t)
        PROVE  ExecInv'
    <3>1. ASSUME NEW u \in Tasks, NEW signals \in SUBSET Signals, Signal(t, u, signals)
          PROVE  ExecInv'
      BY <1>3, <3>1, SetSignalExec DEF Signal, Executes
    <3>2. ASSUME NEW new \in SUBSET Signals, NEW mask \in SUBSET Signals, SetSignal(t, new, mask)
          PROVE  ExecInv'
      BY <1>3, <3>2, SetSignalExec DEF SetSignal, Executes
    <3>3. \A u \in Tasks : ~rem_task(t, u)
      BY DEF rem_task
    <3> QED BY <1>3, <2>1, <3>1, <3>2, <3>3, TaskQuietExec, WaitExec, ExitExec DEF TaskStep
  <2>2. CASE Loop
    BY <1>3, <2>2, LoopQuietExec, LoopSwitchExec, LoopDoneExec DEF Loop
  <2> QED BY <1>3, <2>1, <2>2, AddTaskExec, ScheduleExec DEF Next, Terminated
<1> QED BY <1>1, <1>2, <1>3 DEF ExecNext

\* The scheduler keeps its own invariant under its callbacks.
LEMMA ExecKeepsInv ==
    ASSUME "wait_forbidden" \notin Calls, Inv, [ExecNext]_exec_vars PROVE Inv'
<1>1. [Next]_vars
  BY DEF ExecNext, Next, exec_vars
<1> QED BY <1>1, NextInv

\* What programs see of the scheduler in Amiga memory is what it does, as long
\* as no task is removed by another one: the order in which the scheduler
\* reports events links every node once, TaskReady and TaskWait hold the tasks
\* that are ready and waiting, and library calls act for the caller.
THEOREM ExecMirroring ==
    ASSUME "wait_forbidden" \notin Calls, "rem_task" \notin Calls
    PROVE  ExecSpec => []ExecMirrors
<1>1. ExecInit => Inv /\ ExecInv
  BY InitInv, ExecInitInv DEF ExecInit
<1>2. Inv /\ ExecInv /\ [ExecNext]_exec_vars => Inv' /\ ExecInv'
  BY ExecKeepsInv, ExecNextInv
<1>3. Inv /\ ExecInv => ExecTypeOK /\ NodesLinkedOnce
  BY DEF ExecInv, ExecState, ExecTypeOK, NodesLinkedOnce
<1>4. Inv /\ ExecInv => ExecListsMirror
  <2> SUFFICES ASSUME Inv, ExecInv, ctl \in {"loop", "task"}
               PROVE  /\ ToSet(exec.task_ready) = ToSet(ready_tasks)
                      /\ ToSet(exec.task_wait) = ToSet(waiting_tasks)
    BY DEF ExecListsMirror
  <2>1. \A t \in Tasks : /\ Contains(exec.task_ready, t) <=> Contains(ready_tasks, t)
                         /\ Contains(exec.task_wait, t) <=> Contains(waiting_tasks, t)
    BY DEF ExecInv, Mirrors, ReadySet, WaitingSet, Inv, PlacedByState
  <2> DEFINE Members(s) == {t \in Tasks : Contains(s, t)}
  <2>2. \A s \in Seq(Tasks) : ToSet(s) = Members(s)
    BY DEF ToSet, Contains
  <2>3. /\ exec.task_ready \in Seq(Tasks) /\ exec.task_wait \in Seq(Tasks)
        /\ ready_tasks \in Seq(Tasks) /\ waiting_tasks \in Seq(Tasks)
    BY DEF ExecInv, ExecState, Inv, TypeOK
  <2>4. /\ Members(exec.task_ready) = Members(ready_tasks)
        /\ Members(exec.task_wait) = Members(waiting_tasks)
    BY <2>1, Zenon
  <2> HIDE DEF Members
  <2> QED BY <2>2, <2>3, <2>4
<1>5. Inv /\ ExecInv => CallerIsCurrent
  BY DEF ExecInv, CurrentNamed, CallerIsCurrent, Inv, PlacedByState, TypeOK, TaskOrNone
<1>6. Inv /\ ExecInv => FindTaskExact
  BY DEF ExecInv, CurrentNamed, FindTaskExact, FindTask, Linked, Mirrors, ReadySet, WaitingSet,
         Inv, PlacedByState
<1>7. Inv /\ ExecInv => ExecMirrors
  BY <1>3, <1>4, <1>5, <1>6, Zenon DEF ExecMirrors
<1> QED BY <1>1, <1>2, <1>7, PTL DEF ExecSpec
==============================================================================
