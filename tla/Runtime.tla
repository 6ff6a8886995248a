------------------------------ MODULE Runtime ------------------------------
(***************************************************************************)
(* The runtime of one task (machine/runtime.py): m68k code that calls      *)
(* Python functions by traps, which run m68k code again before the first   *)
(* run has ended, on the same CPU and often on the same stack.             *)
(*                                                                         *)
(* frames is the Python call stack: a run of m68k code, the trap function  *)
(* it calls, the run that one starts, ...  The CPU is its stack pointer    *)
(* and one more register.  A cell of mem is a long of the stack and an     *)
(* instruction takes a cycle.                                              *)
(***************************************************************************)
EXTENDS Integers, SequencesExt, FiniteSets

CONSTANTS Slices,       \* cycles of a time slice, 0: no slices
          RunCycles,    \* cycles of an execute() without slices
          StackTop,     \* initial stack pointer of the task
          OwnTop,       \* stack pointer of a stack of its own, above StackTop
          RegVals,
          MaxNesting,   \* bound on nested runs
          MaxCycles     \* bound on the cycles of a behaviour

ASSUME SlicesAssumption == Slices \subseteq Nat /\ RunCycles \in Nat
ASSUME StackAssumption ==
    StackTop \in Nat /\ OwnTop \in Nat /\ StackTop > 1 /\ OwnTop > StackTop + 1
ASSUME NestingAssumption == MaxNesting \in Nat

VARIABLES running, run_states, left_cycles, slice_cycles,
          cpu, mem, frames,
          raised,       \* an exception that is no MachineError came out of start()
          executed, lost, since   \* cycles: of all runs, of failed execute()s, since the last hook

runtime_vars == <<running, run_states, left_cycles, slice_cycles, cpu, mem, frames, raised, executed, lost, since>>

Top == Last(frames)
InCode == frames # <<>> /\ Top.type = "run" /\ ~Top.looping
InTrap == frames # <<>> /\ Top.type = "trap"
Bottom(sp) == IF sp <= StackTop THEN 1 ELSE StackTop + 1
\* The cells of the stack that sp is on, those in use.
InUse(sp) == IF sp <= StackTop THEN sp..(StackTop - 1) ELSE sp..(OwnTop - 1)
SetTop(fr) == [frames EXCEPT ![Len(frames)] = fr]
Runs == {i \in 1..Len(frames) : frames[i].type = "run"}

NewRun(sp, ctx, gets) ==
  [type |-> "run", ctx |-> ctx, base |-> sp, gets |-> gets, used |-> 0, limit |-> 0, looping |-> TRUE]
RunState(nesting, total) == [nesting |-> nesting, total_cycles |-> total, exit |-> FALSE, mach_error |-> FALSE]

\* Place the end trap on the stack.
prepare(sp, regs) ==
  /\ mem' = [mem EXCEPT ![sp - 1] = "exit"]
  /\ cpu' = [regs EXCEPT !.sp = sp - 1]

start(gets, set_regs) ==
  /\ ~running /\ frames = <<>> /\ raised = "none"
  /\ running' = TRUE
  /\ run_states' = <<RunState(0, 0)>>
  /\ left_cycles' = slice_cycles
  /\ prepare(StackTop, set_regs)
  /\ frames' = <<NewRun(StackTop - 1, set_regs, gets)>>
  /\ since' = 0 /\ lost' = 0 /\ executed' = 0
  /\ UNCHANGED <<slice_cycles, raised>>

\* "if no own stack is given then re-use current stack"
nested_sp(sp) == IF sp = 0 THEN cpu.sp - 1 ELSE sp

\* A trap function runs m68k code, with a stack of its own that is not in use
\* or on the current one.
nested_run(own, gets, set_regs) ==
  /\ InTrap /\ Len(run_states) <= MaxNesting
  /\ own = 0 \/ \A i \in Runs : frames[i].base <= StackTop
  /\ LET sp == nested_sp(own) IN
     /\ own # 0 \/ sp > Bottom(cpu.sp)
     /\ run_states' = Append(run_states, RunState(Len(run_states), Last(run_states).total_cycles))
     /\ frames' = Append(frames, NewRun(sp - 1, cpu, gets))
     /\ prepare(sp, set_regs)
  /\ UNCHANGED <<running, left_cycles, slice_cycles, raised, executed, lost, since>>

\* The next turn of _run_loop(): the hook when the slice is over, then execute().
run_loop ==
  /\ frames # <<>> /\ Top.type = "run" /\ Top.looping
  /\ LET hook == slice_cycles > 0 /\ left_cycles <= 0
         left == IF hook THEN slice_cycles ELSE left_cycles
     IN  /\ left_cycles' = left
         /\ since' = IF hook THEN 0 ELSE since
         /\ frames' = SetTop([Top EXCEPT !.looping = FALSE, !.used = 0,
                                         !.limit = IF slice_cycles > 0 THEN left ELSE RunCycles])
  /\ UNCHANGED <<running, run_states, slice_cycles, cpu, mem, raised, executed, lost>>

left_after(left, cycles) == IF left > 0 THEN left - cycles ELSE left
\* execute() came back after some cycles.
account(rs, cycles) == [rs EXCEPT !.total_cycles = @ + cycles]

\* "run cycles reached. report and continue"
cycles_reached ==
  /\ InCode /\ Top.used >= Top.limit
  /\ run_states' = [run_states EXCEPT ![Len(run_states)] = account(@, Top.used)]
  /\ left_cycles' = left_after(left_cycles, Top.used)
  /\ frames' = SetTop([Top EXCEPT !.looping = TRUE, !.used = 0])
  /\ UNCHANGED <<running, slice_cycles, cpu, mem, raised, executed, lost, since>>

\* Mutant: the CPU context is restored only after a run that reached its end.
restored_ok(ctx, rs) == IF rs.mach_error THEN cpu ELSE ctx
restored(ctx, rs) == ctx
\* What a run leaves in the run state of its caller.
taken_over(old, rs) == [old EXCEPT !.total_cycles = rs.total_cycles, !.mach_error = rs.mach_error]
popped(rss, rs) == Front(rss)

\* The cells that a caller on the Python stack still uses; no code reads others.
Live == UNION {DOMAIN frames[i].mem : i \in {j \in 1..Len(frames) : frames[j].type = "trap"}}
\* The run of the top frame is over: start() or nested_run() returns rs.  A
\* caller that asked for registers of a failed run finds None and fails.
EndRun(rs) ==
  /\ IF Len(run_states) = 1
     THEN /\ running' = FALSE /\ run_states' = <<>> /\ frames' = <<>>
          /\ UNCHANGED <<cpu, raised>>
     ELSE LET rest == popped(run_states, rs) IN
          /\ run_states' = [rest EXCEPT ![Len(run_states) - 1] = taken_over(@, rs)]
          /\ cpu' = restored(Top.ctx, rs)
          /\ IF Top.gets /\ ~rs.exit
             THEN frames' = <<>> /\ raised' = "TypeError"
             ELSE frames' = Front(frames) /\ UNCHANGED raised
          /\ UNCHANGED running
  /\ mem' = [a \in DOMAIN mem |-> IF a \in Live THEN mem[a] ELSE "data"]

-----------------------------------------------------------------------------
(* What the code does: one instruction, or the return to the end trap.     *)

Instruction == InCode /\ Top.used < Top.limit /\ executed < MaxCycles
Cycle(fr) == [fr EXCEPT !.used = @ + 1]
Counted == executed' = executed + 1 /\ since' = since + 1

WriteReg == \E v \in RegVals \ {cpu.reg} :
  /\ Instruction /\ Counted
  /\ cpu' = [cpu EXCEPT !.reg = v]
  /\ frames' = SetTop(Cycle(Top))
  /\ UNCHANGED <<running, run_states, left_cycles, slice_cycles, mem, raised, lost>>

Push ==
  /\ Instruction /\ Counted
  /\ cpu.sp > Bottom(cpu.sp)
  /\ cpu' = [cpu EXCEPT !.sp = @ - 1]
  /\ mem' = [mem EXCEPT ![cpu.sp - 1] = "data"]
  /\ frames' = SetTop(Cycle(Top))
  /\ UNCHANGED <<running, run_states, left_cycles, slice_cycles, raised, lost>>

Pop ==
  /\ Instruction /\ Counted
  /\ cpu.sp < Top.base /\ mem[cpu.sp] = "data"
  /\ cpu' = [cpu EXCEPT !.sp = @ + 1]
  /\ mem' = [mem EXCEPT ![cpu.sp] = "data"]
  /\ frames' = SetTop(Cycle(Top))
  /\ UNCHANGED <<running, run_states, left_cycles, slice_cycles, raised, lost>>

\* JSR to a trap: its Python function is called inside of execute().
CallTrap ==
  /\ Instruction /\ Counted
  /\ cpu.sp > Bottom(cpu.sp)
  /\ cpu' = [cpu EXCEPT !.sp = @ - 1]
  /\ mem' = [mem EXCEPT ![cpu.sp - 1] = "ret"]
  /\ frames' = Append(SetTop(Cycle(Top)), [type |-> "trap", cpu |-> cpu', mem |-> [a \in InUse(cpu.sp - 1) |-> mem'[a]]])
  /\ UNCHANGED <<running, run_states, left_cycles, slice_cycles, raised, lost>>

\* The function of a trap ends, and the RTS behind the trap goes back to its caller.
TrapReturns ==
  /\ InTrap /\ mem[cpu.sp] = "ret"
  /\ cpu' = [cpu EXCEPT !.sp = @ + 1]
  /\ mem' = [mem EXCEPT ![cpu.sp] = "data"]
  /\ frames' = Front(frames)
  /\ UNCHANGED <<running, run_states, left_cycles, slice_cycles, raised, executed, lost, since>>

\* RTS to run_exit_addr: the exit trap ends the innermost execute().
ExitReached ==
  /\ InCode /\ Top.used < Top.limit /\ cpu.sp = Top.base /\ mem[cpu.sp] = "exit"
  /\ EndRun([account(Last(run_states), Top.used) EXCEPT !.exit = TRUE])
  /\ left_cycles' = left_after(left_cycles, Top.used)
  /\ UNCHANGED <<slice_cycles, executed, lost, since>>

\* A memory access, CPU exception or reset that no hook handles: the
\* MachineError leaves execute() before its cycles are counted.
MachineFails ==
  /\ InCode
  /\ EndRun([Last(run_states) EXCEPT !.mach_error = TRUE])
  /\ lost' = lost + Top.used /\ since' = since - Min({since, Top.used})
  /\ UNCHANGED <<left_cycles, slice_cycles, executed>>

\* Any other exception falls through all runs, which clean up nothing.
TrapRaises ==
  /\ InTrap
  /\ raised' = "Exception" /\ frames' = <<>>
  /\ UNCHANGED <<running, run_states, left_cycles, slice_cycles, cpu, mem, executed, lost, since>>

RuntimeInit ==
  /\ running = FALSE /\ run_states = <<>> /\ left_cycles = 0 /\ slice_cycles \in Slices
  /\ cpu = [reg |-> Min(RegVals), sp |-> StackTop]
  /\ mem = [a \in 1..OwnTop |-> "data"]
  /\ frames = <<>> /\ raised = "none" /\ executed = 0 /\ lost = 0 /\ since = 0

RuntimeNext ==
  \/ \E gets \in BOOLEAN :
        LET set_regs == [cpu EXCEPT !.reg = Max(RegVals)]
        IN  start(gets, set_regs) \/ \E own \in {0, OwnTop} : nested_run(own, gets, set_regs)
  \/ run_loop \/ cycles_reached
  \/ WriteReg \/ Push \/ Pop \/ CallTrap \/ TrapReturns \/ ExitReached \/ MachineFails \/ TrapRaises

RuntimeSpec == RuntimeInit /\ [][RuntimeNext]_runtime_vars

-----------------------------------------------------------------------------
\* Whatever m68k code a trap function runs, to the end or to an error, it then
\* has the registers of its caller again, so that the code that called the
\* library function finds all but the result as before (nested_run()).
RegsKept == InTrap => cpu = Top.cpu

\* Runs on the caller's stack leave alone all that the caller has there, from
\* its stack pointer up: return addresses, data and the ends of outer runs.
StackKept ==
  \A i \in 1..Len(frames) : frames[i].type = "trap" =>
     \A a \in DOMAIN frames[i].mem : mem[a] = frames[i].mem[a]

SumOf(f, n) ==
  LET sum[k \in 0..n] == IF k = 0 THEN 0 ELSE sum[k - 1] + f[k]
  IN  sum[n]
\* The cycles of execute() calls that have not come back.
Used(fs) == SumOf([i \in 1..Len(fs) |-> IF fs[i].type = "run" THEN fs[i].used ELSE 0], Len(fs))

\* The innermost run state counts the cycles of all runs, those that are over,
\* those around it and its own, but for the execute() calls that did not return.
CyclesCounted ==
  running /\ raised = "none" =>
     Last(run_states).total_cycles = executed - lost - Used(frames)

\* The hook that lets the scheduler switch tasks comes in time: code that is
\* never more than n runs deep cannot run for longer than n slices without it.
HookInTime == slice_cycles > 0 /\ raised = "none" => since <= slice_cycles * (MaxNesting + 1)

\* The run states are those of the runs on the Python stack, each at its depth,
\* and there are none when the runtime is idle.
NestingMatches ==
  raised = "none" => /\ Len(run_states) = Cardinality(Runs)
                     /\ running = (run_states # <<>>)
                     /\ \A i \in 1..Len(run_states) : run_states[i].nesting = i - 1

\* However runs of m68k code and of Python nest and end, each level finds its registers,
\* its stack and its run state again, and the cycles of all are accounted (Runtime).
RunsNest == RegsKept /\ StackKept /\ CyclesCounted /\ HookInTime /\ NestingMatches
=============================================================================
