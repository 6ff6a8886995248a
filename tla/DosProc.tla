------------------------------- MODULE DosProc -------------------------------
(***************************************************************************)
(* Processes of vamos: main() and the mode that runs the main process,     *)
(* Process (lib/dos) with what it allocates, the nested runs of dos.run    *)
(* and the functions of DosLibrary that start programs or pass packets     *)
(* between processes.  A program runs inside the call that started it, so  *)
(* that the runs form a stack.  Memory, locks, segment lists are sets of   *)
(* <<owner, what>>.  An exception ends the runs; main() then only shuts    *)
(* down the path manager.                                                  *)
(***************************************************************************)
EXTENDS Integers, Sequences, SequencesExt, FiniteSets

CONSTANTS
    MaxProcs,     \* bound: processes started
    MaxDepth,     \* bound: nested runs
    MaxPkts,      \* bound: packets replied to
    MaxWorks      \* bound: changes of a program to its own process

ASSUME DosProcAssumption == MaxProcs \in Nat /\ MaxDepth \in Nat /\ MaxPkts \in Nat /\ MaxWorks \in Nat

VARIABLES
    dp_phase,     \* how far main() is
    dp_paths,     \* path manager: "none", "up", "down"
    dp_count,     \* processes made so far
    dp_runs,      \* stack of runs: [kind, proc, save]
    dp_proc,      \* fields of the Process structures, by process
    dp_mem, dp_locks, dp_segs,
    dp_seg_lists, \* seg_lists of dos.library: segment lists that programs loaded
    dp_err,       \* io_err, one for all processes
    dp_children,  \* _child_processes made by CreateNewProc()
    dp_pkt,       \* a DosPacket: [at, holder, dp_Port, replies]
    dp_works      \* changes so far
dp_vars == <<dp_works, dp_phase, dp_paths, dp_count, dp_runs, dp_proc, dp_mem, dp_locks, dp_segs, dp_seg_lists, dp_err, dp_children, dp_pkt>>

\* What a Process and its base classes allocate.
ProcMem == {"stack", "process", "args", "cli", "prompt", "cmdname", "cmdfile", "setname", "seglist"}
MemOf(p, shell) == {p} \X (IF shell THEN ProcMem \ {"args"} ELSE ProcMem)
Child == 0     \* owners that are no Process
DosLib == -1
NoPkt == [at |-> "none", holder |-> "none", dp_Port |-> "none", replies |-> 0]
\* A channel or a directory is <<what, run>>, the run it was made for and goes
\* with, 0 for those that were there before all runs or stay.
StdIn == <<"in", 0>>
StdOut == <<"out", 0>>
Cli0 == [std_in |-> StdIn, cur_in |-> StdIn, std_out |-> StdOut, cur_out |-> StdOut, background |-> FALSE, module |-> "none"]

ProcInit ==
    /\ dp_phase = "config" /\ dp_paths = "none" /\ dp_count = 0 /\ dp_runs = <<>> /\ dp_proc = <<>>
    /\ dp_mem = {} /\ dp_locks = {} /\ dp_segs = {} /\ dp_seg_lists = {} /\ dp_err = 0
    /\ dp_children = {} /\ dp_pkt = NoPkt /\ dp_works = 0

-----------------------------------------------------------------------------
(* main() *)

\* The steps of main() in order; each returns an error code when it fails.
Phases == <<"config", "log", "machine", "memmap", "trace", "path_config", "path_setup", "lib_config", "open_libs", "mode", "libs_down", "ended">>
NextPhase(ph) == Phases[(CHOOSE i \in DOMAIN Phases : Phases[i] = ph) + 1]
InTry == {"path_config", "path_setup", "lib_config", "open_libs", "mode", "libs_down"}
CanFail == {"config", "log", "machine", "memmap", "trace", "path_config", "path_setup", "lib_config"}
\* finally: the path manager is shut down however the block is left.
paths_after(ph, good) == IF ph \in InTry THEN "down" ELSE dp_paths
MainRest == UNCHANGED <<dp_count, dp_runs, dp_proc, dp_mem, dp_locks, dp_segs, dp_seg_lists, dp_err, dp_children, dp_pkt>>
MainStep ==
    /\ dp_phase \in {"config", "log", "machine", "memmap", "trace", "path_config", "path_setup", "lib_config", "open_libs"}
    /\ dp_phase' = NextPhase(dp_phase)
    /\ dp_paths' = IF dp_phase = "trace" THEN "up" ELSE dp_paths
    /\ MainRest
MainFails == dp_phase \in CanFail /\ dp_phase' = "ended" /\ dp_paths' = paths_after(dp_phase, FALSE) /\ MainRest
LibsDown == dp_phase = "libs_down" /\ dp_phase' = "ended" /\ dp_paths' = paths_after(dp_phase, TRUE) /\ MainRest
\* An exception, wherever it is raised, goes through all runs.
ProcRaise ==
    /\ dp_phase' = "ended" /\ dp_paths' = paths_after(dp_phase, FALSE) /\ dp_runs' = <<>>
    /\ UNCHANGED <<dp_count, dp_proc, dp_mem, dp_locks, dp_segs, dp_seg_lists, dp_err, dp_children, dp_pkt>>

-----------------------------------------------------------------------------
(* Process *)

Top == dp_runs[Len(dp_runs)]
Cur == Top.proc
Run(k, p, save) == Append(dp_runs, [kind |-> k, proc |-> p, save |-> save])
NewProc(p, shell, own_cwd) ==
    [shell |-> shell, own_cwd |-> own_cwd, lower |-> <<p, "low">>, upper |-> <<p, "high">>,
     cis |-> StdIn, cos |-> StdOut, dir |-> <<"cwd", 0>>, cli |-> Cli0, packet |-> FALSE]

\* Process.__init__() with the outcome of load_binary(): a failure gives back
\* the lock made for the current directory, if it was made for this process.
CwdLock(p, own_cwd) == IF own_cwd THEN {<<p, "cwd">>} ELSE {}
ProcFails == dp_count < MaxProcs /\ dp_count' = dp_count + 1 /\ UNCHANGED dp_locks
ProcStarts(shell, own_cwd) ==
    LET p == dp_count + 1
    IN /\ dp_count < MaxProcs /\ dp_count' = p
       /\ dp_locks' = dp_locks \union CwdLock(p, own_cwd) \union {<<p, "home">>}
       /\ dp_segs' = dp_segs \union {<<p, "bin">>}
       /\ dp_mem' = dp_mem \union MemOf(p, shell)
       /\ dp_proc' = [q \in DOMAIN dp_proc \union {p} |-> IF q = p THEN NewProc(p, shell, own_cwd) ELSE dp_proc[q]]
       /\ dp_runs' = Run("proc", p, <<>>)
\* free() and the free() of DosProcess and ExecTask.
\* Mutant: the packet that a shell was started with is kept.
ProcFree_Packet(p) ==
    /\ dp_locks' = dp_locks \ ({<<p, "home">>} \union IF dp_proc[p].shell THEN {} ELSE CwdLock(p, dp_proc[p].own_cwd))
    /\ dp_segs' = dp_segs \ {<<p, "bin">>}
    /\ dp_mem' = dp_mem \ MemOf(p, dp_proc[p].shell)
    /\ dp_proc' = [q \in DOMAIN dp_proc \ {p} |-> dp_proc[q]]
ProcFree(p) ==
    /\ dp_locks' = dp_locks \ ({<<p, "home">>} \union IF dp_proc[p].shell THEN {} ELSE CwdLock(p, dp_proc[p].own_cwd))
    /\ dp_segs' = dp_segs \ {<<p, "bin">>}
    /\ dp_mem' = dp_mem \ (MemOf(p, dp_proc[p].shell) \union IF dp_proc[p].packet THEN {<<p, "packet">>} ELSE {})
    /\ dp_proc' = [q \in DOMAIN dp_proc \ {p} |-> dp_proc[q]]

\* ProcMode.create_proc() and BaseMode.run(): the main process, or 255.
StartMain(shell) ==
    /\ dp_phase = "mode" /\ dp_count = 0
    /\ ProcStarts(shell, TRUE) /\ UNCHANGED <<dp_phase, dp_paths, dp_seg_lists, dp_err, dp_children, dp_pkt>>
MainNotFound ==
    /\ dp_phase = "mode" /\ dp_count = 0 /\ ProcFails /\ dp_phase' = "libs_down"
    /\ UNCHANGED <<dp_paths, dp_runs, dp_proc, dp_mem, dp_segs, dp_seg_lists, dp_err, dp_children, dp_pkt>>
Running_ == dp_phase = "mode" /\ dp_runs # <<>>
Deeper == Running_ /\ Len(dp_runs) < MaxDepth

\* SystemTagList() outside a shell: a sub process with the current directory the
\* caller was started in, run inside the caller.
SystemProc(found) ==
    /\ Deeper /\ ~dp_proc[Cur].shell
    /\ IF found THEN ProcStarts(FALSE, FALSE) ELSE ProcFails /\ UNCHANGED <<dp_segs, dp_mem, dp_proc, dp_runs>>
    /\ UNCHANGED <<dp_phase, dp_paths, dp_seg_lists, dp_err, dp_children, dp_pkt>>
\* A program returns: run_sub_process() frees the process, BaseMode.run() the
\* main process.
ProcExit ==
    /\ Running_ /\ Top.kind = "proc"
    /\ ProcFree(Cur) /\ dp_runs' = Front(dp_runs)
    /\ dp_phase' = IF Len(dp_runs) = 1 THEN "libs_down" ELSE dp_phase
    /\ UNCHANGED <<dp_paths, dp_count, dp_seg_lists, dp_err, dp_children, dp_pkt>>

-----------------------------------------------------------------------------
(* Commands that run in the process of their caller *)

\* run_command(): the bounds are saved and set the wrong way round.
Bounds(p, s) == [lower |-> dp_proc[p].lower, upper |-> dp_proc[p].upper, seg |-> s]
CmdStack == <<Len(dp_runs), "cmd_stack">>
begin_command(pr) == [pr EXCEPT !.lower = <<Len(dp_runs), "high">>, !.upper = <<Len(dp_runs), "low">>]
end_command(pr, save) == [pr EXCEPT !.lower = save.upper, !.upper = save.lower]
\* LoadSeg(), UnLoadSeg() and RunCommand(): a list that is not known raises.
LoadSeg(s) == /\ Running_ /\ dp_seg_lists' = dp_seg_lists \union {s} /\ s \notin dp_seg_lists
              /\ dp_segs' = dp_segs \union {<<DosLib, s>>}
              /\ UNCHANGED <<dp_phase, dp_paths, dp_count, dp_runs, dp_proc, dp_mem, dp_locks, dp_err, dp_children, dp_pkt>>
InUse(s) == \E i \in DOMAIN dp_runs : dp_runs[i].kind = "cmd" /\ dp_runs[i].save.seg = s
UnLoadSeg(s) ==
    /\ Running_ /\ ~InUse(s)
    /\ IF s \notin dp_seg_lists THEN ProcRaise
       ELSE /\ dp_seg_lists' = dp_seg_lists \ {s} /\ dp_segs' = dp_segs \ {<<DosLib, s>>}
            /\ UNCHANGED <<dp_phase, dp_paths, dp_count, dp_runs, dp_proc, dp_mem, dp_locks, dp_err, dp_children, dp_pkt>>
RunCommand(s) ==
    /\ Deeper
    /\ IF s \notin dp_seg_lists THEN ProcRaise
       ELSE /\ dp_runs' = Run("cmd", Cur, Bounds(Cur, s))
            /\ dp_mem' = dp_mem \union {CmdStack}
            /\ dp_proc' = [dp_proc EXCEPT ![Cur] = begin_command(@)]
            /\ UNCHANGED <<dp_phase, dp_paths, dp_count, dp_locks, dp_segs, dp_seg_lists, dp_err, dp_children, dp_pkt>>
CommandReturns ==
    /\ Running_ /\ Top.kind = "cmd"
    /\ dp_runs' = Front(dp_runs) /\ dp_mem' = dp_mem \ {<<Len(dp_runs) - 1, "cmd_stack">>}
    /\ dp_proc' = [dp_proc EXCEPT ![Cur] = end_command(@, Top.save)]
    /\ UNCHANGED <<dp_phase, dp_paths, dp_count, dp_locks, dp_segs, dp_seg_lists, dp_err, dp_children, dp_pkt>>

\* SystemTagList() in a shell: the shell's code runs again in this process, with
\* the command as its input, on the CLI structure of the process.
SystemShell(out) ==
    LET pr == dp_proc[Cur]
        n == Len(dp_runs) + 1
        cli1 == [pr.cli EXCEPT !.cur_in = <<"new_in", n>>, !.std_in = <<"new_std", n>>, !.background = TRUE, !.module = "none",
                               !.std_out = IF out \in {"none", "zero"} THEN @ ELSE <<out, 0>>]
        save == [cli |-> pr.cli, cos |-> pr.cos, dir |-> pr.dir, out |-> out, lower |-> pr.lower, upper |-> pr.upper]
    IN /\ Deeper /\ pr.shell
       /\ dp_runs' = Run("system", Cur, save)
       /\ dp_mem' = dp_mem \union {CmdStack, <<Cur, "packet">>}
       /\ dp_locks' = dp_locks \union {<<Cur, "dup", Len(dp_runs)>>}
       /\ dp_proc' = [dp_proc EXCEPT ![Cur] = [begin_command(@) EXCEPT !.cli = cli1, !.packet = TRUE, !.dir = <<"dup", n>>]]
       /\ UNCHANGED <<dp_phase, dp_paths, dp_count, dp_segs, dp_seg_lists, dp_err, dp_children, dp_pkt>>
\* The end of it; the standard output is put back if it was given, pr_CIS gets
\* cli_CurrentInput, and the streams of the dying shell are closed by itself.
cli_back(pr, save) ==
    [save.cli EXCEPT !.std_out = IF save.out = "none" THEN pr.cli.std_out ELSE @, !.cur_out = pr.cli.cur_out, !.background = FALSE]
\* Mutant: the input stays what the command selected.
end_system_Input(pr, save) ==
    [end_command(pr, save) EXCEPT !.cli = cli_back(pr, save), !.cos = save.cos, !.dir = save.dir]
end_system(pr, save) ==
    [end_command(pr, save) EXCEPT !.cli = cli_back(pr, save), !.cis = save.cli.cur_in, !.cos = save.cos, !.dir = save.dir]
SystemReturns(rc) ==
    /\ Running_ /\ Top.kind = "system"
    /\ IF Top.save.out = "zero" THEN ProcRaise      \* output_fhci has no value
       ELSE /\ dp_runs' = Front(dp_runs) /\ dp_mem' = dp_mem \ {<<Len(dp_runs) - 1, "cmd_stack">>}
            /\ dp_proc' = [dp_proc EXCEPT ![Cur] = end_system(@, Top.save)]
            /\ dp_err' = rc
            /\ UNCHANGED <<dp_phase, dp_paths, dp_count, dp_locks, dp_segs, dp_seg_lists, dp_children, dp_pkt>>
\* What a running program does to its own process: CurrentDir(), SelectInput(),
\* SelectOutput(), and CliInit() in a shell, which may open S:Vamos-Startup.
\* Streams that are opened go with the innermost run that is no command (bound: of
\* a shell, where runs share a process).
InShell(n) ==
    /\ dp_proc[Cur].shell /\ dp_runs[n].kind # "cmd" /\ dp_runs[n].proc = Cur
    /\ \A j \in DOMAIN dp_runs : j > n => dp_runs[j].kind = "cmd"
ProgramWorks(f, v) ==
    /\ Running_ /\ dp_proc[Cur][f] # v
    /\ dp_proc' = [dp_proc EXCEPT ![Cur][f] = v]
    /\ UNCHANGED <<dp_phase, dp_paths, dp_count, dp_runs, dp_mem, dp_locks, dp_segs, dp_seg_lists, dp_err, dp_children, dp_pkt>>
cli_init(pr, in) == [pr.cli EXCEPT !.std_in = pr.cis, !.cur_in = in, !.std_out = pr.cos, !.cur_out = pr.cos]
CliInit(n) ==
    /\ Running_ /\ dp_proc[Cur].shell
    /\ \E in \in {dp_proc[Cur].cis, <<"startup", n>>} : dp_proc' = [dp_proc EXCEPT ![Cur].cli = cli_init(dp_proc[Cur], in)]
    /\ UNCHANGED <<dp_phase, dp_paths, dp_count, dp_runs, dp_mem, dp_locks, dp_segs, dp_seg_lists, dp_err, dp_children, dp_pkt>>

-----------------------------------------------------------------------------
(* Child processes and packets, of the program that was started first *)

\* CreateNewProc(): structures, stack and port of a child, which nobody frees
\* (bound: no shell makes one).
CreateNewProc(entry) ==
    /\ Running_ /\ dp_children = {} /\ Len(dp_runs) = 1 /\ ~dp_proc[Cur].shell
    /\ IF entry
       THEN dp_children' = {"child"} /\ dp_mem' = dp_mem \union ({Child} \X {"stack", "process", "name"})
       ELSE UNCHANGED <<dp_children, dp_mem>>
    /\ UNCHANGED <<dp_phase, dp_paths, dp_count, dp_runs, dp_proc, dp_locks, dp_segs, dp_seg_lists, dp_err, dp_pkt>>
PktRest == UNCHANGED <<dp_phase, dp_paths, dp_count, dp_runs, dp_proc, dp_mem, dp_locks, dp_segs, dp_seg_lists, dp_err, dp_children>>
Parties == {"caller", "child"}
OtherParty(x) == CHOOSE y \in Parties : y # x
\* A program sends a packet of its own to the child's port.
SendPkt == /\ Running_ /\ Len(dp_runs) = 1 /\ dp_children # {} /\ dp_pkt.at = "none"
           /\ dp_pkt' = [at |-> "child", holder |-> "none", dp_Port |-> "caller", replies |-> 0] /\ PktRest
\* WaitPkt() of process x: an empty port cannot be waited for, and raises.
WaitPkt(x) ==
    /\ Running_ /\ dp_children # {} /\ Len(dp_runs) = 1
    /\ IF dp_pkt.at = x THEN dp_pkt' = [dp_pkt EXCEPT !.at = "none2", !.holder = x] /\ PktRest ELSE ProcRaise
\* ReplyPkt(): to dp_Port, which then names the port of the replier.
reply_port(pkt, x) == [pkt EXCEPT !.at = pkt.dp_Port, !.holder = "none", !.dp_Port = x, !.replies = @ + 1]
ReplyPkt(x) ==
    /\ Running_ /\ Len(dp_runs) = 1 /\ dp_pkt.holder = x /\ dp_pkt.replies < MaxPkts
    /\ dp_pkt' = reply_port(dp_pkt, x) /\ PktRest

\* The steps of main(), of runs, and of packets.
RunsNext ==
    \/ MainStep \/ MainFails \/ LibsDown
    \/ \E s \in BOOLEAN : StartMain(s) \/ SystemProc(s) \/ CreateNewProc(s)
    \/ MainNotFound \/ ProcExit
    \/ \E s \in {"a"} : LoadSeg(s) \/ UnLoadSeg(s) \/ RunCommand(s)
    \/ CommandReturns \/ \E o \in {"none", "zero", "file"} : SystemShell(o)
    \/ SystemReturns(1)
    \/ SendPkt \/ \E x \in Parties : WaitPkt(x) \/ ReplyPkt(x)
\* Those of a program on its own process.
WorksNext ==
    \/ ProgramWorks("dir", <<"other", 0>>)
    \/ \E n \in DOMAIN dp_runs : InShell(n) /\ (ProgramWorks("cis", <<"file", n>>) \/ ProgramWorks("cos", <<"file", n>>) \/ CliInit(n))
ProcNext ==
    \/ RunsNext /\ UNCHANGED dp_works
    \/ WorksNext /\ dp_works < MaxWorks /\ dp_works' = dp_works + 1

ProcSpec == ProcInit /\ [][ProcNext]_dp_vars
-----------------------------------------------------------------------------
(* What holds *)

\* However main() ends - done, a step that failed, or an exception out of any
\* nested run - the path manager was shut down once it was made.
PathsShutDown == dp_phase = "ended" => dp_paths \in {"none", "down"}
\* A shell may end in another directory than it began in: free() leaves its locks.
ShellLocks == {<<1, "cwd">>} \union ({1} \X {"dup"} \X (1..MaxDepth))
\* The locks, memory and segment lists there are belong to processes that still
\* run, to commands that still run, or to what programs keep: processes that
\* ended, nested as they may be, leave nothing.  (A process that fails to start is
\* one step, which leaves what there was: free_cwd() gives back the one lock taken.)
OwnedBy(x) == x \in DOMAIN dp_proc \/ x \in {DosLib, Child}
NothingLeft ==
    dp_phase # "ended" =>
        /\ \A m \in dp_mem : IF m[2] = "cmd_stack" THEN m[1] < Len(dp_runs) ELSE OwnedBy(m[1])
        /\ \A s \in dp_segs : OwnedBy(s[1])
        /\ \A l \in dp_locks : OwnedBy(l[1]) \/ (l[2] # "home" /\ dp_runs = <<>> /\ l \in ShellLocks)
\* However shells run themselves, select streams, are initialised and end, no
\* process reads from, writes to or is in what was made for a run that is over:
\* its current input and output, its directory, and the inputs of its CLI are its
\* own runs' (SystemTagList(), CliInit()).  Left out are cli_StandardOutput and
\* cli_CurrentOutput: what CliInit() sets there in a nested run stays, the first
\* unless SYS_Output was given.
Channels(pr) == {pr.cis, pr.cos, pr.dir, pr.cli.std_in, pr.cli.cur_in}
Lives(x, p, runs) == x[2] # 0 => x[2] \in DOMAIN runs /\ runs[x[2]].kind # "cmd" /\ runs[x[2]].proc = p
NoDeadChannels ==
    dp_phase # "ended" => \A p \in DOMAIN dp_proc : \A x \in Channels(dp_proc[p]) : Lives(x, p, dp_runs)
\* A packet goes back and forth: after each ReplyPkt() (bound: MaxPkts of them) it is at
\* the port of the other process, and dp_Port again leads to the one that replied.
PacketReturns == dp_pkt.at \in Parties => dp_pkt.dp_Port = OtherParty(dp_pkt.at)
\* "restore stack values" (dos/run.py): after a command the stack bounds of the
\* process are those it had before.
StackRestored ==
    [][dp_runs # <<>> /\ Len(dp_runs') = Len(dp_runs) - 1 /\ Top.kind = "cmd" /\ dp_phase' = "mode" =>
        dp_proc'[Cur].lower = Top.save.lower /\ dp_proc'[Cur].upper = Top.save.upper]_dp_vars

\* Processes that end, in whatever order and way, leave nothing allocated, and main()
\* shuts down what it has set up (Process, main()).
ProcessesTidy == NothingLeft /\ PathsShutDown /\ PacketReturns
=============================================================================
