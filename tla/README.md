# Verification of amitools

TLA+ models of the parts of amitools that keep state, TLC configurations that
check them on small instances, and TLAPS proofs for instances of any size. Paths
below are relative to `src/amitools/`. `PROJECT.json` maps every definition to
the lines it models and lists components, runs, hazards and theorems.

## 1. Inventory

amitools has two halves. **vamos** runs AmigaOS command line programs: an m68k
emulator (external) with exec.library, dos.library and utility.library written in
Python. **The file tools** read and write Amiga disk images, binaries and ROMs.

### vamos

| Component | State | Operations | Hard behaviour | What makes it correct |
|---|---|---|---|---|
| Scheduler (`vamos/schedule/`) | ready and waiting lists, current task, per task state, signals, forbid count, CPU context | add/remove task, reschedule, wait, set_signal, forbid/permit | every task is a greenlet; a slice may end at any m68k instruction; a woken task runs later | lists and states agree, no lost wake-up, forbid() holds, own registers, no starvation |
| Exec task lists (`vamos/task/execscheduler.py`, `libmgr/setup.py`) | TaskReady, TaskWait, ThisTask in Amiga memory, `ctx.task` | event callbacks of the scheduler | order and completeness of events | mirror of the scheduler, nodes linked once |
| Runtime (`vamos/machine/runtime.py`) | stack of run states, cycles left in the slice | start, nested run, slice hook | Python calls m68k code that calls Python; errors on any level | registers and stack of the caller, cycles, nesting |
| Library stubs and proxies (`vamos/libcore/`, `fd/`) | traps, jump tables, stub tables, proxy types | create, free, call | holes, wrong methods, traps run out | each vector reaches its method, nothing leaks |
| Memory allocator (`vamos/mem/alloc.py`) | free list, maps of allocations, counters | allocate, free by object, free by address | long sequences, nearly full pool, zero bytes | no overlap, no loss, coalescing, a block can be given back |
| Memory headers and pools (`vamos/lib/lexec/Alloc.py`, `Pool.py`, `Puddle.py`) | chunks, puddles | allocate, free, delete | out of memory, exact fits | as the allocator, inside their memory |
| Library manager (`vamos/libmgr`, `libcore`, `libnative`) | maps of vamos libraries, infos and open counts of native ones, segment lists | open, close, expunge, shutdown | library code runs inside open and close, other tasks may enter meanwhile; LibOpen() fails | nobody holds a library that is gone, counts match |
| Exec lists (`vamos/libtypes/list_.py`) | links in Amiga memory | add, remove, insert, enqueue | the header is two overlapping nodes | a list is a sequence |
| Ports, messages, packets, I/O requests (`lexec/PortManager.py`, `lib/dos/FileManager.py`) | ports by address, queues | create, free, put, get, reply, DoIO | address reuse, reply ports, unknown packets | each message is in one place, FIFO |
| Signal numbers, semaphore names (`lexec/signalfunc.py`, `SemaphoreManager.py`) | masks, names | alloc, free, add, remove, find | tasks that share a mask | exclusive numbers |
| utility.library (`lib/UtilityLibrary.py`, `libtypes/tag.py`) | tag lists in Amiga memory | find, filter, map, clone, pack | lists change while they are walked; control items | results as AmigaOS defines them |
| Paths, volumes, assigns (`vamos/path/`) | volumes, assigns, current directories | set up, resolve both ways, add, delete, shut down | assigns of assigns, multi assigns, failed set up | resolution ends in a volume, mapping back |
| DOS locks (`lib/dos/LockManager.py`, `Lock.py`, `DosList.py`) | slots, keys, locks by address | lock, duplicate, unlock, examine, parent | slots run out, same path twice, files change under locks | a lock names what it named, live locks never share a slot or a key by mistake |
| DOS files and terminal (`lib/dos/FileManager.py`, `FileHandle.py`, `terminal.py`) | handles, standard streams, characters put back, terminal mode | open, read, write, seek, close, packets | handles shared by streams, ESC at the end of a chunk | position and contents as written |
| Processes (`lib/dos/Process.py`, `lib/dos/run.py`, `mode/`, `main.py`) | process structures, nested runs | main loop, SystemTagList, RunCommand, CreateNewProc | a child runs inside its parent; steps of main() fail | nothing is left, no stream of a run outlives it |
| Variables, segments, objects (`lib/DosLibrary.py`) | lists in processes, one table, residents | set, get, find, delete, alloc, free | two structures for the same variables | both agree, memory has one owner |
| Patterns, directory walks, arguments (`lib/dos/Pattern*.py`, `Match*.py`, `Args.py`, `Item.py`) | tokens, match state, parse results | parse, match, walk, read items | backtracking, abandoned walks, multi arguments | agree with what the syntax means |
| Segment loader (`vamos/loader/`, `binfmt/`) | segment lists in memory | load, relocate, unload | allocation fails half way | chains, relocation, all memory back |
| Configuration, logging, labels, profiler, trace; structures; timer, input and math libraries | | | | not modelled |

### File tools

| Component | State | Operations | Hard behaviour | What makes it correct |
|---|---|---|---|---|
| Amiga file system (`fs/ADFS*.py`, `fs/block/`) | image, bitmap and directories in memory | create, delete, close, open | hash chains, list blocks, cache blocks; full disk in the middle of a command; memory against disk | no shared or lost block, a tree of nodes, files read back |
| xdftool sessions, block devices (`tools/xdftool.py`, `fs/blkdev/`) | image, device, volume | commands in a queue | kill between writes, read-only | files apart, bitmap right after close |
| Validator (`fs/validate/`) | block map, log | scan | broken images: loops, shared blocks | accepts what the tools write, finds damage |
| Rigid disk blocks (`fs/rdb/`, `tools/rdbtool.py`) | partition and file system lists, blocks of the RDB area | init, add, delete, change, remap | cut off between block writes; order of lists | disk and memory agree, partitions apart |
| Hunk files (`binfmt/hunk/`) | blocks, segments | read by two readers, write | cut files, tables of odd size, libraries | both readers agree, what is written is read back |
| ROM tools (`rom/`, `tools/romtool.py`) | image under construction | build, check, patch, split, copy | sums that cover themselves, full ROMs | built ROMs are accepted and complete |
| ELF parser, FD files, scanners | | conversions in one pass | | not modelled |

How they interact: the scheduler reports events to the Exec lists and to the
library context; a library call leaves m68k code through jump table, trap block and
stub, acts on the context's task, and may run m68k code again through the runtime;
through Wait() and Signal() it comes back to the scheduler. Native libraries run as
m68k code in the calling task, so that the scheduler can switch in the middle of the
library manager. dos.library resolves paths through the path manager before it makes
locks and handles; processes take locks, streams, variables and segment lists and
give them back when they end. xdftool and rdbtool run a queue of commands on
one open volume or disk and close it, also after an exception.

## 2. Modules

| Module | Models |
|---|---|
| `Scheduler` | `vamos/schedule/scheduler.py`, `task.py`, Signal()/SetSignal() of `lib/lexec/signalfunc.py`, entry into m68k code of `machine/runtime.py` |
| `ExecScheduler` | composes `Scheduler` with the two event callbacks |
| `SchedulerProofs` | theorems about the scheduler and about the Exec lists that follow it |
| `ListLemmas` | induction over naturals; what the operations of lists do to their elements |
| `MemoryAlloc` | `vamos/mem/alloc.py` with FreeMem()/FreeVec() |
| `Allocator` | abstract: blocks nobody else holds a byte of |
| `MemoryAllocProofs` | theorems about vamos' allocator |
| `ExecIpcProofs` | theorems about ports, messages, signal numbers, semaphore names, pools and exec's allocator |
| `ExecListsProofs` | theorems about lists in Amiga memory: what they implement |
| `LibManagerProofs`, `RuntimeProofs` | theorems about the library manager and about nested runs |
| `SessionProofs` | theorems about sessions of xdftool, about processes of vamos, their file handles, terminal and variables |
| `LibManager` | `vamos/libmgr/mgr.py`, `libcore/mgr.py`, `libnative/mgr.py`, `loader.py` |
| `ADFS` | `fs/ADFSVolume.py`, `ADFSDir.py`, `ADFSFile.py`, `ADFSNode.py`, `ADFSBitmap.py` and the blocks they write |
| `VolumeTree` | abstract: a tree in which a command adds or removes one node |
| `ExecPorts`, `ExecLists`, `MemHeader`, `ExecPools`, `ExecSignals` | exec.library's services besides tasks |
| `NodeList` | abstract: lists as sequences, implemented by `ExecLists` |
| `Runtime`, `LibStubs`, `UtilityTags` | runs of m68k code, stubs and proxies, tag lists |
| `PathManager` | path syntax; volumes, assigns and translation |
| `DosLocks`, `DosFiles` (with the terminal), `DosProc`, `DosVars` | the state dos.library keeps |
| `DosMatch` (with the patterns), `DosArgs` | patterns, directory walks, command lines |
| `RDisk`, `XdfTool`, `Validator` | rdbtool, sessions of xdftool, xdfscan |
| `HunkCodec`, `HunkFiles`, `SegLoader`, `RomTools` | blocks and files of hunks, loading, ROM images |
| `MC*` | symmetry and values of constants for TLC; `MCExecScheduler`, `MCExecIpc`, `MCDos`, `MCDisk` and `MCBinaries` put modules that share no state into one run, of which a behaviour uses one |

Operators whose comment starts with "Mutant" are wrong versions of the next
definition. Nothing uses them; replacing the definition by one of them must break
the property PROJECT.json names, which shows that the property depends on the code.

### Scheduler

Greenlets switch only where the code says so. A step is what one greenlet does
from one such point to the next; `ctl` says whether the caller of schedule(), the
main loop or the current task executes, `pc[t]` where a task's greenlet is
suspended. `LoopKeep`, `LoopSwitch`, `LoopDone` and `LoopNoTask` are the ways
through one turn of the loop; `reschedule`, `forbid`, `permit`, `wait`,
`leave_wait`, `Signal`, `SetSignal`, `exit`, `rem_task`, `fail`, `start_code`,
`end_code` are what a task does. wait() is split where it gives up the CPU.
The CPU is modelled by whose registers are in it. `events` holds the events of the
last step, which `ExecScheduler` feeds to the callbacks in the same step.
Exceptions (`list.remove` of a task that is not there, the name of None) are
outcomes: `error`.

`Calls` selects what the tasks do. Several tasks exist where a mode starts a list
of them (`vamos/mode/base.py`).

### MemoryAlloc

The doubly linked list is a sequence of chunks. `alloc_memory` is the search for
the first chunk that fits, the removal or shrinking of it and both maps;
`free_memory` and `FreeVec` are insertion and both merges, with the assertion and
the failed look-ups as outcomes. An owner holds one block; the variants for
structs, strings and libraries differ in the label only.

### LibManager

Everything in Python is one step; the code of a native library is entered and left
in steps of their own (`open_alib`, `init_done`/`init_failed`,
`LibOpen`/`LibOpenFails`, `opened`; `close_alib`, `LibClose`, `closed`), between
which other tasks may act if `Preempt` is TRUE. The library's own code (external)
counts opens and expunges itself with the last close. Addresses are not reused, a
library has one base, exec's own count is left out.

### ADFS

`disk` is the image, a block a record with the fields of all block types. A volume
in memory (bitmap, buckets, cache blocks) is one value `v` that the parts of a
command transform in the order of the code: `Created` allocates, writes the node's
blocks, adds the cache record, links; `Deleted` unlinks, frees, removes the record,
wipes. A command that raises in the middle leaves what it had changed, and
`error`; xdftool then closes the volume (`reopen`). Blocks of nodes are written in
the call that changes them, so they are not kept twice. Commands refused before
they change anything (name exists, no space) are guards. Subdirectories are read
when the volume is opened instead of when they are first used: nothing but
commands on themselves changes them in between. Names stand for classes of names
that are equal up to case.

### exec.library's services

`ExecPorts` keeps queues by the address of a port as the code does, so a deleted and
reused address is visible. Programs are disciplined: they use what they own.
`ExecLists` works on the three words of a list header and on ln_Succ and ln_Pred, each
update in the order of the code. `Walk` follows the links until the one of the tail, which has
none behind it; `Represented` are the sequences that the links stand for, if both directions
agree, and `NodeList` says what happens to them. `MemHeader` and
`ExecPools` count in units of eight bytes; pools use the allocator through what
`Allocator` promises. `ExecSignals` has the bit masks as sets.

### Runtime, LibStubs, UtilityTags

`frames` of `Runtime` is the Python call stack: runs of m68k code and the trap
functions between them. An instruction (external) writes a register, pushes, pops or
calls a trap and takes a cycle; `ExitReached`, `cycles_reached` and `MachineFails` are
the ways out of execute(), `EndRun` is the end of start() and nested_run(). Memory that
no caller uses any more is forgotten. `LibStubs` follows a vector from the FD file over
scan, stub table, trap block and jump table to the method, and an argument of a proxy
into a register and out again; library code is the value it returns. `UtilityTags`
has memory as an array of tag items; each function is one call on every list.

### dos.library

`PathManager` takes a path as the sequence of its separators and names; the walker takes
it apart and joins it again as DosLibrary does. The manager has phases: set up of
volumes and assigns with all the ways it fails, edits, translation both ways, shutdown.
`DosLocks` keeps the slot array, of which the free ones are always the last (no slot is given
back), keys with their locks, the DosList, and host files that come and go. `DosFiles` has handles with position, end of file and
characters put back, the standard streams and the two packet handlers, and
the terminal's look-ahead for ESC [. In `DosProc` a program runs inside the call that started it:
`dp_runs` is the stack of runs, the steps of main() and their failures are actions, and
what a process allocates is a set of <<owner, what>>, and a stream or directory that it has
selected is <<what, run>> with the run it was made for. `DosVars` links variables through
memory and keeps the table beside it. The patterns and walks of `DosMatch` and `DosArgs` are the
algorithms as operators, each with a reference: the meaning of the syntax tree a pattern
was written from, the tree of directories, the template.

### Disks, binaries, ROMs

`RDisk` writes one block per step so that a session can be cut off between any two;
`rd` is the object in memory. `XdfTool` is the command queue with device and volume;
an entry takes one block, since `ADFS` has the layout. `Validator` turns the recursion
of the directory scan into a work list in the same order. `HunkCodec` takes one block
through writing, cutting and both readers; `HunkFiles` builds a file block by block and
lets both readers group it; `SegLoader` loads images into a memory of longs where
allocations fail. `RomTools` scales a ROM down (bytes have 16 values, sizes are in
units of 64 bytes per segment) but keeps layouts and offsets of headers and footer.

## 3. Runs

Each invariant of a run is a conjunction of named parts, one for each aspect of a module
(`StreamsRight` of `DosFiles` says that handles stand, positions are in the file, reads go
on where the last one ended, packets are answered, the terminal is restored and no typed
character is lost); the parts stand before it in its module, with comments.

| Run | Instance | Shows |
|---|---|---|
| scheduler_safety | 3 tasks, 1 signal, all calls | lists and states agree, no wake-up lost, wait() delivers, woken tasks run before all others, forbid() holds, own registers, schedule() gives up only on a deadlock and returns only when all ended |
| scheduler_fair | 3 tasks, forbid | no ready task starves |
| exec_lists | 3 tasks, forbid nested twice, failing tasks; 2 lists of 3 nodes | Exec's lists, ThisTask, ctx.task mirror the scheduler, FindTask() is exact; links in memory implement sequences, enqueue() keeps their order |
| memory_alloc | 7 long words, 4 owners, 4 sizes | disjoint, nothing lost, coalesced, counts, fails only when full, frees never fail, implements `Allocator` |
| lib_manager | 2 tasks, a vamos and two native libraries, shutdown | nobody holds a dead library, maps and counts match, no exception, if slices do not end in library code |
| lib_manager_preempt | slices end in library code | *violation*: the assertion in _rem_info() fails |
| adfs | 7 blocks, 3 names, 1 may be a directory, files without data and with a list block | blocks neither shared nor lost, memory equals disk, cache matches, implements `VolumeTree` |
| exec_ipc | 2 ports, 56 bytes of MemHeader, 2 pools, 3 tasks, 2 semaphores; runs 3 deep; 3 libraries and 6 traps; lists of 3 tag items | services of exec.library, the runtime, stubs and tag lists do what their callers rely on |
| disk_tools | 4 RDB edits on 3 cylinders of 2 heads and 2 sectors, an RDB of 1 or 2 cylinders; 2 files on 3 blocks; volumes of 11 blocks with 2 overwritten fields | what is on disk can be opened again after any cut, partitions and files stay apart, a scan without errors means a sound volume |
| binaries | all blocks of up to 2 entries; files of up to 5 blocks behind the header (8 in a library); 4 programs; ROMs of up to 3 modules and a patch | blocks survive, readers agree, programs are loaded and unloaded, ROMs are complete and accepted |
| dos | paths of 4 tokens, 5 volumes and 5 assigns with 4 edits, 5 lock slots, 3 handles, 4 typed characters, 3 processes 3 deep with 3 changes of streams and 2 replies, 4 operations on variables with 2 values, 2 levels of directories, 2 levels of patterns, lines of 3 words with and without a newline | dos.library, topic by topic |
| dos_stack_restore | 3 processes | *violation*: RunCommand() swaps the process's stack bounds |

**Bounds.** Three tasks are the least with a current, a woken and a third ready
task; one signal is enough because masks are only intersected. `MaxForbid` bounds
nesting. Four owners give two gaps with a block between and behind them, so both
merges and their combination happen; sizes 1 and 7 are not multiples of four.
Three libraries may be made or loaded, so that one goes and comes back. On seven
blocks a long file (header, list block, two data blocks) and one more node fit, three
nodes fit into one hash chain, the search wraps around the two bitmap longs, and
the disk gets full in all commands, also between a directory and its cache block.
`CacheRecords = 3` keeps each directory's cache in one block in the passing
run; with a second block TLC shows the defect of section 5. `Wipes = {TRUE}`
deletes with the tool's wipe option: what deleted blocks contain otherwise multiplies
the states. The same properties also pass on six blocks with `Wipes = {FALSE}`.

In the combined runs one module moves in each behaviour, so the
states add up and do not multiply. Two ports suffice for a sender and a receiver that
are mixed up, three nodes for a node with two neighbours in either of two lists. Two
nested runs give a run whose caller is nested itself; a slice of two cycles ends in the
middle and at the end of runs. Six traps are enough for any two of the three libraries
and not for all; they have a hole, a function without a method, and a method with too many
arguments. Three tag items contain each pair of items before a real one, and
continue in a second list. Four RDB edits are two partitions and a file system, of
which one goes, or a change of the geometry between them; two heads tell a partition's surfaces
from its blocks per track, file system blocks of two sectors and an RDB of two cylinders its sizes
and limits from each other, and remaps between 2, 4 and 5 blocks per cylinder have sizes that are
multiples and one that is not, which is refused from 4 and accepted from 2 (section 5). Two overwritten fields make loops and shared blocks; the third volume is
empty and has a directory cache, which the validator does not know. Five lock slots run
out with two paths relative to two directories; three processes are the main process (a shell sends no packets),
a shell and a command. Patterns have every operator under every other, texts every string
of three characters; the templates have every flag before and behind a multi argument.

**Deadlock** is checked in the runs of single modules; states in which vamos has ended
have a stuttering step. The combined runs end where a bound is reached or a tool is
done, which the cfg says (CHECK_DEADLOCK FALSE).

**Fairness** (scheduler_fair). The main loop and the code behind a switch run on by
themselves: weak fairness of `Loop` and `leave_wait`. A task that computes gives up
the CPU at the end of its slice, through the hook TaskBase.config() installs: weak
fairness of `Yields`. A critical section ends: strong fairness of `permit` inside a
forbid(). This is the programs' duty, not vamos's; without it nothing can be promised.
Strong fairness of a single permit() does not end nested sections, so the nesting
bound is 1 there.

## 4. Proofs

| Theorem | States | For all |
|---|---|---|
| `Placement`, `Signalling`, `Forbidding`, `RunsRight` | TasksPlaced, SignalsArrive, ForbidKeepsTask, RightTaskRuns of `Scheduler` | tasks, signals, bounds on forbid(); calls without `wait_forbidden` |
| `ExecMirroring` | ExecMirrors of `ExecScheduler` | as above; calls without `rem_task` too |
| `MemoryBlocksSafe`, `MemoryPoolAccounted`, `MemoryImplementsAllocator` | BlocksSafe, PoolAccounted, ImplementsAllocator of `MemoryAlloc` | pools, owners, sizes but zero |
| `MhMemorySound` | MhSound of `MemHeader` | ranges and sizes of requests |
| `SessionsAreSound` | XdfSound of `XdfTool` | names, blocks and labels |
| `ProcessesAreTidy`, `ShellsLeaveNoChannels` | ProcessesTidy, NoDeadChannels of `DosProc` | numbers of processes, nested runs, changes of streams and replies |
| `StreamsAreRight` | StreamsRight of `DosFiles` | host files under 2^31 bytes, handle addresses, bytes, typed texts, sizes of terminal reads, numbers of calls and packets |
| `VariablesAreRight` | VarsRight of `DosVars` | names and types of variables, values, numbers of calls |
| `PoolsAreSound` | PoolsSound of `ExecPools` | memory, kinds of pools, sizes but zero |
| `PortsMailSafe`, `PortsAreFifo` | MailSafe, PortsFifo of `ExecPorts` | ports, messages; ReuseOwn = FALSE |
| `NumbersAreExclusive` | NumbersExclusive of `ExecSignals` | tasks, signals, semaphores, names |
| `ListsImplementSequences`, `EnqueueIsStable` | ImplementsSequences, EnqueueKeepsOrder of `ExecLists` | nodes, priorities, lists with headers apart |
| `LibrariesAreSound` | LibrariesSound of `LibManager` | tasks, names, create modes, libraries; Preempt = FALSE |
| `RunsAlwaysNest` | RunsNest of `Runtime` | slices, stacks, register values, depth of nesting, lengths of runs |

Each hypothesis excludes something the code does not survive (section 5: with Preempt = TRUE
the run lib_manager_preempt violates a part of LibrariesSound), or, for
`ReuseOwn`, a program: one that builds a port of its own in memory where
an older one was finds the queue of that one, because ports are registered by address and nobody
tells the manager that memory is freed. The specifications of one service (`MhSpec`, `PoolsSpec`, `PortsSpec`,
`NumbersSpec`, `ListsSpec`, `RuntimeSpec`), of processes (`ProcSpec`), of files beside the terminal (`FilesSpec`), of variables (`VarsSpec`) and of one tool (`XdfSpec`) are
proved about; a behaviour of the runs exec_ipc, dos and disk_tools moves one of them and is, for that one, a
behaviour of its specification.

**Scheduler.** `Inv` adds two facts to the properties: a waiting task is
not in a forbid() (`WaitingNotForbidden`), or the loop would keep it although it is in
waiting_tasks; and a task that was taken out of waiting_tasks has a signal until it
leaves wait() (`WokenHasSignal`), which WaitDelivers needs. `RunInv` is what
RightTaskRuns needs on top: that the tasks woken and not yet run stand before
all others in ready_tasks (`WokenInFront`; one waking up is put first, so a step keeps it
only because the list keeps its order), that a task not running has its saved registers
(`RegistersKept`), that a task's state says whether it stands in wait()
(`WaitersSuspended`), and that an exception ends schedule() (`ErrorRaised`). One lemma per action.

**Exec lists.** schedule() reports a step as a list of events, and the lists in Amiga
memory agree with the scheduler's only after the last one. `HandledSteps` gives the states after each
event; for each shape of a step the lemmas say which events it reports and that they turn
a mirror of the old lists into one of the new. `ExecInv` has the mirror for the states in
which m68k code can look, and what holds before schedule() started (`NotYet`).

**Allocator.** `MemInv` says that the free list
is a sorted list of aligned chunks of the pool (`Sound`) that do not touch (`Tight`),
that every block is in both maps with its own size (`Recorded`) and shares no byte
with a chunk (`Avoids`) or another block (`Disjoint`). NoOverlap alone is not
inductive: a new block is disjoint from the others only because chunks are, and a
freed chunk is found only because the maps have it. The lemmas follow the code:
what _merge_chunk(), insertion and taking from a chunk do to Sound, Tight and Avoids.
`BooksInv` adds that no byte is lost (each is in a chunk or in a block, `Covered`) and that
free_bytes and free_entries are the sum and the length of the list. That the two counters
follow needs sums over lists: `BytesSums` gives the partial sums as a function, `SplicedSums`
says that where two lists agree behind and before a part, their sums differ by
that part, and removing, inserting, merging and cutting a chunk are such parts.
FailsOnlyWhenFull then says that a run of free bytes lies in one chunk: neighbours would
touch.

**MemHeader.** `MhInv` says that the blocks are apart, that the chunks are ordered with a gap
between two, and that they have exactly the bytes that no block has (`Unheld`), of
which mh_Free is the number. deallocate() joins at most two neighbours; `JoinedChain` says
once what a chunk in place of none, one or two of them does to order and bytes, and
`ReturnedRight` reduces the four cases of the code to it.

**Pools.** `PoolsInv` is PoolsSound puddle by puddle, with two additions: pool numbers are not
used again, and until an exception no puddle is empty (`NoneEmpty`): puddles that are apart then
have different addresses, so that DeletePool() takes only its own memory from the
system's. A block of no bytes has no address in its puddle, which is why sizes are not zero.
A puddle is an `Allocator`, so that the proof does not depend on how it finds a gap.

**Ports.** `PortsInv` adds to MailSafe that the queues hold each message once and only if its `sent`
says so (`QueuesRight`), that such a port lives (`SentToLive`), and that a message's reply
port stays that of its sender until the reply (`RepliesReachSender`, `AnswerNamed`). Without
SentToLive a port could be deleted with messages in it. **Numbers.** `SignalsInv`: the reserved
signals stay in every mask, and tasks that share one have disjoint parts of it. `SemsInv`: a
public semaphore is registered under the name it was added with.

**Lists.** `ListsInv` says that the words are, for every list, the links of the sequence that
walking it gives (`Linked`: header, successors and predecessors, last node) and
that no node is in two places. The sequence is a parameter of the invariant (`Represents`), so that
a lemma can say what an operation makes of words that stand for a given sequence. Every operation
puts a node between two neighbours (`InsertKeeps`) or takes one out (`RemoveKeeps`); the
end of a list is a neighbour like any other, because the header's words are the links of two nodes
that overlap: that is the trick of these lists, and `HeaderLinks` is where it is proved.
`LinksWritten` says what each of the code's writes changes, of which a node that is its own
neighbour's neighbour at an end of the list makes the cases. A walk is a function on the
naturals up to the number of nodes; `FollowedIs` shows that it exists and gives the sequence. The
theorem is the refinement: initial words stand for empty sequences, and a step is a step of
`NodeList`.

**Library manager.** A task can be inside open or close of a library while another enters, unless
slices end only outside of library code. `LInv` therefore says first that one task at most is inside
(`Alone`). For that one it adds to the properties what holds at its place (`JobRight`): between
LibOpen() and LibClose() the library's own count is one ahead of what programs have open, from
add_base_addr() to del_base_addr() the manager's is (`CountsRight`), and a library that
expunged itself stays in lib_infos until its close ends (`InfosRight`). Names are once in
lib_infos, or the wrong library is found; new libraries get addresses that nothing
refers to yet (`Fresh`). shutdown() walks lib_infos by index while it removes from it; the invariant of
that loop, by induction over its turns, says that what is left is a part of the list in its order, that
every library gone was closed, and that base_addrs has dropped at most one open, of a library
that stays. After it the counts of the manager and of the programs differ (`Over`). That no exception leaves the manager (error stays "none") is
a conclusion, since every look-up that can fail is in the model.

**Runtime.** RegsKept and StackKept speak of what an outer frame finds when the inner ones are
gone, so `RuntimeInv` says of every frame now what it will find then: runs and traps alternate,
and the registers a run saved are those of the trap function below it (`Chained`); a
frame, and the registers if it is on top, stays off the part of a stack that any trap
function below uses (`Separate`, `CpuAt`), whether it is on the same stack or not (`Apart`).
`RunGoesOn`, `FrameAdded` and `FrameGone` are the three things an action can do to that.
HookInTime needs an account of cycles: every run has one slice, of which its
execute() has used a part, may still use a part (`RoomOf`), and was not given the rest
(`SpareOf`), so that the sums of the three are the slice times the number of runs; what was run since the
hook and may be run before the next is at most a slice for each depth, and cycles since the hook that are in no
execute() any more are gone from left_cycles (`Ticks`). The same
sums, over the frames, are the difference between executed cycles and total_cycles
(`CountedRight`). A sum is a recursive function; `SumSteps` has what the proofs need of it.

**xdftool.** A command works on three objects at once: the image file, the device and the volume.
`Good` says of all three that what the device shows is what the volume in memory says (`Fits`):
entries apart, the volume's bitmap theirs, and the bitmap on the device the same unless the
volume is dirty; and that an image the device does not write into is `Clean`. XdfSound alone is not
inductive: while a session runs, the bitmap on an HDF is behind, and only `dirty` tells whether close()
makes up for it. Every helper that commands are made of keeps `Good` (`PutGood` for any write,
`GrowGood` for new entries, `CloseAllGood` for every end), so that each action is two or three of them.

**Processes.** A program runs inside the call that started it, so what is allocated belongs to a
place in the stack of runs. `TidyInv` says which: the stack of a command to the run above it
(`MemRight`), a packet to a process that has one, locks and segment lists to the processes
that run (`OwnersRight`, `SegsRight`), and these are exactly the processes of the runs
(`ProcsRun`), each below all that it started (`RunsNested`). The last is what ProcExit needs: a
process that is freed has no run left that works in it. A shell keeps locks when
it ends; it is the first process, and then nothing else runs. PacketReturns needs to know also
who a packet that was taken from its port will be returned to (`PktRight`). ShellsLeaveNoChannels needs to know what a
run that ends puts back: `LiveInv` says of every run of SystemTagList() that what it keeps is of runs
below it and of its own process (`SavesLive`), so that it still lives when the run is gone. Then
`LiveRunAdded` and `LiveRunGone` say that a run on top disturbs nothing, and that one that
ends takes only what was made for it; commands have no streams of their own.

**Files and terminal.** ReadsOn compares what is put back and what is left of a file with a program's own
count, which a step of getc() keeps only if what is put back is exactly the part of
the file from the count to the handle's position (`Positioned`). `HandleGood` says this of every
handle; a write changes the file below it, and keeps the others only because a program
opens a file once (`TableGood`; while characters are put back the program gives its count up).
gets() takes any number of characters (`GetsMoves`, by induction
on the steps of the loop). HandlesStand holds because console handles never own stdout's file object, and
TtyRestored because the handle of stdout keeps the mode it found (`StdGood`). A position of
2^31 or more could not be told from a negative offset, hence the bound in `FilesAssumption`. For the terminal,
`TerminalInv` is TerminalLossless with the types of its parts; both converters are recursive functions over a text, and
the lemmas say how they treat one more character (`EscAppend`, `CsiAppend`), two texts (`CsiConcat`)
and each other (`EscBack`: converting back gives what was typed, whatever chunk it came in). Nobody types
the character CSI itself (`TerminalAssumption`), which would come back as two.

**Variables.** A new node is put in front and has a new address, so a list has its nodes from the newest
to the oldest. `Chain` says this of both links of every node, head and tail, also of a process that is
gone, whose variables stay: delete_var() may link its cells, and then must not change a live list.
Each of insert (`ChainInsert`), delete (`ChainDelete`) and what happens to another list (`ChainElse`) is one lemma;
`WalkAll` counts the nodes walked to show that the walk meets them all. MemOwned as it stands
would break where a value is freed that something else owns too: `Apart` says that nothing does,
and that the next address is above them all.

**Induction.** The library's induction rules have an operator as a parameter. `ListLemmas`
states induction as sentences about sets of naturals instead (`NatLeast` from the
well-foundedness of < on Nat, `NatInd` for a subset that contains zero and successors), which suffices
where a fact about lists is about their prefixes. What recursive functions compute is
still used through their values on prefixes.

Only model-checked: liveness (NoStarvation); the algorithms written with
RECURSIVE operators, which tlapm does not take (`DosArgs`, `DosLocks`, `DosMatch`,
`HunkCodec`, `PathManager`, `UtilityTags`, `Validator`); and what is not proved yet: the
refinement of `VolumeTree`, `LibStubs`,
`ADFS`, `RDisk`, `SegLoader`, `HunkFiles`, `RomTools`.

## 5. Findings

Two runs show that the code does something else than a comment or an assertion of it
says (the quotes are in PROJECT.json, "findings"): a native library can be opened by
another task while its last close unloads it, and then the assertion of _rem_info()
fails (`lib_manager_preempt`); RunCommand() puts the process's stack bounds back
exchanged (`dos_stack_restore`).

The models reach more, as an outcome of the passing runs or with other constants:

- A second signal to the same waiting task inside one forbid(): wake_up_task() removes a
  task from waiting_tasks that is not there any more, and the ValueError ends the
  scheduler (`schedule/task.py:172`, `scheduler.py:193`; an outcome in `scheduler_safety`).
- `Calls` with `wait_forbidden`: the loop keeps a task that called wait() inside a
  forbid(), and wait() returns without a signal (`task.py:149`).
- `Calls` with `rem_task` in `exec_lists`: ExecScheduler has no callback for REMOVE_TASK, the
  node of a removed task stays in its Exec list (`task/execscheduler.py:14`).
- `Sizes` with 0: an allocation of zero bytes shares its address with the next one, and
  freeing both fails in an assertion (`mem/alloc.py:231`).
- `ReuseOwn = TRUE`: a port that a program built and dropped stays registered, and the next one
  at its address, or the port of a new process there, starts with its queue
  (`lexec/PortManager.py`, callers of has_port()).
- `CacheRecords = 1`: an emptied directory cache block is freed on disk but stays in
  the list in memory, and the next record is written to it (`fs/ADFSDir.py:522`).

Defects met while reading the code for the models; the models do what the code does
and their properties are stated for what is left.

- *Scheduling and runtime.* A library that was just loaded stays in memory without an
  owner when its LibOpen() fails (`libnative/mgr.py:172`). expunge_lib() and
  shutdown() drop a base address of a library that refuses to be expunged and stays open, and
  their loop over lib_infos skips the entry behind one it removed (`libnative/mgr.py:103,118,196`). An error of a nested run that
  the outer code ignores is overwritten by the next nested run (`machine/runtime.py:170`),
  and callers that want registers of a failed run get a TypeError (`libcore/proxy.py:162`).
  free_quick_trap() compares a byte offset with a number of traps (`machine.py:235`).
  A library that is short of traps loses those it has (`libcore/patch.py:37`).
  UtilityLibrary clones tag lists without TAG_DONE; NextTagItem() returns control items.
- *Paths and locks.* A multi assign as current directory makes relative lookups raise;
  the common prefix of a host path and a volume is one of characters, so that /a/bc is
  taken for part of /a/b; a temporary volume over a directory that was there before is
  deleted at shutdown; an append to an assign takes effect although it is then refused.
  AssignLock() of an assign calls a method that does not exist; SameLock() reads D1 twice;
  lock slots are never given back: no_locks() answers the opposite of its name, and
  sys_path_to_key_map is not filled (`LockManager.py:39`, `:102`), so a long run ends with no
  slot; an abandoned ExNext() scan makes the next one skip names.
- *Files and processes.* Characters put back with UnGetC() are ignored by Read(); the
  console handler raises ValueError on a packet number that its enum lacks, before it replies
  (`FileManager.py:329`). A `>` that is the last character of a line names itself
  (`CommandLine.py:97`). A shell inside a shell leaves cli_CurrentOutput, and without SYS_Output
  cli_StandardOutput, as it set them; the outer one's pr_CIS becomes its cli_CurrentInput
  (`DosLibrary.py:1945`), and cli_Background is FALSE behind it whatever it was. SystemTagList() with
  SYS_Output 0 ends in UnboundLocalError, and leaves a duplicate lock of the current directory
  to nobody. Variables of a process that ended stay in the table and point to its freed
  structure. IoErr() is one value for all processes.
- *Patterns and arguments.* MatchNext() with DODIR on a file raises TypeError; the lock of a
  match is looked up without the current directory; literal segments behind the last
  wildcard end the search at the first candidate that lacks them. A keyword with /F
  drops words that were left over.
- *Disks.* Deleting any but the first file system of an RDB relinks the wrong one
  (`RDisk.py:765`). remap() sets the blocks per track of a partition to those of a cylinder
  and keeps its surfaces, so with several heads the partition moves and overlaps the next
  (`RDisk.py:464`); it accepts sizes that are no multiple (`&` for `%`, `RDisk.py:414`), and the
  last cylinder grows or shrinks, where `docs/tools/rdbtool.rst:332` says "without any resizing".
  adjust can put the logical cylinders over the RDB's own. `format` writes in read-only sessions (`xdftool.py:207`); the validator
  does not compare the last bits of a bitmap (`BitmapScan.py:32`) and ends on pointers
  beyond the device (`DirScan.py:150`).
  It does not know the blocks of a directory cache (DOS4/5) and logs bitmap errors for healthy
  volumes; a comment block (DOS6/7) has no hdr_key and ends it (`BlockScan.py:218`).
- *Binaries and ROMs.* HunkBlockFile cannot write BSS, INDEX and OVERLAY blocks; data longer than
  the size in the header overruns its allocation (`Relocate.py:70`); a failed allocation
  leaks the segments before it (`seglist.py:113`). The filler of ROMs with a header in
  the middle has two bytes (`rombuilder.py:55`), and a module that ends exactly there
  leaves no room for that header. HunkReader ends a symbol block at any empty name
  (`HunkReader.py:477`), fails on a debug block below two longs (`:287`), never recognises LINE
  (it compares bytes with a string), and lets a second HEADER replace the first (`:743`).

## 6. Not modelled, and why

The CPU and m68k programs (external); ELF, FD and FS-UAE files, RawDoFmt, the other disk
and ROM scanners: conversions in one pass without state; layouts of structures; command
line and configuration; logging, labels, trace and profiler; imager and repacker, which
copy what the modelled parts read. A process that fails to start is one step in `DosProc`. In `ADFS` comments, protection bits, time stamps,
long names and the used-blocks count of DOS6/7; a crash before close(), from which
the code does not recover (`XdfTool` has it on the level of the bitmap). In `LibManager`
devices, SetFunction() and RemLibrary(). In the dos.library modules dates and formatting.
Semaphores exclude nobody (ObtainSemaphore() does nothing), so there is nothing to check
but their names. "components" in PROJECT.json says part by part what is left out.

## 7. Plan

1. Done: all components with state that section 1 names, as far as section 6 does not
   exclude them; `Allocator`, `VolumeTree` and `NodeList` as abstract specifications;
   proofs of the safety of the scheduler, the Exec lists, both allocators, pools, ports,
   numbers, the library manager, the runtime, processes and sessions of xdftool, and that `ExecLists` implements `NodeList`.
2. Proofs: RdbSound of `RDisk`.
3. A pool of `ExecPools` as a refinement of `Allocator`.
4. `ADFS` with comments and long names; `LibManager` with RemLibrary() and address reuse.
