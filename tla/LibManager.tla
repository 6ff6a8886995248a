------------------------------ MODULE LibManager ------------------------------
(***************************************************************************)
(* The library manager of vamos (libmgr/mgr.py) with its two parts: the    *)
(* vamos libraries written in Python (libcore/mgr.py) and the native ones  *)
(* that are loaded from a file and run as m68k code (libnative/mgr.py).    *)
(* Tasks open and close libraries; a program closes just what it opened.   *)
(*                                                                         *)
(* The init, open and close functions of a native library are m68k code.   *)
(* While a task runs them its slice may end, and the scheduler runs        *)
(* another task in the middle of open_lib() or close_lib().                *)
(***************************************************************************)
EXTENDS Integers, FiniteSets, SequencesExt

CONSTANTS
    Tasks,
    VLibs,      \* the names with an implementation in Python (lib_reg)
    ALibs,      \* the names with a native library in the search path
    Modes,      \* the create mode of every name: LibCfg.CREATE_MODE_*
    Preempt,    \* slices may end inside library code
    MaxAddr,    \* bound: libraries made or loaded
    MaxOpen     \* bound: opens a task has not closed

Names == DOMAIN Modes
Addrs == 1..MaxAddr

ASSUME ModesAssumption ==
    \A n \in Names : Modes[n] \in {"off", "auto", "vamos", "amiga", "fake"}
ASSUME BoundsAssumption == MaxAddr \in Nat /\ MaxOpen \in Nat /\ Preempt \in BOOLEAN

VARIABLES
    next_addr,     \* the address the next library gets
    addr_vlib,     \* VLibManager.addr_vlib: address -> name
    name_vlib,     \* VLibManager.name_vlib: name -> address
    open_cnt,      \* Library.open_cnt in memory, by address
    lib_infos,     \* ALibManager.lib_infos: the load addresses, in their order
    info_name,     \* ALibInfo.name
    base_addrs,    \* ALibInfo.base_addrs: how often the base is open
    seglists,      \* SegmentLoader.infos: the loaded segment lists
    alive,         \* native libraries that were initialised and not expunged
    handles,       \* handles[t][a]: opens of a that task t did not close
    pc, job,       \* where a task is inside the manager, and with what
    left,          \* what shutdown() returned for the native libraries
    error          \* the exception that ended vamos

vlibs == <<addr_vlib, name_vlib>>
alibs == <<lib_infos, info_name, base_addrs, seglists, alive>>
vars == <<next_addr, vlibs, open_cnt, alibs, handles, pc, job, left, error>>

NoJob == [addr |-> 0, loaded |-> FALSE, ok |-> TRUE, seglist |-> FALSE]

Init ==
    /\ next_addr = 1
    /\ addr_vlib = <<>> /\ name_vlib = [n \in Names |-> 0]
    /\ open_cnt = [a \in Addrs |-> 0]
    /\ lib_infos = <<>> /\ info_name = [a \in Addrs |-> "none"]
    /\ base_addrs = [a \in Addrs |-> 0]
    /\ seglists = {} /\ alive = {}
    /\ handles = [t \in Tasks |-> [a \in Addrs |-> 0]]
    /\ pc = [t \in Tasks |-> "idle"] /\ job = [t \in Tasks |-> NoJob]
    /\ left = -1
    /\ error = "none"

\* no one is inside library code, or slices may end there
MayRun(t) ==
    /\ error = "none" /\ left = -1
    /\ Preempt \/ \A u \in Tasks \ {t} : pc[u] = "idle"

Handled(t, a, d) == [handles EXCEPT ![t][a] = @ + d]
Total(t) == FoldFunction(LAMBDA x, y : x + y, 0, handles[t])

\* _map_mode()
try_vlib(n) == Modes[n] \in {"auto", "vamos", "fake"}
try_alib(n) == Modes[n] \in {"auto", "amiga"}
fake(n) == Modes[n] = "fake"

-----------------------------------------------------------------------------
(* vamos libraries.  All of it is Python: a step.                           *)

\* get_vlib_by_name(), or an implementation to create it from
HasVLib(n) == name_vlib[n] # 0 \/ fake(n) \/ n \in VLibs

\* open_lib_name(): the library's address, made first if need be
VAddr(n) == IF name_vlib[n] # 0 THEN name_vlib[n] ELSE next_addr

\* _add_vlib()
add_vlib(n, a) ==
    /\ addr_vlib' = [x \in DOMAIN addr_vlib \cup {a} |-> IF x = a THEN n ELSE addr_vlib[x]]
    /\ name_vlib' = [name_vlib EXCEPT ![n] = a]

\* _rem_vlib()
rem_vlib(n, a) ==
    /\ addr_vlib' = [x \in DOMAIN addr_vlib \ {a} |-> addr_vlib[x]]
    /\ name_vlib' = [name_vlib EXCEPT ![n] = 0]

\* Mutant: a library goes while others have it open
expunge_vlib_any(n, a, cnt) == rem_vlib(n, a)

\* expunge_lib(): a library that is still open stays
expunge_vlib(n, a, cnt) == IF cnt > 0 THEN UNCHANGED vlibs ELSE rem_vlib(n, a)

\* open_lib() of a name vamos implements, where the version suffices
open_vlib(t, n) ==
    /\ MayRun(t) /\ pc[t] = "idle" /\ Total(t) < MaxOpen
    /\ try_vlib(n) /\ HasVLib(n) /\ VAddr(n) <= MaxAddr
    /\ LET a == VAddr(n)
       IN /\ add_vlib(n, a)
          /\ open_cnt' = [open_cnt EXCEPT ![a] = @ + 1]
          /\ handles' = Handled(t, a, 1)
          /\ next_addr' = IF a = next_addr THEN a + 1 ELSE next_addr
    /\ UNCHANGED <<alibs, pc, job, left, error>>

\* open_lib() where the library is too old: opened and closed again
open_vlib_old(t, n) ==
    /\ MayRun(t) /\ pc[t] = "idle"
    /\ try_vlib(n) /\ HasVLib(n) /\ VAddr(n) <= MaxAddr
    /\ next_addr' = IF VAddr(n) = next_addr THEN next_addr + 1 ELSE next_addr
    /\ expunge_vlib(n, VAddr(n), open_cnt[VAddr(n)])
    /\ UNCHANGED <<open_cnt, alibs, handles, pc, job, left, error>>

\* close_lib() of a vamos library; it goes with the last close
close_vlib(t, a) ==
    /\ MayRun(t) /\ pc[t] = "idle" /\ handles[t][a] > 0
    /\ a \in DOMAIN addr_vlib
    /\ open_cnt' = [open_cnt EXCEPT ![a] = @ - 1]
    /\ expunge_vlib(addr_vlib[a], a, open_cnt[a] - 1)
    /\ handles' = Handled(t, a, -1)
    /\ UNCHANGED <<next_addr, alibs, pc, job, left, error>>

-----------------------------------------------------------------------------
(* Native libraries.                                                        *)

Enter(t, p, j) == pc' = [pc EXCEPT ![t] = p] /\ job' = [job EXCEPT ![t] = j]

\* _find_info(): the infos of that name, of which the first is taken
FoundInfos(n) == {i \in 1..Len(lib_infos) : info_name[lib_infos[i]] = n}

\* open_lib() of a native library: known, or loaded and about to be initialised
open_alib(t, n, ok) ==
    /\ MayRun(t) /\ pc[t] = "idle" /\ Total(t) < MaxOpen
    /\ try_alib(n) /\ ~(try_vlib(n) /\ HasVLib(n))
    /\ \/ /\ FoundInfos(n) # {}
          /\ Enter(t, "open", [NoJob EXCEPT !.addr = lib_infos[Min(FoundInfos(n))], !.ok = ok])
          /\ UNCHANGED <<next_addr, info_name, seglists>>
       \/ /\ FoundInfos(n) = {} /\ n \in ALibs /\ next_addr <= MaxAddr
          /\ next_addr' = next_addr + 1
          /\ seglists' = seglists \cup {next_addr}
          /\ info_name' = [info_name EXCEPT ![next_addr] = n]
          /\ Enter(t, "init", [NoJob EXCEPT !.addr = next_addr, !.ok = ok, !.loaded = TRUE])
    /\ UNCHANGED <<vlibs, open_cnt, lib_infos, base_addrs, alive, handles, left, error>>

\* init_resident() came back with a library: _add_info()
init_done(t) ==
    /\ MayRun(t) /\ pc[t] = "init"
    /\ alive' = alive \cup {job[t].addr}
    /\ lib_infos' = Append(lib_infos, job[t].addr)
    /\ Enter(t, "open", job[t])
    /\ UNCHANGED <<next_addr, vlibs, open_cnt, info_name, base_addrs, seglists, handles, left, error>>

\* init_resident() failed: the segment list is unloaded
init_failed(t) ==
    /\ MayRun(t) /\ pc[t] = "init"
    /\ seglists' = seglists \ {job[t].addr}
    /\ Enter(t, "idle", NoJob)
    /\ UNCHANGED <<next_addr, vlibs, open_cnt, lib_infos, info_name, base_addrs, alive, handles, left, error>>

\* the library's own LibOpen(): it counts the opener.  The memory of a library
\* that has expunged itself still holds its code, until someone overwrites it.
LibOpen(t) ==
    /\ MayRun(t) /\ pc[t] = "open"
    /\ open_cnt' = [open_cnt EXCEPT ![job[t].addr] = @ + 1]
    /\ Enter(t, "opened", job[t])
    /\ UNCHANGED <<next_addr, vlibs, alibs, handles, left, error>>

\* LibOpen() returned 0: a library that was just loaded is forgotten again
LibOpenFails(t) ==
    /\ MayRun(t) /\ pc[t] = "open"
    /\ lib_infos' = IF job[t].loaded THEN RemoveFirst(lib_infos, job[t].addr) ELSE lib_infos
    /\ error' = IF job[t].loaded /\ ~Contains(lib_infos, job[t].addr) THEN "ValueError" ELSE "none"
    /\ Enter(t, "idle", NoJob)
    /\ UNCHANGED <<next_addr, vlibs, open_cnt, info_name, base_addrs, seglists, alive, handles, left>>

\* add_base_addr()
BaseAdded(a) == [base_addrs EXCEPT ![a] = @ + 1]

\* is_base_addr(): a base that is open, of a library in the list
is_base_addr(a) == Contains(lib_infos, a) /\ base_addrs[a] > 0

\* back in open_lib(): the base is counted; too old a library is closed again
opened(t) ==
    /\ MayRun(t) /\ pc[t] = "opened"
    /\ base_addrs' = BaseAdded(job[t].addr)
    /\ \/ /\ job[t].ok
          /\ handles' = Handled(t, job[t].addr, 1)
          /\ Enter(t, "idle", NoJob) /\ UNCHANGED error
       \/ /\ ~job[t].ok /\ Contains(lib_infos, job[t].addr)
          /\ Enter(t, "close", job[t]) /\ UNCHANGED <<handles, error>>
       \/ /\ ~job[t].ok /\ ~Contains(lib_infos, job[t].addr)
          /\ error' = "ValueError" /\ UNCHANGED <<handles, pc, job>>
    /\ UNCHANGED <<next_addr, vlibs, open_cnt, lib_infos, info_name, seglists, alive, left>>

\* close_lib() of a native library
close_alib(t, a) ==
    /\ MayRun(t) /\ pc[t] = "idle" /\ handles[t][a] > 0
    /\ a \notin DOMAIN addr_vlib
    /\ handles' = Handled(t, a, -1)
    /\ IF is_base_addr(a) THEN Enter(t, "close", [NoJob EXCEPT !.addr = a])
       ELSE UNCHANGED <<pc, job>>      \* "close: unknown lib"
    /\ UNCHANGED <<next_addr, vlibs, open_cnt, alibs, left, error>>

\* the library's own LibClose(): with the last one it may expunge itself and
\* returns its segment list then
LibClose(t) ==
    /\ MayRun(t) /\ pc[t] = "close"
    /\ LET a == job[t].addr
       IN /\ open_cnt' = [open_cnt EXCEPT ![a] = @ - 1]
          /\ \/ alive' = alive /\ Enter(t, "closed", job[t])
             \/ /\ open_cnt[a] = 1 /\ a \in alive
                /\ alive' = alive \ {a}
                /\ Enter(t, "closed", [job[t] EXCEPT !.seglist = TRUE])
    /\ UNCHANGED <<next_addr, vlibs, lib_infos, info_name, base_addrs, seglists, handles, left, error>>

\* lib_infos.remove(info)
InfoRemoved(a) == RemoveFirst(lib_infos, a)

\* _rem_info(): del_base_addr() if the address is a base that is open
BaseRemoved(bases, a) == [bases EXCEPT ![a] = IF @ > 0 THEN @ - 1 ELSE 0]

\* back in close_lib(): the segment list is unloaded, then _rem_info()
closed(t) ==
    /\ MayRun(t) /\ pc[t] = "closed"
    /\ LET a == job[t].addr
       IN /\ base_addrs' = BaseRemoved(base_addrs, a)
          /\ \/ ~job[t].seglist /\ UNCHANGED <<seglists, lib_infos, error>>
             \/ /\ job[t].seglist
                /\ seglists' = seglists \ {a}
                /\ lib_infos' = IF base_addrs'[a] = 0 THEN InfoRemoved(a) ELSE lib_infos
                /\ error' = IF base_addrs'[a] > 0 THEN "AssertionError"
                            ELSE IF Contains(lib_infos, a) THEN "none" ELSE "ValueError"
    /\ Enter(t, "idle", NoJob)
    /\ UNCHANGED <<next_addr, vlibs, open_cnt, info_name, alive, handles, left>>

-----------------------------------------------------------------------------

\* One turn of the loop of expunge_libs(): LibExpunge() gives its segment list back if
\* the library is not open.  _rem_info() takes an open from base_addrs all the same.
expunge_lib(s, k) ==
    IF s.error # "none" \/ k > Len(s.infos) THEN s
    ELSE LET a == s.infos[k]
             asked == [s EXCEPT !.bases = BaseRemoved(@, a)]
         IN IF open_cnt[a] > 0 THEN [asked EXCEPT !.left = @ + 1]
            ELSE IF asked.bases[a] > 0 THEN [asked EXCEPT !.error = "AssertionError"]
            ELSE [asked EXCEPT !.infos = RemoveAt(@, k)]

\* expunge_libs(): the loop over lib_infos, from which expunge_lib() removes;
\* an index that has passed is not revisited
ExpungeLoop(infos) ==
    LET after[k \in 0..Len(infos)] ==
            IF k = 0 THEN [infos |-> infos, bases |-> base_addrs, left |-> 0, error |-> "none"]
            ELSE expunge_lib(after[k - 1], k)
    IN after[Len(infos)]

\* shutdown(), when all tasks have ended: the native libraries
shutdown ==
    /\ error = "none" /\ left = -1
    /\ \A t \in Tasks : pc[t] = "idle"
    /\ LET s == ExpungeLoop(lib_infos)
       IN /\ lib_infos' = s.infos /\ left' = s.left
          /\ base_addrs' = s.bases /\ error' = s.error
          /\ seglists' = seglists \ (ToSet(lib_infos) \ ToSet(s.infos))
          /\ alive' = alive \ (ToSet(lib_infos) \ ToSet(s.infos))
    /\ UNCHANGED <<next_addr, vlibs, open_cnt, info_name, handles, pc, job>>

\* vamos has ended, by shutdown() or by an exception
Ended == (left # -1 \/ error # "none") /\ UNCHANGED vars

Next ==
    \/ \E t \in Tasks :
        \/ \E n \in Names : open_vlib(t, n) \/ open_vlib_old(t, n)
        \/ \E a \in Addrs : close_vlib(t, a) \/ close_alib(t, a)
        \/ \E n \in Names, ok \in BOOLEAN : open_alib(t, n, ok)
        \/ init_done(t) \/ init_failed(t)
        \/ LibOpen(t) \/ LibOpenFails(t) \/ opened(t)
        \/ LibClose(t) \/ closed(t)
    \/ shutdown
    \/ Ended

Spec == Init /\ [][Next]_vars

-----------------------------------------------------------------------------
(* Properties.                                                              *)

\* the opens of address a that no program has closed, task by task
Opens(a) == UNION {{t} \X (1..handles[t][a]) : t \in Tasks}

\* how often address a is open, as the programs see it
OpenedBy(a) == Cardinality(Opens(a))

Quiet == error = "none" /\ \A t \in Tasks : pc[t] = "idle"

\* the tasks are where the manager can be, and the maps have their types
TypeOK ==
    /\ next_addr \in 1..(MaxAddr + 1)
    /\ DOMAIN addr_vlib \subseteq Addrs /\ \A a \in DOMAIN addr_vlib : addr_vlib[a] \in Names
    /\ name_vlib \in [Names -> {0} \cup Addrs]
    /\ open_cnt \in [Addrs -> Nat] /\ base_addrs \in [Addrs -> Nat]
    /\ lib_infos \in Seq(Addrs) /\ info_name \in [Addrs -> Names \cup {"none"}]
    /\ seglists \subseteq Addrs /\ alive \subseteq Addrs
    /\ handles \in [Tasks -> [Addrs -> Nat]]
    /\ pc \in [Tasks -> {"idle", "init", "open", "opened", "close", "closed"}]
    /\ left \in Int /\ error \in {"none", "AssertionError", "ValueError"}

\* A library a program has open is there: a vamos library in the maps, a native
\* one initialised and with its segments loaded.  shutdown() leaves it there too.
NoDeadHandle ==
    \A t \in Tasks, a \in Addrs : handles[t][a] > 0 =>
        a \in DOMAIN addr_vlib \/ (a \in alive /\ a \in seglists)

\* The two maps of the vamos libraries mirror each other, and a vamos library is
\* there if and only if someone has it open.
VLibsMatch ==
    /\ \A n \in Names : name_vlib[n] # 0 =>
        name_vlib[n] \in DOMAIN addr_vlib /\ addr_vlib[name_vlib[n]] = n
    /\ \A a \in DOMAIN addr_vlib : name_vlib[addr_vlib[a]] = a /\ OpenedBy(a) > 0

\* While no one is inside the manager, open counts and base_addrs say how often
\* the programs have a library open.
CountsMatch ==
    Quiet => \A a \in Addrs :
        /\ open_cnt[a] = OpenedBy(a)
        /\ a \notin DOMAIN addr_vlib /\ left = -1 => base_addrs[a] = OpenedBy(a)

\* After shutdown() lib_infos still has every native library that is open, and no
\* fewer libraries than were counted as left; base_addrs has dropped an open of
\* those that were asked in vain, at most one and of no other library.
ShutdownKeepsOpen ==
    left # -1 /\ error = "none" =>
        /\ left <= Len(lib_infos)
        /\ \A a \in Addrs \ DOMAIN addr_vlib :
            /\ OpenedBy(a) > 0 => a \in ToSet(lib_infos)
            /\ base_addrs[a] \in {OpenedBy(a), OpenedBy(a) - 1}

\* While no one is inside the manager, lib_infos has a native library once, and
\* only libraries whose segments are loaded.
InfosMatch ==
    Quiet => /\ \A i, j \in 1..Len(lib_infos) :
                    i # j => info_name[lib_infos[i]] # info_name[lib_infos[j]]
             /\ ToSet(lib_infos) \subseteq seglists \cap alive

\* "assert info.get_num_base_addrs() == 0" (_rem_info()) holds: no one has a
\* library open that has just expunged itself.
NoAssertion == error # "AssertionError"

\* If slices do not end inside library code the manager raises no exception: a
\* base that was opened can be closed, and the info of a library is there and
\* counts no open when the library has expunged itself.
NoException == error = "none"

\* Whoever has opened a library has one that is there, and all maps and counts of the
\* three managers agree on which are, after any opens, closes, expunges and failures;
\* shutdown() takes no library from who has it open.
LibrariesSound ==
    /\ TypeOK /\ NoDeadHandle /\ VLibsMatch /\ CountsMatch /\ ShutdownKeepsOpen
    /\ InfosMatch /\ NoException
===============================================================================
