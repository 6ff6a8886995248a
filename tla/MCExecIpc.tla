----------------------------- MODULE MCExecIpc -----------------------------
(***************************************************************************)
(* The services of exec.library that share no state, the runtime that m68k *)
(* code calls them from, the stubs in between, and utility.library.  A     *)
(* behaviour is one of one service, the others stay as they were set up.   *)
(***************************************************************************)
EXTENDS ExecPorts, MemHeader, ExecPools, ExecSignals, Runtime, LibStubs, UtilityTags

CONSTANTS lib1, lib2, lib3, nop, swap, peek   \* libraries and functions

VARIABLE service

Kinds == {[minsize |-> 2, thresh |-> 3], [minsize |-> 1, thresh |-> 3]}
Symmetry == Permutations(PortAddrs)

\* lib1 has a hole in its table, lib2 a function without a method and an order
\* that is not that of the biases, lib3 a method that takes too many arguments.
FdFiles == [n \in LibNames |->
  IF n = lib1
  THEN << [name |-> swap, bias |-> 6, args |-> << <<"a", 1>>, <<"d", 1>> >>],
          [name |-> peek, bias |-> 18, args |-> << <<"d", 0>> >>] >>
  ELSE IF n = lib2
  THEN << [name |-> peek, bias |-> 12, args |-> <<>>], [name |-> nop, bias |-> 6, args |-> << <<"a", 0>> >>] >>
  ELSE << [name |-> nop, bias |-> 6, args |-> << <<"a", 0>> >>], [name |-> peek, bias |-> 12, args |-> << <<"d", 0>> >>] >>]
Methods == [n \in LibNames |-> CASE n = lib1 -> swap :> 2 @@ peek :> 0
                                 [] n = lib2 -> nop :> 1
                                 [] OTHER -> nop :> 2 @@ peek :> 1]
ProxyArgs == {[type |-> "none"], [type |-> "int", val |-> -1], [type |-> "str", text |-> nop],
              [type |-> "tags", strs |-> <<[type |-> "str", text |-> swap]>>]}
ProxyResults == {[type |-> "none"], [type |-> "int", val |-> -1], [type |-> "pair", val |-> 3, val1 |-> -1]}

\* A list of up to three items that goes on in another one, and a second list.
Item(t, d) == [tag |-> t, data |-> d]
UserItems == {Item(t, d) : t \in UserTags, d \in UserTags}
ControlItems == {Item(TAG_IGNORE, 6), Item(TAG_DONE, 0), Item(TAG_SKIP, 0), Item(TAG_SKIP, 1),
                 Item(TAG_MORE, 0), Item(TAG_MORE, 5)}
End == Item(TAG_DONE, 0)
TagLists ==
  {<<i1, i2, i3, End, Item(6, 7), End, i7, i8, End, End, End, End>> :
     i1 \in UserItems \cup ControlItems, i2 \in UserItems \cup ControlItems, i3 \in UserItems \cup {Item(TAG_IGNORE, 6)},
     i7 \in UserItems, i8 \in {Item(7, 7), Item(6, 7), End}}
AList == CHOOSE m \in TagLists : TRUE
Arrays == {<<6>>, <<7, 6>>, <<>>}
Field(t, o, md, s) == [tag |-> t, off |-> o, mode |-> md, skip |-> s]
PackTables ==
  {<<Field(6, 0, md, FALSE), Field(7, 4, md2, s)>> :
     md \in {"BYTE", "UWORD", "LONG"}, md2 \in {"UBYTE", "WORD", "BYTE"}, s \in BOOLEAN}

ExecVars == <<port_vars, mh_vars, pool_vars, signal_vars, sem_vars>>
MachineVars == <<runtime_vars, stub_vars, tag_vars>>
IpcVars == <<service, ExecVars, MachineVars>>

\* Only one service starts in all its initial states.
IpcInit ==
  /\ service \in {"ports", "mem_header", "pools", "signals", "semaphores", "runtime", "stubs", "tags"}
  /\ PortsInit /\ MhInit /\ PoolsInit /\ SignalsInit /\ SemsInit /\ RuntimeInit /\ StubsInit /\ TagsInit
  /\ service # "runtime" => slice_cycles = 0
  /\ service # "tags" => items = AList

IpcNext ==
  /\ UNCHANGED service
  /\ \/ service = "ports" /\ PortsNext
        /\ UNCHANGED <<mh_vars, pool_vars, signal_vars, sem_vars, MachineVars>>
     \/ service = "mem_header" /\ MhNext
        /\ UNCHANGED <<port_vars, pool_vars, signal_vars, sem_vars, MachineVars>>
     \/ service = "pools" /\ PoolsNext
        /\ UNCHANGED <<port_vars, mh_vars, signal_vars, sem_vars, MachineVars>>
     \/ service = "signals" /\ SignalsNext
        /\ UNCHANGED <<port_vars, mh_vars, pool_vars, sem_vars, MachineVars>>
     \/ service = "semaphores" /\ SemsNext
        /\ UNCHANGED <<port_vars, mh_vars, pool_vars, signal_vars, MachineVars>>
     \/ service = "runtime" /\ RuntimeNext /\ UNCHANGED <<ExecVars, stub_vars, tag_vars>>
     \/ service = "stubs" /\ StubsNext /\ UNCHANGED <<ExecVars, runtime_vars, tag_vars>>
     \/ service = "tags" /\ TagsNext /\ UNCHANGED <<ExecVars, runtime_vars, stub_vars>>

IpcSpec == IpcInit /\ [][IpcNext]_IpcVars
=============================================================================
