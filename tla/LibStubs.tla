------------------------------ MODULE LibStubs -----------------------------
(***************************************************************************)
(* Libraries written in Python (libcore): the methods of an implementation *)
(* are matched with the functions of an FD file and reached from m68k code *)
(* through jump table, trap block and trap, and from Python by proxies     *)
(* that put arguments into the registers of the FD file.                   *)
(*                                                                         *)
(* A jump table entry is the slot of a trap block it jumps to, a trap      *)
(* block the trap numbers in its slots.                                    *)
(***************************************************************************)
EXTENDS Integers, SequencesExt

CONSTANTS LibNames,
          Fd,         \* of each library: functions [name, bias, args], in the order of the file
          Impl,       \* of each library: the number of arguments of each of its methods by name
          MaxTraps,   \* traps of the machine
          MaxLibs,    \* bound on libraries created
          Args,       \* arguments of proxy calls
          Results,    \* results of methods
          Width,      \* bits of a register
          NoMethod, NoLib

VARIABLES libs,     \* the libraries there are, by name
          traps,    \* trap number -> the stub function it calls
          blocks,   \* memory taken: <<library made, its part>>
          made, leaked,
          proxies,  \* proxy_cache: name -> the library whose stub the proxy type calls
          call      \* the last call of a proxy

stub_vars == <<libs, traps, blocks, made, leaked, proxies, call>>

-----------------------------------------------------------------------------
(* FuncTable: the functions of an FD file. *)

\* Mutant: functions are numbered in the order of the file, holes not counted.
get_index_order(n, fn) == CHOOSE i \in 0..(Len(Fd[n]) - 1) : Fd[n][i + 1] = fn
get_index(n, fn) == (fn.bias - 6) \div 6
max_bias(n) == Max({fn.bias : fn \in ToSet(Fd[n])})
get_num_indices(n) == max_bias(n) \div 6
get_neg_size(n) == max_bias(n) + 6

(* LibImplScanner and LibStubGen: a function for each index. *)

\* A method that takes other than no arguments or those of the FD is an error.
scan(n, fn) ==
  IF fn.name \notin DOMAIN Impl[n] THEN "missing"
  ELSE IF Impl[n][fn.name] \in {0, Len(fn.args)} THEN "valid"
  ELSE "error"
\* Functions with an error are filled in like holes of the table.
func_tab(n, lib) ==
  [i \in 1..get_num_indices(n) |->
     LET fns == {fn \in ToSet(Fd[n]) : get_index(n, fn) = i - 1 /\ scan(n, fn) # "error"}
     IN  IF fns = {} THEN [lib |-> lib, func |-> NoMethod]
         ELSE LET fn == CHOOSE x \in fns : TRUE
              IN  [lib |-> lib, func |-> IF scan(n, fn) = "valid" THEN fn.name ELSE NoMethod]]

-----------------------------------------------------------------------------
(* LibPatcherMultiTrap, LibCreator and VLib. *)

FreeTids == 0..(MaxTraps - 1) \ DOMAIN traps
\* traps.alloc() for one function after the other takes the lowest numbers.
alloc_tids(k) ==
  [i \in 1..Min({k, Cardinality(FreeTids)}) |-> CHOOSE t \in FreeTids : Cardinality({u \in FreeTids : u < t}) = i - 1]
Trapped(tids, tab) == [t \in ToSet(tids) |-> tab[CHOOSE j \in 1..Len(tids) : tids[j] = t]]
\* The jump table has an entry for every slot of the trap block.
patch_jump_table(n, tids) == [i \in 0..((get_neg_size(n) - 6) \div 6 - 1) |-> tids[i + 1]]

\* Without enough traps the ones it has and the memory stay behind.
create_lib(n) ==
  /\ libs[n] = NoLib /\ made < MaxLibs
  /\ LET tab == func_tab(n, made)
         tids == alloc_tids(Len(tab))
     IN  /\ traps' = Trapped(tids, tab) @@ traps
         /\ IF Len(tids) < Len(tab)
            THEN leaked' = leaked \cup ToSet(tids) /\ UNCHANGED libs
            ELSE /\ libs' = [libs EXCEPT ![n] = [id |-> made, tids |-> tids, jumps |-> patch_jump_table(n, tids)]]
                 /\ UNCHANGED leaked
  /\ blocks' = blocks \cup {<<made, "library">>, <<made, "traps">>}
  /\ made' = made + 1
  /\ UNCHANGED <<proxies, call>>

cleanup(lib) == ToSet(lib.tids)
free_lib(n) ==
  /\ libs[n] # NoLib
  /\ traps' = Restrict(traps, DOMAIN traps \ cleanup(libs[n]))
  /\ blocks' = blocks \ {<<libs[n].id, "library">>, <<libs[n].id, "traps">>}
  /\ libs' = [libs EXCEPT ![n] = NoLib]
  /\ UNCHANGED <<made, leaked, proxies, call>>

\* JSR -bias(A6): where the jump, the trap and its stub lead.
Reached(n, bias) == traps[libs[n].jumps[bias \div 6 - 1]]

-----------------------------------------------------------------------------
(* LibProxyGen: Python calls of a library that is open. *)

AutoAddr == 2 ^ (Width - 1)   \* where strings and tag lists of a call lie
reg_num(reg) == IF reg[1] = "a" THEN reg[2] + 8 ELSE reg[2]
\* What an argument is in a register, with the objects made for it before.
map_value(a, autos) ==
  CASE a.type = "none" -> [val |-> 0, autos |-> autos]
    [] a.type = "int" -> [val |-> a.val % 2 ^ Width, autos |-> autos]
    [] a.type = "str" -> [val |-> AutoAddr + Len(autos), autos |-> Append(autos, a)]
    [] a.type = "tags" ->
         LET items == autos \o a.strs
         IN  [val |-> AutoAddr + Len(items),
              autos |-> Append(items, [type |-> "tags", data |-> [i \in 1..Len(a.strs) |-> AutoAddr + Len(autos) + i - 1]])]
Mapped(args) == 
  FoldLeft(LAMBDA m, a : LET r == map_value(a, m.autos) IN [vals |-> Append(m.vals, r.val), autos |-> r.autos],
           [vals |-> <<>>, autos |-> <<>>], args)
\* Registers hold what they held before, here nothing, or an argument.
input_reg_map(fn, vals) ==
  [r \in 0..15 |-> LET js == {j \in 1..Len(fn.args) : reg_num(fn.args[j]) = r}
                   IN  IF js = {} THEN 0 ELSE vals[Max(js)]]
\* The stub reads the arguments of a method from the registers of the FD file.
gen_extra_args(n, fn, regs) ==
  [j \in 1..Impl[n][fn.name] |-> regs[fn.args[j][2] + IF fn.args[j][1] = "a" THEN 8 ELSE 0]]
\* The registers d0 and d1 after the method.
set_result(res, regs) ==
  CASE res.type = "none" -> <<regs[0], regs[1]>>
    [] res.type = "int" -> <<res.val % 2 ^ Width, regs[1]>>
    [] res.type = "pair" -> <<res.val % 2 ^ Width, res.val1 % 2 ^ Width>>

open_lib_proxy(n) ==
  /\ libs[n] # NoLib /\ proxies[n] = NoLib
  /\ proxies' = [proxies EXCEPT ![n] = [id |-> libs[n].id]]
  /\ UNCHANGED <<libs, traps, blocks, made, leaked, call>>

stub_call(n, fn, args, res) ==
  /\ proxies[n] # NoLib /\ libs[n] # NoLib /\ scan(n, fn) = "valid"
  /\ LET m == Mapped(args)
         regs == input_reg_map(fn, m.vals)
         out == set_result(res, regs)
     IN  call' = [lib |-> proxies[n].id, func |-> fn.name, args |-> args, res |-> res,
                  got |-> gen_extra_args(n, fn, regs), autos |-> m.autos,
                  d0 |-> out[1], d1 |-> out[2]]
  /\ UNCHANGED <<libs, traps, blocks, made, leaked, proxies>>

StubsInit ==
  /\ libs = [n \in LibNames |-> NoLib] /\ traps = <<>> /\ blocks = {}
  /\ made = 0 /\ leaked = {} /\ proxies = [n \in LibNames |-> NoLib] /\ call = NoLib
\* Bound: a behaviour ends with its first call.
StubsNext == \E n \in LibNames : 
  /\ call = NoLib
  /\ \/ create_lib(n) \/ free_lib(n) \/ open_lib_proxy(n)
     \/ \E i \in 1..Len(Fd[n]) : \E args \in [1..Len(Fd[n][i].args) -> Args], res \in Results :
           stub_call(n, Fd[n][i], args, res)

-----------------------------------------------------------------------------
\* Every vector of a library leads to the method of the function that the FD
\* file has at that bias, and one without a usable method to a stub that returns
\* zero; whatever traps other libraries had before (patch_jump_table()).
VectorsReach ==
  \A n \in LibNames : libs[n] # NoLib =>
     \A b \in {6 * i : i \in 1..get_num_indices(n)} :
        LET fns == {fn \in ToSet(Fd[n]) : fn.bias = b /\ scan(n, fn) = "valid"}
        IN  Reached(n, b) = [lib |-> libs[n].id, func |-> IF fns = {} THEN NoMethod ELSE (CHOOSE x \in fns : TRUE).name]

\* Traps and memory belong to one library that is there, but for what a library
\* that got no traps left behind (VLib.free(), RuntimeError in the patcher).
TrapsOwned ==
  /\ DOMAIN traps = leaked \cup UNION {ToSet(libs[n].tids) : n \in {x \in LibNames : libs[x] # NoLib}}
  /\ \A n \in LibNames : libs[n] # NoLib =>
        /\ {<<libs[n].id, "library">>, <<libs[n].id, "traps">>} \subseteq blocks
        /\ \A o \in LibNames \ {n} : libs[o] # NoLib => ToSet(libs[n].tids) \cap ToSet(libs[o].tids) = {}
  /\ leaked = {} => Cardinality(blocks) = 2 * Cardinality({n \in LibNames : libs[n] # NoLib})

\* The value of a register as the method sees it.
Seen(v) == IF v >= AutoAddr /\ v < AutoAddr + Len(call.autos) THEN call.autos[v - AutoAddr + 1] ELSE [type |-> "int", val |-> v]
Meant(a) == CASE a.type = "none" -> [type |-> "int", val |-> 0]
              [] a.type = "int" -> [type |-> "int", val |-> IF a.val < 0 THEN a.val + 2 ^ Width ELSE a.val]
              [] OTHER -> a
\* A proxy call hands each argument to the method in its place: numbers as
\* unsigned longs, None as zero, strings and tag lists as the address of a copy;
\* and it gives back what the method returned (stub_call()).
ProxyFaithful ==
  call # NoLib =>
    /\ \A j \in 1..Len(call.got) :
          IF call.args[j].type = "tags"
          THEN [i \in 1..Len(call.args[j].strs) |-> Seen(Seen(call.got[j]).data[i])] = call.args[j].strs
          ELSE Seen(call.got[j]) = Meant(call.args[j])
    /\ call.res.type # "none" => call.d0 = call.res.val % 2 ^ Width
    /\ call.res.type = "pair" => call.d1 = call.res.val1 % 2 ^ Width

\* Calls reach the method they mean with the arguments they carry, from m68k code
\* through traps and from Python through proxies (LibPatcherMultiTrap, LibProxyGen).
StubsReach == VectorsReach /\ TrapsOwned /\ ProxyFaithful
=============================================================================
