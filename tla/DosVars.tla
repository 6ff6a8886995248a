------------------------------ MODULE DosVars ------------------------------
(***************************************************************************)
(* What dos.library allocates on behalf of programs and how it finds it    *)
(* again (lib/DosLibrary.py): shell variables, kept in a list in each      *)
(* process and in one table for all of them, resident segments, error      *)
(* strings, ReadArgs() results, device processes, objects and DOS entries. *)
(* An address is a number that is used once; 0 is NULL.                    *)
(***************************************************************************)
EXTENDS Integers, Sequences, SequencesExt, FiniteSets

CONSTANTS
    VarNames,      \* names of variables; "V" is "v" in capitals
    VarTypes,      \* LV_VAR, LV_ALIAS
    VarValues,     \* values, sequences of characters
    MaxVarOps      \* bound: calls

ASSUME VarsAssumption == VarValues \subseteq Seq(STRING)

VARIABLES
    dv_procs,      \* live processes, the newest last, which runs
    dv_ended,      \* processes that are gone
    dv_nodes,      \* variable nodes by address: [owner, key, buf, value]
    dv_succ, dv_pred,  \* links of nodes and list heads
    dv_table,      \* local_vars: (name in small letters, type) to node
    dv_last,       \* history: what was stored for a key last
    dv_got,        \* history: what the last GetVar() read, and what was stored
    dv_mem,        \* mem_allocs
    dv_segs,       \* resident segments, in the order of the list: [addr, name, uc]
    dv_held,       \* what programs hold: [kind, addr, buf]
    dv_errs,       \* errstrings: errors with a string, and its address
    dv_next, dv_ops, dv_state
dv_var == <<dv_nodes, dv_succ, dv_pred, dv_table, dv_last>>
dv_vars == <<dv_procs, dv_ended, dv_var, dv_got, dv_mem, dv_segs, dv_held, dv_errs, dv_next, dv_ops, dv_state>>

Head_(p) == <<p, "head">>
Tail_(p) == <<p, "tail">>
Node(a) == <<a, "node">>
NoGet == [ok |-> FALSE, text |-> <<>>, stored |-> FALSE, size |-> 0, want |-> <<>>]
VarsInit ==
    /\ dv_procs = <<1>> /\ dv_ended = {} /\ dv_nodes = <<>>
    /\ dv_succ = [x \in {Head_(1)} |-> Tail_(1)] /\ dv_pred = [x \in {Tail_(1)} |-> Head_(1)]
    /\ dv_table = <<>> /\ dv_last = <<>> /\ dv_got = NoGet /\ dv_mem = {} /\ dv_segs = <<>> /\ dv_held = {} /\ dv_errs = <<>>
    /\ dv_next = 2 /\ dv_ops = 0 /\ dv_state = "run"

Call == dv_state = "run" /\ dv_ops < MaxVarOps /\ dv_ops' = dv_ops + 1
Me == Last(dv_procs)
KeepProcs == UNCHANGED <<dv_procs, dv_ended, dv_state>>
KeepRest == UNCHANGED <<dv_segs, dv_held, dv_errs>>

\* What memory is taken for: nodes and values, segments, strings, what programs hold.
VarMem(nodes) == UNION {{a, nodes[a].buf} : a \in DOMAIN nodes}
SegMem(segs) == {s.addr : s \in ToSet(segs)}
ErrMem(errs) == {errs[e] : e \in DOMAIN errs}
HeldMem(held) == {x.addr : x \in {y \in held : y.kind = "devproc"}} \union ({x.buf : x \in held} \ {0})

-----------------------------------------------------------------------------
(* Variables *)

SmallName(n) == IF n = "V" THEN "v" ELSE n
Key(n, t) == <<SmallName(n), t>>
\* The function f with v for k, and without k.
Mapped(f, k, v) == [x \in DOMAIN f \union {k} |-> IF x = k THEN v ELSE f[x]]
Unmapped(fn, k) == [x \in DOMAIN fn \ {k} |-> fn[x]]
\* 0 if there is no such variable.
find_var(n, t) == IF Key(n, t) \in DOMAIN dv_table THEN dv_table[Key(n, t)] ELSE 0
\* create_var(): the new node goes to the head of the list of the running process.
linked(a) ==
    LET first == dv_succ[Head_(Me)]
    IN [succ |-> Mapped(Mapped(dv_succ, Node(a), first), Head_(Me), Node(a)),
        pred |-> Mapped(Mapped(dv_pred, Node(a), Head_(Me)), first, Node(a))]
\* set_var(): the memory the value had is freed, and memory for the new one taken.
set_var_mem(mem, old, new) == (mem \ {old}) \union {new}
Stored(n, t, a, buf, value) ==
    /\ dv_nodes' = Mapped(dv_nodes, a, [owner |-> IF a \in DOMAIN dv_nodes THEN dv_nodes[a].owner ELSE Me, key |-> Key(n, t), buf |-> buf, value |-> value])
    /\ dv_last' = Mapped(dv_last, Key(n, t), value)
SetVar(n, t, value) ==
    /\ Call
    /\ LET old == find_var(n, t) a == IF old = 0 THEN dv_next ELSE old
           buf == IF old = 0 THEN dv_next + 1 ELSE dv_next
       IN IF old # 0
          THEN /\ Stored(n, t, a, buf, value) /\ dv_mem' = set_var_mem(dv_mem, dv_nodes[a].buf, buf) /\ dv_next' = dv_next + 1
               /\ UNCHANGED <<dv_succ, dv_pred, dv_table>>
          ELSE /\ Stored(n, t, a, buf, value) /\ dv_mem' = set_var_mem(dv_mem \union {a}, 0, buf) /\ dv_next' = dv_next + 2
               /\ dv_succ' = linked(a).succ /\ dv_pred' = linked(a).pred /\ dv_table' = Mapped(dv_table, Key(n, t), a)
    /\ UNCHANGED dv_got /\ KeepProcs /\ KeepRest
\* delete_var(): the nodes at either side are linked, wherever their process is.
unlinked(a) ==
    LET s == dv_succ[Node(a)] p == dv_pred[Node(a)]
    IN [succ |-> Unmapped(Mapped(dv_succ, p, s), Node(a)), pred |-> Unmapped(Mapped(dv_pred, s, p), Node(a))]
\* DeleteVar(), and SetVar() without a buffer.
DeleteVar(n, t) ==
    /\ Call
    /\ LET a == find_var(n, t)
       IN IF a = 0 THEN UNCHANGED <<dv_var, dv_mem>>
          ELSE /\ dv_mem' = dv_mem \ {a, dv_nodes[a].buf} /\ dv_succ' = unlinked(a).succ /\ dv_pred' = unlinked(a).pred
               /\ dv_nodes' = Unmapped(dv_nodes, a) /\ dv_table' = [k \in {x \in DOMAIN dv_table : dv_table[x] # a} |-> dv_table[k]]
               /\ dv_last' = Unmapped(dv_last, Key(n, t))
    /\ UNCHANGED <<dv_got, dv_next>> /\ KeepProcs /\ KeepRest
\* The text of the variable as far as the buffer takes it and a byte to end it.
\* Mutant: no byte is kept for the end.
VarText_Full(value, size) == SubSeq(value, 1, Min({size, Len(value)}))
VarText(value, size) == SubSeq(value, 1, Min({size - 1, Len(value)}))
GetVar(n, t, size) ==
    /\ Call
    /\ LET a == find_var(n, t) stored == size # 0 /\ Key(n, t) \in DOMAIN dv_last
       IN dv_got' = [ok |-> size # 0 /\ a # 0, text |-> IF size = 0 \/ a = 0 THEN <<>> ELSE VarText(dv_nodes[a].value, size),
                     stored |-> stored, size |-> size, want |-> IF stored THEN dv_last[Key(n, t)] ELSE <<>>]
    /\ UNCHANGED <<dv_var, dv_mem, dv_next>> /\ KeepProcs /\ KeepRest

\* A program starts another one, and that one ends: its process structure, with
\* the head of its list of variables, is freed, its variables are not.
StartProcess ==
    /\ Call /\ Len(dv_procs) < 2
    /\ dv_procs' = Append(dv_procs, dv_next) /\ dv_next' = dv_next + 1
    /\ dv_succ' = Mapped(dv_succ, Head_(dv_next), Tail_(dv_next)) /\ dv_pred' = Mapped(dv_pred, Tail_(dv_next), Head_(dv_next))
    /\ UNCHANGED <<dv_ended, dv_nodes, dv_table, dv_last, dv_got, dv_mem, dv_state>> /\ KeepRest
EndProcess ==
    /\ Call /\ Len(dv_procs) > 1
    /\ dv_procs' = Front(dv_procs) /\ dv_ended' = dv_ended \union {Me}
    /\ UNCHANGED <<dv_var, dv_got, dv_mem, dv_next, dv_state>> /\ KeepRest

-----------------------------------------------------------------------------
(* Segments, error strings and what programs hold *)

KeepVars == UNCHANGED <<dv_var, dv_got>>
AddSegment(n, system) ==
    /\ Call /\ Len(dv_segs) < 2
    /\ dv_segs' = <<[addr |-> dv_next, name |-> n, uc |-> system]>> \o dv_segs /\ dv_mem' = dv_mem \union {dv_next} /\ dv_next' = dv_next + 1
    /\ KeepVars /\ KeepProcs /\ UNCHANGED <<dv_held, dv_errs>>
\* Searched from the segment behind start; a positive use count is not a system one.
FindSegment(n, start, system) ==
    LET from == IF start = 0 THEN 1 ELSE 1 + CHOOSE i \in DOMAIN dv_segs : dv_segs[i].addr = start
        hits == {i \in from..Len(dv_segs) : SmallName(dv_segs[i].name) = SmallName(n) /\ (IF system THEN dv_segs[i].uc < 0 ELSE dv_segs[i].uc > 0)}
    IN IF hits = {} THEN 0 ELSE dv_segs[Min(hits)].addr
DosGetString(errno) ==
    /\ Call
    /\ IF errno \in DOMAIN dv_errs THEN UNCHANGED <<dv_errs, dv_mem, dv_next>>
       ELSE dv_errs' = Mapped(dv_errs, errno, dv_next) /\ dv_mem' = dv_mem \union {dv_next} /\ dv_next' = dv_next + 1
    /\ KeepVars /\ KeepProcs /\ UNCHANGED <<dv_segs, dv_held>>
\* ReadArgs() keeps its results in a buffer, if any do not fit into the caller's
\* array; GetDeviceProc() takes memory for the structure itself.
Holds(kind, buf) ==
    /\ Call /\ dv_held = {}
    /\ dv_held' = dv_held \union {[kind |-> kind, addr |-> dv_next, buf |-> IF buf THEN dv_next + 1 ELSE 0]}
    /\ dv_mem' = dv_mem \union (IF kind = "devproc" THEN {dv_next} ELSE {}) \union (IF buf THEN {dv_next + 1} ELSE {})
    /\ dv_next' = dv_next + 2
    /\ KeepVars /\ KeepProcs /\ UNCHANGED <<dv_segs, dv_errs>>
ReadArgsKeeps(extra) == Holds("rdargs", extra)
DevProcKeeps == Holds("devproc", FALSE)
AllocDosObject == Holds("object", FALSE)
MakeDosEntry == Holds("entry", FALSE)
\* FreeArgs(), FreeDeviceProc(), FreeDosObject(), FreeDosEntry().
Gives(x) ==
    /\ Call /\ dv_held' = dv_held \ {x}
    /\ dv_mem' = dv_mem \ ({x.buf} \union (IF x.kind = "devproc" THEN {x.addr} ELSE {}))
    /\ KeepVars /\ KeepProcs /\ UNCHANGED <<dv_segs, dv_errs, dv_next>>
\* FreeArgs() of what is not there, AllocDosObject(DOS_CLI): vamos ends.
VarsRaise == Call /\ dv_state' = "raised" /\ KeepVars /\ UNCHANGED <<dv_procs, dv_ended, dv_mem, dv_next>> /\ KeepRest

\* finish_lib(): segments, then variables until the table is empty.
VarsFinish ==
    /\ dv_state = "run" /\ Len(dv_procs) = 1 /\ dv_state' = "done"
    /\ dv_mem' = dv_mem \ (SegMem(dv_segs) \union VarMem(dv_nodes))
    /\ dv_nodes' = <<>> /\ dv_table' = <<>> /\ dv_last' = <<>> /\ dv_segs' = <<>>
    /\ UNCHANGED <<dv_procs, dv_ended, dv_succ, dv_pred, dv_got, dv_held, dv_errs, dv_next, dv_ops>>

VarsNext ==
    \/ \E n \in VarNames, t \in VarTypes :
         \/ \E v \in VarValues : SetVar(n, t, v)
         \/ DeleteVar(n, t)
         \/ \E size \in {0, 2} : GetVar(n, t, size)
    \/ StartProcess \/ EndProcess
    \/ \E n \in VarNames, uc \in {1, -1} : AddSegment(n, uc)
    \/ DosGetString(205)
    \/ \E extra \in BOOLEAN : ReadArgsKeeps(extra)
    \/ DevProcKeeps \/ AllocDosObject \/ MakeDosEntry
    \/ \E x \in dv_held : Gives(x)
    \/ VarsRaise \/ VarsFinish

VarsSpec == VarsInit /\ [][VarsNext]_dv_vars

-----------------------------------------------------------------------------
OwnVars(p) == {a \in DOMAIN dv_nodes : dv_nodes[a].owner = p}
Reaches(p) == LET r[i \in 0..Cardinality(DOMAIN dv_nodes)] == IF i = 0 THEN Head_(p) ELSE IF r[i - 1] \in DOMAIN dv_succ THEN dv_succ[r[i - 1]] ELSE r[i - 1]
              IN {r[i] : i \in DOMAIN r} \ {Head_(p), Tail_(p)}
\* The list in a live process holds the variables it has made, each of them in the
\* table, and can be walked either way, whoever deletes a variable: a program may
\* delete one that an outer process made.
VarsLinked ==
    dv_state = "run" =>
      \A p \in ToSet(dv_procs) :
        /\ Reaches(p) = {Node(a) : a \in OwnVars(p)} /\ OwnVars(p) \subseteq {dv_table[k] : k \in DOMAIN dv_table}
        /\ \A x \in {Head_(p)} \union Reaches(p) : dv_pred[dv_succ[x]] = x
\* mem_allocs is what variables, segments, strings and programs use, so that
\* _free_mem() never fails; behind finish_lib() only strings and what programs
\* have not given back.
MemOwned == dv_mem = VarMem(dv_nodes) \union SegMem(dv_segs) \union ErrMem(dv_errs) \union HeldMem(dv_held)
\* GetVar() finds what was stored under the name last, by any process and in
\* whatever case: all of it that fits in front of the byte at the end.
VarFinds ==
    /\ dv_got.ok = dv_got.stored
    /\ dv_got.ok => /\ IsPrefix(dv_got.text, dv_got.want)
                    /\ Len(dv_got.text) = Min({Len(dv_got.want), dv_got.size - 1})
\* Searching on from what was found goes over all segments of a name and kind.
SegmentsFound ==
    \A n \in VarNames, system \in BOOLEAN :
      LET first == FindSegment(n, 0, system)
          all == {s.addr : s \in {x \in ToSet(dv_segs) : SmallName(x.name) = SmallName(n) /\ (x.uc < 0) = system}}
      IN all = (IF first = 0 THEN {} ELSE {first} \union ({FindSegment(n, first, system)} \ {0}))

\* Lists in memory and the table agree on variables, each is found with its text, and
\* memory has one owner (DosLibrary).
VarsRight == VarsLinked /\ MemOwned /\ VarFinds /\ SegmentsFound
=============================================================================
