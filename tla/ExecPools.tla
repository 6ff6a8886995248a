------------------------------ MODULE ExecPools ------------------------------
(***************************************************************************)
(* Memory pools: CreatePool(), AllocPooled(), FreePooled() and             *)
(* DeletePool() of ExecLibrary with Pool and Puddle (vamos/lib/lexec).     *)
(* Sizes and addresses are counted in units of 8 bytes, to which the       *)
(* functions round.  A puddle is memory of the system's MemoryAlloc that   *)
(* has a MemoryAlloc of its own; both are used through what Allocator      *)
(* promises of them: some gap that is large enough, or a failure if there  *)
(* is none.                                                                *)
(***************************************************************************)
EXTENDS Integers, Sequences, SequencesExt, FiniteSets

CONSTANTS
    MemUnits,      \* units of memory for puddles
    PoolKinds,     \* the [minsize, thresh] pools are created with
    PoolSizes,     \* sizes programs ask for
    MaxPools, MaxPuddles    \* bounds: pools ever made, puddles of a pool

ASSUME PoolsAssumption ==
    /\ MemUnits \in Nat /\ PoolSizes \subseteq Nat
    /\ PoolKinds \subseteq [minsize : Nat, thresh : Nat]

VARIABLES
    pools,         \* ExecLibrary._pools: [minsize, thresh, puddles] by number
    last_pool,     \* _poolid, the number of pools made so far
    main,          \* puddle memory taken from the system: [addr, size]
    pool_error     \* the exception that ended the program

pool_vars == <<pools, last_pool, main, pool_error>>

PoolsInit ==
    pools = [i \in {} |-> 0] /\ last_pool = 0 /\ main = {} /\ pool_error = "none"

Extent(b) == b.addr..(b.addr + b.size - 1)

\* the places where size units fit between the blocks of a range
Gaps(range, blocks, size) ==
    {a \in Extent(range) : /\ a + size <= range.addr + range.size
                           /\ \A b \in blocks : (a..(a + size - 1)) \cap Extent(b) = {}}

WholeMem == [addr |-> 1, size |-> MemUnits]

CreatePool(kind) ==
    /\ last_pool < MaxPools
    /\ last_pool' = last_pool + 1
    /\ pools' = [i \in DOMAIN pools \cup {last_pool + 1} |->
                    IF i \in DOMAIN pools THEN pools[i]
                    ELSE [minsize |-> kind.minsize, thresh |-> kind.thresh, puddles |-> <<>>]]
    /\ UNCHANGED <<main, pool_error>>

\* A puddle of psize is made for a block of size; if the system has no memory
\* Puddle() raises, and if the block does not fit AllocPooled() reads the
\* address of None: the puddle stays in both cases where it was made.
NewPuddle(id, psize, size) ==
    IF Gaps(WholeMem, main, psize) = {}
    THEN pool_error' = "no memory" /\ UNCHANGED <<pools, last_pool, main>>
    ELSE \E a \in Gaps(WholeMem, main, psize) :
            LET chunks == IF size <= psize THEN {[addr |-> a, size |-> size]} ELSE {}
            IN  /\ main' = main \cup {[addr |-> a, size |-> psize]}
                /\ pools' = [pools EXCEPT ![id].puddles =
                                Append(@, [addr |-> a, size |-> psize, chunks |-> chunks])]
                /\ pool_error' = IF chunks = {} THEN "addr of None" ELSE pool_error
                /\ UNCHANGED last_pool

IsLarge(p, size) == size >= p.thresh

\* the puddles that have room for a block
WithRoom(puddles, size) ==
    {i \in DOMAIN puddles : Gaps(puddles[i], puddles[i].chunks, size) # {}}

AllocPooled(id, size) ==
    LET p == pools[id]
        room == WithRoom(p.puddles, size)
    IN  /\ Len(p.puddles) < MaxPuddles
        /\ IF IsLarge(p, size) THEN NewPuddle(id, size, size)
           ELSE IF room = {} THEN NewPuddle(id, p.minsize, size)
           ELSE \E i \in room :
                    /\ \A j \in room : i <= j
                    /\ \E a \in Gaps(p.puddles[i], p.puddles[i].chunks, size) :
                        pools' = [pools EXCEPT ![id].puddles[i].chunks =
                                    @ \cup {[addr |-> a, size |-> size]}]
                    /\ UNCHANGED <<last_pool, main, pool_error>>

\* The first puddle that contains the address takes the block back; the puddle
\* stays, also when it is empty.
FreePooled(id, b) ==
    LET puddles == pools[id].puddles
        at == {i \in DOMAIN puddles : b.addr \in Extent(puddles[i])}
    IN  \E i \in at :
            /\ \A j \in at : i <= j
            /\ IF b \in puddles[i].chunks
               THEN /\ pools' = [pools EXCEPT ![id].puddles[i].chunks = @ \ {b}]
                    /\ UNCHANGED pool_error
               ELSE pool_error' = "not recorded in puddle" /\ UNCHANGED pools
            /\ UNCHANGED <<last_pool, main>>

Memory(p) == {[addr |-> q.addr, size |-> q.size] : q \in Range(p.puddles)}

\* Mutant: only the last puddle is given back
freed_memory_last(p) ==
    IF p.puddles = <<>> THEN {}
    ELSE {[addr |-> Last(p.puddles).addr, size |-> Last(p.puddles).size]}

\* Pool.__del__(): every puddle is given back
freed_memory(p) == Memory(p)

DeletePool(id) ==
    /\ main' = main \ freed_memory(pools[id])
    /\ pools' = [i \in DOMAIN pools \ {id} |-> pools[i]]
    /\ UNCHANGED <<last_pool, pool_error>>

PoolBlocks(id) == UNION {q.chunks : q \in Range(pools[id].puddles)}

PoolsNext ==
    /\ pool_error = "none"
    /\ \/ \E kind \in PoolKinds : CreatePool(kind)
       \/ \E id \in DOMAIN pools :
            \/ \E size \in PoolSizes : AllocPooled(id, size)
            \/ \E b \in PoolBlocks(id) : FreePooled(id, b)
            \/ DeletePool(id)

PoolsSpec == PoolsInit /\ [][PoolsNext]_pool_vars

-----------------------------------------------------------------------------
\* What the system lent is what the live pools have in their puddles, each
\* once: a deleted pool leaves nothing behind, however many puddles its large
\* and small blocks made (Pool.__del__(), Puddle.__del__()).
PoolMemoryKnown ==
    main = UNION {Memory(pools[id]) : id \in DOMAIN pools}

\* The blocks of all pools are apart from one another and inside the puddle
\* that has them, whose memory is nobody else's: FreePooled() finds the block
\* in the first puddle that contains its address.
PoolBlocksApart ==
    LET all == UNION {{<<id, i>> : i \in DOMAIN pools[id].puddles} : id \in DOMAIN pools}
        At(x) == pools[x[1]].puddles[x[2]]
    IN  /\ \A x, y \in all : x # y => Extent(At(x)) \cap Extent(At(y)) = {}
        /\ \A x \in all : \A b, c \in At(x).chunks :
            /\ Extent(b) \subseteq Extent(At(x))
            /\ b # c => Extent(b) \cap Extent(c) = {}

\* AllocPooled() has no block to return only in a pool whose threshold is above
\* the size of its puddles; in any other the new puddle always has room.
PoolNeverNone ==
    /\ pool_error # "not recorded in puddle"
    /\ pool_error = "addr of None" =>
            \E id \in DOMAIN pools : pools[id].thresh > pools[id].minsize + 1

\* Pools hand out blocks of their own that are apart, and give all their memory back
\* (Pool, Puddle).
PoolsSound == PoolMemoryKnown /\ PoolBlocksApart /\ PoolNeverNone
==============================================================================
