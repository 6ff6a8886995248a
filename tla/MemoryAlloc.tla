----------------------------- MODULE MemoryAlloc -----------------------------
(***************************************************************************)
(* The memory allocator of vamos (vamos/mem/alloc.py), through which all   *)
(* Amiga memory is handed out: a first-fit free list of chunks, a map of   *)
(* the valid allocations, and the Memory objects given to the callers.     *)
(* The chunks are linked both ways and kept in order of address, so the    *)
(* free list is a sequence of chunks.                                      *)
(***************************************************************************)
EXTENDS Integers, SequencesExt

CONSTANTS
    Addr, Size,   \* the pool: its first address and its bytes
    Owners,       \* those who hold an allocation, one each at a time
    NoMem,        \* an owner that holds none
    Sizes         \* the sizes they ask for

ASSUME AddrAssumption == Addr \in Nat /\ Addr % 4 = 0 /\ Addr > 0
ASSUME SizeAssumption == Size \in Nat \ {0}
ASSUME SizesAssumption == Sizes \subseteq Nat
ASSUME NoMemAssumption == NoMem \notin [addr : Nat, size : Nat]

VARIABLES
    free,           \* the list from free_first on
    addrs,          \* MemoryAlloc.addrs: address -> aligned size
    mem_objs,       \* MemoryAlloc.mem_objs: address -> Memory
    free_bytes,     \* MemoryAlloc.free_bytes
    free_entries,   \* MemoryAlloc.free_entries
    own,            \* the Memory each owner was given
    error           \* the exception a free ended in

vars == <<free, addrs, mem_objs, free_bytes, free_entries, own, error>>

Chunk(addr, size) == [addr |-> addr, size |-> size]
End(c) == c.addr + c.size

Init ==
    /\ free = <<Chunk(Addr, Size)>>
    /\ addrs = <<>> /\ mem_objs = <<>>
    /\ free_bytes = Size /\ free_entries = 1
    /\ own = [o \in Owners |-> NoMem]
    /\ error = "none"

\* Mutant: sizes are not rounded
Align_not(size) == size

\* (size + 3) & ~3
Align(size) == ((size + 3) \div 4) * 4

\* functions as Python dicts: d[k] = v and del d[k]
Put(d, k, v) == [x \in DOMAIN d \cup {k} |-> IF x = k THEN v ELSE d[x]]
Del(d, k) == [x \in DOMAIN d \ {k} |-> d[x]]

-----------------------------------------------------------------------------

does_fit(c, size) == c.size >= size

\* _find_best_chunk(): the first chunk of the list that is large enough
IsBestChunk(i, size) ==
    does_fit(free[i], size) /\ \A j \in 1..(i - 1) : ~does_fit(free[j], size)

\* Mutant: the chunk stays in the free list
TakeFrom_none(s, i, size) == s

\* Mutant: the rest of the chunk gets lost
TakeFrom_all(s, i, size) == RemoveAt(s, i)

\* _remove_chunk() if nothing is left of the chunk, else _replace_chunk()
TakeFrom(s, i, size) ==
    IF s[i].size = size
    THEN RemoveAt(s, i)
    ELSE ReplaceAt(s, i, Chunk(s[i].addr + size, s[i].size - size))

\* alloc_mem() and alloc_memory(): the caller gets a Memory of the size asked for
alloc_memory(o, size) ==
    /\ error = "none" /\ own[o] = NoMem
    /\ \E i \in 1..Len(free) :
        /\ IsBestChunk(i, Align(size))
        /\ LET addr == free[i].addr
               n == Align(size)
           IN /\ free' = TakeFrom(free, i, n)
              /\ free_entries' = free_entries - (IF free[i].size = n THEN 1 ELSE 0)
              /\ addrs' = Put(addrs, addr, n)
              /\ free_bytes' = free_bytes - n
              /\ mem_objs' = Put(mem_objs, addr, Chunk(addr, size))
              /\ own' = [own EXCEPT ![o] = Chunk(addr, size)]
    /\ UNCHANGED error

\* alloc_mem() returns 0 or raises, and has changed nothing
AllocFails(size) == ~ \E i \in 1..Len(free) : IsBestChunk(i, Align(size))

-----------------------------------------------------------------------------

\* _insert_chunk(): before the first chunk with a higher address
IsInsertPos(i, addr) ==
    /\ \A j \in 1..(i - 1) : free[j].addr <= addr
    /\ i <= Len(free) => addr < free[i].addr

\* a chunk ends where the next one begins
Adjacent(s, i) == i >= 1 /\ i + 1 <= Len(s) /\ End(s[i]) = s[i + 1].addr

\* _merge_chunk() of the i-th chunk and the next one
merge_chunk(s, i) ==
    IF Adjacent(s, i)
    THEN ReplaceAt(RemoveAt(s, i + 1), i, Chunk(s[i].addr, s[i].size + s[i + 1].size))
    ELSE s

\* the new chunk merges with its predecessor, then the outcome with its successor
InsertAndMerge(s, i, c) ==
    LET inserted == InsertAt(s, i, c)
        j == IF Adjacent(inserted, i - 1) THEN i - 1 ELSE i
    IN merge_chunk(merge_chunk(inserted, i - 1), j)

\* how often _merge_chunk() counts free_entries down
Merges(s, i, c) ==
    (IF Adjacent(InsertAt(s, i, c), i - 1) THEN 1 ELSE 0)
        + (IF Adjacent(InsertAt(s, i, c), i) THEN 1 ELSE 0)

\* free_mem(): the address has to be a valid allocation, and of this size
free_mem(addr, size) ==
    \/ /\ addr \notin DOMAIN addrs
       /\ error' = "VamosInternalError"
       /\ UNCHANGED <<free, addrs, free_bytes, free_entries>>
    \/ /\ addr \in DOMAIN addrs /\ Align(size) # addrs[addr]
       /\ error' = "AssertionError"
       /\ UNCHANGED <<free, addrs, free_bytes, free_entries>>
    \/ /\ addr \in DOMAIN addrs /\ Align(size) = addrs[addr]
       /\ \E i \in 1..(Len(free) + 1) :
            /\ IsInsertPos(i, addr)
            /\ free' = InsertAndMerge(free, i, Chunk(addr, addrs[addr]))
            /\ free_entries' = free_entries + 1 - Merges(free, i, Chunk(addr, addrs[addr]))
       /\ addrs' = Del(addrs, addr)
       /\ free_bytes' = free_bytes + Align(size)
       /\ UNCHANGED error

\* free_memory(), by a caller that has the Memory object
free_memory(o) ==
    /\ error = "none" /\ own[o] # NoMem
    /\ free_mem(own[o].addr, own[o].size)
    /\ mem_objs' = IF error' = "none" THEN Del(mem_objs, own[o].addr) ELSE mem_objs
    /\ own' = [own EXCEPT ![o] = NoMem]

\* exec FreeVec() and FreeMem(): the Memory object is looked up by address
FreeVec(o) ==
    /\ error = "none" /\ own[o] # NoMem
    /\ LET addr == own[o].addr
       IN IF addr \in DOMAIN mem_objs
          THEN /\ free_mem(addr, mem_objs[addr].size)
               /\ mem_objs' = IF error' = "none" THEN Del(mem_objs, addr) ELSE mem_objs
          ELSE /\ error' = "VamosInternalError"
               /\ UNCHANGED <<free, addrs, mem_objs, free_bytes, free_entries>>
    /\ own' = [own EXCEPT ![o] = NoMem]

\* after an exception vamos ends: no call follows
Next ==
    \E o \in Owners :
        \/ \E size \in Sizes : alloc_memory(o, size)
        \/ free_memory(o)
        \/ FreeVec(o)

Spec == Init /\ [][Next]_vars

-----------------------------------------------------------------------------
(* Properties.                                                              *)

Pool == Addr..(Addr + Size - 1)

Holds(o) == own[o] # NoMem
Block(o) == own[o].addr..(own[o].addr + Align(own[o].size) - 1)

Memory == [addr : Nat, size : Nat]

\* Addresses and sizes are natural numbers, the free list has chunks only.
TypeOK ==
    /\ free \in Seq(Memory)
    /\ DOMAIN addrs \subseteq Nat /\ \A a \in DOMAIN addrs : addrs[a] \in Nat
    /\ DOMAIN mem_objs \subseteq Nat /\ \A a \in DOMAIN mem_objs : mem_objs[a] \in Memory
    /\ free_bytes \in Int /\ free_entries \in Int
    /\ own \in [Owners -> Memory \cup {NoMem}]
    /\ error \in {"none", "VamosInternalError", "AssertionError"}

\* No byte is ever handed out twice: the blocks of different owners do not
\* meet, lie in the pool and start at long words.
NoOverlap ==
    \A o \in Owners : Holds(o) =>
        /\ Block(o) \subseteq Pool
        /\ own[o].addr % 4 = 0
        /\ \A p \in Owners \ {o} : Holds(p) =>
            Block(o) \cap Block(p) = {} /\ own[o].addr # own[p].addr

\* No byte gets lost or is free and in use at once: the chunks of the free
\* list are just the bytes of the pool that no owner holds.
FreeIsTheRest ==
    UNION {free[i].addr..(End(free[i]) - 1) : i \in 1..Len(free)}
        = Pool \ UNION {Block(o) : o \in {p \in Owners : Holds(p)}}

\* The free list is in order of address and has no chunk that touches the
\* next one: _merge_chunk() leaves no fragments behind.
FreeListCoalesced ==
    \A i \in 1..(Len(free) - 1) : End(free[i]) < free[i + 1].addr

\* available(), of any list of chunks
Bytes(s) ==
    LET sum[n \in 0..Len(s)] == IF n = 0 THEN 0 ELSE sum[n - 1] + s[n].size
    IN sum[Len(s)]

available == Bytes(free)

\* free_bytes and free_entries count what available() finds in the list.
CountsRight == free_bytes = available /\ free_entries = Len(free)

\* alloc_mem() fails only if no gap between the allocations is large enough,
\* although it looks at single chunks only.
FailsOnlyWhenFull ==
    \A size \in Sizes : AllocFails(size) =>
        ~ \E a \in Pool : /\ a + Align(size) <= Addr + Size
                          /\ \A o \in Owners : Holds(o) =>
                                Block(o) \cap (a..(a + Align(size) - 1)) = {}

\* A block can always be given back: "assert size == real_size" and the check
\* for a right alloc (free_mem()) never fail on memory that was handed out.
FreeNeverFails == error = "none"

Abstract == INSTANCE Allocator

\* The first-fit allocator does what the users of any allocator rely on: at
\* every step a block is handed out that no one holds a byte of, or taken back.
ImplementsAllocator == Abstract!Spec

\* A block is its owner's alone until it is given back, which never fails and leaves no
\* two free chunks that touch (MemoryAlloc).
BlocksSafe == TypeOK /\ NoOverlap /\ FreeListCoalesced /\ FreeNeverFails

\* The books of the pool are right: what is not handed out is free and counted, and an
\* allocation fails only when no gap is large enough (MemoryAlloc).
PoolAccounted == FreeIsTheRest /\ CountsRight /\ FailsOnlyWhenFull
==============================================================================
