------------------------------ MODULE MemHeader ------------------------------
(***************************************************************************)
(* Allocate() and Deallocate() of exec.library (vamos/lib/lexec/Alloc.py): *)
(* memory of which a program keeps the free part itself, as a chain of     *)
(* MemChunks that lie inside the free memory, behind a MemHeader.  The     *)
(* chain is a sequence here: chunk i's mc_Next is the address of the next. *)
(***************************************************************************)
EXTENDS Integers, Sequences, SequencesExt, FiniteSets

CONSTANTS
    MhLower, MhUpper,   \* mh_Lower and mh_Upper
    Requests            \* sizes a program asks for

ASSUME MhAssumption ==
    /\ MhLower \in Nat /\ MhUpper \in Nat /\ Requests \subseteq Nat
    /\ MhLower % 8 = 0 /\ MhUpper % 8 = 0 /\ 0 < MhLower /\ MhLower < MhUpper

VARIABLES
    chunks,     \* the chain from mh_First: [addr, bytes]
    mh_free,    \* mh_Free
    held        \* the blocks programs hold: [addr, bytes]

mh_vars == <<chunks, mh_free, held>>

Chunk(a, n) == [addr |-> a, bytes |-> n]

MhInit ==
    /\ chunks = <<Chunk(MhLower, MhUpper - MhLower)>>
    /\ mh_free = MhUpper - MhLower
    /\ held = {}

Rounded(n) == IF n % 8 = 0 THEN n ELSE n + 8 - (n % 8)

Fits(n) == {i \in DOMAIN chunks : chunks[i].bytes >= n}

\* the chunk shrinks, or leaves the chain when nothing is left of it
Taken(i, n) ==
    IF chunks[i].bytes > n THEN [chunks EXCEPT ![i].bytes = @ - n]
    ELSE RemoveAt(chunks, i)

\* mh_Free after n bytes came (or went, if n < 0)
mh_free_by(n) == mh_free + n

\* allocate(): the first chunk that is large enough, the block at its end
Allocate(size) ==
    LET n == Rounded(size)
    IN  /\ n # 0 /\ mh_free >= n /\ Fits(n) # {}
        /\ \E i \in Fits(n) :
            /\ \A j \in Fits(n) : i <= j
            /\ chunks' = Taken(i, n)
            /\ held' = held \cup {Chunk(chunks[i].addr + chunks[i].bytes - n, n)}
        /\ mh_free' = mh_free_by(-n)

\* allocate() returns 0
AllocateFails(size) ==
    LET n == Rounded(size)
    IN  /\ (n = 0 \/ mh_free < n \/ Fits(n) = {})
        /\ UNCHANGED mh_vars

\* Mutant: a block between two chunks joins only the first
Returned_last(b) ==
    LET k == Cardinality({i \in DOMAIN chunks : chunks[i].addr < b.addr})
        last_merge == k > 0 /\ chunks[k].addr + chunks[k].bytes = b.addr
    IN  IF last_merge THEN [chunks EXCEPT ![k].bytes = @ + b.bytes]
        ELSE InsertAt(chunks, k + 1, b)

\* deallocate(): the block joins the chunk before it, the one after it, both
\* or none
Returned(b) ==
    LET k == Cardinality({i \in DOMAIN chunks : chunks[i].addr < b.addr})
        last_merge == k > 0 /\ chunks[k].addr + chunks[k].bytes = b.addr
        mc_merge == k < Len(chunks) /\ b.addr + b.bytes = chunks[k + 1].addr
        from == IF last_merge THEN k ELSE k + 1
        upto == IF mc_merge THEN k + 1 ELSE k
        start == IF last_merge THEN chunks[k].addr ELSE b.addr
        size == b.bytes + (IF last_merge THEN chunks[k].bytes ELSE 0)
                        + (IF mc_merge THEN chunks[k + 1].bytes ELSE 0)
    IN  SubSeq(chunks, 1, from - 1) \o <<Chunk(start, size)>>
        \o SubSeq(chunks, upto + 1, Len(chunks))

\* A program may give back a block in parts.
Deallocate(b, size) ==
    LET n == Rounded(size)
    IN  /\ n # 0 /\ n <= b.bytes
        /\ chunks' = Returned(Chunk(b.addr, n))
        /\ held' = (held \ {b}) \cup
                   (IF n = b.bytes THEN {} ELSE {Chunk(b.addr + n, b.bytes - n)})
        /\ mh_free' = mh_free_by(n)

MhNext ==
    \/ \E size \in Requests : Allocate(size) \/ AllocateFails(size)
    \/ \E b \in held, n \in Requests : Deallocate(b, n)

MhSpec == MhInit /\ [][MhNext]_mh_vars

-----------------------------------------------------------------------------
SpanOf(c) == c.addr..(c.addr + c.bytes - 1)

\* Every byte of the header's range is in exactly one chunk or in exactly one
\* block: no two programs share memory, a chunk is never written into memory
\* that is in use, and nothing is lost, in whatever parts and order the blocks
\* come back (allocate(), deallocate()).
MhPartition ==
    \A a \in MhLower..(MhUpper - 1) :
        Cardinality({i \in DOMAIN chunks : a \in SpanOf(chunks[i])})
            + Cardinality({b \in held : a \in SpanOf(b)}) = 1

\* mh_Free is the sum of the chunks, which validate() tests.
MhFreeIsSum ==
    mh_free = Cardinality(UNION {SpanOf(chunks[i]) : i \in DOMAIN chunks})

\* The chunks are in the order of their addresses and neighbours are joined, so
\* that a request fails only when no free range of its size exists.
MhCoalesced ==
    \A i \in 1..(Len(chunks) - 1) :
        chunks[i].addr + chunks[i].bytes < chunks[i + 1].addr

\* The chunks are the part of the memory that is not handed out, joined, and mh_Free is
\* their sum (allocate(), deallocate()).
MhSound == MhPartition /\ MhFreeIsSum /\ MhCoalesced
==============================================================================
