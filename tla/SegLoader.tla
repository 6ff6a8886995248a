----------------------------- MODULE SegLoader -----------------------------
(***************************************************************************)
(* Loading programs: BinFmt gives the image of a file, SegList.alloc()     *)
(* takes a block of memory for every segment and links them in memory,     *)
(* Relocate computes the relocated data for the addresses that the chain   *)
(* in memory gives, and SegmentLoader keeps the list by its BCPL address.  *)
(*                                                                         *)
(* Memory is an array of longs: a BCPL address is an index into it.  A     *)
(* segment's block is its size, the link to the next one, and the data.    *)
(***************************************************************************)
EXTENDS Integers, Sequences, SequencesExt

CONSTANTS
  SegImages,   \* the images of the files: sequences of segments, each a
               \* record [size, data, relocs]; a reloc is <<offset, to, type>>
  MemLongs,    \* bound: longs of memory, from address 1 on
  MaxLists     \* bound: loads and registrations

ASSUME SegImagesAssumption ==
  \A img \in SegImages : \A s \in DOMAIN img :
    /\ Len(img[s].data) <= img[s].size
    /\ \A r \in img[s].relocs : r[1] \in 1..img[s].size /\ r[2] \in DOMAIN img

VARIABLES
  seg_mem,      \* the memory
  seg_blocks,   \* allocated blocks: address -> length
  seg_infos,    \* infos of SegmentLoader: baddr -> image, or <<>> if registered
  seg_custom,   \* seglists a program made: baddr
  seg_leaked,   \* blocks of loads that failed
  seg_orphans,  \* what shutdown() returned, -1 before
  seg_count     \* loads and registrations so far

seg_vars == <<seg_mem, seg_blocks, seg_infos, seg_custom, seg_leaked, seg_orphans, seg_count>>

-----------------------------------------------------------------------------
(* SegList. *)

\* The chain of segments from a BCPL address, as get_all_addrs() walks it:
\* the indices of the links.
ChainOf(mem, baddr) ==
  LET chain[n \in 0..MemLongs] ==
        IF n = 0 THEN <<baddr>>
        ELSE LET c == chain[n - 1]
                 next == mem[c[Len(c)]]
             IN  IF next = 0 \/ next \notin 1..MemLongs THEN c ELSE Append(c, next)
  IN  chain[MemLongs]

get_all_addrs(mem, baddr) == LET c == ChainOf(mem, baddr) IN [i \in DOMAIN c |-> c[i] + 1]
get_size(mem, baddr) == mem[baddr - 1]

Taken(blocks) == UNION {b..(b + blocks[b] - 1) : b \in DOMAIN blocks}

\* The addresses where the memory allocator may place n longs (MemoryAlloc).
Places(blocks, n) ==
  {a \in 1..(MemLongs - n + 1) : a..(a + n - 1) \cap Taken(blocks) = {}}

\* Any of them would do: the lowest is taken.  Segments are allocated one after
\* the other; a request that cannot be met raises and leaves what was
\* allocated.
AllocAll(blocks, sizes) ==
  LET step(st, n) ==
        IF ~st.ok THEN st
        ELSE LET p == Places(st.blocks, n + 2)
             IN  IF p = {} THEN [st EXCEPT !.ok = FALSE]
                 ELSE [ok |-> TRUE, at |-> Append(st.at, Min(p)),
                       blocks |-> [b \in DOMAIN st.blocks \cup {Min(p)} |->
                                     IF b = Min(p) THEN n + 2 ELSE st.blocks[b]]]
  IN  FoldLeft(step, [ok |-> TRUE, at |-> <<>>, blocks |-> blocks], sizes)

\* SegList.alloc(): size and link of every block; the last link is 0.
Linked(mem, at, sizes) ==
  [m \in DOMAIN mem |->
    LET mine == {k \in DOMAIN at : m \in {at[k], at[k] + 1}}
        i == CHOOSE k \in mine : TRUE
    IN  IF mine = {} THEN mem[m]
        ELSE IF m = at[i] THEN sizes[i] + 2
        ELSE IF i < Len(at) THEN at[i + 1] + 1 ELSE 0]

\* SegList.free(): the blocks of the chain, each link read before its block is
\* freed.
Freed(mem, blocks, baddr) ==
  LET chain == ChainOf(mem, baddr)
  IN  [b \in DOMAIN blocks \ {chain[i] - 1 : i \in DOMAIN chain} |-> blocks[b]]

\* free() asserts that every link leads to an allocated block.
FreeOk(mem, blocks, baddr) ==
  LET chain == ChainOf(mem, baddr) IN \A i \in DOMAIN chain : chain[i] - 1 \in DOMAIN blocks

-----------------------------------------------------------------------------
(* Relocate. *)

get_sizes(img) == [s \in DOMAIN img |-> img[s].size]

\* _copy_data(): the data of the file, the rest of the segment is 0.
_copy_data(seg) == [o \in 1..seg.size |-> IF o <= Len(seg.data) THEN seg.data[o] ELSE 0]

\* Mutant: the address of the segment itself is added.
_reloc_own(v, r, my_addr, to_addr) ==
  IF r[3] = "PC32" THEN v + to_addr - my_addr - (r[1] - 1) ELSE my_addr + v

\* _reloc() of one entry: an absolute address, or the distance from the entry.
_reloc(v, r, my_addr, to_addr) ==
  IF r[3] = "PC32" THEN v + to_addr - my_addr - (r[1] - 1) ELSE to_addr + v

\* relocate(): the data of all segments for the given addresses.  Entries for
\* the same place add up; images have one for each.
relocate(img, addrs) ==
  [s \in DOMAIN img |->
    LET data == _copy_data(img[s])
    IN  [o \in DOMAIN data |->
          LET here == {r \in img[s].relocs : r[1] = o}
          IN  IF here = {} THEN data[o]
              ELSE LET r == CHOOSE r \in here : TRUE
                   IN  _reloc(data[o], r, addrs[s], addrs[r[2]])]]

\* get_seq_addrs() and relocate_one_block(): all segments in one block, as
\* the ROM builder does.  The offset of a PC relative entry is the one in the
\* block.
get_seq_addrs(img, base) ==
  LET ends[s \in 0..Len(img)] == IF s = 0 THEN base ELSE ends[s - 1] + img[s].size
  IN  [s \in DOMAIN img |-> ends[s - 1]]

relocate_one_block(img, base) ==
  LET addrs == get_seq_addrs(img, base)
  IN  FlattenSeq([s \in DOMAIN img |->
        LET data == _copy_data(img[s])
            extra == addrs[s] - base
        IN  [o \in DOMAIN data |->
              LET here == {r \in img[s].relocs : r[1] = o}
              IN  IF here = {} THEN data[o]
                  ELSE LET r == CHOOSE r \in here : TRUE
                       IN  _reloc(data[o], <<r[1] + extra, r[2], r[3]>>,
                                  addrs[s], addrs[r[2]])]])

\* w_block() of every segment's data to its address.
Written(mem, addrs, datas) ==
  [m \in DOMAIN mem |->
    LET mine == {s \in DOMAIN addrs : m \in addrs[s]..(addrs[s] + Len(datas[s]) - 1)}
        s == CHOOSE x \in mine : TRUE
    IN  IF mine = {} THEN mem[m] ELSE datas[s][m - addrs[s] + 1]]

-----------------------------------------------------------------------------
(* SegmentLoader. *)

SegInit ==
  /\ seg_mem = [m \in 1..MemLongs |-> 9] /\ seg_blocks = <<>> /\ seg_infos = <<>>
  /\ seg_custom = {} /\ seg_leaked = {} /\ seg_orphans = -1 /\ seg_count = 0

Running == seg_orphans = -1
Count == seg_count < MaxLists /\ seg_count' = seg_count + 1

\* load_sys_seglist() and load_ami_seglist() of a file with this image.
load_seglist(img) ==
  /\ Running /\ Count
  /\ LET sizes == get_sizes(img)
         a == AllocAll(seg_blocks, sizes)
         linked == Linked(seg_mem, a.at, sizes)
         baddr == a.at[1] + 1
         addrs == get_all_addrs(linked, baddr)
     IN  /\ seg_blocks' = a.blocks
         /\ IF a.ok
            THEN /\ seg_mem' = Written(linked, addrs, relocate(img, addrs))
                 /\ seg_infos' = [b \in DOMAIN seg_infos \cup {baddr} |->
                                    IF b = baddr THEN img ELSE seg_infos[b]]
                 /\ UNCHANGED seg_leaked
            ELSE /\ seg_leaked' = seg_leaked \cup ToSet(a.at)
                 /\ UNCHANGED <<seg_mem, seg_infos>>
  /\ UNCHANGED <<seg_custom, seg_orphans>>

\* A file that does not exist or has no image: nothing is kept.
load_seglist_fails == Running /\ UNCHANGED seg_vars

\* A program builds a seglist in memory it allocated and registers it.
register_seglist ==
  /\ Running /\ Count
  /\ LET a == AllocAll(seg_blocks, <<1>>)
         baddr == a.at[1] + 1
     IN  /\ a.ok
         /\ seg_blocks' = a.blocks
         /\ seg_mem' = Linked(seg_mem, a.at, <<1>>)
         /\ seg_infos' = [b \in DOMAIN seg_infos \cup {baddr} |->
                            IF b = baddr THEN <<>> ELSE seg_infos[b]]
         /\ seg_custom' = seg_custom \cup {baddr}
  /\ UNCHANGED <<seg_leaked, seg_orphans>>

\* Its owner takes it back and keeps the memory.
unregister_seglist(b) ==
  /\ Running /\ b \in seg_custom \cap DOMAIN seg_infos
  /\ seg_infos' = [x \in DOMAIN seg_infos \ {b} |-> seg_infos[x]]
  /\ UNCHANGED <<seg_mem, seg_blocks, seg_custom, seg_leaked, seg_orphans, seg_count>>

\* unload_seglist() frees the list, custom or not; an unknown one is refused.
unload_seglist(b) ==
  /\ Running
  /\ IF b \in DOMAIN seg_infos
     THEN /\ seg_infos' = [x \in DOMAIN seg_infos \ {b} |-> seg_infos[x]]
          /\ seg_blocks' = Freed(seg_mem, seg_blocks, b)
          /\ seg_custom' = seg_custom \ {b}
     ELSE UNCHANGED <<seg_infos, seg_blocks, seg_custom>>
  /\ UNCHANGED <<seg_mem, seg_leaked, seg_orphans, seg_count>>

\* shutdown() frees what is still registered and returns the number.
shutdown_segs ==
  /\ Running
  /\ seg_orphans' = Len(SetToSeq(DOMAIN seg_infos))
  /\ seg_blocks' = FoldLeft(LAMBDA bs, b : Freed(seg_mem, bs, b), seg_blocks,
                            SetToSeq(DOMAIN seg_infos))
  /\ UNCHANGED <<seg_mem, seg_infos, seg_custom, seg_leaked, seg_count>>

SegNext ==
  \/ \E img \in SegImages : load_seglist(img)
  \/ load_seglist_fails \/ register_seglist \/ shutdown_segs
  \/ \E b \in seg_custom : unregister_seglist(b)
  \/ \E b \in DOMAIN seg_infos \cup seg_custom : unload_seglist(b)

-----------------------------------------------------------------------------

\* The chain of every registered list is there in memory: each link leads to
\* an allocated block with its size, no block is in two lists, and a loaded
\* list has the segments of its image.  It stays so while other programs are
\* loaded and unloaded.
ChainsIntact ==
  Running =>
    /\ \A b \in DOMAIN seg_infos :
         LET chain == ChainOf(seg_mem, b)
         IN  /\ FreeOk(seg_mem, seg_blocks, b)
             /\ \A i \in DOMAIN chain : get_size(seg_mem, chain[i]) = seg_blocks[chain[i] - 1]
             /\ seg_infos[b] # <<>> =>
                  [i \in DOMAIN chain |-> get_size(seg_mem, chain[i]) - 2] = get_sizes(seg_infos[b])
    /\ \A b, c \in DOMAIN seg_infos :
         b # c => ToSet(ChainOf(seg_mem, b)) \cap ToSet(ChainOf(seg_mem, c)) = {}

\* A relocated long holds the address of its target inside the target's
\* segment, or the distance to it, for as long as the program is loaded.
RelocationsRight ==
  Running =>
    \A b \in DOMAIN seg_infos : LET img == seg_infos[b] IN
      \A s \in DOMAIN img : \A r \in img[s].relocs :
        LET addrs == get_all_addrs(seg_mem, b)
            place == addrs[s] + r[1] - 1
            target == seg_mem[place] + (IF r[3] = "PC32" THEN place ELSE 0)
        IN  target \in addrs[r[2]]..(addrs[r[2]] + img[r[2]].size)

\* After shutdown() only what programs made themselves is allocated, and what loads
\* that failed left behind: nothing can free that any more (seglist.py:113), so
\* that a leak there is allowed here.
AllUnloaded ==
  ~Running => DOMAIN seg_blocks \subseteq seg_leaked \cup {b - 1 : b \in seg_custom}

\* The ROM builder's single block has the longs that loading the segments one
\* after the other gives, except for PC relative entries after the first
\* segment.
OneBlockAgrees ==
  \A b \in DOMAIN seg_infos : LET img == seg_infos[b] IN
    (\A s \in 2..Len(img) : \A r \in img[s].relocs : r[3] # "PC32") =>
      relocate_one_block(img, b) = FlattenSeq(relocate(img, get_seq_addrs(img, b)))

\* A loaded program is one chain in memory whose references lead where its file says,
\* and unloading gives all of it back (SegmentLoader, Relocate).
LoadedRight == ChainsIntact /\ RelocationsRight /\ AllUnloaded /\ OneBlockAgrees
=============================================================================
