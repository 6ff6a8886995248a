-------------------------------- MODULE ADFS --------------------------------
(***************************************************************************)
(* The Amiga file system on a disk image, as xdftool writes it             *)
(* (fs/ADFSVolume.py, ADFSDir.py, ADFSFile.py, ADFSBitmap.py).             *)
(*                                                                         *)
(* disk is what the image holds.  A directory block has a hash table of    *)
(* block numbers, the entries of a bucket are chained through their own    *)
(* blocks.  A file block points to its data blocks, and to list blocks if  *)
(* there are too many of them.  With a directory cache every directory     *)
(* also keeps its entries' records in a chain of cache blocks.             *)
(*                                                                         *)
(* While a volume is open the bitmap, the buckets and the cache blocks are *)
(* in memory.  The blocks of nodes are in memory too, but every change of  *)
(* one is written in the same call, so that disk stands for both.          *)
(***************************************************************************)
EXTENDS Integers, FiniteSets, SequencesExt

CONSTANTS
    NumBlocks,     \* blocks of the device behind the reserved ones
    Root,          \* the root block; the bitmap block follows it
    LongBits,      \* bits of a bitmap long (32)
    HashSize,      \* buckets of a hash table (72)
    PtrsPerBlk,    \* data block pointers in a file or list block (72)
    CacheRecords,  \* records in a cache block
    Names,         \* names of files and directories
    DirNames,      \* bound: the names directories are created with
    Hash,          \* FileName.hash() of every name
    Contents,      \* contents of files
    DataBlks,      \* how many data blocks each of them takes
    DirCaches,     \* the kinds of volumes: with (TRUE) or without a cache
    Wipes          \* whether deleted blocks are cleared: "delete ... wipe"

Blocks == 1..NumBlocks
Buckets == 0..(HashSize - 1)

ASSUME SizesAssumption ==
    /\ NumBlocks \in Nat /\ Root \in Blocks /\ Root + 1 \in Blocks
    /\ LongBits \in Nat \ {0} /\ PtrsPerBlk \in Nat \ {0}
    /\ HashSize \in Nat \ {0} /\ CacheRecords \in Nat \ {0}
ASSUME NamesAssumption ==
    /\ DirNames \subseteq Names /\ Hash \in [Names -> Buckets]
    /\ DataBlks \in [Contents -> Nat]
    /\ DirCaches \subseteq BOOLEAN /\ Wipes \subseteq BOOLEAN

VARIABLES
    disk,            \* the blocks of the image
    bitmap,          \* ADFSBitmap.bitmap_data: the free blocks
    find_start_off,  \* ADFSBitmap.find_start_off
    name_hash,       \* ADFSDir.name_hash by block: the nodes of every bucket
    dcache_blks,     \* ADFSDir.dcache_blks by block
    is_dircache,     \* ADFSVolume.is_dircache
    error            \* the exception that ended the command

vars == <<disk, bitmap, find_start_off, name_hash, dcache_blks, is_dircache, error>>

NoName == "no name"
NoData == <<>>
DirContent == "directory"

EmptyTable == [h \in Buckets |-> 0]

\* a block with nothing in it; every kind of block uses some of the fields
Blank == [type |-> "none", name |-> NoName, hash_table |-> EmptyTable, hash_chain |-> 0,
          data_blocks |-> <<>>, extension |-> 0, data |-> NoData, records |-> <<>>]

DirBlock(n, chain, ext) ==
    [Blank EXCEPT !.type = "dir", !.name = n, !.hash_chain = chain, !.extension = ext]

CacheBlock(dcb) ==
    [Blank EXCEPT !.type = "cache", !.records = dcb.records, !.extension = dcb.next_cache]

NoHash == [h \in Buckets |-> <<>>]

-----------------------------------------------------------------------------
(* The bitmap.                                                              *)

\* position of a block in a search that starts at long off
SearchPos(off, b) == ((b - 1) - off * LongBits) % NumBlocks

\* find_n_free() among the free blocks: the first num in the order of the search
find_n_free(free, off, num) ==
    SubSeq(SetToSortSeq(free, LAMBDA a, b : SearchPos(off, a) < SearchPos(off, b)), 1, num)

\* alloc_n() in a volume v; the next search starts from the long of the last block
Allocated(v, num) == find_n_free(v.free, v.start, num)
\* Mutant: only the last block is marked used
alloc_n_last(v, num) ==
    LET blks == Allocated(v, num)
    IN [v EXCEPT !.free = @ \ {Last(blks)}, !.start = (Last(blks) - 1) \div LongBits]

alloc_n(v, num) ==
    LET blks == Allocated(v, num)
    IN [v EXCEPT !.free = @ \ ToSet(blks), !.start = (Last(blks) - 1) \div LongBits]
CanAlloc(v, num) == Cardinality(v.free) >= num

-----------------------------------------------------------------------------
(* Reading.                                                                 *)

\* the blocks from b on, as the field of each leads to the next; at most as
\* many as the disk has
Follow(dsk, first, field) ==
    LET walk[n, b \in 0..NumBlocks] ==
            IF n = 0 \/ b = 0 THEN <<>> ELSE <<b>> \o walk[n - 1, dsk[b][field]]
    IN walk[NumBlocks, first]

\* ADFSDir.read(): the nodes of every bucket
ReadDir(dsk, d) == [h \in Buckets |-> Follow(dsk, dsk[d].hash_table[h], "hash_chain")]

\* and the cache blocks, if there are any
ReadCache(dsk, d) ==
    LET nums == IF is_dircache THEN Follow(dsk, dsk[d].extension, "extension") ELSE <<>>
    IN [i \in 1..Len(nums) |->
            [blk_num |-> nums[i], records |-> dsk[nums[i]].records,
             next_cache |-> dsk[nums[i]].extension]]

\* ADFSFile.blocks_create_old(): the list blocks, and the data blocks of all
ExtBlks(dsk, f) == Follow(dsk, dsk[f].extension, "extension")
DataBlkNums(dsk, f) ==
    LET blks == <<f>> \o ExtBlks(dsk, f)
    IN FlattenSeq([i \in 1..Len(blks) |-> dsk[blks[i]].data_blocks])

\* ADFSFile.read(): what the data blocks hold
FileData(dsk, f) ==
    LET nums == DataBlkNums(dsk, f) IN [i \in 1..Len(nums) |-> dsk[nums[i]].data]

\* the directories one finds on the image, from the root down
Reachable(dsk) ==
    LET kids(d) == UNION {ToSet(ReadDir(dsk, d)[h]) : h \in Buckets}
        down[n, d \in 0..NumBlocks] ==
            IF n = 0 THEN {}
            ELSE {d} \cup UNION {down[n - 1, k] : k \in {b \in kids(d) : dsk[b].type = "dir"}}
    IN down[NumBlocks, Root]

Entries(d) == UNION {ToSet(name_hash[d][h]) : h \in Buckets}

\* the root and every directory that some directory has in a bucket
Dirs == {Root} \cup {b \in UNION {Entries(d) : d \in Blocks} : disk[b].type = "dir"}

\* ensure_entries(): a directory without entries is read again
EnsuredCache(d) == IF Entries(d) = {} THEN ReadCache(disk, d) ELSE dcache_blks[d]

-----------------------------------------------------------------------------
(* The open volume as one value, which the parts of a command change in     *)
(* turn: the image, the bitmap and the directories in memory.               *)

Opened(d) == [disk |-> disk, free |-> bitmap, start |-> find_start_off, hash |-> name_hash,
              cache |-> [dcache_blks EXCEPT ![d] = EnsuredCache(d)], error |-> "none"]

\* a command ends and leaves the volume v
Becomes(v) ==
    /\ disk' = v.disk /\ bitmap' = v.free /\ find_start_off' = v.start
    /\ name_hash' = v.hash /\ dcache_blks' = v.cache
    /\ error' = v.error
    /\ UNCHANGED is_dircache

NameOf(v, b) == v.disk[b].name
Nodes(v, d) == UNION {ToSet(v.hash[d][h]) : h \in Buckets}
Parent(v, b) == CHOOSE d \in Blocks : b \in Nodes(v, d)

-----------------------------------------------------------------------------
(* The directory cache.                                                     *)

\* DirCacheBlock.write() of the i-th cache block of d
WriteCache(v, d, i) == [v EXCEPT !.disk[v.cache[d][i].blk_num] = CacheBlock(v.cache[d][i])]

\* _dircache_add_block(), where a block is free
dircache_add_block(v, d) ==
    LET num == Allocated(v, 1)[1]
        n   == Len(v.cache[d])
        new == [blk_num |-> num, records |-> <<>>, next_cache |-> 0]
        w   == IF n = 0 THEN [alloc_n(v, 1) EXCEPT !.disk[d].extension = num]
               ELSE WriteCache([alloc_n(v, 1) EXCEPT !.cache[d][n].next_cache = num], d, n)
    IN [w EXCEPT !.cache[d] = Append(@, new)]

\* _dircache_add_entry(): into the first cache block with space, or a new one
CacheSpace(v, d) == {i \in 1..Len(v.cache[d]) : Len(v.cache[d][i].records) < CacheRecords}
dircache_add_entry(v, d, n) ==
    LET w == IF CacheSpace(v, d) = {} THEN dircache_add_block(v, d) ELSE v
        i == Min(CacheSpace(w, d))
    IN WriteCache([w EXCEPT !.cache[d][i].records = Append(@, n)], d, i)

CachesOf(v, d, n) == {i \in 1..Len(v.cache[d]) : Contains(v.cache[d][i].records, n)}

\* _dircache_remove_entry() returns the block that gets empty and is freed, the
\* last one excepted
FreedCacheBlk(v, d, n) ==
    {c.blk_num : c \in {v.cache[d][i] : i \in {j \in CachesOf(v, d, n) :
        v.cache[d][j].records = <<n>> /\ Len(v.cache[d]) > 1}}}

\* the freed block is unlinked on disk; it stays in dcache_blks
dircache_remove_entry(v, d, n) ==
    IF CachesOf(v, d, n) = {} THEN [v EXCEPT !.error = "no dc record!"]
    ELSE LET i    == Min(CachesOf(v, d, n))
             next == IF i = Len(v.cache[d]) THEN 0 ELSE v.cache[d][i + 1].blk_num
             free == FreedCacheBlk(v, d, n)
             w    == [v EXCEPT !.cache[d][i].records = RemoveFirst(@, n), !.free = @ \cup free]
         IN IF free = {} THEN WriteCache(w, d, i)
            ELSE IF i = 1 THEN [w EXCEPT !.disk[d].extension = next]
            ELSE WriteCache([w EXCEPT !.cache[d][i - 1].next_cache = next], d, i - 1)

\* update_dir_mod_time(): the record of d in its parent is written again
update_dir_mod_time(v, d) ==
    IF ~is_dircache \/ d = Root \/ v.error # "none" THEN v
    ELSE LET p == Parent(v, d)
         IN IF CachesOf(v, p, NameOf(v, d)) = {} THEN [v EXCEPT !.error = "dc not found!"]
            ELSE WriteCache(v, p, Min(CachesOf(v, p, NameOf(v, d))))

-----------------------------------------------------------------------------
(* Deleting.                                                                *)

\* Mutant: without the list blocks of a file
BlockNums_nolist(v, b) ==
    {b} \cup (IF v.disk[b].type = "dir"
              THEN LET c == ReadCache(v.disk, b) IN {c[i].blk_num : i \in 1..Len(c)}
              ELSE ToSet(DataBlkNums(v.disk, b)))

\* get_block_nums() of a node
BlockNums(v, b) ==
    {b} \cup (IF v.disk[b].type = "dir"
              THEN LET c == ReadCache(v.disk, b) IN {c[i].blk_num : i \in 1..Len(c)}
              ELSE ToSet(ExtBlks(v.disk, b)) \cup ToSet(DataBlkNums(v.disk, b)))

\* the node leaves its bucket: its predecessor leads to its successor
Unlinked(v, d, b) ==
    LET h     == Hash[NameOf(v, b)]
        names == v.hash[d][h]
        pos   == CHOOSE i \in 1..Len(names) : names[i] = b
        next  == IF pos = Len(names) THEN 0 ELSE names[pos + 1]
        w     == [v EXCEPT !.hash[d][h] = RemoveAt(@, pos), !.hash[b] = NoHash, !.cache[b] = <<>>]
    IN IF pos = 1 THEN [w EXCEPT !.disk[d].hash_table[h] = next]
       ELSE [w EXCEPT !.disk[names[pos - 1]].hash_chain = next]

\* ADFSDir._delete() of a file or of an empty directory
Deleted(v, d, b, wipe) ==
    LET name == NameOf(v, b)
        u    == [Unlinked(v, d, b) EXCEPT !.free = @ \cup BlockNums(v, b)]
        w    == IF is_dircache THEN dircache_remove_entry(u, d, name) ELSE u
        gone == BlockNums(v, b) \cup (IF is_dircache THEN FreedCacheBlk(u, d, name) ELSE {})
        x    == IF wipe /\ w.error = "none"
                THEN [w EXCEPT !.disk = [a \in Blocks |-> IF a \in gone THEN Blank ELSE @[a]]]
                ELSE w
    IN update_dir_mod_time(x, d)

\* delete(): of an entry b of d; a directory has to be empty
delete(d, b, wipe) ==
    /\ error = "none"
    /\ disk[b].type = "dir" => Entries(b) = {}
    /\ Becomes(Deleted(Opened(d), d, b, wipe))

-----------------------------------------------------------------------------
(* Creating.                                                                *)

\* calc_number_of_list_blks()
ListBlks(num) ==
    IF num <= PtrsPerBlk THEN 0 ELSE (num - PtrsPerBlk + PtrsPerBlk - 1) \div PtrsPerBlk

\* Mutant: the pointers in reverse order
Pointers_reverse(nums, i) ==
    SubSeq(Reverse(nums), i * PtrsPerBlk + 1, Min({(i + 1) * PtrsPerBlk, Len(nums)}))

\* the data block pointers that go into the file block (0) or a list block
Pointers(nums, i) ==
    SubSeq(nums, i * PtrsPerBlk + 1, Min({(i + 1) * PtrsPerBlk, Len(nums)}))

\* ADFSFile.blocks_create_new(): file, list and data blocks out of blks
FileCreated(v, blks, n, chain, c) ==
    LET exts == SubSeq(blks, 2, 1 + ListBlks(DataBlks[c]))
        nums == SubSeq(blks, 2 + Len(exts), Len(blks))
        Ext(i) == IF i < Len(exts) THEN exts[i + 1] ELSE 0
        List(i) == [Blank EXCEPT !.type = "list", !.data_blocks = Pointers(nums, i),
                                 !.extension = Ext(i)]
        Header == [Blank EXCEPT !.type = "file", !.name = n, !.hash_chain = chain,
                               !.data_blocks = Pointers(nums, 0), !.extension = Ext(0)]
        Data(i) == [Blank EXCEPT !.type = "data", !.data = <<c, i>>]
    IN [v EXCEPT !.disk = [b \in Blocks |->
            IF b = blks[1] THEN Header
            ELSE IF Contains(exts, b) THEN List(CHOOSE i \in 1..Len(exts) : exts[i] = b)
            ELSE IF Contains(nums, b) THEN Data(CHOOSE i \in 1..Len(nums) : nums[i] = b)
            ELSE @[b]]]

\* ADFSDir.blocks_create_new(): the directory block, and its first cache block
DirCreated(v, b, n, chain) ==
    LET w == [v EXCEPT !.disk[b] = DirBlock(n, chain, 0), !.hash[b] = NoHash, !.cache[b] = <<>>]
    IN IF ~is_dircache THEN w
       ELSE IF ~CanAlloc(w, 1) THEN [w EXCEPT !.error = "AttributeError"]
       ELSE WriteCache(dircache_add_block(w, b), b, 1)

\* the cache has no space for the new entry and no block is free: delete() of the
\* directory itself raises.  (A directory without entries has space in its cache.)
NoCacheSpace(v, d) ==
    [v EXCEPT !.error = IF d = Root THEN "AttributeError" ELSE "DELETE_NOT_ALLOWED"]

\* the new node goes to the front of its bucket
Linked(v, d, n, b) ==
    LET h == Hash[n]
    IN [v EXCEPT !.disk[d].hash_table[h] = b, !.hash[d][h] = <<b>> \o @]

CreateNum(c) == IF c = DirContent THEN 1 ELSE 1 + DataBlks[c] + ListBlks(DataBlks[c])

\* _create_node(), in a volume with enough free blocks for the node itself
Created(v, d, n, c) ==
    LET bucket == v.hash[d][Hash[n]]
        chain  == IF bucket = <<>> THEN 0 ELSE Head(bucket)
        blks   == Allocated(v, CreateNum(c))
        w      == alloc_n(v, CreateNum(c))
        x      == IF c = DirContent THEN DirCreated(w, blks[1], n, chain)
                                    ELSE FileCreated(w, blks, n, chain, c)
    IN IF x.error # "none" THEN x
       ELSE IF ~is_dircache THEN update_dir_mod_time(Linked(x, d, n, blks[1]), d)
       ELSE IF CacheSpace(x, d) = {} /\ ~CanAlloc(x, 1) THEN NoCacheSpace(x, d)
       ELSE update_dir_mod_time(Linked(dircache_add_entry(x, d, n), d, n, blks[1]), d)

\* has_name(), as the bucket of the name has it
has_name(d, n) == \E b \in ToSet(name_hash[d][Hash[n]]) : disk[b].name = n

create(d, n, c) ==
    /\ error = "none"
    /\ ~has_name(d, n)
    /\ Cardinality(bitmap) >= CreateNum(c)
    /\ Becomes(Created(Opened(d), d, n, c))

create_dir(d, n) == create(d, n, DirContent)
create_file(d, n, c) == create(d, n, c)

-----------------------------------------------------------------------------

\* the search for free blocks starts at the root block
FirstStart == (Root - 1) \div LongBits

\* ADFSVolume.create(): an empty volume
Init ==
    \E dc \in DirCaches :
        LET empty == [disk |-> [b \in Blocks |-> IF b = Root THEN DirBlock(NoName, 0, 0) ELSE Blank],
                      free |-> Blocks \ {Root, Root + 1}, start |-> FirstStart,
                      hash |-> [b \in Blocks |-> NoHash], cache |-> [b \in Blocks |-> <<>>]]
            v == IF dc THEN WriteCache(dircache_add_block(empty, Root), Root, 1) ELSE empty
        IN /\ is_dircache = dc
           /\ disk = v.disk /\ bitmap = v.free /\ find_start_off = v.start
           /\ name_hash = v.hash /\ dcache_blks = v.cache
           /\ error = "none"

\* close() and open(): at the end of the commands, or after an exception, and
\* the start of the next ones.  close() writes the bitmap if it has changed.
reopen ==
    LET reach == Reachable(disk)
    IN /\ find_start_off' = FirstStart
       /\ name_hash' = [b \in Blocks |-> IF b \in reach THEN ReadDir(disk, b) ELSE NoHash]
       /\ dcache_blks' = [b \in Blocks |-> IF b \in reach THEN ReadCache(disk, b) ELSE <<>>]
       /\ error' = "none"
       /\ UNCHANGED <<disk, bitmap, is_dircache>>

Next ==
    \/ \E d \in Dirs :
        \/ \E n \in DirNames : create_dir(d, n)
        \/ \E n \in Names, c \in Contents : create_file(d, n, c)
        \/ \E b \in Entries(d), wipe \in Wipes : delete(d, b, wipe)
    \/ reopen

Spec == Init /\ [][Next]_vars

-----------------------------------------------------------------------------
(* Properties.                                                              *)

BlockType == {"none", "dir", "file", "list", "data", "cache"}
CacheInMemory == [blk_num : Blocks, records : Seq(Names), next_cache : {0} \cup Blocks]

\* Block numbers are on the disk, also the ones a wrapped search hands out, and the
\* next search starts within the bitmap.
TypeOK ==
    /\ DOMAIN disk = Blocks /\ \A b \in Blocks : disk[b].type \in BlockType
    /\ bitmap \subseteq Blocks
    /\ find_start_off \in 0..((NumBlocks - 1) \div LongBits)
    /\ name_hash \in [Blocks -> [Buckets -> Seq(Blocks)]]
    /\ dcache_blks \in [Blocks -> Seq(CacheInMemory)]
    /\ is_dircache \in BOOLEAN

\* The directories in memory are what the image holds: a bucket is the chain of
\* blocks that starts in the hash table, with the names that belong there.
BucketsOnDisk ==
    \A d \in Dirs : /\ name_hash[d] = ReadDir(disk, d)
                    /\ \A h \in Buckets : \A b \in ToSet(name_hash[d][h]) :
                            Hash[disk[b].name] = h

\* The blocks of a node, its own and those only it leads to
BlocksOf(b) ==
    {b} \cup ToSet(Follow(disk, disk[b].extension, "extension")) \cup ToSet(DataBlkNums(disk, b))
AllNodes == Dirs \cup UNION {Entries(d) : d \in Dirs}

\* No block belongs to two nodes, and none of a node is free: a new file never
\* overwrites what an old one holds.
NoCrossLinks ==
    /\ \A a, b \in AllNodes : a # b => BlocksOf(a) \cap BlocksOf(b) = {}
    /\ \A a \in AllNodes : BlocksOf(a) \cap bitmap = {}

\* blocks that are neither free nor of a node
Lost == Blocks \ (bitmap \cup {Root + 1} \cup UNION {BlocksOf(a) : a \in AllNodes})

\* No block is lost: a command that ends well, like close() and open(), adds no
\* block to those that are neither free nor of a node.
NoNewLeaks == [][error' = "none" => Lost' \subseteq Lost]_vars

\* The cache of a directory on disk has just the names of its entries.
CacheMatches ==
    is_dircache => \A d \in Dirs :
        LET c == ReadCache(disk, d)
            names == FlattenSeq([i \in 1..Len(c) |-> c[i].records])
        IN /\ IsInjective(names)
           /\ ToSet(names) = {disk[b].name : b \in Entries(d)}

\* what a file reads back, or that it is a directory
NodeContent(b) ==
    LET Holds(c) == FileData(disk, b) = [i \in 1..DataBlks[c] |-> <<c, i>>]
    IN IF disk[b].type = "dir" THEN DirContent
       ELSE IF \E c \in Contents : Holds(c) THEN CHOOSE c \in Contents : Holds(c)
       ELSE "garbage"
OpenTree ==
    [b \in UNION {Entries(d) : d \in Dirs} |->
        [parent |-> CHOOSE d \in Blocks : b \in Entries(d),
         name |-> disk[b].name, content |-> NodeContent(b)]]

Tree == INSTANCE VolumeTree WITH nodes <- OpenTree, RootId <- Root

\* What an open volume shows is a tree in which every command adds or removes
\* one node, and a file reads back what was written; close() and open(), which
\* read everything from the image again, change nothing.
ImplementsTree == Tree!Spec

\* At any time the image, the bitmap, the directories in memory and the directory cache
\* describe the same nodes, on blocks that no two share (ADFSVolume, ADFSDir).
DiskSound == TypeOK /\ BucketsOnDisk /\ NoCrossLinks /\ CacheMatches
=============================================================================
