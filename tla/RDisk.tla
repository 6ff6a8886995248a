------------------------------- MODULE RDisk -------------------------------
(***************************************************************************)
(* Rigid disk blocks (amitools/fs/rdb, amitools/tools/rdbtool.py).  The    *)
(* first cylinders of an image hold the RDSK block at block 0 and, chained *)
(* from it, one PART block per partition and one FSHD block with a chain   *)
(* of LSEG blocks per file system.  rdbtool opens the image, runs a list   *)
(* of commands on one RDisk object that mirrors these blocks, and closes   *)
(* it.  An edit command is a sequence of block writes; it may be cut off   *)
(* after any of them (an I/O error, a killed process), which ends the      *)
(* session.  An error before the first write ends it too: that is the      *)
(* action Close.  Contents of partitions are not modelled.                 *)
(***************************************************************************)
EXTENDS Integers, FiniteSets, SequencesExt

CONSTANTS
    Heads, Secs,     \* geometry that DiskGeometry guesses for the image
    ImgCyls,         \* image sizes that create and resize are given
    RdbCyls,         \* rdb_cyls options of init
    SecPerBlk,       \* sec_per_blk values that fs_block_size options lead to
    LoadSegs,        \* numbers of LSEG blocks that file systems need
    AdjustArgs,      \* options of adjust: [lo, hi, phys], 0 where not given
    RemapArgs,       \* options of remap: <<heads, secs>>
    DeleteFids,      \* file systems that fsdelete is called for
    MaxEdits         \* bound: edit commands in a behaviour

ASSUME RDiskAssumption ==
    /\ Heads \in Nat \ {0} /\ Secs \in Nat \ {0}
    /\ RdbCyls \subseteq Nat \ {0} /\ ImgCyls \subseteq Nat \ {0}

VARIABLES
    disk,      \* the blocks of the RDB area
    img,       \* number of blocks of the image file
    dev,       \* the block device of the session: "none", "rw" or "ro"
    rd,        \* the RDisk object of the session, or Closed
    cut,       \* commands that were cut off since the last init
    edits      \* number of edit commands so far
rdb_vars == <<disk, img, dev, rd, cut, edits>>

NoBlk == -1
Closed == [rdb |-> NoBlk]
Blank == [t |-> "none"]
RdbBlocks == 0 .. Heads * Secs * Max(RdbCyls) - 1

-----------------------------------------------------------------------------
(* Blocks *)
RDBlock(cyls, rdb_cyls) ==
    [t |-> "RDSK", part_list |-> NoBlk, fs_list |-> NoBlk,
     cyls |-> cyls, heads |-> Heads, secs |-> Secs,
     rdb_blk_hi |-> Heads * Secs * rdb_cyls - 1, lo_cyl |-> rdb_cyls, hi_cyl |-> cyls - 1,
     cyl_blks |-> Heads * Secs, high_rdsk_blk |-> 0]

PartitionBlock(lo, hi, r, spb) ==
    [t |-> "PART", next |-> NoBlk, low_cyl |-> lo, high_cyl |-> hi,
     surfaces |-> r.heads, blk_per_trk |-> r.secs, sec_per_blk |-> spb]

FSHeaderBlock(seg) == [t |-> "FSHD", next |-> NoBlk, seg_list_blk |-> seg]
LoadSegBlock(next) == [t |-> "LSEG", next |-> next]

\* The blocks of type t that a reader meets from block first on.  The last element
\* is NoBlk exactly if the chain ends, and does so without meeting another type.
Chain(d, first, t) ==
    LET size == Cardinality(DOMAIN d)
        walk[n \in 0 .. size, b \in DOMAIN d \cup {NoBlk}] ==
            IF n > 0 /\ b # NoBlk /\ d[b].t = t THEN <<b>> \o walk[n - 1, d[b].next] ELSE <<b>>
    IN  walk[size, first]
Ends(chain) == Last(chain) = NoBlk

-----------------------------------------------------------------------------
(* Reading: RDisk.open() *)
PartChain(d) == Chain(d, d[0].part_list, "PART")
FsChain(d) == Chain(d, d[0].fs_list, "FSHD")
SegChain(d, b) == Chain(d, d[b].seg_list_blk, "LSEG")

Readable(d) ==
    /\ d[0].t = "RDSK"
    /\ Ends(PartChain(d)) /\ Ends(FsChain(d))
    /\ \A b \in Range(Front(FsChain(d))) : Ends(SegChain(d, b))

Partition(d, b) == [blk |-> b, part_blk |-> d[b]]
FileSystem(d, b) == [blk |-> b, fshd |-> d[b], lsegs |-> Front(SegChain(d, b))]
get_blk_nums(fs) == <<fs.blk>> \o fs.lsegs

open(d) ==
    LET parts == [i \in 1 .. Len(PartChain(d)) - 1 |-> Partition(d, PartChain(d)[i])]
        fs == [i \in 1 .. Len(FsChain(d)) - 1 |-> FileSystem(d, FsChain(d)[i])]
    IN  [rdb |-> d[0], parts |-> parts, fs |-> fs,
         used_blks |-> <<0>> \o Front(PartChain(d)) \o FlattenSeq([i \in DOMAIN fs |-> get_blk_nums(fs[i])]),
         max_blks |-> d[0].rdb_blk_hi + 1]

-----------------------------------------------------------------------------
(* Cylinders and RDB blocks *)
get_cyl_range(p) == <<p.part_blk.low_cyl, p.part_blk.high_cyl>>

\* Is lo..hi inside the logical cylinders and free of partitions?
check_cyl_range(r, lo, hi) ==
    /\ lo <= hi /\ lo >= r.rdb.lo_cyl /\ hi <= r.rdb.hi_cyl
    /\ \A i \in DOMAIN r.parts : LET pr == get_cyl_range(r.parts[i]) IN hi < pr[1] \/ lo > pr[2]

Without(pr, r) ==
    IF pr = r THEN <<>>
    ELSE IF pr[1] = r[1] THEN << <<pr[2] + 1, r[2]>> >>
    ELSE IF pr[2] = r[2] THEN << <<r[1], pr[1] - 1>> >>
    ELSE IF pr[1] > r[1] /\ pr[2] < r[2] THEN << <<r[1], pr[1] - 1>>, <<pr[2] + 1, r[2]>> >>
    ELSE <<r>>

get_free_cyl_ranges(r) ==
    FoldLeft(LAMBDA free, p : FlattenSeq([i \in DOMAIN free |-> Without(get_cyl_range(p), free[i])]),
             << <<r.rdb.lo_cyl, r.rdb.hi_cyl>> >>, r.parts)

find_free_cyl_range_start(r, cyls) ==
    LET fits == SelectSeq(get_free_cyl_ranges(r), LAMBDA f : cyls <= f[2] - f[1] + 1)
    IN  IF fits = <<>> THEN NoBlk ELSE fits[1][1]

\* The free blocks in ascending order.
get_free_blocks(r) ==
    SelectSeq([i \in 1 .. r.max_blks |-> i - 1], LAMBDA b : b \notin Range(r.used_blks))
has_free_rdb_blocks(r, n) == Len(r.used_blks) + n <= r.max_blks

update_hi_blk(r) == [r EXCEPT !.rdb.high_rdsk_blk = Max(Range(r.used_blks))]

-----------------------------------------------------------------------------
(* Edit operations: from a state [rd, w] to the next one, where w is the   *)
(* sequence of the blocks written.                                         *)
WritePart(r, i) == << <<r.parts[i].blk, r.parts[i].part_blk>> >>
WriteFs(r, i) == << <<r.fs[i].blk, r.fs[i].fshd>> >>
WriteRdb(r) == << <<0, r.rdb>> >>
LsegWrites(lsegs) ==
    [i \in DOMAIN lsegs |-> <<lsegs[i], LoadSegBlock(IF i = Len(lsegs) THEN NoBlk ELSE lsegs[i + 1])>>]

\* Mutant: the chain is linked before the new block is written.
add_partition_linked_first(s, range, spb) ==
    LET r == s.rd  n == Len(r.parts)  blk == get_free_blocks(r)[1]
        p == [blk |-> blk, part_blk |-> PartitionBlock(range[1], range[2], r.rdb, spb)]
        r1 == update_hi_blk([r EXCEPT !.used_blks = Append(@, blk)])
        r2 == IF n = 0 THEN [r1 EXCEPT !.rdb.part_list = blk]
              ELSE [r1 EXCEPT !.parts[n].part_blk.next = blk]
    IN  [rd |-> [r2 EXCEPT !.parts = Append(@, p)],
         w |-> s.w \o (IF n = 0 THEN <<>> ELSE WritePart(r2, n)) \o << <<blk, p.part_blk>> >> \o WriteRdb(r2)]

add_partition(s, range, spb) ==
    LET r == s.rd  n == Len(r.parts)  blk == get_free_blocks(r)[1]
        p == [blk |-> blk, part_blk |-> PartitionBlock(range[1], range[2], r.rdb, spb)]
        r1 == update_hi_blk([r EXCEPT !.used_blks = Append(@, blk)])
        r2 == IF n = 0 THEN [r1 EXCEPT !.rdb.part_list = blk]
              ELSE [r1 EXCEPT !.parts[n].part_blk.next = blk]
    IN  [rd |-> [r2 EXCEPT !.parts = Append(@, p)],
         w |-> s.w \o << <<blk, p.part_blk>> >>
                   \o (IF n = 0 THEN <<>> ELSE WritePart(r2, n)) \o WriteRdb(r2)]

\* Unlink the partition with number i, write the block before it and the RDSK block.
delete_partition(r, i) ==
    LET next == IF i < Len(r.parts) THEN r.parts[i + 1].blk ELSE NoBlk
        r1 == IF i = 1 THEN [r EXCEPT !.rdb.part_list = next]
              ELSE [r EXCEPT !.parts[i - 1].part_blk.next = next]
        r2 == update_hi_blk([r1 EXCEPT !.used_blks = Remove(@, r.parts[i].blk)])
    IN  [rd |-> [r2 EXCEPT !.parts = RemoveAt(@, i)],
         w |-> (IF i = 1 THEN <<>> ELSE WritePart(r2, i - 1)) \o WriteRdb(r2)]

change_partition(r, i, spb) ==
    LET r1 == [r EXCEPT !.parts[i].part_blk.sec_per_blk = spb]
    IN  [rd |-> r1, w |-> WritePart(r1, i)]

add_filesystem(r, num_lseg) ==
    LET n == Len(r.fs)  blks == SubSeq(get_free_blocks(r), 1, num_lseg + 1)
        f == [blk |-> blks[1], fshd |-> FSHeaderBlock(blks[2]), lsegs |-> Tail(blks)]
        r1 == update_hi_blk([r EXCEPT !.used_blks = @ \o blks])
        r2 == IF n = 0 THEN [r1 EXCEPT !.rdb.fs_list = f.blk] ELSE [r1 EXCEPT !.fs[n].fshd.next = f.blk]
    IN  [rd |-> [r2 EXCEPT !.fs = Append(@, f)],
         w |-> << <<f.blk, f.fshd>> >> \o LsegWrites(f.lsegs)
               \o (IF n = 0 THEN <<>> ELSE WriteFs(r2, n)) \o WriteRdb(r2)]

\* Without i = 1 the code relinks the last file system of the list, whichever one is
\* deleted, and not the one before it.
delete_filesystem(r, i) ==
    LET n == Len(r.fs)
        next == IF i < n THEN r.fs[i + 1].blk ELSE NoBlk
        r1 == IF i = 1 THEN [r EXCEPT !.rdb.fs_list = next] ELSE [r EXCEPT !.fs[n].fshd.next = next]
        kept == SelectSeq(r.used_blks, LAMBDA b : b \notin Range(get_blk_nums(r.fs[i])))
        r2 == update_hi_blk([r1 EXCEPT !.used_blks = kept])
    IN  [rd |-> [r2 EXCEPT !.fs = RemoveAt(@, i)],
         w |-> (IF i = 1 THEN <<>> ELSE WriteFs(r2, n) \o LsegWrites(r2.fs[n].lsegs)) \o WriteRdb(r2)]

CanResize(r, lo, hi, phys) ==
    /\ <<lo, hi>> # <<r.rdb.lo_cyl, r.rdb.hi_cyl>> /\ lo <= hi
    /\ \A i \in DOMAIN r.parts : get_cyl_range(r.parts[i])[1] >= lo /\ get_cyl_range(r.parts[i])[2] <= hi
    /\ hi = r.rdb.cyls - 1 \/ phys
resize(r, lo, hi) ==
    LET r1 == [r EXCEPT !.rdb.cyls = hi + 1, !.rdb.lo_cyl = lo, !.rdb.hi_cyl = hi]
    IN  [rd |-> r1, w |-> WriteRdb(r1)]

\* (new & old) for the two cylinder sizes.
BitAnd(a, b) ==
    LET f[n \in 0 .. 15] == IF n = 15 THEN 0
                            ELSE f[n + 1] + (IF (a \div 2^n) % 2 = 1 /\ (b \div 2^n) % 2 = 1 THEN 2^n ELSE 0)
    IN  f[0]

CanRemap(r, new) ==
    LET old == r.rdb.heads * r.rdb.secs IN
    IF old > new THEN old % new = 0
    ELSE /\ BitAnd(new, old) = 0
         /\ \A x \in {r.rdb.cyls, r.rdb.lo_cyl, r.rdb.hi_cyl}
                 \cup UNION {Range(get_cyl_range(r.parts[i])) : i \in DOMAIN r.parts} : x % (new \div old) = 0

\* Mutant: with smaller cylinders a partition starts one of them later.
remap_late(r, heads, secs) ==
    LET new == heads * secs  old == r.rdb.heads * r.rdb.secs
        op(x) == IF old > new THEN x * (old \div new) ELSE x \div (new \div old)
        r1 == [r EXCEPT !.rdb = [@ EXCEPT !.heads = heads, !.secs = secs, !.cyls = op(@), !.lo_cyl = op(@),
                                          !.hi_cyl = op(@), !.cyl_blks = new],
                        !.parts = [i \in DOMAIN @ |-> [@[i] EXCEPT !.part_blk.low_cyl = op(@) + (IF old > new THEN 1 ELSE 0),
                                                      !.part_blk.high_cyl = op(@),
                                                      !.part_blk.blk_per_trk = new]]]
    IN  [rd |-> r1, w |-> WriteRdb(r1) \o FlattenSeq([i \in DOMAIN r1.parts |-> WritePart(r1, i)])]

\* Express the same blocks in cylinders of another size, the RDSK block first.
remap(r, heads, secs) ==
    LET new == heads * secs  old == r.rdb.heads * r.rdb.secs
        op(x) == IF old > new THEN x * (old \div new) ELSE x \div (new \div old)
        r1 == [r EXCEPT !.rdb = [@ EXCEPT !.heads = heads, !.secs = secs, !.cyls = op(@), !.lo_cyl = op(@),
                                          !.hi_cyl = op(@), !.cyl_blks = new],
                        !.parts = [i \in DOMAIN @ |-> [@[i] EXCEPT !.part_blk.low_cyl = op(@),
                                                      !.part_blk.high_cyl = op(@),
                                                      !.part_blk.blk_per_trk = new]]]
    IN  [rd |-> r1, w |-> WriteRdb(r1) \o FlattenSeq([i \in DOMAIN r1.parts |-> WritePart(r1, i)])]

-----------------------------------------------------------------------------
(* The session: FSCommandQueue *)
RDiskInit ==
    /\ disk = [b \in RdbBlocks |-> Blank]
    /\ img = 0 /\ dev = "none" /\ rd = Closed /\ cut = {} /\ edits = 0

\* The command wrote s.w and goes on with s.rd, or was cut off after k writes.
Commit(cmd, s) ==
    \E k \in 0 .. Len(s.w) :
        /\ disk' = FoldLeft(LAMBDA d, w : [d EXCEPT ![w[1]] = w[2]], disk, SubSeq(s.w, 1, k))
        /\ IF k = Len(s.w)
           THEN rd' = s.rd /\ cut' = cut /\ dev' = (IF s.rd = Closed THEN "none" ELSE dev)
           ELSE rd' = Closed /\ cut' = cut \cup {cmd} /\ dev' = "none"
        /\ edits' = edits + 1
        /\ UNCHANGED img

CreateCommand ==
    /\ dev = "none"
    /\ \E c \in ImgCyls : img' = c * Heads * Secs
    /\ disk' = [b \in RdbBlocks |-> Blank] /\ dev' = "rw" /\ cut' = {}
    /\ UNCHANGED <<rd, edits>>

ResizeCommand ==
    /\ dev = "none" /\ img > 0
    /\ \E c \in ImgCyls : img' = c * Heads * Secs
    /\ dev' = "rw"
    /\ UNCHANGED <<disk, rd, cut, edits>>

OpenCommand ==
    /\ dev = "none" /\ img > 0
    /\ dev' \in {"rw", "ro"}
    /\ UNCHANGED <<disk, img, rd, cut, edits>>

\* _open_rdisk(), before the first command that needs the RDisk.
OpenRDisk ==
    /\ dev # "none" /\ rd = Closed
    /\ Readable(disk)
    /\ rd' = open(disk)
    /\ UNCHANGED <<disk, img, dev, cut, edits>>

\* The end of the command list, or an error: everything is closed.
Close ==
    /\ dev # "none"
    /\ dev' = "none" /\ rd' = Closed
    /\ UNCHANGED <<disk, img, cut, edits>>

InitCommand ==
    /\ dev = "rw"
    /\ \E c \in RdbCyls :
          LET rdb == RDBlock(img \div (Heads * Secs), c) IN
          /\ disk' = [disk EXCEPT ![0] = rdb]
          /\ rd' = [rdb |-> rdb, parts |-> <<>>, fs |-> <<>>, used_blks |-> <<0>>, max_blks |-> rdb.rdb_blk_hi + 1]
    /\ cut' = {}
    /\ UNCHANGED <<img, dev, edits>>

Editing == dev = "rw" /\ rd # Closed /\ edits < MaxEdits

\* start=/end=, start=/size=, size= alone, or the first free range.
CylRanges(r) ==
    {<<lo, hi>> \in (0 .. r.rdb.cyls) \X (0 .. r.rdb.cyls) : lo <= hi}
    \cup {<<start, start + n - 1>> : <<start, n>> \in
            {<<find_free_cyl_range_start(r, n), n>> : n \in 1 .. r.rdb.cyls} \ ({NoBlk} \X Nat)}
    \cup (IF get_free_cyl_ranges(r) = <<>> THEN {} ELSE {get_free_cyl_ranges(r)[1]})

AddCommand ==
    /\ Editing
    /\ \E range \in CylRanges(rd), spb \in SecPerBlk \cap 1 .. 16 :
          /\ check_cyl_range(rd, range[1], range[2]) /\ has_free_rdb_blocks(rd, 1)
          /\ Commit("add", add_partition([rd |-> rd, w |-> <<>>], range, spb))

\* A partition for an image file: its size in cylinders comes from the file, and a
\* free range that starts at 0 counts as none.
AddImageCommand ==
    /\ Editing
    /\ \E n \in 1 .. rd.rdb.cyls, spb \in SecPerBlk \cap 1 .. 16 :
          LET start == find_free_cyl_range_start(rd, n) IN
          /\ start > 0
          /\ check_cyl_range(rd, start, start + n - 1) /\ has_free_rdb_blocks(rd, 1)
          /\ Commit("add", add_partition([rd |-> rd, w |-> <<>>], <<start, start + n - 1>>, spb))

\* One partition per free range; without a free block the rest stays undone and the
\* session ends.
FillCommand ==
    /\ Editing /\ get_free_cyl_ranges(rd) # <<>>
    /\ \E spb \in SecPerBlk \cap 1 .. 16 :
          LET ranges == get_free_cyl_ranges(rd)
              room == rd.max_blks - Len(rd.used_blks)
              done == SubSeq(ranges, 1, Min({room, Len(ranges)}))
              s == FoldLeft(LAMBDA st, range : add_partition(st, range, spb), [rd |-> rd, w |-> <<>>], done)
          IN  /\ done # <<>>
              /\ Commit("fill", IF room < Len(ranges) THEN [s EXCEPT !.rd = Closed] ELSE s)

ChangeCommand ==
    /\ Editing
    /\ \E i \in DOMAIN rd.parts, spb \in SecPerBlk \cap 1 .. 16 :
          Commit("change", change_partition(rd, i, spb))

DeleteCommand ==
    /\ Editing
    /\ \E i \in DOMAIN rd.parts : Commit("delete", delete_partition(rd, i))

FSAddCommand ==
    /\ Editing
    /\ \E n \in LoadSegs :
          has_free_rdb_blocks(rd, n + 1) /\ Commit("fsadd", add_filesystem(rd, n))

FSDeleteCommand ==
    /\ Editing
    /\ \E i \in DOMAIN rd.fs :
          i - 1 \in DeleteFids /\ Commit("fsdelete", delete_filesystem(rd, i))

\* adjust with lo=/hi=/phys, or "auto", which takes the size of the image.
AdjustCommand ==
    /\ Editing
    /\ \E a \in AdjustArgs \cup {[lo |-> 0, hi |-> img \div (rd.rdb.heads * rd.rdb.secs) - 1, phys |-> TRUE]} :
          LET lo == IF a.lo = 0 THEN rd.rdb.lo_cyl ELSE a.lo
              hi == IF a.hi = 0 THEN rd.rdb.hi_cyl ELSE a.hi
          IN  CanResize(rd, lo, hi, a.phys) /\ Commit("adjust", resize(rd, lo, hi))

RemapCommand ==
    /\ Editing
    /\ \E g \in RemapArgs :
          /\ g # <<rd.rdb.heads, rd.rdb.secs>> /\ CanRemap(rd, g[1] * g[2])
          /\ Commit("remap", remap(rd, g[1], g[2]))

RDiskNext ==
    \/ CreateCommand \/ ResizeCommand \/ OpenCommand \/ OpenRDisk \/ Close \/ InitCommand
    \/ AddCommand \/ AddImageCommand \/ FillCommand \/ ChangeCommand \/ DeleteCommand
    \/ FSAddCommand \/ FSDeleteCommand \/ AdjustCommand \/ RemapCommand

-----------------------------------------------------------------------------
(* What PartBlockDevice.open() makes of a PART block: the blocks of the    *)
(* image that belong to the partition, in whole file system blocks.        *)
PartBlockDevice(pb) ==
    LET lo == pb.surfaces * pb.blk_per_trk * pb.low_cyl
        num_blocks == (pb.high_cyl - pb.low_cyl + 1) * pb.surfaces * (pb.blk_per_trk \div pb.sec_per_blk)
    IN  [lo |-> lo, hi |-> lo + num_blocks * pb.sec_per_blk - 1]

Listed(d) == Range(Front(PartChain(d)))

\* While a session lasts, another open() of the image would find what the RDisk object
\* has in memory: the same partitions and file systems in the same order, and the same
\* blocks in use, each once.
RdbReopenMatches ==
    rd # Closed =>
        /\ Readable(disk)
        /\ LET o == open(disk) IN
           /\ o.rdb = rd.rdb /\ o.parts = rd.parts /\ o.fs = rd.fs /\ o.max_blks = rd.max_blks
           /\ Range(o.used_blks) = Range(rd.used_blks) /\ Len(o.used_blks) = Len(rd.used_blks)
           /\ IsInjective(rd.used_blks)

\* Wherever a command was cut off, the image can be read again: all chains end, no
\* block is in two of them or in one twice, and all of them lie in the RDB area.
RdbCrashSafe ==
    disk[0].t = "RDSK" =>
        /\ Readable(disk)
        /\ LET used == open(disk).used_blks
           IN  IsInjective(used) /\ \A b \in Range(used) : b <= disk[0].rdb_blk_hi

\* Partitions keep apart: no cylinder is in two of them, and all lie in the logical
\* cylinders.  So no block of the image is in two of them or in one and the RDB area,
\* for partitions whose cylinders are as large as the disk's: a remap keeps the
\* surfaces of a PART block (RDisk.py:459-465), so one of several surfaces is no such
\* partition after it.  And only while the logical cylinders begin behind the RDB area,
\* which adjust does not check.  A remap that was cut off breaks all of this, as it
\* rewrites the RDSK block first.
PartitionsApart ==
    disk[0].t = "RDSK" /\ "remap" \notin cut =>
        LET Whole(b) == disk[b].surfaces * disk[b].blk_per_trk = disk[0].cyl_blks IN
        \A b \in Listed(disk) : LET x == PartBlockDevice(disk[b]) IN
            /\ disk[0].lo_cyl <= disk[b].low_cyl /\ disk[b].high_cyl <= disk[0].hi_cyl
            /\ Whole(b) /\ disk[0].lo_cyl * disk[0].cyl_blks > disk[0].rdb_blk_hi => x.lo > disk[0].rdb_blk_hi
            /\ \A c \in Listed(disk) \ {b} : LET y == PartBlockDevice(disk[c]) IN
                  /\ disk[b].high_cyl < disk[c].low_cyl \/ disk[c].high_cyl < disk[b].low_cyl
                  /\ Whole(b) /\ Whole(c) => x.hi < y.lo \/ y.hi < x.lo

\* The RDSK block tells the highest block in use, from which a host knows how much of
\* the area it must keep, unless a command was cut off between linking and counting.
HighBlockCovers ==
    rd # Closed /\ cut = {} => disk[0].high_rdsk_blk = Max(Range(rd.used_blks))

\* The free ranges that add and fill work with are exactly the cylinders of no
\* partition, in ascending order, and each of them can be given to add_partition().
FreeRangesExact ==
    rd # Closed /\ "remap" \notin cut =>
        LET free == get_free_cyl_ranges(rd) IN
        /\ UNION {free[i][1] .. free[i][2] : i \in DOMAIN free}
             = (rd.rdb.lo_cyl .. rd.rdb.hi_cyl)
                 \ UNION {get_cyl_range(rd.parts[i])[1] .. get_cyl_range(rd.parts[i])[2] : i \in DOMAIN rd.parts}
        /\ \A i \in DOMAIN free : check_cyl_range(rd, free[i][1], free[i][2])

\* Where the first and the last cylinder of a partition begin.
Place(pb) ==
    LET cyl == pb.surfaces * pb.blk_per_trk IN <<cyl * pb.low_cyl, cyl * pb.high_cyl>>

\* No command but a remap moves a partition that is listed before and after it or gives
\* it another size in cylinders, so its file system stays where it was.  A remap leaves
\* its first and its last cylinder where they began, so that the partition ends earlier
\* with smaller cylinders and later with larger ones, but only if it has one surface and
\* the larger cylinder is a multiple of the smaller one.
PartitionsStay ==
    [][ disk' # disk /\ disk[0].t = "RDSK" /\ disk'[0].t = "RDSK" /\ "remap" \notin cut' =>
            LET old == disk[0].cyl_blks  new == disk'[0].cyl_blks IN
            \A b \in Listed(disk) \cap Listed(disk') :
                old = new \/ (disk[b].surfaces = 1 /\ (old % new = 0 \/ new % old = 0))
                    => Place(disk'[b]) = Place(disk[b]) ]_rdb_vars

\* The blocks on the disk can be opened after a cut between any two writes, are what the
\* disk object in memory says after a whole session, and give partitions apart (RDisk).
RdbSound ==
    /\ RdbReopenMatches /\ RdbCrashSafe /\ PartitionsApart /\ HighBlockCovers /\ FreeRangesExact
=============================================================================
