----------------------------- MODULE Validator -----------------------------
(***************************************************************************)
(* xdfscan and the volume validator (amitools/fs/validate): a damaged      *)
(* volume is scanned in five steps - boot block, root block, directory     *)
(* tree, files, bitmap - and every disagreement is logged.  The recursion  *)
(* of scan_dir() and build_chain() is the work list todo, in the order in  *)
(* which the recursion reaches the blocks; a block is in block_map, here   *)
(* the set read, as soon as it was read once.                              *)
(*                                                                         *)
(* A volume is a healthy one whose pointers were overwritten at most       *)
(* MaxDamage times.  Names are their hash values, sizes count blocks, and  *)
(* a bitmap long word has LongBits bits (32 in the code).  vol.side are    *)
(* the blocks of directory caches (DOS4, DOS5) and of comments (DOS6,      *)
(* DOS7), which no step follows a pointer to.                              *)
(***************************************************************************)
EXTENDS Integers, Sequences, SequencesExt, FiniteSets

CONSTANTS
  NumBlocks,   \* blkdev.num_blocks
  Reserved,    \* blkdev.reserved, the boot blocks
  LongBits,    \* the blocks of one bitmap long word
  Healthy,     \* healthy volumes: [blocks, free, bmptrs, bm, ffs, boot, side]
  MaxDamage    \* bound: the fields that are overwritten

ASSUME ValidatorAssumption ==
  /\ Reserved \in Nat /\ NumBlocks > Reserved
  /\ LongBits \in Nat \ {0} /\ MaxDamage \in Nat

VARIABLES
  vol,        \* the volume on the block device
  damage,     \* the number of fields overwritten
  vphase,     \* the step of scan_file() in xdfscan: boot, root, dir, file, ...
  todo,       \* chain entries to visit: <<dir, hash, block>>, in visiting order
  read,       \* the blocks in BlockScan.block_map
  files,      \* DirScan.files: the file headers found
  scan,       \* the file scan_file() is at: the next extension and the data
  bm_blocks,  \* BitmapScan.bm_blocks
  log         \* the errors logged: <<message, block>>

val_vars == <<vol, damage, vphase, todo, read, files, scan, bm_blocks, log>>

-----------------------------------------------------------------------------
(* The volume. *)

\* A block as BlockScan.read_block() classifies it; fields its type does not
\* have are 0 or empty.
BlockInfo(type, parent, name, next, ht, data, ext) ==
  [type |-> type, parent |-> parent, name |-> name, next |-> next, ht |-> ht,
   data |-> data, ext |-> ext, hdr |-> 0, seq |-> 0, size |-> Len(data)]

\* The data block number seq of the file at hdr, on an OFS volume.
DataInfo(hdr, seq) ==
  [BlockInfo("data", 0, 0, 0, <<>>, <<>>, 0) EXCEPT !.hdr = hdr, !.seq = seq]

\* Nothing AmigaDOS knows: free space, or the data of an FFS file.
RawInfo == BlockInfo("unknown", 0, 0, 0, <<>>, <<>>, 0)

InRange(b) == b >= 0 /\ b < NumBlocks

is_block_available(b) == InRange(b) /\ b \in read

\* The entries scan_dir() visits for the directory block d: one chain for
\* each hash value whose slot is used.
HashEntries(d) ==
  SelectSeq([h \in 1..Len(vol.blocks[d].ht) |-> <<d, h, vol.blocks[d].ht[h]>>],
            LAMBDA e : e[3] # 0)

GuessedRoot == NumBlocks \div 2

\* scan_root(): the root block the boot block names, unless that is 0 or
\* out of range.
RootBlk ==
  IF vol.boot = 0 \/ vol.boot < Reserved \/ vol.boot > NumBlocks
  THEN GuessedRoot ELSE vol.boot

NoScan == [hdr |-> 0, ext |-> 0, list |-> <<>>, seq |-> 0]

-----------------------------------------------------------------------------
(* Reading one block, and the errors of each place that follows a pointer. *)

\* An exception that is no IOError ends xdfscan: read_block() of a block
\* beyond the device raises ValueError, an unset result AttributeError.
Raise == /\ vphase' = "raised"
         /\ UNCHANGED <<todo, read, files, scan, bm_blocks, log>>

\* build_chain(): what is logged for block b in the chain of hash value h of
\* directory d.
EntryErrors(d, h, b) ==
  LET bi == vol.blocks[b]
  IN  IF is_block_available(b) THEN {<<"dir block already used", b>>}
      ELSE IF bi.type \notin {"dir", "file"} THEN {<<"invalid block", b>>}
      ELSE {e \in {<<"invalid parent", b>>, <<"invalid name hash", b>>} :
              \/ e[1] = "invalid parent" /\ bi.parent # d
              \/ e[1] = "invalid name hash" /\ bi.name # h}

\* Mutant: an entry that was seen before is reported but followed again.
FollowsAlways(b) == vol.blocks[b].type \in {"dir", "file"}

\* Are the sub directory and the next entry of this block visited?
Follows(b) == ~is_block_available(b) /\ vol.blocks[b].type \in {"dir", "file"}

\* build_chain(): visit one entry; the directory found is scanned before the
\* chain goes on.
build_chain ==
  /\ vphase = "dir" /\ todo # <<>>
  /\ LET d == Head(todo)[1]
         h == Head(todo)[2]
         b == Head(todo)[3]
     IN  IF ~InRange(b) THEN Raise
         ELSE /\ log' = log \cup EntryErrors(d, h, b)
              /\ read' = read \cup {b}
              /\ todo' = (IF Follows(b)
                          THEN HashEntries(b)
                               \o (IF vol.blocks[b].next # 0
                                   THEN <<<<d, h, vol.blocks[b].next>>>> ELSE <<>>)
                          ELSE <<>>) \o Tail(todo)
              /\ files' = IF Follows(b) /\ vol.blocks[b].type = "file"
                          THEN Append(files, b) ELSE files
              /\ UNCHANGED <<vphase, scan, bm_blocks>>
  /\ UNCHANGED <<vol, damage>>

-----------------------------------------------------------------------------
(* The steps of xdfscan's scan_file(). *)

scan_root ==
  /\ vphase = "root"
  /\ IF RootBlk = NumBlocks THEN Raise
     ELSE IF vol.blocks[RootBlk].type # "root"
     THEN /\ vphase' = "nofs"
          /\ UNCHANGED <<todo, read, files, scan, bm_blocks, log>>
     ELSE /\ vphase' = "dir" /\ read' = {RootBlk} /\ todo' = HashEntries(RootBlk)
          /\ UNCHANGED <<files, scan, bm_blocks, log>>
  /\ UNCHANGED <<vol, damage>>

\* The tree is scanned: take the next file.
NextFile ==
  /\ \/ vphase = "dir" /\ todo = <<>>
     \/ vphase = "file" /\ scan = NoScan
  /\ IF files = <<>>
     THEN vphase' = "bitmap" /\ UNCHANGED <<scan, files>>
     ELSE /\ vphase' = "ext"
          /\ scan' = [hdr |-> Head(files), ext |-> vol.blocks[Head(files)].ext,
                      list |-> vol.blocks[Head(files)].data, seq |-> 1]
          /\ files' = Tail(files)
  /\ UNCHANGED <<vol, damage, todo, read, bm_blocks, log>>

\* What is wrong with the extension block e of the file.
ExtErrors(e) ==
  IF is_block_available(e) THEN {"ext already used"}
  ELSE IF vol.blocks[e].type # "list" THEN {"no ext block"}
  ELSE IF vol.blocks[e].parent # scan.hdr THEN {"ext has invalid parent"} ELSE {}

\* FileScan.scan_file(): follow one extension pointer.  A pointer beyond the
\* device ends the list of blocks without a word.
ScanExt ==
  /\ vphase = "ext"
  /\ LET e == scan.ext
         errors == ExtErrors(e)
     IN  IF e = 0 \/ e >= NumBlocks
         THEN /\ vphase' = "data"
              /\ UNCHANGED <<read, scan, log>>
         ELSE /\ read' = read \cup {e}
              /\ log' = log \cup {<<m, e>> : m \in errors}
              /\ IF errors \subseteq {"ext has invalid parent"}
                 THEN /\ scan' = [scan EXCEPT !.ext = vol.blocks[e].ext,
                                              !.list = @ \o vol.blocks[e].data]
                      /\ UNCHANGED vphase
                 ELSE vphase' = "data" /\ UNCHANGED scan
  /\ UNCHANGED <<vol, damage, todo, files, bm_blocks>>

\* Mutant: data blocks are checked on OFS volumes only.
DataErrorsOFS(b) ==
  {e \in {"no data block", "wrong header", "seq num mismatch"} :
     /\ ~vol.ffs /\ InRange(b)
     /\ IF vol.blocks[b].type # "data" THEN e = "no data block"
        ELSE \/ e = "wrong header" /\ vol.blocks[b].hdr # scan.hdr
             \/ e = "seq num mismatch" /\ vol.blocks[b].seq # scan.seq}

\* What is wrong with data block number scan.seq, the block b.
DataErrors(b) ==
  {e \in {"data not found", "data already used", "no data block", "wrong header",
          "seq num mismatch"} :
     \/ e = "data not found" /\ ~InRange(b)
     \/ e = "data already used" /\ is_block_available(b)
     \/ /\ ~vol.ffs /\ InRange(b)
        /\ IF vol.blocks[b].type # "data" THEN e = "no data block"
           ELSE \/ e = "wrong header" /\ vol.blocks[b].hdr # scan.hdr
                \/ e = "seq num mismatch" /\ vol.blocks[b].seq # scan.seq}

\* scan_file(): check one data block, and the size after the last.  On OFS a
\* block that is not found is asked for its type and raises.
ScanData ==
  /\ vphase = "data"
  /\ IF scan.seq <= Len(scan.list)
     THEN LET b == scan.list[scan.seq]
          IN  IF ~vol.ffs /\ ~InRange(b) THEN Raise
              ELSE /\ log' = log \cup {<<m, b>> : m \in DataErrors(b)}
                   /\ read' = IF InRange(b) THEN read \cup {b} ELSE read
                   /\ scan' = [scan EXCEPT !.seq = @ + 1]
                   /\ UNCHANGED <<vphase, todo, files, bm_blocks>>
     ELSE /\ log' = IF vol.blocks[scan.hdr].size # Len(scan.list)
                    THEN log \cup {<<"wrong number of data blocks", scan.hdr>>} ELSE log
          /\ vphase' = "file" /\ scan' = NoScan
          /\ UNCHANGED <<todo, read, files, bm_blocks>>
  /\ UNCHANGED <<vol, damage>>

\* read_bm_list(): the bitmap blocks of the root block's list, up to its
\* first 0; a block that was read already is no bitmap block.
read_bm_list(ptrs, seen) ==
  LET end == IF \E i \in 1..Len(ptrs) : ptrs[i] = 0
             THEN CHOOSE i \in 1..Len(ptrs) :
                    ptrs[i] = 0 /\ \A j \in 1..(i-1) : ptrs[j] # 0
             ELSE Len(ptrs) + 1
      fresh(i) == ptrs[i] \notin seen /\ \A j \in 1..(i-1) : ptrs[j] # ptrs[i]
      new == SelectSeq([i \in 1..(end-1) |-> i], fresh)
  IN  [end |-> end,
       found |-> [k \in 1..Len(new) |-> ptrs[new[k]]],
       errors |-> {<<"bitmap block already used", ptrs[i]>> :
                     i \in {k \in 1..(end - 1) : ~fresh(k)}}
                  \cup {<<"beyond end of list", ptrs[i]>> :
                          i \in {k \in (end + 1)..Len(ptrs) : ptrs[k] # 0}}]

NumLongs == (NumBlocks - Reserved + LongBits - 1) \div LongBits

\* scan_bitmap(): last_mask has as many low bits as the last long word has
\* bits beyond the volume.
LastMaskBits == NumLongs * LongBits - (NumBlocks - Reserved)

\* The blocks whose bits check_bits() compares: all of the long words before
\* the last, and the bits of the last that last_mask lets through.
CheckedBlocks ==
  {b \in Reserved..(NumBlocks - 1) :
     \/ b - Reserved < (NumLongs - 1) * LongBits
     \/ b - Reserved - (NumLongs - 1) * LongBits < LastMaskBits}

\* The blocks whose bits are set in the block a bitmap pointer names: any
\* other block than the bitmap block is zero-filled here, or not valid.
Bits(b) == IF b = vol.bm THEN vol.free ELSE {}

\* check_bits(): a bit is set when its block was not read by the scan.
check_bits(bm, seen) ==
  IF \E b \in CheckedBlocks : (b \in Bits(bm)) # (b \notin seen)
  THEN {<<"invalid bitmap allocation", bm>>} ELSE {}

\* BitmapScan.scan_bitmap(), with the one bitmap block these volumes need.
\* A block that is not valid has no bitmap to compare and raises.
scan_bitmap ==
  /\ vphase = "bitmap"
  /\ LET list == read_bm_list(vol.bmptrs, read)
         seen == read \cup ToSet(list.found)
     IN  \/ /\ \/ \E i \in 1..(list.end - 1) : ~InRange(vol.bmptrs[i])
               \/ Len(list.found) = 1 /\ list.found[1] # vol.bm
            /\ Raise
         \/ /\ \A i \in 1..(list.end - 1) : InRange(vol.bmptrs[i])
            /\ bm_blocks' = list.found /\ read' = seen
            /\ log' = log \cup list.errors
                        \cup (IF Len(list.found) # 1
                              THEN {<<"invalid number of bitmap blocks", RootBlk>>}
                              ELSE check_bits(list.found[1], seen))
            /\ vphase' = "done"
            /\ UNCHANGED <<todo, files, scan>>
  /\ UNCHANGED <<vol, damage>>

-----------------------------------------------------------------------------
(* The volume loses one of its fields before it is scanned. *)

\* Block b with one of the pointers its type has overwritten with p.
Overwritten(b, p) ==
  LET bi == vol.blocks[b]
  IN  {x \in {[bi EXCEPT !.next = p]} : bi.type \in {"dir", "file"}}
      \cup {x \in {[bi EXCEPT !.parent = p]} : bi.type \in {"dir", "file", "list"}}
      \cup {x \in {[bi EXCEPT !.ext = p]} : bi.type \in {"file", "list"}}
      \cup {x \in {[bi EXCEPT !.hdr = p]} : bi.type = "data"}
      \cup {[bi EXCEPT !.ht[i] = p] : i \in 1..Len(bi.ht)}
      \cup {[bi EXCEPT !.data[i] = p] : i \in 1..Len(bi.data)}

Damage ==
  /\ vphase = "boot" /\ damage < MaxDamage
  /\ damage' = damage + 1
  /\ \/ \E b \in DOMAIN vol.blocks, p \in 0..NumBlocks :
          /\ vol.blocks[b].type # "unknown"
          /\ \E bi \in Overwritten(b, p) :
               bi # vol.blocks[b] /\ vol' = [vol EXCEPT !.blocks[b] = bi]
     \/ \E b \in Reserved..(NumBlocks - 1) :
          vol' = [vol EXCEPT !.free = (@ \cup {b}) \ (@ \cap {b})]
     \/ \E p \in 0..NumBlocks, i \in 1..Len(vol.bmptrs) :
          vol' = [vol EXCEPT !.bmptrs[i] = p]
     \/ \E p \in 0..NumBlocks : vol' = [vol EXCEPT !.boot = p]
  /\ UNCHANGED <<vphase, todo, read, files, scan, bm_blocks, log>>

\* scan_boot(): the dos type is valid, the scan begins.
scan_boot ==
  /\ vphase = "boot" /\ vphase' = "root"
  /\ UNCHANGED <<vol, damage, todo, read, files, scan, bm_blocks, log>>

ValidatorInit ==
  /\ vol \in Healthy /\ damage = 0
  /\ vphase = "boot" /\ todo = <<>> /\ read = {} /\ files = <<>>
  /\ scan = NoScan /\ bm_blocks = <<>> /\ log = {}

ValidatorNext ==
  \/ Damage \/ scan_boot \/ scan_root \/ build_chain \/ NextFile
  \/ ScanExt \/ ScanData \/ scan_bitmap

-----------------------------------------------------------------------------
(* Properties. *)

\* What the writers of this repository put on the disk raises no error, as long as it
\* has neither directory caches nor comment blocks.  The scan never reads those
\* (DirScan.py:119-138, BlockScan.py:164-176), so where the bitmap is compared they
\* raise its error, on a healthy volume too, and no other.
HealthyPasses ==
  vphase \in {"done", "nofs", "raised"} /\ damage = 0 =>
    /\ vphase = "done"
    /\ log = IF vol.side \cap CheckedBlocks = {} THEN {}
             ELSE {<<"invalid bitmap allocation", vol.bm>>}

\* The pointers of a block to blocks it owns: <<block, field, index, target>>.
OwnedBy(b) ==
  LET bi == vol.blocks[b]
  IN  {<<b, "ht", i, bi.ht[i]>> : i \in {k \in 1..Len(bi.ht) : bi.ht[k] # 0}}
      \cup {<<b, "data", i, bi.data[i]>> : i \in 1..Len(bi.data)}
      \cup {<<b, "next", 0, bi.next>> : i \in {k \in {0} : bi.next # 0}}
      \cup {<<b, "ext", 0, bi.ext>> :
              i \in {k \in {0} : bi.ext # 0 /\ bi.ext < NumBlocks}}

\* The pointers the blocks of set S have, and the closure of S under them.
Pointers(S) == UNION {OwnedBy(b) : b \in S \cap DOMAIN vol.blocks}
Grown(S) == S \cup {p[4] : p \in Pointers(S)}
RECURSIVE Closure(_)
Closure(S) == IF Grown(S) = S THEN S ELSE Closure(Grown(S))

\* When no error is logged the volume is a tree: every block that can be
\* reached from the root is owned by one pointer, the root by none, and the
\* bitmap block by the root block alone.
NoErrorMeansTree ==
  vphase = "done" /\ log = {} =>
    LET all == Closure({RootBlk})
        ptrs == Pointers(all)
    IN  /\ \A p, q \in ptrs : p[4] = q[4] => p = q
        /\ RootBlk \notin {p[4] : p \in ptrs}
        /\ ToSet(bm_blocks) \cap all = {}

\* When no error is logged the bitmap is right in all of its long words but the last,
\* for the tree and the bitmap itself: a block used there is not free, and no other one
\* is used.  So a block of a directory cache or a comment is marked free then.
NoErrorMeansBitmap ==
  vphase = "done" /\ log = {} =>
    \A b \in Reserved..(Reserved + (NumLongs - 1) * LongBits - 1) :
      (b \in Bits(bm_blocks[1])) = (b \notin Closure({RootBlk}) \cup ToSet(bm_blocks))

\* The scan ends on every volume, whatever loops its pointers make: a step
\* reads a block for the first time or leaves less to visit.
ScanProgress ==
  [][(vphase = "dir" /\ todo' # todo)
       => (Cardinality(read') > Cardinality(read) \/ Len(todo') < Len(todo))]_val_vars

\* The scan has no complaint about a sound volume but for caches and comments, and a
\* volume it does not complain of is a tree whose bitmap covers it (Validator).
ScanSound == HealthyPasses /\ NoErrorMeansTree /\ NoErrorMeansBitmap
=============================================================================
