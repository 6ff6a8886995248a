------------------------------- MODULE MCDisk -------------------------------
(***************************************************************************)
(* The disk tools rdbtool, xdftool and xdfscan, each on images of its own. *)
(* A behaviour is one of one tool, the others stay as they were set up.    *)
(***************************************************************************)
EXTENDS RDisk, XdfTool, Validator

VARIABLE tool

Adjusts == {[lo |-> 1, hi |-> 0, phys |-> FALSE], [lo |-> 2, hi |-> 0, phys |-> FALSE],
            [lo |-> 0, hi |-> 3, phys |-> TRUE]}
Remaps == {<<1, 2>>, <<1, 5>>, <<2, 1>>, <<2, 2>>}

\* Root 5 with the chain 2 (a directory with file 3), 6 (a file with the data
\* 8 and, through its extension block 7, 9); bitmap block 4, block 10 free.
HealthyBlocks(ffs) ==
  [b \in 0..10 |->
     CASE b = 5 -> BlockInfo("root", 0, 0, 0, <<2, 0>>, <<>>, 0)
       [] b = 2 -> BlockInfo("dir", 5, 1, 6, <<0, 3>>, <<>>, 0)
       [] b = 3 -> BlockInfo("file", 2, 2, 0, <<>>, <<>>, 0)
       [] b = 6 -> [BlockInfo("file", 5, 1, 0, <<>>, <<8>>, 7) EXCEPT !.size = 2]
       [] b = 7 -> BlockInfo("list", 6, 0, 0, <<>>, <<9>>, 0)
       [] b \in {8, 9} -> IF ffs THEN RawInfo ELSE DataInfo(6, b - 7)
       [] OTHER -> RawInfo]

\* The last one is empty, and block 10 is the directory cache of its root block.
HealthyVolumes ==
  LET Volume(blocks, free, ffs, side) ==
        [blocks |-> blocks, free |-> free, bmptrs |-> <<4, 0>>, bm |-> 4, ffs |-> ffs,
         boot |-> 5, side |-> side]
      Empty == [b \in 0..10 |-> IF b = 5 THEN BlockInfo("root", 0, 0, 0, <<0, 0>>, <<>>, 0) ELSE RawInfo]
  IN  {Volume(HealthyBlocks(ffs), {10}, ffs, {}) : ffs \in BOOLEAN}
      \cup {Volume(Empty, {2, 3, 6, 7, 8, 9}, TRUE, {10})}

DiskVars == <<tool, rdb_vars, xdf_vars, val_vars>>

DiskInit ==
  /\ tool \in {"rdbtool", "xdftool", "xdfscan"}
  /\ RDiskInit /\ XdfInit /\ ValidatorInit
  /\ tool # "xdfscan" => vol.side # {}

DiskNext ==
  /\ UNCHANGED tool
  /\ \/ tool = "rdbtool" /\ RDiskNext /\ UNCHANGED <<xdf_vars, val_vars>>
     \/ tool = "xdftool" /\ XdfNext /\ UNCHANGED <<rdb_vars, val_vars>>
     \/ tool = "xdfscan" /\ ValidatorNext /\ UNCHANGED <<rdb_vars, xdf_vars>>

DiskSpec == DiskInit /\ [][DiskNext]_DiskVars
=============================================================================
