----------------------------- MODULE MCBinaries -----------------------------
(***************************************************************************)
(* Hunk blocks, hunk files, the segment loader and ROM images: a behaviour *)
(* is one of one of the four, the others stay as they were set up.         *)
(***************************************************************************)
EXTENDS HunkCodec, HunkFiles, SegLoader, RomTools

VARIABLE stage

\* Blocks with names of one to three characters, HUNK_EXT entries without one, one or
\* two entries, and
\* tables of an odd and an even number of words.
Names == {<<5>>, <<5, 6>>, <<5, 6, 7>>}
Offsets == {<<4>>, <<4, 8>>, <<4, 8, 12>>}
Seq2(S) == {<<>>} \cup {<<x>> : x \in S} \cup S \X S
Relocs == Seq2({<<h, o>> : h \in 0..1, o \in Offsets})
Entries == [name : Names \cup {<<>>}, type : {EXT_DEF, EXT_ABSCOMMON}, vals : {<<3>>}]
   \cup [name : {<<5>>}, type : {EXT_ABSREF32, EXT_RELCOMMON}, vals : {<<>>, <<3>>, <<3, 9>>}]
IndexHunks == [name : {2}, longs : {7}, ctype : {1}, refs : {<<>>, <<2>>}, defs : {<<>>, <<<<1, 2, 3>>>>}]
IndexUnits == [name : {0}, first : {1}, hunks : Seq2(IndexHunks) \ {<<>>}]
Counted(n) == [i \in 1..n |-> i]

Blocks ==
  {[id |-> "HEADER", names |-> ns, table_size |-> n, first |-> 0, last |-> n - 1, table |-> Counted(n)] :
     n \in 1..3, ns \in {<<>>} \cup {<<x>> : x \in Names}}
  \cup {[id |-> "CODE", size |-> n, data |-> Counted(2 * n)] : n \in 0..2}
  \cup {[id |-> "BSS", size |-> n, data |-> <<>>] : n \in 0..2}
  \cup {[id |-> i, relocs |-> r] : i \in {"ABSRELOC32", "RELOC32SHORT"}, r \in Relocs}
  \cup {[id |-> "DEBUG", data |-> Counted(2 * n)] : n \in 0..3}
  \cup {[id |-> "SYMBOL", symbols |-> y] : y \in Seq2(Names \X {0, 4})}
  \cup {[id |-> "EXT", entries |-> e] : e \in Seq2(Entries)}
  \cup {[id |-> "INDEX", strtab |-> t, units |-> u] :
          t \in {<<5, 0>>, <<5, 6, 0>>}, u \in Seq2(IndexUnits)}
  \cup {[id |-> i, name |-> x] : i \in {"UNIT", "NAME"}, x \in Names}
  \cup {NoBlock}

Alphabet ==
  [HEADER |-> {"CODE", "RELOC", "SYMBOL", "DEBUG", "NAME", "END", "OVERLAY", "BREAK", "HEADER", "JUNK"},
   UNIT |-> {"UNIT", "NAME", "CODE", "EXT", "END", "JUNK"},
   LIB |-> {"CODE", "EXT", "END"}]
Bound == [HEADER |-> 5, UNIT |-> 5, LIB |-> 8]

\* Programs of one to three segments that refer to themselves and each other.
Segment(n, d, r) == [size |-> n, data |-> d, relocs |-> r]
Images ==
  {<<Segment(2, <<0, 1>>, {<<1, 1, "ABS">>})>>,
   <<Segment(2, <<1, 0>>, {<<1, 2, "ABS">>, <<2, 2, "PC32">>}), Segment(1, <<>>, {})>>,
   <<Segment(1, <<0>>, {<<1, 2, "ABS">>}), Segment(2, <<1, 5>>, {<<1, 1, "ABS">>}), Segment(0, <<>>, {})>>,
   <<Segment(2, <<1, 0>>, {}), Segment(1, <<0>>, {<<1, 1, "PC32">>})>>}

\* Module files for a ROM: the start of a Kickstart, a resident, a match word that
\* is none, exec's table in both variants, a console name, data of a long, an odd
\* and an even size, and BlizKick modules.
File(t, d, r) == [type |-> t, data |-> d, relocs |-> r]
Addrs == [e0 |-> 3584, e8 |-> 3712, f0 |-> 3840, f8 |-> 3968, top |-> 4096, big |-> 5120]
Table == <<0, 15, 8, 0, 1, 0, 0, 0, 0, 15, 0, 0, 0, 15, 8, 0, 15, 15, 15, 15>>
Files ==
  [k512 |-> File("image", <<1, 4, 14, 9, 0, 0, 0, 2, 0, 0, 0, 0, 0, 0, 0, 0>>, {4}),
   k256 |-> File("image", <<1, 1, 14, 9, 0, 0, 0, 2, 0, 0, 0, 0, 0, 0, 0, 0, 8, 8, 8, 8>>, {4}),
   res |-> File("image", <<4, 15, 0, 0, 0, 0, 0, 0, 1, 12, 0, 1, 9, 0, 0, 0, 1, 10, 0, 0, 0, 0, 0, 0, 0, 4, 7, 0>>, {2, 6, 14, 22}),
   tabA |-> File("image", <<0, 15, 8, 0, 1, 0, 0, 0>> \o Table, {}),
   tabB |-> File("raw", <<0, 0>> \o Table \o <<0, 0>>, {}),
   con |-> File("raw", <<4, 15, 0, 1, 3, 15, 14, 10, 7, 0, 0, 0>>, {}),
   big |-> File("raw", [i \in 1..60 |-> 7], {}),
   odd |-> File("raw", <<1, 2, 3, 4, 5, 6>>, {}),
   blizm |-> File("bkmodule", <<0, 0>>, {}), blizp |-> File("bkpatch", <<0, 0>>, {})]
Options ==
  {[kick |-> TRUE, kib |-> 12, kickety |-> FALSE, footer |-> FALSE, rev |-> <<>>],
   [kick |-> TRUE, kib |-> 24, kickety |-> FALSE, footer |-> FALSE, rev |-> <<45, 10>>],
   [kick |-> TRUE, kib |-> 24, kickety |-> TRUE, footer |-> FALSE, rev |-> <<>>],
   [kick |-> FALSE, kib |-> 12, kickety |-> FALSE, footer |-> FALSE, rev |-> <<45, 10>>],
   [kick |-> FALSE, kib |-> 24, kickety |-> FALSE, footer |-> TRUE, rev |-> <<45, 10>>],
   [kick |-> FALSE, kib |-> 24, kickety |-> TRUE, footer |-> FALSE, rev |-> <<45, 10>>]}
MatchWord_ == <<4, 15>>
Con_ == <<3, 15, 14, 10>>
Patch(name, con) == [name |-> name, con |-> con]
Patches ==
  {<<Patch("1mb_rom", <<>>)>>, <<Patch("4mb_rom", <<>>)>>,
   <<Patch("boot_con", <<3, 9>>), Patch("1mb_rom", <<>>)>>, <<Patch("boot_con", <<1, 2, 3, 4, 5, 6>>)>>}

BinVars == <<stage, codec_vars, hf_vars, seg_vars, rom_vars>>

BinInit ==
  /\ stage \in {"block", "file", "loader", "rom"} /\ CodecInit /\ HunkFilesInit /\ SegInit /\ RomInit
  /\ stage # "rom" => rom_b = CHOOSE b \in {NewRomBuilder(o) : o \in RomOptions} : TRUE

BinNext ==
  /\ UNCHANGED stage
  /\ \/ stage = "block" /\ CodecNext /\ UNCHANGED <<hf_vars, seg_vars, rom_vars>>
     \/ stage = "file" /\ HunkFilesNext /\ UNCHANGED <<codec_vars, seg_vars, rom_vars>>
     \/ stage = "loader" /\ SegNext /\ UNCHANGED <<codec_vars, hf_vars, rom_vars>>
     \/ stage = "rom" /\ RomNext /\ UNCHANGED <<codec_vars, hf_vars, seg_vars>>

BinSpec == BinInit /\ [][BinNext]_BinVars
=============================================================================
