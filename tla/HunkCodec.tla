----------------------------- MODULE HunkCodec -----------------------------
(***************************************************************************)
(* The blocks of hunk files as streams of 16 bit words, and the two        *)
(* readers of this repository: the block classes of HunkBlockFile, which   *)
(* raise on a short read and can write themselves, and the parse methods   *)
(* of HunkReader, which return an error.  One block is written or comes    *)
(* from a linker, loses some of its end on the way, and is read.           *)
(*                                                                         *)
(* A character of a name stands for a word: two of them fill a long and    *)
(* names are padded with 0.  Memory flags in sizes are left out.           *)
(***************************************************************************)
EXTENDS Integers, Sequences, SequencesExt

CONSTANTS
  CodecBlocks,   \* the blocks that are written
  MaxLost        \* bound: the words that are lost at the end

VARIABLES
  blk,        \* the block
  stream,     \* its words, without the block id
  lost,       \* words lost at the end
  by,         \* who reads: "none", "blockfile", "reader"
  got         \* the result: [ok, v, s] with the rest s of the stream

codec_vars == <<blk, stream, lost, by, got>>

-----------------------------------------------------------------------------
(* Writing: _write_long(), _write_word(), _write_name(). *)

Long(v) == <<v \div 65536, v % 65536>>
Longs(vs) == FlattenSeq([i \in DOMAIN vs |-> Long(vs[i])])

\* The name, padded to a long, after the number of its longs and the tag.
NameWords(name) == name \o (IF Len(name) % 2 = 1 THEN <<0>> ELSE <<>>)
write_name(name, tag) ==
  <<tag * 256, Len(NameWords(name)) \div 2>> \o NameWords(name)

WriteHeader(b) ==
  FlattenSeq([i \in DOMAIN b.names |-> write_name(b.names[i], 0)]) \o Long(0)
    \o Longs(<<b.table_size, b.first, b.last>>) \o Longs(b.table)

WriteSegment(b) == Long(b.size) \o b.data

WriteRelocLong(b) ==
  FlattenSeq([i \in DOMAIN b.relocs |->
               Longs(<<Len(b.relocs[i][2]), b.relocs[i][1]>>) \o Longs(b.relocs[i][2])])
    \o Long(0)

\* Mutant: a block of an odd number of words is not padded.
WriteRelocWordUnpadded(b) ==
  FlattenSeq([i \in DOMAIN b.relocs |->
               <<Len(b.relocs[i][2]), b.relocs[i][1]>> \o b.relocs[i][2]]) \o <<0>>

\* Relocations in words, padded to a long.
WriteRelocWord(b) ==
  LET words == FlattenSeq([i \in DOMAIN b.relocs |->
                            <<Len(b.relocs[i][2]), b.relocs[i][1]>> \o b.relocs[i][2]]) \o <<0>>
  IN  words \o (IF Len(words) % 2 = 1 THEN <<0>> ELSE <<>>)

WriteDebug(b) == Long(Len(b.data) \div 2) \o b.data

WriteSymbol(b) ==
  FlattenSeq([i \in DOMAIN b.symbols |->
               write_name(b.symbols[i][1], 0) \o Long(b.symbols[i][2])]) \o Long(0)

\* The types of HUNK_EXT entries that matter here.
EXT_DEF == 1
EXT_ABSREF32 == 129
EXT_ABSCOMMON == 130
EXT_RELCOMMON == 137

\* An entry has one value, or the offsets of its references.
WriteExtEntry(e) ==
  write_name(e.name, e.type)
    \o (IF e.type \in {EXT_DEF, EXT_ABSCOMMON} THEN Long(e.vals[1])
        ELSE Long(Len(e.vals)) \o Longs(e.vals))
WriteExt(b) == FlattenSeq([i \in DOMAIN b.entries |-> WriteExtEntry(b.entries[i])]) \o Long(0)

IndexHunk(h) == <<h.name, h.longs, h.ctype, Len(h.refs)>> \o h.refs
                  \o <<Len(h.defs)>> \o FlattenSeq(h.defs)
IndexUnit(u) == <<u.name, u.first, Len(u.hunks)>>
                  \o FlattenSeq([i \in DOMAIN u.hunks |-> IndexHunk(u.hunks[i])])

\* HUNK_INDEX with the size of the string table in bytes.
WriteIndex(b) ==
  LET words == <<2 * Len(b.strtab)>> \o b.strtab
                 \o FlattenSeq([i \in DOMAIN b.units |-> IndexUnit(b.units[i])])
      all == words \o (IF Len(words) % 2 = 1 THEN <<0>> ELSE <<>>)
  IN  Long(Len(all) \div 2) \o all

\* What is in the file, written here or by a linker.  HunkBlockFile itself can
\* write no BSS block, which has no data, and no INDEX block, the size of which
\* it computes as a fraction.
WriteBlock(b) ==
  CASE b.id = "HEADER" -> WriteHeader(b)
    [] b.id \in {"CODE", "BSS"} -> WriteSegment(b)
    [] b.id = "ABSRELOC32" -> WriteRelocLong(b)
    [] b.id = "RELOC32SHORT" -> WriteRelocWord(b)
    [] b.id = "DEBUG" -> WriteDebug(b)
    [] b.id = "SYMBOL" -> WriteSymbol(b)
    [] b.id = "EXT" -> WriteExt(b)
    [] b.id = "INDEX" -> WriteIndex(b)
    [] b.id \in {"UNIT", "NAME"} -> write_name(b.name, 0)
    [] b.id = "END" -> <<>>

-----------------------------------------------------------------------------
(* Reading. *)

Got(v, s) == [ok |-> TRUE, v |-> v, s |-> s]
Short == [ok |-> FALSE, v |-> 0, s |-> <<>>]

Rest(s, n) == SubSeq(s, n + 1, Len(s))
\* TLC counts to 2^31: the top bit of a long, which no size or offset has, is
\* left out.
LongAt(s, i) == (s[2 * i - 1] % 32768) * 65536 + s[2 * i]

read_word(s) == IF Len(s) < 1 THEN Short ELSE Got(s[1], Tail(s))
read_long(s) == IF Len(s) < 2 THEN Short ELSE Got(LongAt(s, 1), Rest(s, 2))

\* n longs or words in a row.
ReadLongs(s, n) ==
  IF Len(s) < 2 * n THEN Short ELSE Got([i \in 1..n |-> LongAt(s, i)], Rest(s, 2 * n))
ReadWords(s, n) == IF Len(s) < n THEN Short ELSE Got(SubSeq(s, 1, n), Rest(s, n))

\* f.read() of raw data gives what is there.
ReadData(s, n) == Got(SubSeq(s, 1, IF n < Len(s) THEN n ELSE Len(s)), Rest(s, n))

\* read_name_size(): the characters before the first 0; none ends a list.
read_name_size(s, longs) ==
  LET r == ReadWords(s, 2 * longs)
      zeros == {i \in DOMAIN r.v : r.v[i] = 0}
  IN  IF ~r.ok THEN Short
      ELSE Got(SubSeq(r.v, 1, IF zeros = {} THEN Len(r.v) ELSE Min(zeros) - 1), r.s)

read_name(s) ==
  LET n == read_long(s)
  IN  IF ~n.ok THEN Short ELSE read_name_size(n.s, n.v % 65536)

\* Read names until an empty one.
RECURSIVE ReadNames(_, _)
ReadNames(s, names) ==
  LET r == read_name(s)
  IN  IF ~r.ok THEN Short
      ELSE IF r.v = <<>> THEN Got(names, r.s) ELSE ReadNames(r.s, Append(names, r.v))

ParseHeader(s) ==
  LET n == ReadNames(s, <<>>)
      h == ReadLongs(n.s, 3)
      t == ReadLongs(h.s, h.v[3] - h.v[2] + 1)
  IN  IF ~n.ok THEN Short ELSE IF ~h.ok THEN Short ELSE IF ~t.ok THEN Short
      ELSE Got([id |-> "HEADER", names |-> n.v, table_size |-> h.v[1],
                first |-> h.v[2], last |-> h.v[3], table |-> t.v], t.s)

ParseSegment(id, s) ==
  LET n == read_long(s)
      d == ReadData(n.s, 2 * n.v)
  IN  IF ~n.ok THEN Short
      ELSE IF id = "BSS" THEN Got([id |-> id, size |-> n.v, data |-> <<>>], n.s)
      ELSE Got([id |-> id, size |-> n.v, data |-> d.v], d.s)

\* The loop of both long relocation parsers: number, hunk, offsets, up to 0.
RECURSIVE RelocLongs(_, _)
RelocLongs(s, relocs) ==
  LET n == read_long(s)
      h == read_long(n.s)
      o == ReadLongs(h.s, n.v)
  IN  IF ~n.ok THEN Short
      ELSE IF n.v = 0 THEN Got(relocs, n.s)
      ELSE IF ~h.ok THEN Short ELSE IF ~o.ok THEN Short
      ELSE RelocLongs(o.s, Append(relocs, <<h.v, o.v>>))

RECURSIVE RelocWords(_, _)
RelocWords(s, relocs) ==
  LET n == read_word(s)
      h == read_word(n.s)
      o == ReadWords(h.s, n.v)
  IN  IF ~n.ok THEN Short
      ELSE IF n.v = 0 THEN Got(relocs, n.s)
      ELSE IF ~h.ok THEN Short ELSE IF ~o.ok THEN Short
      ELSE RelocWords(o.s, Append(relocs, <<h.v, o.v>>))

\* HunkBlockFile counts one word for each number and two and more for each
\* entry, and reads the padding, which must be there.
ParseRelocWord(s) ==
  LET r == RelocWords(s, <<>>)
      odd == (Len(s) - Len(r.s)) % 2 = 1
  IN  IF ~r.ok \/ (odd /\ r.s = <<>>) THEN Short
      ELSE Got(r.v, IF odd THEN Tail(r.s) ELSE r.s)

\* HunkReader tolerates the end of file in the padding.
parse_reloc_short(s) ==
  LET r == RelocWords(s, <<>>)
      odd == (Len(s) - Len(r.s)) % 2 = 1
  IN  IF ~r.ok THEN Short
      ELSE Got(r.v, IF odd /\ r.s # <<>> THEN Tail(r.s) ELSE r.s)

\* HunkReader keeps the offsets by hunk number: a second entry for the same
\* hunk replaces the first.
LastOfHunk(relocs) ==
  LET last == SelectSeq([i \in DOMAIN relocs |-> i],
                        LAMBDA i : \A j \in DOMAIN relocs : relocs[j][1] = relocs[i][1] => j <= i)
  IN  [k \in DOMAIN last |-> relocs[last[k]]]

RECURSIVE ReadSymbols(_, _)
ReadSymbols(s, syms) ==
  LET n == read_name(s)
      v == read_long(n.s)
  IN  IF ~n.ok THEN Short
      ELSE IF n.v = <<>> THEN Got(syms, n.s)
      ELSE IF ~v.ok THEN Short ELSE ReadSymbols(v.s, Append(syms, <<n.v, v.v>>))

\* HunkBlockFile reads entries up to a 0 tag, HunkReader up to one without a name,
\* whatever its type.  For HunkReader two types are common entries, which have one
\* value, and a reference without offsets has one.
RECURSIVE ReadExt(_, _, _)
ReadExt(s, entries, reader) ==
  LET t == ReadWords(s, 2)
      type == t.v[1] \div 256
      n == read_name_size(t.s, t.v[2])
      common == IF reader THEN {EXT_ABSCOMMON, EXT_RELCOMMON} ELSE {EXT_ABSCOMMON}
      c == IF type \in common \cup {EXT_DEF} THEN Got(1, n.s) ELSE read_long(n.s)
      o == ReadLongs(c.s, IF c.v = 0 /\ reader THEN 1 ELSE c.v)
  IN  IF ~t.ok THEN Short ELSE IF ~n.ok THEN Short
      ELSE IF t.v = <<0, 0>> \/ (reader /\ n.v = <<>>) THEN Got(entries, n.s)
      ELSE IF ~c.ok THEN Short ELSE IF ~o.ok THEN Short
      ELSE ReadExt(o.s, Append(entries, [name |-> n.v, type |-> type, vals |-> o.v]), reader)

\* The hunk entries of an index unit.
RECURSIVE ReadIndexHunks(_, _, _)
ReadIndexHunks(s, n, hunks) ==
  LET h == ReadWords(s, 4)
      r == ReadWords(h.s, h.v[4])
      c == read_word(r.s)
      d == ReadWords(c.s, 3 * c.v)
  IN  IF n = 0 THEN Got(hunks, s)
      ELSE IF ~h.ok THEN Short ELSE IF ~r.ok THEN Short
      ELSE IF ~c.ok THEN Short ELSE IF ~d.ok THEN Short
      ELSE ReadIndexHunks(d.s, n - 1,
             Append(hunks, [name |-> h.v[1], longs |-> h.v[2], ctype |-> h.v[3],
                            refs |-> r.v,
                            defs |-> [i \in 1..c.v |-> SubSeq(d.v, 3 * i - 2, 3 * i)]]))

\* Units while more than a padding word is left of the size; left counts words.
RECURSIVE ReadUnits(_, _, _)
ReadUnits(s, left, units) ==
  LET u == ReadWords(s, 3)
      h == ReadIndexHunks(u.s, u.v[3], <<>>)
  IN  IF left <= 1 THEN Got([units |-> units, left |-> left], s)
      ELSE IF ~u.ok THEN Short ELSE IF ~h.ok THEN Short
      ELSE ReadUnits(h.s, left - (Len(s) - Len(h.s)),
                     Append(units, [name |-> u.v[1], first |-> u.v[2], hunks |-> h.v]))

ParseIndex(s) ==
  LET n == read_long(s)
      z == read_word(n.s)
      t == ReadData(z.s, z.v \div 2)
      u == ReadUnits(t.s, 2 * n.v - z.v \div 2 - 1, <<>>)
  IN  IF ~n.ok THEN Short ELSE IF ~z.ok THEN Short ELSE IF ~u.ok THEN Short
      ELSE IF u.v.left = 1 /\ u.s = <<>> THEN Short
      ELSE Got([id |-> "INDEX", strtab |-> t.v, units |-> u.v.units],
               IF u.v.left = 1 THEN Tail(u.s) ELSE u.s)

\* Wrap the field that a parser returns into the block.
As(r, b) == IF r.ok THEN Got(b, r.s) ELSE Short

\* The unit and name blocks do not look at the result of _read_name(): a name
\* that is cut short is None.
NoName == <<0>>
ParseName(s) ==
  LET n == read_long(s)
      r == read_name(s)
  IN  IF n.ok /\ ~r.ok THEN Got(NoName, <<>>) ELSE r

\* HunkBlockFile: parse() of the block classes.
ParseBlock(id, s) ==
  CASE id = "HEADER" -> ParseHeader(s)
    [] id \in {"CODE", "BSS"} -> ParseSegment(id, s)
    [] id = "ABSRELOC32" -> LET r == RelocLongs(s, <<>>) IN As(r, [id |-> id, relocs |-> r.v])
    [] id = "RELOC32SHORT" -> LET r == ParseRelocWord(s) IN As(r, [id |-> id, relocs |-> r.v])
    [] id = "DEBUG" -> LET r == ParseSegment(id, s) IN As(r, [id |-> id, data |-> r.v.data])
    [] id = "SYMBOL" -> LET r == ReadSymbols(s, <<>>) IN As(r, [id |-> id, symbols |-> r.v])
    [] id = "EXT" ->
         LET r == ReadExt(s, <<>>, FALSE) IN As(r, [id |-> id, entries |-> r.v])
    [] id = "INDEX" -> ParseIndex(s)
    [] id \in {"UNIT", "NAME"} -> LET r == ParseName(s) IN As(r, [id |-> id, name |-> r.v])
    [] id = "END" -> Got([id |-> id], s)

\* HunkReader takes the offset and the tag of every HUNK_DEBUG off its size and asks
\* for the rest: with less than two longs that is a negative number, which read()
\* refuses with a ValueError.
parse_debug(s) ==
  LET n == read_long(s)
      d == ReadData(n.s, 2 * n.v)
  IN  IF n.ok /\ n.v >= 2 THEN Got([id |-> "DEBUG", data |-> d.v], d.s) ELSE Short

\* HunkReader: the parse methods read what the block classes read, except
\* that they index relocations by hunk, have their own rules for the entries of
\* HUNK_EXT, and take part of the debug data for a header.
parse_header(s) == ParseHeader(s)
parse_code_or_data(s) == ParseSegment("CODE", s)
parse_bss(s) == ParseSegment("BSS", s)
parse_reloc(s) ==
  LET r == RelocLongs(s, <<>>) IN As(r, [id |-> "ABSRELOC32", relocs |-> LastOfHunk(r.v)])
parse_symbol(s) == LET r == ReadSymbols(s, <<>>) IN As(r, [id |-> "SYMBOL", symbols |-> r.v])
parse_index(s) == ParseIndex(s)
parse_ext(s) ==
  LET r == ReadExt(s, <<>>, TRUE)
  IN  As(r, [id |-> "EXT", entries |-> r.v])
parse_unit_or_name(id, s) == LET r == read_name(s) IN As(r, [id |-> id, name |-> r.v])

\* read_file_obj() on the block id.
ParseHunk(id, s) ==
  CASE id = "HEADER" -> parse_header(s)
    [] id = "CODE" -> parse_code_or_data(s)
    [] id = "BSS" -> parse_bss(s)
    [] id = "ABSRELOC32" -> parse_reloc(s)
    [] id = "RELOC32SHORT" ->
         LET r == parse_reloc_short(s) IN As(r, [id |-> id, relocs |-> LastOfHunk(r.v)])
    [] id = "SYMBOL" -> parse_symbol(s)
    [] id = "DEBUG" -> parse_debug(s)
    [] id = "END" -> Got([id |-> id], s)
    [] id = "INDEX" -> parse_index(s)
    [] id = "EXT" -> parse_ext(s)
    [] id \in {"UNIT", "NAME"} -> parse_unit_or_name(id, s)

-----------------------------------------------------------------------------

NoBlock == [id |-> "END"]

CodecInit ==
  blk = NoBlock /\ lost = 0 /\ stream = <<>> /\ by = "none" /\ got = Short

\* The id of the block that follows, when nothing got lost.
After == Long(1010)

\* The block is in the file, up to the words that got lost.
Write ==
  /\ by = "none" /\ stream = <<>>
  /\ \E b \in CodecBlocks : \E n \in 0..MaxLost :
       LET all == WriteBlock(b)
       IN  /\ blk' = b /\ lost' = n
           /\ n = 0 \/ Len(all) > n
           /\ stream' = IF n = 0 THEN all \o After ELSE SubSeq(all, 1, Len(all) - n)
  /\ UNCHANGED <<by, got>>

\* HunkReader does not look at the end of file inside an index, whose words
\* are -1 then: this case is left out.
Read ==
  /\ by = "none" /\ stream # <<>>
  /\ \/ by' = "blockfile" /\ got' = ParseBlock(blk.id, stream)
     \/ /\ blk.id = "INDEX" => lost = 0
        /\ by' = "reader" /\ got' = ParseHunk(blk.id, stream)
  /\ UNCHANGED <<blk, stream, lost>>

CodecNext == Write \/ Read

\* Blocks that both readers should understand in the same way: the offsets of
\* a hunk are in one entry, every entry of HUNK_EXT has a name and is no RELCOMMON one
\* and no reference without offsets, and debug data has its offset and tag.
Plain(b) ==
  /\ b.id \in {"ABSRELOC32", "RELOC32SHORT"} =>
       \A i, j \in DOMAIN b.relocs : b.relocs[i][1] = b.relocs[j][1] => i = j
  /\ b.id = "EXT" =>
       \A i \in DOMAIN b.entries :
         b.entries[i].name # <<>> /\ b.entries[i].type # EXT_RELCOMMON /\ b.entries[i].vals # <<>>
  /\ b.id = "DEBUG" => Len(b.data) >= 4

\* A whole block is read back as it was written, to its last word: names of
\* any length, padding and nested tables of all kinds.
CodecRoundTrip ==
  by = "blockfile" /\ lost = 0 => got = Got(blk, After)

\* HunkReader reads every plain block the way HunkBlockFile does: programs
\* that vamos loads are the ones hunktool shows.
ReadersAgree ==
  by = "reader" /\ lost = 0 /\ Plain(blk) => got = ParseBlock(blk.id, stream)

\* A block that lost words at its end is refused by both, unless only its raw
\* data, HunkReader's padding, HunkBlockFile's name of a unit or the string
\* table of an index without units is cut short, or HunkReader took an entry of
\* HUNK_EXT for the end: one without a name, or what it reads as one after a RELCOMMON
\* entry or a reference without offsets.
TruncationSeen ==
  by # "none" /\ lost > 0 /\ got.ok =>
    \/ blk.id \in {"CODE", "DEBUG"} /\ Len(got.v.data) = Len(blk.data) - lost
    \/ blk.id \in {"UNIT", "NAME"} /\ by = "blockfile" /\ got.v.name = NoName
    \/ blk.id = "RELOC32SHORT" /\ by = "reader" /\ lost = 1 /\ got.v.relocs = LastOfHunk(blk.relocs)
    \/ blk.id = "INDEX" /\ blk.units = <<>>
    \/ blk.id = "EXT" /\ by = "reader" /\ ~Plain(blk)

\* What was written is read back by both readers, and neither reads a block whose end is
\* missing (HunkBlockFile, HunkReader).
BlocksReadBack == CodecRoundTrip /\ ReadersAgree /\ TruncationSeen
=============================================================================
