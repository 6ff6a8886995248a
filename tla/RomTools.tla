------------------------------ MODULE RomTools ------------------------------
(***************************************************************************)
(* romtool: a ROM is built of module files, scanned for residents, patched *)
(* and split into modules again.  A ROM image is a sequence of bytes; the  *)
(* sizes and the base of a byte are scaled down, layouts and offsets of    *)
(* the headers, the footer and a resident are those of the code.           *)
(***************************************************************************)
EXTENDS Integers, Sequences, SequencesExt, FiniteSets

CONSTANTS
  ByteBase,     \* values of a byte
  Kib,          \* bytes of a KiB
  SmallKib,     \* KiB of a small Kickstart, 256
  SegSize,      \* 64 KiB, the mask of guess_base_addr()
  TableEnd,     \* where the search for exec's table ends, 0x430
  KickAddr, ExtAddr, FillByte,
  HDR_256K, HDR_512K, TableAddrs,   \* longs: the headers, 0xF80000 and so on
  MatchWord, Con,                   \* bytes: RTC_MATCHWORD and "CON:"
  RomFiles,     \* name -> [type, data, relocs]
  RomOptions,   \* what a builder may be called with
  RomPatches,   \* lists of patches
  MaxFiles      \* bound: files of a ROM

ASSUME RomAssumption ==
  /\ Kib % 4 = 0 /\ KickAddr % SegSize = 0 /\ ExtAddr % SegSize = 0
  /\ \A f \in DOMAIN RomFiles : \A o \in RomFiles[f].relocs : o + 4 <= Len(RomFiles[f].data)

VARIABLES rom_b, rom_places, rom_result, rom_data, rom_patched, rom_again
rom_vars == <<rom_b, rom_places, rom_result, rom_data, rom_patched, rom_again>>

-----------------------------------------------------------------------------
(* RomAccess. *)
LongMax == ByteBase ^ 4 - 1
rom_word(d, o) == d[o + 1] * ByteBase + d[o + 2]
rom_long(d, o) == rom_word(d, o) * ByteBase ^ 2 + rom_word(d, o + 2)
WordBytes(v) == <<v \div ByteBase, v % ByteBase>>
LongBytes(v) == WordBytes(v \div ByteBase ^ 2) \o WordBytes(v % ByteBase ^ 2)
\* d[o : o + n] = s, which makes d longer when s is.
SliceTo(d, o, n, s) == SubSeq(d, 1, o) \o s \o SubSeq(d, o + n + 1, Len(d))
Put(d, o, s) == SliceTo(d, o, Len(s), s)
write_long(d, o, v) == Put(d, o, LongBytes(v))
Find(d, s, from) ==
  LET at == {o \in from..(Len(d) - Len(s)) : SubSeq(d, o + 1, o + Len(s)) = s}
  IN  IF at = {} THEN -1 ELSE Min(at)
kib(d) == Len(d) \div Kib

(* KickRomAccess. *)
EXT_HEADER_SIZE == 16
FOOTER_SIZE == 24
ROMHDR_SIZE == 8
FooterWord(i) == ByteBase + 8 + i      \* 0x18, 0x19 ... 0x1f
check_size(d) == Len(d) % Kib = 0 /\ kib(d) \in {SmallKib, 2 * SmallKib}
check_header(d) ==
  LET val == rom_long(d, 0)
  IN  CASE kib(d) = 2 * SmallKib -> val = HDR_512K
        [] kib(d) = SmallKib -> val \in {HDR_256K, HDR_512K}
        [] kib(d) \in {6 * SmallKib, 14 * SmallKib} -> val = HDR_512K
        [] OTHER -> FALSE
check_footer(d) == \A i \in 1..7 : rom_word(d, Len(d) - 16 + 2 * i) = FooterWord(i)
check_rom_size_field(d) == rom_long(d, Len(d) - 20) = Len(d)
\* The carry out of a long is added to it again.
AddLong(a, b) == IF a + b > LongMax THEN ((a + b) % (LongMax + 1)) + 1 ELSE a + b
calc_check_sum(d, skip_off) ==
  LET longs == [i \in 1..(Len(d) \div 4) |-> IF 4 * (i - 1) = skip_off THEN 0 ELSE rom_long(d, 4 * (i - 1))]
  IN  LongMax - FoldLeft(AddLong, 0, longs)
verify_check_sum(d) == calc_check_sum(d, -1) = 0
write_check_sum(d) == write_long(d, Len(d) - 24, calc_check_sum(d, Len(d) - 24))
is_kick_rom(d) ==
  check_size(d) /\ check_header(d) /\ check_footer(d) /\ check_rom_size_field(d) /\ verify_check_sum(d)
write_header(d, jump) ==
  Put(d, 0, LongBytes(IF kib(d) = SmallKib THEN HDR_256K ELSE HDR_512K) \o LongBytes(jump))
write_ext_header(d, jump, rev) ==
  Put(write_header(d, jump), 8, WordBytes(0) \o WordBytes(ByteBase ^ 2 - 1) \o WordBytes(rev[1]) \o WordBytes(rev[2]))
write_footer(d) == Put(d, Len(d) - 16, FlattenSeq([i \in 1..8 |-> WordBytes(FooterWord(i - 1))]))
write_rom_size_field(d) == write_long(d, Len(d) - 20, Len(d))
write_ext_footer(d) == write_check_sum(write_rom_size_field(write_footer(d)))
write_rom_ver_rev(d, rev) == Put(d, 12, WordBytes(rev[1]) \o WordBytes(rev[2]))

-----------------------------------------------------------------------------
(* The entries of a builder. *)
entry_size(e) == CASE e.type = "hdr" -> e.skip + ROMHDR_SIZE [] e.type = "pad" -> e.skip [] OTHER -> Len(e.data)
\* Raw data is never relocated: do_build_cmd() gives no relocations.
Relocated(e, addr) ==
  IF e.type = "raw" THEN e.data
  ELSE [i \in DOMAIN e.data |->
          LET o == {p \in e.relocs : i \in (p + 1)..(p + 4)}
          IN  IF o = {} THEN e.data[i]
              ELSE LongBytes(rom_long(e.data, Min(o)) + addr)[i - Min(o)]]
\* The filler of a header is b"\x0ff", two bytes for one.
get_data(e, addr) ==
  IF e.type = "hdr"
  THEN [i \in 1..(2 * e.skip) |-> IF i % 2 = 1 THEN 15 ELSE 6] \o LongBytes(HDR_256K) \o LongBytes(e.jmp_addr)
  ELSE Relocated(e, addr)

\* RomBuilder, KickRomBuilder and ExtRomBuilder; left_bytes is what the footer,
\* the header and the header in the middle leave.
NewRomBuilder(o) ==
  LET kickety == o.kick /\ o.kickety /\ o.kib = 2 * SmallKib
      footer == o.kick \/ o.footer
  IN  [opts |-> o, size_bytes |-> o.kib * Kib, base_addr |-> IF o.kick THEN KickAddr ELSE ExtAddr,
       kickety_split |-> kickety, modules |-> <<>>, data_off |-> 0,
       rom_off |-> IF o.kick THEN 0 ELSE EXT_HEADER_SIZE,
       left_bytes |-> o.kib * Kib - (IF footer THEN FOOTER_SIZE ELSE 0)
                      - (IF kickety THEN ROMHDR_SIZE ELSE 0) - (IF o.kick THEN 0 ELSE EXT_HEADER_SIZE)]
split_offset == SmallKib * Kib
get_rom_offset(b) == b.rom_off + b.data_off
\* Mutant: a module may take the place of the footer.
does_fit_Footer(b, n) == n <= b.left_bytes + FOOTER_SIZE
does_fit(b, n) == n <= b.left_bytes
add_entry(b, e) ==
  [b EXCEPT !.modules = Append(@, e), !.data_off = @ + entry_size(e), !.left_bytes = @ - entry_size(e)]
cross_kickety_split(b, n) ==
  b.kickety_split /\ b.data_off < split_offset /\ b.data_off + n > split_offset
\* add_kickety_split(): romtool does not look whether it fits.
WithSplit(b) ==
  LET e == [type |-> "hdr", skip |-> split_offset - b.data_off, jmp_addr |-> b.base_addr + 2]
  IN  IF does_fit(b, entry_size(e)) THEN add_entry(b, e) ELSE b

\* RomBuilder.build_rom(): every entry over the slice it was given, the rest
\* filled.  The text of a padding entry cannot be put into the image.
Placed(b) ==
  LET step(st, e) ==
        [data |-> SliceTo(st.data, st.off, entry_size(e), get_data(e, b.base_addr + st.off)), off |-> st.off + entry_size(e)]
      st == FoldLeft(step, [data |-> [i \in 1..b.size_bytes |-> 0], off |-> b.rom_off], b.modules)
      n == b.size_bytes - st.off
  IN  SliceTo(st.data, st.off, n, [i \in 1..n |-> FillByte])
Unbuildable(b) == \E i \in DOMAIN b.modules : b.modules[i].type = "pad" /\ b.modules[i].skip > 0

-----------------------------------------------------------------------------
RomInit ==
  /\ rom_b \in {NewRomBuilder(o) : o \in RomOptions} /\ rom_places = <<>> /\ rom_result = "adding"
  /\ rom_data = <<>> /\ rom_patched = <<>> /\ rom_again = <<>>

\* The loop of do_build_cmd() for one file.  fix_module() takes ord() of a number;
\* -k asks a builder of ext ROMs for what only KickRomBuilder has; a padding
\* entry has no name to tell when it does not fit.
padding(f) == (4 - (Len(RomFiles[f].data) % 4)) % 4
RomFails(why) == rom_result' = why /\ UNCHANGED <<rom_b, rom_places, rom_data, rom_patched, rom_again>>
add_file(f) ==
  LET file == RomFiles[f]
      n == Len(file.data)
      crosses == rom_b.opts.kickety /\ cross_kickety_split(rom_b, n + padding(f))
      b == IF crosses THEN WithSplit(rom_b) ELSE rom_b
      b1 == add_entry(b, file)
      pad == [type |-> "pad", skip |-> padding(f)]
  IN  /\ rom_result = "adding" /\ Len(rom_places) < MaxFiles
      /\ CASE file.type = "bkmodule" -> RomFails("raised")
           [] file.type = "bkpatch" -> RomFails("patch")
           [] file.type \notin {"bkmodule", "bkpatch"} /\ rom_b.opts.kickety /\ ~rom_b.opts.kick -> RomFails("raised")
           [] OTHER ->
              /\ rom_b' = IF ~does_fit(b, n) THEN b
                          ELSE IF padding(f) # 0 /\ does_fit(b1, padding(f)) THEN add_entry(b1, pad) ELSE b1
              /\ rom_result' = IF ~does_fit(b, n) THEN "full"
                               ELSE IF padding(f) # 0 /\ ~does_fit(b1, padding(f)) THEN "raised" ELSE "adding"
              /\ rom_places' = IF does_fit(b, n) THEN Append(rom_places, [off |-> get_rom_offset(b), file |-> f])
                               ELSE Append(rom_places, [off |-> -1, file |-> f])
              /\ UNCHANGED <<rom_data, rom_patched, rom_again>>

\* The build_rom() of the two builders.
build_rom ==
  LET d == Placed(rom_b)
      o == rom_b.opts
      ext == write_ext_header(d, KickAddr + 2, o.rev)
  IN  /\ rom_result = "adding" /\ rom_places # <<>>
      /\ IF Unbuildable(rom_b) THEN RomFails("raised")
         ELSE IF o.kick /\ ~check_header(d) THEN RomFails("no header")
         ELSE /\ rom_result' = "built"
              /\ rom_data' = IF o.kick THEN write_ext_footer(IF o.rev = <<>> THEN d ELSE write_rom_ver_rev(d, o.rev))
                             ELSE IF o.footer THEN write_ext_footer(ext) ELSE ext
              /\ UNCHANGED <<rom_b, rom_places, rom_patched, rom_again>>

-----------------------------------------------------------------------------
(* Patches. *)
IsExecTable(d, o) ==
  /\ rom_long(d, o) = TableAddrs.f8 /\ rom_long(d, o + 4) = TableAddrs.top /\ rom_long(d, o + 8) = TableAddrs.f0
  /\ rom_long(d, o + 12) = TableAddrs.f8 /\ rom_long(d, o + 16) = LongMax
FindTable(d) ==
  LET at == {o \in 4..((TableEnd - 1) \div 2) : 2 * o >= 8 /\ 2 * o + 20 <= Len(d) /\ IsExecTable(d, 2 * o)}
  IN  IF at = {} THEN -1 ELSE 2 * Min(at)
\* OneMegRomPatch and FourMegRomPatch: the range of the ext ROM, in the variant
\* with two entries for 0xF80000 in the place of the second one.
TablePatch(d, o, from, to) ==
  IF rom_long(d, o - 8) = TableAddrs.f8
  THEN write_long(write_long(write_long(d, o - 4, TableAddrs.top), o, from), o + 4, to)
  ELSE write_long(write_long(write_long(d, o, TableAddrs.f0), o + 8, from), o + 12, to)
\* BootConRomPatch: the name of the console, padded to the length of the old one.
ConPatch(d, name) ==
  LET off == Find(d, Con, 0)
      pos == IF off = -1 THEN -1 ELSE Find(d, <<0>>, off)
  IN  IF pos = -1 \/ Len(name) > pos - off THEN <<>>
      ELSE SliceTo(d, off, pos + 1 - off, name \o [i \in 1..(pos - off - Len(name) + 1) |-> 0])
\* <<>> when the patch does not apply.
apply_patch(d, p) ==
  IF p.name = "boot_con" THEN ConPatch(d, p.con)
  ELSE LET o == FindTable(d)
       IN  CASE o = -1 -> <<>>
             [] o # -1 /\ p.name = "1mb_rom" -> TablePatch(d, o, TableAddrs.e0, TableAddrs.e8)
             [] OTHER -> TablePatch(d, o, TableAddrs.top, TableAddrs.big)
\* do_patch_cmd(): all patches or none; the sum of a Kickstart is written again.
do_patch_cmd(ps) ==
  LET step(d, p) == IF d = <<>> THEN <<>> ELSE apply_patch(d, p)
      d == FoldLeft(step, rom_data, ps)
  IN  /\ rom_result = "built" /\ rom_patched = <<>> /\ rom_again = <<>> /\ d # <<>>
      /\ rom_patched' = IF is_kick_rom(rom_data) THEN write_check_sum(d) ELSE d
      /\ UNCHANGED <<rom_b, rom_places, rom_result, rom_data, rom_again>>

-----------------------------------------------------------------------------
(* Split data: the catalog describes the modules of the ROM that was built. *)
\* RomSplitter.extract_bin_img(): a relocated long below the module is refused.
clean_relocs(d, relocs, base) ==
  [i \in DOMAIN d |->
     LET o == {p \in relocs : i \in (p + 1)..(p + 4)}
     IN  IF o = {} THEN d[i] ELSE LongBytes(rom_long(d, Min(o)) - base)[i - Min(o)]]
extract(d, p, base) ==
  LET f == RomFiles[p.file]
  IN  [f EXCEPT !.data = IF f.type = "raw" THEN SubSeq(d, p.off + 1, p.off + Len(@))
                         ELSE clean_relocs(SubSeq(d, p.off + 1, p.off + Len(@)), f.relocs, base + p.off)]
\* do_split_cmd() and do_build_cmd() of all modules with the same options.
split_and_build ==
  LET add(b, e) ==
        LET b1 == IF b.opts.kickety /\ cross_kickety_split(b, Len(e.data)) THEN WithSplit(b) ELSE b
        IN  add_entry(b1, e)
      b == FoldLeft(add, NewRomBuilder(rom_b.opts), [i \in DOMAIN rom_places |-> extract(rom_data, rom_places[i], rom_b.base_addr)])
      d == Placed(b)
      ext == write_ext_header(d, KickAddr + 2, b.opts.rev)
  IN  /\ rom_result = "built" /\ rom_patched = <<>> /\ rom_again = <<>>
      /\ rom_again' = IF b.opts.kick THEN write_ext_footer(d) ELSE IF b.opts.footer THEN write_ext_footer(ext) ELSE ext
      /\ UNCHANGED <<rom_b, rom_places, rom_result, rom_data, rom_patched>>
\* do_copy_cmd() with -c after a byte was changed by hand.
CopyFixed(o, v) ==
  /\ rom_result = "built" /\ rom_patched = <<>> /\ rom_again = <<>> /\ is_kick_rom(rom_data)
  /\ rom_patched' = write_check_sum(Put(rom_data, o, <<v>>))
  /\ UNCHANGED <<rom_b, rom_places, rom_result, rom_data, rom_again>>

RomNext ==
  \/ \E f \in DOMAIN RomFiles : add_file(f)
  \/ build_rom \/ split_and_build
  \/ \E ps \in RomPatches : do_patch_cmd(ps)
  \/ CopyFixed(8, 1)

-----------------------------------------------------------------------------
(* ResidentScan. *)
\* A match word and its tag at the end of the image would be cut off.
get_all_matchwords(d) == {o \in 0..(Len(d) - 6) : <<d[o + 1], d[o + 2]>> = MatchWord}
get_all_resident_pos(d, base) == {o \in get_all_matchwords(d) : rom_long(d, o + 2) = base + o}
\* The bases that residents in the first 64 KiB name; one is an answer.
guess_base_addr(d) ==
  {rom_long(d, o + 2) - (rom_long(d, o + 2) % SegSize) :
     o \in {x \in get_all_matchwords(d) : rom_long(d, x + 2) % SegSize = x}}
\* Resident.parse(): where the name and the code begin, and the end of the skip.
parse(d, o, base) ==
  [skip_off |-> rom_long(d, o + 6) - base, name_off |-> rom_long(d, o + 14) - base,
   init_off |-> rom_long(d, o + 22) - base]

-----------------------------------------------------------------------------
(* What holds. *)
Fresh == rom_result = "built" /\ rom_patched = <<>> /\ rom_again = <<>>
HdrSkip == {rom_b.modules[i].skip : i \in {j \in DOMAIN rom_b.modules : rom_b.modules[j].type = "hdr"}}
Clean == HdrSkip = {}
ChangedByRev(i) == rom_b.opts.kick /\ rom_b.opts.rev # <<>> /\ i \in 13..16

\* A Kickstart that build_rom() returns passes every check of detect_kick_rom(),
\* unless -k put a header in its middle: there is always filler before that one,
\* twice as long as it should be, so the image grows and is no Kickstart.
KickAccepted ==
  Fresh /\ rom_b.opts.kick => (is_kick_rom(rom_data) <=> HdrSkip = {})
\* Every module is, relocated for that address, at the offset that romtool printed
\* when it added it, whatever headers, filler and footer were put around it.
ModulesThere ==
  Fresh =>
    \A p \in ToSet(rom_places) :
      LET want == Relocated(RomFiles[p.file], rom_b.base_addr + p.off)
      IN  \A i \in DOMAIN want : rom_data[p.off + i] = want[i] \/ ChangedByRev(p.off + i)
\* A file is refused only when it does not fit; the header in the middle is
\* charged twice, which wastes its size.
RefusedOnlyWhenFull ==
  rom_result = "full" =>
    Len(RomFiles[Last(rom_places).file].data) + get_rom_offset(rom_b)
      + (IF rom_b.opts.kick \/ rom_b.opts.footer THEN FOOTER_SIZE ELSE 0)
      + (IF rom_b.kickety_split THEN ROMHDR_SIZE ELSE 0) > rom_b.size_bytes
\* No module lies across the middle of a Kickstart made with -k, so that the
\* smaller half can be used alone.
NothingAcross ==
  rom_b.kickety_split =>
    \A p \in ToSet(rom_places) :
      p.off >= 0 /\ p.off < split_offset => p.off + Len(RomFiles[p.file].data) <= split_offset
\* Every resident of a module is found in the built ROM, and only those; its name,
\* its code and its end are inside of the module; the base address is guessed
\* right when one of them is in the first 64 KiB.
Residents(p) ==
  LET f == RomFiles[p.file]
  IN  {p.off + o : o \in {x \in get_all_matchwords(f.data) : x + 2 \in f.relocs /\ rom_long(f.data, x + 2) = x}}
ResidentsFound ==
  Fresh /\ Clean =>
    LET all == UNION {Residents(p) : p \in ToSet(rom_places)}
    IN  /\ get_all_resident_pos(rom_data, rom_b.base_addr) = all
        /\ (\E o \in all : o < SegSize) => guess_base_addr(rom_data) = {rom_b.base_addr}
        /\ \A p \in ToSet(rom_places) : \A o \in Residents(p) :
             LET r == parse(rom_data, o, rom_b.base_addr)
             IN  {r.skip_off, r.name_off, r.init_off} \subseteq p.off..(p.off + Len(RomFiles[p.file].data))
\* A patch keeps the size and what makes a ROM a Kickstart, and exec scans all that
\* it scanned before; the entry for the ext ROM may stand in front of it.
Ranges(d, o) ==
  LET n == Min({i \in 0..((Len(d) - o) \div 4 - 1) : rom_long(d, o + 4 * i) = LongMax})
  IN  UNION {{a \in 0..(TableAddrs.big \div SegSize) : rom_long(d, o + 8 * i) <= SegSize * a /\ SegSize * a < rom_long(d, o + 8 * i + 4)} :
             i \in 0..(n \div 2 - 1)}
PatchedRomBoots ==
  rom_patched # <<>> =>
    /\ Len(rom_patched) = Len(rom_data) /\ (is_kick_rom(rom_data) => is_kick_rom(rom_patched))
    /\ LET o == FindTable(rom_data)
           from == IF o # -1 /\ rom_long(rom_data, o - 8) = TableAddrs.f8 THEN o - 8 ELSE o
       IN  o # -1 => Ranges(rom_data, from) \subseteq Ranges(rom_patched, from)
\* A ROM split into its modules and built of them again is the same ROM.
SplitRebuilds == rom_again # <<>> /\ Clean => rom_again = rom_data

\* A ROM that is built is accepted, has all of its modules where nothing overwrites them,
\* and survives scan, patch and split (RomBuilder, KickRomAccess, RomPatcher).
RomsRight ==
    /\ KickAccepted /\ ModulesThere /\ RefusedOnlyWhenFull /\ NothingAcross /\ ResidentsFound
    /\ PatchedRomBoots /\ SplitRebuilds
=============================================================================
