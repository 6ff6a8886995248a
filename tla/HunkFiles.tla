----------------------------- MODULE HunkFiles -----------------------------
(***************************************************************************)
(* Hunk files as sequences of blocks.  A linker writes a load file, an     *)
(* object unit or a library block by block; HunkReader reads it (hunktool) *)
(* and groups the blocks into segments; HunkLoadSegFile does the same for  *)
(* the programs that vamos loads, and can create the blocks again.         *)
(*                                                                         *)
(* CODE stands for code, data and bss blocks, RELOC for the relocations of *)
(* load files, JUNK for a long that is no block id.                        *)
(***************************************************************************)
EXTENDS Integers, Sequences, SequencesExt

CONSTANTS
  HunkAlphabet,   \* the blocks a linker writes, by the first block of the file
  HunkBound,      \* bound: how many of them, by the first block of the file
  HeaderSizes     \* the sizes of the hunk table of a header

VARIABLES
  hf_blocks,   \* the blocks: [t, n, first] with the table size and first hunk of a header
  hf_units,    \* the units of HUNK_INDEX: [pos, num], by segment position
  hf_read,     \* what HunkReader made of it
  hf_lsf       \* what HunkLoadSegFile made of it

hf_vars == <<hf_blocks, hf_units, hf_read, hf_lsf>>

-----------------------------------------------------------------------------
(* Hunk.py: which blocks begin a segment and which may follow in it. *)

loadseg_valid_begin_hunks == {"CODE"}
loadseg_valid_extra_hunks == {"RELOC", "DEBUG", "SYMBOL", "NAME"}
unit_valid_main_hunks == {"CODE"}
unit_valid_extra_hunks == {"RELOC", "DEBUG", "SYMBOL", "NAME", "EXT"}

Failed(why) == [st |-> why, lists |-> <<>>, nums |-> <<>>]
Unread == Failed("none")

Indices(h) == [i \in DOMAIN h |-> i]
IsBegin(h, i) == h[i].t \in loadseg_valid_begin_hunks
AppendLast(ss, x) == [ss EXCEPT ![Len(ss)] = Append(@, x)]

-----------------------------------------------------------------------------
(* HunkReader. *)

\* read_file_obj(): garbage after an END or an OVERLAY ends the file, other
\* garbage is an error; an overlay needs its manager in a code hunk before it.
read_file_obj(h) ==
  LET junk == {i \in DOMAIN h : h[i].t = "JUNK"}
      last == IF junk = {} THEN Len(h) ELSE Min(junk) - 1
      hunks == SubSeq(h, 1, last)
      lone == {i \in DOMAIN hunks : hunks[i].t = "OVERLAY" /\ ~\E j \in 1..(i - 1) : IsBegin(hunks, j)}
  IN  [ok |-> lone = {} /\ (junk # {} => hunks[last].t \in {"END", "OVERLAY"}),
       hunks |-> hunks]

\* State of build_loadseg(): lists[1] are the segments, the others those of
\* overlays; att tells whether the variable segment is in the last list, header is
\* the number of the header block in use.
LoadStart == [st |-> "ok", in_header |-> TRUE, seek_begin |-> FALSE, overlay |-> FALSE,
              att |-> FALSE, header |-> 1, hunk_no |-> 0, lists |-> <<<<>>>>, nums |-> <<>>]

\* A segment begins; its size comes from the header in use, whose table may be
\* too short (IndexError).
BeginSegment(h, s, i) ==
  IF s.hunk_no >= h[s.header].n THEN [s EXCEPT !.st = "exception"]
  ELSE [s EXCEPT !.lists = AppendLast(@, <<i>>), !.nums = Append(@, <<i, s.hunk_no>>),
                 !.hunk_no = @ + 1, !.seek_begin = FALSE, !.att = TRUE]

AddToSegment(s, i) ==
  IF ~s.att THEN s
  ELSE [s EXCEPT !.lists[Len(s.lists)] = AppendLast(@, i)]

\* A header takes the place of the one before it, but not one of an overlay.
LoadHeader(h, s, i) ==
  CASE h[i].t = "HEADER" ->
         [s EXCEPT !.lists = IF s.overlay THEN Append(@, <<>>) ELSE @,
                   !.header = IF s.overlay THEN @ ELSE i,
                   !.att = FALSE, !.hunk_no = h[i].first]
    [] h[i].t = "DEBUG" -> AddToSegment(s, i)
    [] OTHER -> [s EXCEPT !.st = "error"]

LoadSeek(h, s, i) ==
  CASE IsBegin(h, i) -> BeginSegment(h, s, i)
    [] h[i].t = "OVERLAY" /\ s.overlay -> [s EXCEPT !.st = "error"]
    [] h[i].t = "OVERLAY" /\ ~s.overlay -> [s EXCEPT !.overlay = TRUE, !.in_header = TRUE]
    [] h[i].t = "BREAK" -> [s EXCEPT !.in_header = TRUE]
    [] h[i].t \in {"END", "NAME", "DEBUG"} -> s
    [] OTHER -> [s EXCEPT !.st = "error"]

LoadExtra(h, s, i) ==
  CASE h[i].t = "END" -> [s EXCEPT !.seek_begin = TRUE]
    [] h[i].t \in loadseg_valid_extra_hunks -> AddToSegment(s, i)
    [] IsBegin(h, i) -> BeginSegment(h, s, i)
    [] OTHER -> [s EXCEPT !.st = "error"]

LoadStep(h, s0, i) ==
  LET s == IF s0.in_header /\ IsBegin(h, i)
           THEN [s0 EXCEPT !.in_header = FALSE, !.seek_begin = TRUE] ELSE s0
  IN  CASE s.st # "ok" -> s
        [] s.st = "ok" /\ s.in_header -> LoadHeader(h, s, i)
        [] s.st = "ok" /\ ~s.in_header /\ s.seek_begin -> LoadSeek(h, s, i)
        [] OTHER -> LoadExtra(h, s, i)

build_loadseg(h) == FoldLeft(LAMBDA s, i : LoadStep(h, s, i), LoadStart, Indices(h))

\* build_unit(): a list of segments for every UNIT; a UNIT block does not end
\* the hunk it stands in.
UnitStart == [st |-> "ok", in_hunk |-> FALSE, hunk_no |-> 0, lists |-> <<>>, nums |-> <<>>]

UnitStep(h, s, i) ==
  CASE s.st # "ok" -> s
    [] s.st = "ok" /\ h[i].t = "UNIT" -> [s EXCEPT !.lists = Append(@, <<>>), !.hunk_no = 0]
    [] s.st = "ok" /\ h[i].t # "UNIT" /\ ~s.in_hunk ->
         CASE h[i].t \in {"NAME", "END"} -> s
           [] h[i].t \in unit_valid_main_hunks ->
                [s EXCEPT !.lists = AppendLast(@, <<i>>), !.nums = Append(@, <<i, s.hunk_no>>),
                          !.hunk_no = @ + 1, !.in_hunk = TRUE]
           [] OTHER -> [s EXCEPT !.st = "error"]
    [] OTHER ->
         CASE h[i].t = "END" -> [s EXCEPT !.in_hunk = FALSE]
           [] h[i].t \in unit_valid_extra_hunks ->
                LET u == CHOOSE k \in DOMAIN s.lists :
                           s.lists[k] # <<>> /\ \A j \in (k + 1)..Len(s.lists) : s.lists[j] = <<>>
                IN  [s EXCEPT !.lists[u] = AppendLast(@, i)]
           [] OTHER -> [s EXCEPT !.st = "error"]

build_unit(h) == FoldLeft(LAMBDA s, i : UnitStep(h, s, i), UnitStart, Indices(h))

\* Where a block begins in its library, in longs after the LIB block.
LongsOf(b) == CASE b.t \in {"CODE", "SYMBOL", "EXT", "RELOC"} -> 3 [] b.t = "END" -> 1 [] OTHER -> 2
LibOffset(h, i) ==
  LET lib == CHOOSE j \in 1..i : h[j].t = "LIB" /\ \A k \in (j + 1)..i : h[k].t # "LIB"
  IN  FoldLeft(LAMBDA a, k : a + LongsOf(h[k]), 0, [k \in 1..(i - lib - 1) |-> lib + k])

\* One unit of resolve_index_hunks(): the segment that begins at the offset,
\* and the ones after it, which are numbered again from 0.  The number of the
\* first one tells where they are.
ResolveUnit(h, segs, r, u) ==
  LET at == {p \in DOMAIN segs : LibOffset(h, segs[p][1]) = LibOffset(h, segs[u.pos][1])}
      num(p) == LET mine == {k \in DOMAIN r.nums : r.nums[k][1] = segs[p][1]}
                IN  IF mine = {} THEN p - 1 ELSE r.nums[Max(mine)][2]
      first == num(CHOOSE p \in at : TRUE)
  IN  IF r.st # "ok" THEN r
      ELSE IF at = {} THEN [r EXCEPT !.st = "error"]
      ELSE IF first + u.num > Len(segs) THEN [r EXCEPT !.st = "exception"]
      ELSE [r EXCEPT !.lists = Append(@, [i \in 1..u.num |-> segs[first + i]]),
                     !.nums = @ \o [i \in 1..u.num |-> <<segs[first + i][1], i - 1>>]]

resolve_index_hunks(h, segs, units) ==
  FoldLeft(LAMBDA r, u : ResolveUnit(h, segs, r, u),
           [st |-> "ok", lists |-> <<>>, nums |-> <<>>], units)

\* build_lib() of one library: seek is what comes next.
LibStart == [st |-> "ok", seek |-> "lib", segs |-> <<>>, lists |-> <<>>, nums |-> <<>>]

LibStep(h, units, s, i) ==
  CASE s.st # "ok" -> s
    [] s.st = "ok" /\ s.seek = "lib" ->
         IF h[i].t = "LIB" THEN [s EXCEPT !.seek = "main", !.segs = <<>>]
         ELSE [s EXCEPT !.st = "error"]
    [] s.st = "ok" /\ s.seek = "main" ->
         CASE h[i].t = "INDEX" ->
                LET r == resolve_index_hunks(h, s.segs, units)
                IN  [s EXCEPT !.st = r.st, !.seek = "lib", !.lists = r.lists, !.nums = r.nums]
           [] h[i].t \in unit_valid_main_hunks ->
                [s EXCEPT !.segs = Append(@, <<i>>), !.seek = "extra"]
           [] OTHER -> [s EXCEPT !.st = "error"]
    [] OTHER ->
         CASE h[i].t = "END" -> [s EXCEPT !.seek = "main"]
           [] h[i].t \in unit_valid_extra_hunks -> [s EXCEPT !.segs = AppendLast(@, i)]
           [] OTHER -> [s EXCEPT !.st = "error"]

build_lib(h, units) == FoldLeft(LAMBDA s, i : LibStep(h, units, s, i), LibStart, Indices(h))

\* build_segments() of what was read.
build_segments(h, units) ==
  LET f == read_file_obj(h)
      s == CASE h[1].t = "HEADER" -> build_loadseg(f.hunks)
             [] h[1].t = "UNIT" -> build_unit(f.hunks)
             [] h[1].t = "LIB" -> build_lib(f.hunks, units)
  IN  IF ~f.ok THEN Failed("error")
      ELSE IF s.st # "ok" THEN Failed(s.st)
      ELSE [st |-> "ok", lists |-> s.lists, nums |-> s.nums]

-----------------------------------------------------------------------------
(* HunkLoadSegFile. *)

\* First round: sections between END blocks.
Sections(h) ==
  LET step(s, i) ==
        CASE h[i].t = "END" -> [s EXCEPT !.cur = FALSE]
          [] h[i].t # "END" /\ s.cur -> [s EXCEPT !.first = AppendLast(@, i)]
          [] OTHER -> [first |-> Append(s.first, <<i>>), cur |-> TRUE]
  IN  FoldLeft(step, [first |-> <<>>, cur |-> FALSE],
               [k \in 1..(Len(h) - 1) |-> k + 1]).first

\* Mutant: only the segment blocks of a section that is split are kept.
SplitSectionBare(h, l) ==
  LET starts == SelectSeq(l, LAMBDA i : IsBegin(h, i))
  IN  IF Len(starts) <= 1 THEN IF starts = <<>> THEN <<>> ELSE <<l>>
      ELSE [n \in DOMAIN starts |-> <<starts[n]>>]

\* Second round: a section without a segment block is dropped, one with
\* several is split at each.
SplitSection(h, l) ==
  LET begins == {k \in DOMAIN l : IsBegin(h, l[k])}
      end(k) == Min({j - 1 : j \in {b \in begins : b > k}} \cup {Len(l)})
      starts == SelectSeq(Indices(l), LAMBDA k : k \in begins)
  IN  IF Len(starts) <= 1 THEN IF starts = <<>> THEN <<>> ELSE <<l>>
      ELSE [n \in DOMAIN starts |-> SubSeq(l, starts[n], end(starts[n]))]

CantSplit(h, l) ==
  ~IsBegin(h, l[1]) /\ Len(SelectSeq(l, LAMBDA i : IsBegin(h, i))) > 1

\* HunkSegment.parse() refuses a name block and two symbol blocks.
SegmentOk(h, l) ==
  /\ \A k \in DOMAIN l : h[l[k]].t # "NAME"
  /\ Len(SelectSeq(l, LAMBDA i : h[i].t = "SYMBOL")) <= 1

\* parse_block_file(), after HunkBlockFile.read(), which knows no JUNK.
parse_block_file(h) ==
  LET sections == Sections(h)
      second == FlattenSeq([k \in DOMAIN sections |-> SplitSection(h, sections[k])])
      valid == loadseg_valid_begin_hunks \cup loadseg_valid_extra_hunks \cup {"END"}
  IN  IF \/ h[1].t # "HEADER" \/ \E i \in 2..Len(h) : h[i].t \notin valid
         \/ \E k \in DOMAIN sections : CantSplit(h, sections[k])
         \/ h[1].n # Len(second)
         \/ \E k \in DOMAIN second : ~SegmentOk(h, second[k])
      THEN Failed("error")
      ELSE [st |-> "ok", lists |-> <<second>>, nums |-> <<>>]

\* create_block_file(): a header, and the blocks of every segment with an END.
create_block_file(h, segs) ==
  <<[t |-> "HEADER", n |-> Len(segs), first |-> 0]>>
    \o FlattenSeq([k \in DOMAIN segs |->
                    [j \in DOMAIN segs[k] |-> h[segs[k][j]]] \o <<[t |-> "END", n |-> 0, first |-> 0]>>])

-----------------------------------------------------------------------------

HunkFilesInit ==
  hf_blocks = <<>> /\ hf_units = <<>> /\ hf_read = Unread /\ hf_lsf = Unread

\* The first block tells the kind of the file.
BeginFile ==
  /\ hf_blocks = <<>>
  /\ \E first \in DOMAIN HunkAlphabet :
       \E n \in IF first = "HEADER" THEN HeaderSizes ELSE {0} :
         hf_blocks' = <<[t |-> first, n |-> n, first |-> 0]>>
  /\ UNCHANGED <<hf_units, hf_read, hf_lsf>>

\* The linker writes the next block.
AddBlock ==
  /\ hf_blocks # <<>> /\ hf_read = Unread /\ hf_units = <<>>
  /\ Len(hf_blocks) <= HunkBound[hf_blocks[1].t]
  /\ \E t \in HunkAlphabet[hf_blocks[1].t] :
       \E no \in IF t = "HEADER" THEN {0, 1} ELSE {0} :
         hf_blocks' = Append(hf_blocks, [t |-> t, n |-> IF t = "HEADER" THEN 2 ELSE 0, first |-> no])
  /\ UNCHANGED <<hf_units, hf_read, hf_lsf>>

\* The linker ends a library with an index: units of consecutive segments that
\* have none in common.
AddIndex ==
  /\ hf_read = Unread /\ hf_units = <<>>
  /\ hf_blocks # <<>> /\ hf_blocks[1].t = "LIB"
  /\ LET n == Len(SelectSeq(hf_blocks, LAMBDA b : b.t = "CODE"))
         unit == {u \in [pos : 1..n, num : 1..n] : u.pos + u.num <= n + 1}
         apart(u, v) == u.pos + u.num <= v.pos \/ v.pos + v.num <= u.pos
     IN  \E us \in {<<u>> : u \in unit} \cup {p \in unit \X unit : apart(p[1], p[2])} :
           hf_units' = us
  /\ hf_blocks' = Append(hf_blocks, [t |-> "INDEX", n |-> 0, first |-> 0])
  /\ UNCHANGED <<hf_read, hf_lsf>>

\* HunkReader reads the file.
ReadHunks ==
  /\ hf_blocks # <<>> /\ hf_read = Unread
  /\ hf_read' = build_segments(hf_blocks, hf_units)
  /\ UNCHANGED <<hf_blocks, hf_units, hf_lsf>>

\* HunkLoadSegFile reads it too.
ReadLoadSeg ==
  /\ hf_read # Unread /\ hf_lsf = Unread /\ hf_blocks[1].t = "HEADER"
  /\ hf_lsf' = parse_block_file(hf_blocks)
  /\ UNCHANGED <<hf_blocks, hf_units, hf_read>>

HunkFilesNext == BeginFile \/ AddBlock \/ AddIndex \/ ReadHunks \/ ReadLoadSeg

-----------------------------------------------------------------------------

\* The part of a segment from its segment block on.
FromBegin(h, l) ==
  SubSeq(l, Min({k \in DOMAIN l : IsBegin(h, l[k])}), Len(l))

\* The two readers see the same program: when both accept a file, they find
\* the same segments with the same blocks, up to blocks that stand between an
\* END and the next segment.  Missing ENDs, doubled ENDs and blocks in odd
\* places included.
SegmentsAgree ==
  hf_read.st = "ok" /\ hf_lsf.st = "ok" =>
    [k \in DOMAIN hf_lsf.lists[1] |-> FromBegin(hf_blocks, hf_lsf.lists[1][k])]
      = hf_read.lists[1]

\* A file that vamos loads is one that hunktool shows, unless a block stands
\* before the segment that it belongs to or the header is not followed by one.
LoadableIsReadable ==
  hf_read # Unread /\ hf_lsf.st = "ok" =>
    \/ hf_read.st = "ok"
    \/ \E i \in 2..Len(hf_blocks) :
         /\ ~IsBegin(hf_blocks, i)
         /\ i = 2 \/ (hf_blocks[i - 1].t = "END" /\ hf_blocks[i].t # "END")

\* The blocks that HunkLoadSegFile creates from the segments of a file are
\* parsed to the same segments again.
RecreatedParses ==
  hf_lsf.st = "ok" =>
    LET segs == hf_lsf.lists[1]
        h == create_block_file(hf_blocks, segs)
        again == parse_block_file(h)
        kinds(g, ss) == [k \in DOMAIN ss |-> [j \in DOMAIN ss[k] |-> g[ss[k][j]].t]]
    IN  again.st = "ok" /\ kinds(h, again.lists[1]) = kinds(hf_blocks, segs)

\* A unit of a library has exactly the segments its index entry names, in
\* their order, numbered from 0, although numbers are changed on the way.
IndexResolved ==
  hf_read.st = "ok" /\ hf_units # <<>> =>
    LET code == SelectSeq(Indices(hf_blocks), LAMBDA i : hf_blocks[i].t = "CODE")
    IN  /\ Len(hf_read.lists) = Len(hf_units)
        /\ \A u \in DOMAIN hf_units : \A i \in 1..hf_units[u].num :
             /\ hf_read.lists[u][i][1] = code[hf_units[u].pos + i - 1]
             /\ <<code[hf_units[u].pos + i - 1], i - 1>> \in ToSet(hf_read.nums)
        /\ \A k \in DOMAIN hf_read.nums : \A j \in DOMAIN hf_read.nums :
             hf_read.nums[k][1] = hf_read.nums[j][1] => k = j

\* Every block of a file that HunkReader accepts is in one segment, in the
\* order of the file; only ENDs, headers, names and debug blocks outside of
\* segments and what follows the last known block are dropped.
NoBlockLost ==
  hf_read.st = "ok" /\ hf_blocks[1].t # "LIB" =>
    LET h == read_file_obj(hf_blocks).hunks
        segs == FlattenSeq(hf_read.lists)
        kept == FlattenSeq(segs)
        outside == {"END", "HEADER", "OVERLAY", "BREAK", "UNIT", "NAME", "DEBUG"}
    IN  /\ \A i \in DOMAIN h : i \in ToSet(kept) \/ h[i].t \in outside
        /\ \A k \in 1..(Len(kept) - 1) : kept[k] < kept[k + 1]
        /\ \A k \in DOMAIN segs : IsBegin(h, segs[k][1])

\* Both readers make the same segments of a file and leave no block out; libraries are
\* resolved by their index, and a file made of segments is read again.
FilesGrouped ==
    /\ SegmentsAgree /\ LoadableIsReadable /\ RecreatedParses /\ IndexResolved /\ NoBlockLost
=============================================================================
