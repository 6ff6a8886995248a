------------------------------ MODULE DosMatch ------------------------------
(***************************************************************************)
(* MatchFirst(), MatchNext() and MatchEnd(): a pattern of path segments is *)
(* a chain of wildcard segments with literal ones between them             *)
(* (lib/dos/PathMatch.py); MatchFirstNext.py walks its matches, goes into  *)
(* the directories the program asks for and keeps a lock on the directory  *)
(* of the current entry.  A path is a sequence of names from the root; a   *)
(* segment is <<"lit", names>> or <<"pat", the names it matches>>.         *)
(***************************************************************************)
EXTENDS Integers, Sequences, SequencesExt, FiniteSets

-----------------------------------------------------------------------------
(* Patterns of AmigaDOS (lib/dos/PatternMatch.py): pattern_parse() turns a *)
(* pattern into tokens, pattern_match() runs over the tokens with a stack  *)
(* of markers to come back to.  Characters and tokens are strings.  The    *)
(* patterns checked are written from syntax trees, whose meaning (Matches) *)
(* is the reference for what the two functions do together.                *)

CONSTANTS
    Trees,        \* syntax trees, see Matches
    Texts,        \* strings to match
    MaxSteps      \* bound: steps pattern_match() may take

VARIABLES pt_tree, pt_text, pt_result
pt_vars == <<pt_tree, pt_text, pt_result>>

-----------------------------------------------------------------------------
(* pattern_parse() *)

At(s, i) == IF i <= Len(s) THEN s[i] ELSE "end"
\* _pop_non_or(): ends the repeats and negations that wait for their operand.
pop_non_or(p) ==
    LET ors == {i \in DOMAIN p.blocks : p.blocks[i] = "OREND"}
        keep == IF ors = {} THEN 0 ELSE CHOOSE i \in ors : \A j \in ors : j <= i
    IN [p EXCEPT !.dst = @ \o Reverse(SubSeq(p.blocks, keep + 1, Len(p.blocks))), !.blocks = SubSeq(@, 1, keep)]
Put(p, t, n) == [p EXCEPT !.dst = Append(@, t), !.pos = @ + n]
Flush(p) == pop_non_or(p)
Bad(p) == [p EXCEPT !.ok = FALSE]
Wild(p) == [p EXCEPT !.wild = TRUE]
Opens(p, t, end) == [Wild(Put(p, t, 1)) EXCEPT !.blocks = Append(@, end)]
\* Characters of a class up to "]"; "'" is left out.
ClassEnd(src, from) == {i \in from..Len(src) : src[i] = "]" /\ \A j \in from..(i - 1) : src[j] # "]"}
parse_class(p, src) ==
    LET not == At(src, p.pos + 1) = "~"
        from == p.pos + (IF not THEN 2 ELSE 1)
        ends == ClassEnd(src, from)
        to == CHOOSE i \in ends : TRUE
    IN IF ends = {} THEN Bad(p)
       ELSE Flush([Wild(p) EXCEPT !.pos = to + 1,
                   !.dst = @ \o <<IF not THEN "NOTCLASS" ELSE "CLASS">> \o SelectSeq(SubSeq(src, from, to - 1), LAMBDA c : c # "'") \o <<"CLASS">>])
Quotable == {"#", "*", "?", "(", "|", ")", "~", "[", "]", "%", "'"}
parse_step(p, src) ==
    LET ch == src[p.pos] next == At(src, p.pos + 1)
    IN CASE ch = "#" /\ next \in {"end", ")"} -> Bad(p)
         [] ch = "#" /\ next = "?" -> Flush(Wild(Put(p, "ANY", 2)))
         [] ch = "#" -> Opens(p, "REPBEG", "REPEND")
         [] ch = "~" /\ next = "end" -> Flush(Put(p, "~", 1))
         [] ch = "~" /\ next = ")" -> Bad(p)
         [] ch = "~" -> Opens(p, "NOT", "NOTEND")
         [] ch = "?" -> Flush(Wild(Put(p, "SINGLE", 1)))
         [] ch = "(" -> Opens(p, "ORSTART", "OREND")
         [] ch \in {"|", ")"} ->
              LET q == pop_non_or(p)
              IN IF q.blocks = <<>> THEN Bad(p)
                 ELSE IF ch = "|" THEN Put(q, "ORNEXT", 1)
                 ELSE Flush([Put(q, "OREND", 1) EXCEPT !.blocks = Front(@)])
         [] ch = "[" -> parse_class(p, src)
         [] ch = "%" -> [p EXCEPT !.pos = @ + 1]
         [] ch = "'" -> IF next \in Quotable THEN Flush(Put(p, next, 2)) ELSE Flush([p EXCEPT !.pos = @ + 1])
         [] OTHER -> Flush(Put(p, ch, 1))
RECURSIVE parse_from(_, _)
parse_from(p, src) == IF ~p.ok \/ p.pos > Len(src) THEN p ELSE parse_from(parse_step(p, src), src)
\* ok = FALSE for None.
pattern_parse(src) ==
    LET p == parse_from([dst |-> <<>>, blocks |-> <<>>, wild |-> FALSE, pos |-> 1, ok |-> TRUE], src)
    IN [p EXCEPT !.ok = @ /\ p.blocks = <<>>]

-----------------------------------------------------------------------------
(* pattern_match() *)

\* _seek_end() and _seek_begin(): the other end of a block, over nested ones.
Nest(pat, i, j, up, down) == Cardinality({k \in i..j : pat[k] = up}) - Cardinality({k \in i..j : pat[k] = down})
seek_end(pat, i, beg, end) ==
    CHOOSE j \in i..Len(pat) : pat[j] = end /\ Nest(pat, i, j, beg, end) = -1 /\ \A k \in i..(j - 1) : Nest(pat, i, k, beg, end) >= 0
seek_begin(pat, i, beg, end) ==
    CHOOSE j \in 1..i : pat[j] = beg /\ Nest(pat, j, i, beg, end) = 1 /\ \A k \in (j + 1)..i : Nest(pat, k, i, beg, end) <= 0
Marker(f, p, s) == [flag |-> f, pat |-> p, str |-> s]
\* MarkerStack.push(): not what was popped before.
push(m, mark) == IF mark \in m.history THEN m ELSE [m EXCEPT !.stack = Append(@, mark)]
\* _scan_or_block(): a marker for each alternative but the first.
scan_or_block(m, pat, from) ==
    LET to == seek_end(pat, from, "ORSTART", "OREND")
        alts == SelectSeq([i \in 1..(to - from) |-> from + i - 1], LAMBDA j : pat[j] = "ORNEXT" /\ Nest(pat, from, j, "ORSTART", "OREND") = 0)
    IN FoldLeft(LAMBDA a, j : push(a, Marker(FALSE, j + 1, m.str)), m, alts)
\* Back to a marker, or the end without a match.
next_marker(m, n) ==
    IF m.stack = <<>> THEN [m EXCEPT !.done = "no"]
    ELSE LET k == Last(m.stack)
             m1 == [m EXCEPT !.stack = Front(@), !.history = @ \union {k}, !.pat = k.pat, !.str = k.str]
         IN IF k.flag /\ k.str < n THEN push(m1, Marker(TRUE, k.pat, k.str + 1)) ELSE m1
\* NOTEND: the negated pattern has matched up to here.
LastNot(m) == CHOOSE i \in DOMAIN m.stack : m.stack[i].flag /\ \A j \in (i + 1)..Len(m.stack) : ~m.stack[j].flag
not_end(m, n) ==
    LET i == LastNot(m)
    IN IF m.str = n THEN [m EXCEPT !.stack = SubSeq(@, 1, i - 1)]
       ELSE [m EXCEPT !.str = @ + 1, !.stack[i].str = IF m.str + 1 > @ THEN m.str + 1 ELSE @]
\* Members of the class that starts behind position i; ranges are "x", "-", "y".
Ord(c) == CASE c = "-" -> 45 [] c = "a" -> 97 [] c = "b" -> 98 [] c = "c" -> 99 [] c = "CLASS" -> 255 [] OTHER -> 100
ClassStop(pat, i) == CHOOSE j \in (i + 1)..Len(pat) : pat[j] = "CLASS" /\ \A k \in (i + 1)..(j - 1) : pat[k] # "CLASS"
InClass(pat, i, c) ==
    LET to == ClassStop(pat, i)
    IN \E k \in (i + 1)..(to - 1) : /\ ~(pat[k] = "-" /\ k > i + 1)
                                    /\ Ord(c) >= Ord(pat[k])
                                    /\ Ord(c) <= (IF pat[k + 1] = "-" THEN Ord(pat[k + 2]) ELSE Ord(pat[k]))
match_step(m, pat, txt) ==
    LET n == Len(txt)
        cmd == At(pat, m.pat)
        on == [m EXCEPT !.pat = @ + 1]
        eat == [on EXCEPT !.str = @ + 1]
        back(x) == next_marker(x, n)
    IN CASE cmd = "REPBEG" -> [push(m, Marker(FALSE, m.pat + 1, m.str)) EXCEPT !.pat = seek_end(pat, m.pat + 1, "REPBEG", "REPEND") + 1]
         [] cmd = "REPEND" -> [m EXCEPT !.pat = seek_begin(pat, m.pat - 1, "REPBEG", "REPEND")]
         [] cmd = "NOT" -> [push(m, Marker(TRUE, seek_end(pat, m.pat + 1, "NOT", "NOTEND") + 1, m.str)) EXCEPT !.pat = @ + 1]
         [] cmd = "NOTEND" -> back(not_end(m, n))
         [] cmd = "ORSTART" -> scan_or_block(on, pat, m.pat + 1)
         [] cmd = "ORNEXT" -> [m EXCEPT !.pat = seek_end(pat, m.pat + 1, "ORSTART", "OREND") + 1]
         [] cmd = "OREND" -> on
         [] cmd = "SINGLE" -> IF m.str < n THEN eat ELSE back(on)
         [] cmd = "CLASS" -> IF m.str < n /\ InClass(pat, m.pat, txt[m.str + 1]) THEN [m EXCEPT !.str = @ + 1, !.pat = ClassStop(pat, m.pat) + 1] ELSE back(m)
         [] cmd = "NOTCLASS" -> IF m.str < n /\ ~InClass(pat, m.pat, txt[m.str + 1]) THEN [m EXCEPT !.str = @ + 1, !.pat = ClassStop(pat, m.pat) + 1] ELSE back(m)
         [] cmd = "ANY" -> [IF m.str < n THEN push(m, Marker(FALSE, m.pat, m.str + 1)) ELSE m EXCEPT !.pat = @ + 1]
         [] cmd = "end" -> IF m.str = n THEN [m EXCEPT !.done = "yes"] ELSE back(m)
         [] OTHER -> IF m.str < n /\ txt[m.str + 1] = cmd THEN eat ELSE back(m)
RECURSIVE match_run(_, _, _, _)
match_run(m, pat, txt, left) ==
    IF m.done # "run" \/ left = 0 THEN m.done ELSE match_run(match_step(m, pat, txt), pat, txt, left - 1)
pattern_match(pat, txt) == match_run([pat |-> 1, str |-> 0, stack |-> <<>>, history |-> {}, done |-> "run"], pat, txt, MaxSteps)

-----------------------------------------------------------------------------
(* Syntax trees: <<"ch", c>>, <<"one">>, <<"any">>, <<"in", c>>, <<"notin", c>>,      *)
(* <<"rep", t>>, <<"or", t, u>>, <<"not", t>>, <<"seq", t, u>>, <<"nil">>             *)

RECURSIVE Source(_)
Source(t) ==
    CASE t[1] = "ch" -> <<t[2]>> [] t[1] = "one" -> <<"?">> [] t[1] = "any" -> <<"#", "?">> [] t[1] = "nil" -> <<"%">>
      [] t[1] = "in" -> <<"[", t[2], "]">> [] t[1] = "notin" -> <<"[", "~", t[2], "]">>
      [] t[1] = "rep" -> <<"#">> \o Source(t[2]) [] t[1] = "not" -> <<"~">> \o Source(t[2])
      [] t[1] = "or" -> <<"(">> \o Source(t[2]) \o <<"|">> \o Source(t[3]) \o <<")">>
      [] t[1] = "seq" -> Source(t[2]) \o Source(t[3])
RECURSIVE Matches(_, _)
Matches(t, s) ==
    CASE t[1] = "ch" -> s = <<t[2]>> [] t[1] = "one" -> Len(s) = 1 [] t[1] = "any" -> TRUE [] t[1] = "nil" -> s = <<>>
      [] t[1] = "in" -> s = <<t[2]>> [] t[1] = "notin" -> Len(s) = 1 /\ s # <<t[2]>>
      [] t[1] = "or" -> Matches(t[2], s) \/ Matches(t[3], s)
      [] t[1] = "not" -> ~Matches(t[2], s)
      [] t[1] = "seq" -> \E k \in 0..Len(s) : Matches(t[2], SubSeq(s, 1, k)) /\ Matches(t[3], SubSeq(s, k + 1, Len(s)))
      [] t[1] = "rep" -> s = <<>> \/ \E k \in 1..Len(s) : Matches(t[2], SubSeq(s, 1, k)) /\ Matches(t, SubSeq(s, k + 1, Len(s)))
RECURSIVE HasNot(_)
HasNot(t) == t[1] = "not" \/ \E i \in 2..Len(t) : t[1] \in {"rep", "or", "not", "seq"} /\ HasNot(t[i])

PatternsInit == pt_tree = <<"nil">> /\ pt_text = <<>> /\ pt_result = "none"
MatchPattern ==
    /\ pt_result = "none"
    /\ \E t \in Trees, s \in Texts :
         LET p == pattern_parse(Source(t))
         IN /\ pt_tree' = t /\ pt_text' = s
            /\ pt_result' = IF p.ok THEN pattern_match(p.dst, s) ELSE "bad"

-----------------------------------------------------------------------------
\* pattern_match() comes to an end: the history of markers keeps repeats of what
\* may be empty from going round for ever.
MatchEnds == pt_result # "run"
\* A pattern matches exactly the names it should, whatever repeats, groups and
\* classes it nests, and "~" before a whole pattern turns it round.
MatchExact ==
    LET body == IF pt_tree[1] = "not" THEN pt_tree[2] ELSE pt_tree
    IN pt_result \notin {"none", "run"} /\ ~HasNot(body) => pt_result = IF Matches(pt_tree, pt_text) THEN "yes" ELSE "no"

-----------------------------------------------------------------------------
(* PathMatch.py and MatchFirstNext.py *)

CONSTANTS
    TreeDirs, TreeFiles,   \* the directories and files there are at first
    MatchPatterns,         \* patterns: [abs |-> has a volume, segs |-> segments]
    StartDir,              \* the directory vamos was started in
    WorkDirs               \* current directories of the program

VARIABLES
    mm_dirs, mm_files,     \* the host's tree
    mm,                    \* the MatchFirstNext object, see MatchInit
    mm_locks,              \* locks it has made and not released
    mm_seen                \* what the program was shown, see MatchInit
mm_vars == <<mm_dirs, mm_files, mm, mm_locks, mm_seen>>

NoDir == <<"none">>
MatchInit ==
    /\ mm_dirs = TreeDirs /\ mm_files = TreeFiles /\ mm_locks = 0
    /\ mm = [st |-> "idle", abs |-> FALSE, cwd |-> StartDir, pat |-> [chain |-> <<>>, postfix |-> <<>>], cs |-> <<>>,
             path |-> <<>>, did |-> FALSE, stack |-> <<>>, lock |-> NoDir]
    /\ mm_seen = [expected |-> {}, matched |-> <<>>, entered |-> {}, visits |-> <<>>, dids |-> <<>>]

-----------------------------------------------------------------------------
(* Paths on the host: relative ones start at the current directory *)

Full(m, p) == IF m.abs THEN p ELSE m.cwd \o p
IsDir(p) == p \in mm_dirs
Exists(p) == p \in mm_dirs \union mm_files
NamesIn(d) == {Last(p) : p \in {q \in mm_dirs \union mm_files : q # <<>> /\ Front(q) = d}}
\* ami_list_dir(), in some order, sorted for the directories entered.
ami_list_dir(d) == SetToSeq(NamesIn(d))

-----------------------------------------------------------------------------
(* PathMatch *)

\* parse(): wildcard segments each with the literal ones before it, and the rest.
parse_step_(a, seg) ==
    IF seg[1] = "pat" THEN [chain |-> Append(a.chain, [prefix |-> a.last, names |-> seg[2]]), last |-> <<>>]
    ELSE [a EXCEPT !.last = Append(@, CHOOSE x \in seg[2] : TRUE)]
parse_path(segs) ==
    LET a == FoldLeft(parse_step_, [chain |-> <<>>, last |-> <<>>], segs) IN [chain |-> a.chain, postfix |-> a.last]
\* State of a chain link: its candidates and the next one to try; pos 0 before it lists them.
Fresh == [pos |-> 0, cands |-> <<>>]
\* Mutant: the links below keep the candidates of the directory before.
advance_NoReset(cs, k) == [i \in DOMAIN cs |-> IF i = k THEN [cs[i] EXCEPT !.pos = @ + 1] ELSE cs[i]]
advance(cs, k) == [i \in DOMAIN cs |-> IF i = k THEN [cs[i] EXCEPT !.pos = @ + 1] ELSE IF i > k THEN Fresh ELSE cs[i]]
NoMatch(cs) == [ok |-> FALSE, path |-> <<>>, cs |-> cs]
RECURSIVE chain_next(_, _, _, _), chain_try(_, _, _, _)
chain_next(m, cs, k, prefix) ==
    LET full == prefix \o m.pat.chain[k].prefix
        listed == [cs EXCEPT ![k] = [pos |-> 1, cands |-> ami_list_dir(Full(m, full))]]
    IN IF cs[k].pos > 0 THEN chain_try(m, cs, k, full)
       ELSE IF IsDir(Full(m, full)) THEN chain_try(m, listed, k, full) ELSE NoMatch(cs)
\* The last link takes the first candidate that matches, there or not; the others
\* go on with theirs as long as the next link finds something below it.
chain_try(m, cs, k, full) ==
    LET link == cs[k]
        name == link.cands[link.pos]
        path == Append(full, name)
        end == path \o m.pat.postfix
        below == chain_next(m, cs, k + 1, path)
    IN CASE link.pos > Len(link.cands) -> NoMatch(cs)
         [] name \notin m.pat.chain[k].names -> chain_try(m, advance(cs, k), k, full)
         [] k = Len(m.pat.chain) -> IF Exists(Full(m, end)) THEN [ok |-> TRUE, path |-> end, cs |-> advance(cs, k)] ELSE NoMatch(cs)
         [] OTHER -> IF below.ok THEN below ELSE chain_try(m, advance(below.cs, k), k, full)
begin(m) ==
    IF m.pat.chain = <<>> THEN [ok |-> Exists(Full(m, m.pat.postfix)), path |-> m.pat.postfix, cs |-> <<>>]
    ELSE chain_next(m, [k \in DOMAIN m.pat.chain |-> Fresh], 1, <<>>)
next_match(m) == IF m.pat.chain = <<>> THEN NoMatch(<<>>) ELSE chain_next(m, m.cs, 1, <<>>)

-----------------------------------------------------------------------------
(* MatchFirstNext: m is the object, with the locks it holds in m.held *)

\* _fill_lock(): nothing happens if the directory is not there.
fill_lock(m, full) == IF IsDir(full) THEN [m EXCEPT !.lock = full, !.held = IF m.lock = NoDir THEN @ + 1 ELSE @] ELSE m
\* _fill_parent_lock(): relative to the directory vamos was started in.
Parent_(p) == IF p = <<>> THEN p ELSE Front(p)
fill_parent_lock(m, p) == fill_lock(m, Parent_(IF m.abs THEN p ELSE StartDir \o p))
\* _get_dodir(): the next entry of the innermost directory entered, or that directory again.
get_dodir(m) ==
    LET top == Last(m.stack)
    IN IF top.todo # <<>> THEN fill_lock([m EXCEPT !.path = Append(top.path, Head(top.todo)), !.did = FALSE, !.stack[Len(m.stack)].todo = Tail(@)], Full(m, top.path))
       ELSE fill_parent_lock([m EXCEPT !.path = top.path, !.did = TRUE, !.stack = Front(@)], top.path)

Held(m) == [held |-> mm_locks] @@ m
\* The object without its count of locks.
Unheld(m) == [f \in DOMAIN mm |-> m[f]]
Shown(m) == mm' = Unheld(m) /\ mm_locks' = m.held

\* All paths the pattern stands for.
RECURSIVE Meant(_, _, _)
Meant(m, segs, prefix) ==
    IF segs = <<>> THEN IF Exists(Full(m, prefix)) THEN {prefix} ELSE {}
    ELSE UNION {Meant(m, Tail(segs), Append(prefix, n)) : n \in Head(segs)[2]}

MatchFirst(p, cwd) ==
    /\ mm.st = "idle"
    /\ LET m == [Held(mm) EXCEPT !.abs = p.abs, !.cwd = cwd, !.pat = parse_path(p.segs)]
           r == begin(m)
           m1 == [m EXCEPT !.st = "found", !.path = r.path, !.cs = r.cs]
       IN /\ IF r.ok THEN Shown(fill_parent_lock(fill_lock(m1, Parent_(Full(m, r.path))), r.path))
             ELSE Shown([m EXCEPT !.st = "nothing"])
          /\ mm_seen' = [mm_seen EXCEPT !.expected = Meant(m, p.segs, <<>>), !.matched = IF r.ok THEN <<r.path>> ELSE <<>>]
    /\ UNCHANGED <<mm_dirs, mm_files>>
\* The entry in fib is that of the path; without it the program ends the walk.
Filled(m) == IF Exists(Full(m, m.path)) THEN m ELSE [m EXCEPT !.st = "nothing"]
MatchNext(dodir) ==
    /\ mm.st = "found"
    /\ dodir => IsDir(Full(mm, mm.path)) /\ ~mm.did
    /\ LET m0 == Held(mm)
           full == Full(mm, mm.path)
           sorted == ami_list_dir(full)
           m1 == IF dodir THEN fill_lock([m0 EXCEPT !.stack = Append(@, [path |-> mm.path, todo |-> sorted])], full) ELSE m0
           m2 == get_dodir(m1)
           here == fill_lock(m1, mm.cwd)
           r == next_match(here)
           m3 == [here EXCEPT !.path = r.path, !.cs = r.cs, !.did = FALSE]
           seen == [mm_seen EXCEPT !.entered = IF dodir THEN @ \union {<<mm.path, ToSet(sorted)>>} ELSE @]
       IN IF m1.stack # <<>>
          THEN /\ Shown(Filled(fill_parent_lock(m2, m2.path)))
               /\ mm_seen' = IF m2.did THEN [seen EXCEPT !.dids = Append(@, m2.path)] ELSE [seen EXCEPT !.visits = Append(@, m2.path)]
          ELSE IF r.ok THEN /\ Shown(Filled(fill_parent_lock(m3, r.path)))
                            /\ mm_seen' = [seen EXCEPT !.matched = Append(@, r.path)]
          ELSE Shown([here EXCEPT !.st = "no_more", !.cs = r.cs]) /\ mm_seen' = seen
    /\ UNCHANGED <<mm_dirs, mm_files>>
\* The program sets the flag on an entry that is no directory: sorted(None) raises.
MatchNextFile ==
    /\ mm.st = "found" /\ Full(mm, mm.path) \in mm_files
    /\ mm' = [mm EXCEPT !.st = "raised"] /\ UNCHANGED <<mm_dirs, mm_files, mm_locks, mm_seen>>
\* The program deletes the entry it was shown.
DeleteCurrent ==
    /\ mm.st = "found"
    /\ LET full == Full(mm, mm.path)
       IN /\ Exists(full) /\ NamesIn(full) = {} /\ full # StartDir /\ full # mm.cwd
          /\ mm_dirs' = mm_dirs \ {full} /\ mm_files' = mm_files \ {full}
    /\ UNCHANGED <<mm, mm_locks, mm_seen>>
MatchEnd ==
    /\ mm.st \in {"found", "no_more", "nothing"}
    /\ Shown([Held(mm) EXCEPT !.st = "ended", !.lock = NoDir, !.held = IF mm.lock = NoDir THEN @ ELSE @ - 1])
    /\ UNCHANGED <<mm_dirs, mm_files, mm_seen>>

MatchWalk ==
    \/ \E p \in MatchPatterns, cwd \in WorkDirs : MatchFirst(p, cwd)
    \/ \E dodir \in BOOLEAN : MatchNext(dodir)
    \/ MatchNextFile \/ DeleteCurrent \/ MatchEnd

-----------------------------------------------------------------------------
\* A walk to the end has shown every path the pattern stands for, and once, though
\* the links of the chain keep lists while the program enters and deletes what it
\* is shown.  (Not so for literal segments behind the last wildcard: the first
\* candidate without them ends the search.)
MatchesAll ==
    mm.st = "no_more" /\ (mm.pat.postfix = <<>> \/ mm.pat.chain = <<>>) => ToSet(mm_seen.matched) = mm_seen.expected /\ IsInjective(mm_seen.matched)
\* A directory the program has entered is shown with each of its entries once,
\* and a second time itself, before the walk goes on behind it.
DirsWalked ==
    mm.st \in {"found", "no_more"} /\ mm.stack = <<>> =>
      \A e \in mm_seen.entered :
        /\ \A n \in e[2] : Cardinality({i \in DOMAIN mm_seen.visits : mm_seen.visits[i] = Append(e[1], n)}) = 1
        /\ Cardinality({i \in DOMAIN mm_seen.dids : mm_seen.dids[i] = e[1]}) = 1
\* The lock in the anchor is that of the directory the entry is in, for a program
\* in the directory vamos was started in.
LockFollows == mm.st = "found" /\ (mm.abs \/ mm.cwd = StartDir) => mm.lock = Parent_(Full(mm, mm.path))
\* One lock is held at most, and none behind MatchEnd().
MatchLocks == mm_locks = IF mm.lock = NoDir THEN 0 ELSE 1

\* A pattern matches the texts its syntax means, and a walk comes by just the objects
\* that match, with the lock on their directory (PathMatch, MatchFirstNext).
MatchingRight == MatchesAll /\ DirsWalked /\ LockFollows /\ MatchLocks /\ MatchExact /\ MatchEnds
=============================================================================
