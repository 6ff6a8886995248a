------------------------------- MODULE MCDos -------------------------------
(***************************************************************************)
(* dos.library: a behaviour is one of paths, locks, files, terminal,       *)
(* processes, variables, directory walks, patterns or command lines; the   *)
(* others stay as they were set up.                                        *)
(***************************************************************************)
EXTENDS PathManager, DosLocks, DosFiles, DosProc, DosVars, DosMatch, DosArgs

VARIABLE topic

\* Volumes and assigns: a volume of each kind, names that differ in case only, an
\* assign over a volume, one to two places and one to another assign.
Toks == {":", "/", "a", "b"}
VolSpecs_ == {[name |-> "sys", src |-> <<<<"a">>>>, cfg |-> {}], [name |-> "Ram", src |-> <<<<"ab">>>>, cfg |-> {"temp"}],
       [name |-> "work", src |-> <<>>, cfg |-> {"create"}], [name |-> "c", src |-> <<<<"a", "b">>>>, cfg |-> {}],
       [name |-> "bad", src |-> <<<<"b">>>>, cfg |-> {"create"}]}
AssignSpecs_ == {[name |-> "c", list |-> <<<<"work", ":", "a">>>>, append |-> FALSE, create |-> TRUE],
       [name |-> "c", list |-> <<<<"sys", ":", "b">>>>, append |-> TRUE, create |-> FALSE],
       [name |-> "libs", list |-> <<<<"c", ":">>, <<"sys", ":">>>>, append |-> FALSE, create |-> FALSE],
       [name |-> "work", list |-> <<<<"libs", ":", "b">>>>, append |-> FALSE, create |-> FALSE],
       [name |-> "t", list |-> <<<<"sys", ":">>>>, append |-> FALSE, create |-> TRUE]}
HostTree_ == (<<>> :> "dir") @@ (<<"a">> :> "dir") @@ (<<"a", "b">> :> "dir") @@ (<<"a", "b", "a">> :> "file")
       @@ (<<"a", "A">> :> "dir") @@ (<<"b">> :> "file") @@ (<<"a", "a">> :> "file") @@ (<<"abc">> :> "dir")
HostCwd_ == <<"a", "b">>
ListOrder_ == <<"A", "a", "b", "ab", "abc", "vols", "work", "system", "ram", "c", "t">>
Low_ == [A |-> "a", Ram |-> "ram"]
CharsOf_ == [a |-> <<"a">>, A |-> <<"A">>, b |-> <<"b">>, ab |-> <<"a", "b">>, abc |-> <<"a", "b", "c">>, vols |-> <<"v">>,
             work |-> <<"w">>, system |-> <<"y">>, ram |-> <<"r">>, c |-> <<"c">>, t |-> <<"t">>, Ram |-> <<"R">>]
BaseDir_ == <<"vols">>

\* A volume with a directory of two files, and a multi-assign over both.
StartTree_ == (<<"sys">> :> "dir") @@ (<<"sys", "a">> :> "dir") @@ (<<"sys", "a", "x">> :> "file") @@ (<<"sys", "a", "y">> :> "file")
DosDevices_ == [sys |-> <<<<"sys">>>>, m |-> <<<<"sys", "a">>, <<"sys">>>>]
LockPaths_ == {<<"sys", "a">>, <<"sys", "a", "x">>, <<Here, "x">>, <<Here, "b">>, <<"m">>, <<Nil>>}

HostFiles_ == [f |-> [data |-> <<1, 10, 2>>, writable |-> TRUE]]
VarValues_ == {<<"x", "y">>, <<"z">>}

\* Two levels of directories, and patterns with wildcards at every level.
TreeDirs_ == {<<>>, <<"d">>, <<"e">>, <<"d", "d">>}
TreeFiles_ == {<<"a">>, <<"d", "a">>, <<"d", "b">>, <<"d", "d", "a">>, <<"e", "a">>}
Every == <<"pat", {"a", "b", "d", "e"}>>
AOrB == <<"pat", {"a", "b"}>>
Lit(n) == <<"lit", {n}>>
SegLists == {<<Every>>, <<AOrB>>, <<Every, Every>>, <<Lit("d"), Every>>, <<Every, AOrB>>, <<Lit("a")>>, <<Lit("d"), Lit("b")>>,
             <<Every, Lit("d"), AOrB>>, <<Lit("b")>>, <<Every, Lit("b")>>}
MatchPatterns_ == [abs : BOOLEAN, segs : SegLists]
StartDir_ == <<>>
WorkDirs_ == {<<>>, <<"d">>}

\* All trees of two levels, some of three.
Leaves == {<<"ch", "a">>, <<"ch", "b">>, <<"one">>, <<"any">>, <<"in", "a">>, <<"notin", "a">>}
Small == {<<"ch", "a">>, <<"ch", "b">>, <<"nil">>}
Ors == {<<"or", x, y>> : x \in Small, y \in Small}
Level1 == Leaves \union Ors \union {<<"rep", x>> : x \in (Leaves \ {<<"one">>, <<"any">>}) \union Ors} \union {<<"not", x>> : x \in Leaves \union Ors}
Nested == {<<k, <<"or", x, y>>>> : k \in {"rep", "not"}, x \in Small \union {<<"seq", <<"ch", "a">>, z>> : z \in Small},
             y \in {<<"rep", <<"ch", "b">>>>, <<"or", <<"ch", "a">>, <<"nil">>>>, <<"rep", <<"or", <<"ch", "a">>, <<"ch", "b">>>>>>}}
Trees_ == Level1 \union {<<"seq", x, y>> : x \in Level1, y \in Level1} \union Nested
Texts_ == UNION {[1..n -> {"a", "b"}] : n \in 0..3}

\* Templates of one to three arguments with every flag and at most one /M.
FirstArgs == {<<<<"a">>, fl>> : fl \in {<<>>, <<"A">>, <<"M">>, <<"M", "A">>, <<"N">>, <<"S">>}}
KeyArgs == {<<<<"k">>, fl>> : fl \in {<<"K">>, <<"K", "A">>, <<"S">>, <<"T">>, <<"F">>, <<"M">>, <<"N", "M">>, <<"K", "F">>, <<"A">>, <<"K", "M">>, <<"M", "F">>}}
ThreeArgs == {<<x, y, <<<<"f">>, <<"A">>>>>> : x \in {<<<<"a">>, <<>>>>, <<<<"a">>, <<"M">>>>}, y \in KeyArgs}
Templates_ == {t \in {<<x>> : x \in FirstArgs \union KeyArgs} \union (FirstArgs \X KeyArgs) \union ThreeArgs :
                 Cardinality({i \in DOMAIN t : "M" \in ToSet(t[i][2])}) <= 1}
ArgWords_ == {<<"x">>, <<"\"", "x", " ", "\"">>, <<"1", "2">>, <<"k">>, <<"=">>}
Piece(k, src, name) == [kind |-> k, src |-> src, name |-> name]
CmdPieces_ == {Piece("arg", <<"a", " ">>, <<>>), Piece("arg", <<"\"", ">", " ", "\"">>, <<>>), Piece("in", <<"<", "f", " ">>, <<"f">>),
               Piece("out", <<">", "\"", "g", " ", "\"">>, <<"g", " ">>), Piece("append", <<">", ">", " ", "h", " ">>, <<"h">>)}

v1 == <<walk_vars, pm_vars>>
v2 == <<lk_vars, fm_vars, tt_vars>>
v3 == <<dp_vars, dv_vars, mm_vars>>
v4 == <<pt_vars, ar_vars>>
DosVars_ == <<topic, v1, v2, v3, v4>>

DosInit ==
  /\ topic \in {"walks", "paths", "locks", "files", "terminal", "processes", "variables", "matches", "patterns", "lines"}
  /\ WalkInit /\ PathInit /\ LocksInit /\ FilesInit /\ TerminalInit /\ ProcInit /\ VarsInit /\ MatchInit /\ PatternsInit /\ ArgsInit

DosNext ==
  /\ UNCHANGED topic
  /\ \/ topic = "walks" /\ WalkNext /\ UNCHANGED <<pm_vars, v2, v3, v4>>
     \/ topic = "paths" /\ PathNext /\ UNCHANGED <<walk_vars, v2, v3, v4>>
     \/ topic = "locks" /\ LocksNext /\ UNCHANGED <<v1, fm_vars, tt_vars, v3, v4>>
     \/ topic = "files" /\ FilesNext /\ UNCHANGED <<v1, lk_vars, tt_vars, v3, v4>>
     \/ topic = "terminal" /\ TerminalNext /\ UNCHANGED <<v1, lk_vars, fm_vars, v3, v4>>
     \/ topic = "processes" /\ ProcNext /\ UNCHANGED <<v1, v2, dv_vars, mm_vars, v4>>
     \/ topic = "variables" /\ VarsNext /\ UNCHANGED <<v1, v2, dp_vars, mm_vars, v4>>
     \/ topic = "matches" /\ MatchWalk /\ UNCHANGED <<v1, v2, dp_vars, dv_vars, v4>>
     \/ topic = "patterns" /\ MatchPattern /\ UNCHANGED <<v1, v2, v3, ar_vars>>
     \/ topic = "lines" /\ ArgsNext /\ UNCHANGED <<v1, v2, v3, pt_vars>>

DosSpec == DosInit /\ [][DosNext]_DosVars_
=============================================================================
