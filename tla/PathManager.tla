---------------------------- MODULE PathManager ----------------------------
(***************************************************************************)
(* Volumes and assigns, amitools/vamos/path: the volumes map names to host *)
(* directories (volume.py), the assigns map names to Amiga paths, which    *)
(* may start with other assigns (assign.py), and the PathManager (mgr.py,  *)
(* vamos.py, env.py) sets both up and translates paths both ways.          *)
(***************************************************************************)
EXTENDS Integers, SequencesExt, FiniteSets, TLC

(***************************************************************************)
(* Amiga paths, amitools/vamos/path/amipath.py.  A path string is the      *)
(* sequence of its separators ":" and "/" and of the names between them:   *)
(* "sys:c/dir" is <<"sys", ":", "c", "/", "dir">>.  The walker below takes *)
(* paths apart and puts them together again as the rest of vamos does.     *)
(***************************************************************************)
CONSTANTS
    PathTokens,      \* ":" and "/" and some names
    MaxTokens        \* longest path that is tried

NoPath == <<"none">>         \* None
PathError == <<"error">>     \* AmiPathError is raised

Find(p, t) == IF \E i \in DOMAIN p : p[i] = t THEN CHOOSE i \in DOMAIN p : p[i] = t /\ \A j \in 1..(i - 1) : p[j] # t ELSE 0
RFind(p, t) == IF \E i \in DOMAIN p : p[i] = t THEN CHOOSE i \in DOMAIN p : p[i] = t /\ \A j \in DOMAIN p : j > i => p[j] # t ELSE 0
From(p, n) == SubSeq(p, n, Len(p))

is_cwd(p) == p = <<>>
is_local(p) == Find(p, ":") <= 1
is_absolute(p) == Find(p, ":") > 1
is_parent_local(p) == p # <<>> /\ p[1] = "/"
is_prefix_local(p) == p # <<>> /\ p[1] = ":"
ends_with_name(p) == p # <<>> /\ Last(p) \notin {"/", ":"}

prefix(p) == IF is_local(p) THEN NoPath ELSE SubSeq(p, 1, Find(p, ":") - 1)
\* postfix() with skip_trailing.
postfix(p, skip_leading) ==
    LET Cut(rest) == IF Len(rest) > 1 /\ Last(rest) = "/" THEN Front(rest) ELSE rest
        Skip(cut) == IF skip_leading /\ cut # <<>> /\ cut[1] \in {"/", ":"} THEN Tail(cut) ELSE cut
    IN Skip(Cut(IF is_absolute(p) THEN From(p, Find(p, ":") + 1) ELSE p))
rebuild(pre, post) == IF pre = NoPath THEN post ELSE pre \o <<":">> \o post

is_syntax_valid(p) ==
    \/ p \in {<<>>, <<":">>, <<"/">>}
    \/ LET colon == Find(p, ":")
           slash == Find(p, "/")
       IN /\ \A i \in 1..(Len(p) - 1) : ~(p[i] = "/" /\ p[i + 1] = "/")
          /\ ~(slash > 0 /\ slash < colon)
          /\ ~(colon > 0 /\ slash = colon + 1)
          /\ \A i \in DOMAIN p : p[i] = ":" => i = colon

parent(p) ==
    LET Up(q, last, colon) ==
          IF q \in {<<"/">>, <<":">>} \/ (last = 0 /\ colon # 1 /\ colon = Len(q)) THEN NoPath
          ELSE rebuild(prefix(p),
                 IF last = 0 THEN (IF colon = 1 THEN <<":">> ELSE <<>>)
                 ELSE IF last = 1 THEN <<"/">> ELSE SubSeq(q, 1, last - 1))
        Behind(q) == Up(q, RFind(q, "/"), Find(q, ":"))
    IN Behind(postfix(p, FALSE))

\* "/".join() of names, and split("/").
JoinNames(ns) == IF ns = <<>> THEN <<>> ELSE [i \in 1..(2 * Len(ns) - 1) |-> IF i % 2 = 1 THEN ns[(i + 1) \div 2] ELSE "/"]
SplitNames(p) == SelectSeq(p, LAMBDA t : t # "/")

\* names() of a path of valid syntax, whose names are single tokens.
names(p, with_special_name) ==
    LET Split(q) == IF q # <<>> /\ q[1] \in {"/", ":"} THEN <<q[1]>> \o SplitNames(Tail(q)) ELSE SplitNames(q)
    IN Split(postfix(p, ~with_special_name))
filename(p) == IF names(p, FALSE) = <<>> THEN NoPath ELSE <<Last(names(p, FALSE))>>
dirname(p) ==
    LET Dir(ns) ==
          IF ns = <<>> THEN NoPath
          ELSE IF ns[1] \in {":", "/"} THEN <<ns[1]>> \o JoinNames(SubSeq(ns, 2, Len(ns) - 1))
          ELSE IF Len(ns) > 1 THEN JoinNames(Front(ns)) ELSE NoPath
    IN Dir(names(p, TRUE))
absdirname(p) ==
    IF prefix(p) = NoPath THEN dirname(p)
    ELSE prefix(p) \o <<":">> \o (IF dirname(p) = NoPath THEN <<>> ELSE dirname(p))

join(p, o) ==
    LET Above(my, oo) == IF my = <<>> THEN oo
                         ELSE IF my = <<":">> THEN <<":">> \o oo
                         ELSE IF oo = <<>> THEN my ELSE my \o <<"/">> \o oo
        Below(my, oo) == IF my = <<>> THEN oo ELSE IF my \in {<<"/">>, <<":">>} THEN my \o oo ELSE my \o <<"/">> \o oo
    IN IF is_cwd(o) THEN p
       ELSE IF is_absolute(o) THEN o
       ELSE IF is_parent_local(o) THEN
          IF is_parent_local(p) \/ parent(p) = NoPath THEN PathError
          ELSE rebuild(prefix(p), Above(postfix(parent(p), FALSE), postfix(o, TRUE)))
       ELSE IF is_prefix_local(o) THEN rebuild(prefix(p), postfix(o, prefix(p) # NoPath))
       ELSE rebuild(prefix(p), Below(postfix(p, FALSE), postfix(o, FALSE)))

-----------------------------------------------------------------------------
(* A walk: from one path to the next *)

VARIABLES walk_at, walk_dir   \* the joined path, and the directory it stands for
walk_vars == <<walk_at, walk_dir>>

ValidPaths == {p \in UNION {[1..n -> PathTokens] : n \in 0..MaxTokens} :
                  /\ is_syntax_valid(p)
                  /\ \A i \in 1..(Len(p) - 1) : p[i] \in {":", "/"} \/ p[i + 1] \in {":", "/"}}

WalkInit == walk_at = NoPath /\ walk_dir = <<>>

\* A path of its own, or the path the walk has reached joined with one.
WalkFrom(p) ==
    /\ walk_at = NoPath
    /\ is_absolute(p)
    /\ walk_at' = p
    /\ walk_dir' = <<prefix(p)>> \o names(p, FALSE)
WalkTo(o) ==
    /\ walk_at \notin {NoPath, PathError}
    /\ Len(walk_at) + Len(o) <= 2 * MaxTokens
    /\ walk_at' = join(walk_at, o)
    /\ walk_dir' =
         LET ns == SplitNames(SelectSeq(o, LAMBDA t : t # ":"))
         IN IF is_absolute(o) THEN <<prefix(o)>> \o names(o, FALSE)
            ELSE IF is_prefix_local(o) THEN <<walk_dir[1]>> \o ns
            ELSE IF is_parent_local(o) THEN (IF Len(walk_dir) = 1 THEN <<>> ELSE Front(walk_dir) \o ns)
            ELSE walk_dir \o ns

WalkNext == \E p \in ValidPaths : WalkFrom(p) \/ WalkTo(p)

\* However a walk joins relative, parent and prefix local paths, the path it
\* has reached is a valid absolute one that names the directory the steps lead
\* to, and a step out of the root, and no other, is an error.
WalkArrives ==
    walk_at # NoPath =>
      IF walk_dir = <<>> THEN walk_at = PathError
      ELSE /\ walk_at # PathError
           /\ is_syntax_valid(walk_at)
           /\ <<prefix(walk_at)>> \o names(walk_at, FALSE) = walk_dir

\* A path is put together again from the directory and the file name it is
\* split into, as vamos does to look up a file next to another one: the path
\* reached and, at the start of a walk, any path there is.
SplitJoins ==
    walk_dir # <<>> =>
      \A p \in {walk_at} \cup (IF Len(walk_at) = 2 THEN ValidPaths ELSE {}) : filename(p) # NoPath =>
        \A d \in {absdirname(p)} :
          join(IF d = NoPath THEN <<>> ELSE d, filename(p)) = (IF ends_with_name(p) THEN p ELSE Front(p))

\* parent() goes up one directory of the walk, until the root has none.
ParentIsUp ==
    walk_dir # <<>> =>
      IF Len(walk_dir) = 1 THEN parent(walk_at) = NoPath
      ELSE <<prefix(parent(walk_at))>> \o names(parent(walk_at), FALSE) = Front(walk_dir)

-----------------------------------------------------------------------------
(* Volumes and assigns.                                                    *)
CONSTANTS
    VolSpecs,     \* [name, src, cfg]: volumes of the configuration
    AssignSpecs,  \* [name, list, append, create]: assigns of the configuration
    HostTree,     \* what the host has: host path -> "dir" or "file"
    HostCwd,      \* vamos is started here
    ListOrder,    \* all names, in the order of os.listdir()
    Low,          \* name -> lower case
    CharsOf,      \* name -> its characters
    BaseDir,      \* vols_base_dir
    MaxEdits      \* bound: specs and later changes

VARIABLES
    pm_phase,     \* "volumes", "assigns", "ready", "failed", "raised", "down"
    pm_vols,      \* volumes
    pm_assigns,   \* assigns
    pm_host,      \* host objects
    pm_cwd,       \* cwd of the default env
    pm_edits,
    pm_cut        \* something was appended or deleted after setup()
pm_vars == <<pm_phase, pm_vols, pm_assigns, pm_host, pm_cwd, pm_edits, pm_cut>>

Lower(n) == IF n \in DOMAIN Low THEN Low[n] ELSE n
Named(s, n) == {i \in DOMAIN s : Lower(s[i].name) = Lower(n)}
is_volume(vs, n) == Named(vs, n) # {}
is_assign(as, n) == Named(as, n) # {}
Get(s, n) == s[CHOOSE i \in Named(s, n) : TRUE]
Without(s, n) == SelectSeq(s, LAMBDA x : Lower(x.name) # Lower(n))

\* os.makedirs(): all missing directories, OSError when a file is in the way.
CanMake(h, d) == \A n \in 0..Len(d) : SubSeq(d, 1, n) \in DOMAIN h => h[SubSeq(d, 1, n)] = "dir"
MakeDirs(h, d) == [p \in DOMAIN h \cup {SubSeq(d, 1, n) : n \in 0..Len(d)} |-> IF p \in DOMAIN h THEN h[p] ELSE "dir"]
isdir(h, d) == d \in DOMAIN h /\ h[d] = "dir"
rmtree(h, d) == IF isdir(h, d) THEN [p \in {p \in DOMAIN h : ~IsPrefix(d, p)} |-> h[p]] ELSE h

-----------------------------------------------------------------------------
(* Assigns *)

concat_assign(a, rest) ==
    IF rest = <<>> THEN a ELSE IF Last(a) \in {":", "/"} THEN a \o rest ELSE a \o <<"/">> \o rest

Loop == [paths |-> <<>>, multi |-> FALSE, loop |-> TRUE]
Plain(p) == [paths |-> <<p>>, multi |-> FALSE, loop |-> FALSE]
\* resolve_assigns(): fuel counts the assigns that are left, one more is a loop
\* (RecursionError).
RECURSIVE resolve_assigns(_, _, _)
resolve_assigns(as, p, fuel) ==
    LET Together(list, res) ==
          IF \E i \in DOMAIN res : res[i].loop THEN Loop
          ELSE [paths |-> FlattenSeq([i \in DOMAIN res |-> res[i].paths]),
                multi |-> Len(list) > 1 \/ \E i \in DOMAIN res : res[i].multi, loop |-> FALSE]
        Each(list, rest) == Together(list, [i \in DOMAIN list |-> resolve_assigns(as, concat_assign(list[i], rest), fuel - 1)])
    IN IF Find(p, ":") <= 1 \/ ~is_assign(as, p[1]) THEN Plain(p)
       ELSE IF fuel = 0 THEN Loop ELSE Each(Get(as, p[1]).list, IF Last(p) = ":" THEN <<>> ELSE From(p, 3))
Resolved(as, p) == resolve_assigns(as, p, Len(as))

\* Assign.setup(): every path it stands for is on a volume, and is made there
\* when the assign says so; "vol:" alone cannot be made (TypeError).
assign_setup(vs, as, h, a) ==
    LET SetUp(s, d) == IF CanMake(s.host, d) THEN [s EXCEPT !.host = MakeDirs(@, d)] ELSE [s EXCEPT !.st = "failed"]
        Step(s, p) ==
          IF s.st # "ok" THEN s
          ELSE IF Find(p, ":") <= 1 \/ ~is_volume(vs, p[1]) THEN [s EXCEPT !.st = "failed"]
          ELSE IF ~a.create THEN s
          ELSE IF Last(p) = ":" THEN [s EXCEPT !.st = "raised"]
          ELSE SetUp(s, Get(vs, p[1]).dir \o SplitNames(From(p, 3)))
        All(res) == IF \E i \in DOMAIN res : res[i].loop THEN [st |-> "raised", host |-> h]
                    ELSE FoldLeft(Step, [st |-> "ok", host |-> h], FlattenSeq([i \in DOMAIN res |-> res[i].paths]))
    IN All([i \in DOMAIN a.list |-> Resolved(as, a.list[i])])

\* add_assign(): the assigns after it, and how it ended.  An append changes the
\* assign before anything is checked.
add_assign(vs, as, h, spec, is_setup) ==
    LET appends == spec.append /\ is_assign(as, spec.name)
        Added(as1, new, set) ==
          IF spec.list = <<>> \/ is_volume(vs, spec.name) \/ (is_setup /\ is_assign(as1, spec.name)) THEN [st |-> "failed", assigns |-> as1, host |-> h]
          ELSE IF is_setup /\ set.st # "ok" THEN [st |-> set.st, assigns |-> as1, host |-> set.host]
          ELSE [st |-> "ok", assigns |-> Append(Without(as1, spec.name), new), host |-> IF is_setup THEN set.host ELSE h]
        Checked(as1, new) == Added(as1, new, assign_setup(vs, as1, h, new))
        Extended == [i \in DOMAIN as |-> IF i \in Named(as, spec.name) THEN [as[i] EXCEPT !.list = @ \o spec.list] ELSE as[i]]
    IN Checked(IF appends THEN Extended ELSE as,
               IF appends THEN Get(Extended, spec.name) ELSE [name |-> spec.name, list |-> spec.list, create |-> spec.create])

-----------------------------------------------------------------------------
(* Volumes *)

volume_setup(h, v) ==
    IF "temp" \in v.cfg THEN
       IF v.dir \in DOMAIN h THEN [st |-> IF isdir(h, v.dir) THEN "ok" ELSE "failed", host |-> h]
       ELSE IF CanMake(h, v.dir) THEN [st |-> "ok", host |-> MakeDirs(h, v.dir)] ELSE [st |-> "failed", host |-> h]
    ELSE IF isdir(h, v.dir) THEN [st |-> "ok", host |-> h]
    ELSE IF "create" \in v.cfg /\ CanMake(h, v.dir) THEN [st |-> "ok", host |-> MakeDirs(h, v.dir)]
    ELSE [st |-> "failed", host |-> h]
volume_shutdown(h, v) == IF "temp" \in v.cfg THEN rmtree(h, v.dir) ELSE h

\* add_volume(): a volume without a source lies in the base directory, which is
\* made at once.
add_volume(vs, h, spec, is_setup) ==
    LET local == spec.src = <<>>
        h1    == IF local /\ CanMake(h, BaseDir) THEN MakeDirs(h, BaseDir) ELSE h
        v     == [name |-> spec.name, cfg |-> spec.cfg, dir |-> IF local THEN BaseDir \o <<spec.name>> ELSE spec.src[1]]
        set   == volume_setup(h1, v)
    IN IF (local /\ ~CanMake(h, BaseDir)) \/ Len(spec.src) > 1 \/ (is_setup /\ (is_volume(vs, v.name) \/ set.st # "ok"))
       THEN [st |-> "failed", vols |-> vs, host |-> h1]
       ELSE [st |-> "ok", vols |-> Append(Without(vs, v.name), v), host |-> IF is_setup THEN set.host ELSE h1]

\* _follow_path_no_case(): the names on the host, whatever their case.
RECURSIVE follow_path_no_case(_, _, _)
follow_path_no_case(h, base, ns) ==
    IF ns = <<>> THEN base
    ELSE IF ~isdir(h, base) THEN base \o ns
    ELSE LET files == SelectSeq(ListOrder, LAMBDA n : base \o <<n>> \in DOMAIN h /\ Lower(n) = Lower(ns[1]))
         IN IF files = <<>> THEN base \o ns ELSE follow_path_no_case(h, base \o <<files[1]>>, Tail(ns))
NoSys == <<"no sys path">>
Raised == <<"raised">>
vol_ami_to_sys(vs, h, p) ==
    IF Find(p, ":") <= 1 \/ ~is_volume(vs, p[1]) \/ (Len(p) > 2 /\ p[3] = "/") THEN NoSys
    ELSE follow_path_no_case(h, Get(vs, p[1]).dir, SplitNames(From(p, 3)))

\* sys_to_ami_path(): the volume that leaves the shortest remainder; the common
\* prefix is one of characters, so that /ab passes for a path below /a.
SysString(d) == IF d = <<>> THEN <<"/">> ELSE FlattenSeq([i \in DOMAIN d |-> <<"/">> \o CharsOf[d[i]]])
Remainder(v, d) ==
    LET r == From(SysString(d), Len(SysString(v.dir)) + 1)
    IN IF r # <<>> /\ r[1] = "/" THEN Tail(r) ELSE r
sys_to_ami_path(vs, d) ==
    LET fits == {i \in DOMAIN vs : IsPrefix(SysString(vs[i].dir), SysString(d))}
        n(i) == Len(Remainder(vs[i], d))
        best == CHOOSE i \in fits : \A j \in fits : n(i) < n(j) \/ (n(i) = n(j) /\ i <= j)
        v    == vs[best]
    IN IF fits = {} THEN NoPath
       ELSE <<v.name, ":">> \o (IF IsPrefix(v.dir, d) THEN JoinNames(From(d, Len(v.dir) + 1)) ELSE <<"?">>)

-----------------------------------------------------------------------------
(* Translation, with the tables as they are *)

is_prefix_valid(p) == is_volume(pm_vols, p[1]) \/ is_assign(pm_assigns, p[1])
abspath(cwd, p) == IF is_absolute(p) THEN p ELSE join(cwd, p)
Joined(p) == IF p = PathError THEN Raised ELSE <<p>>
Multiple(r) == IF r.loop THEN Raised ELSE r.paths
\* volpaths(): a local path is joined with the current directory and left so.
volpaths(cwd, p) ==
    CASE is_local(p) -> Joined(abspath(cwd, p))
      [] ~is_local(p) /\ is_volume(pm_vols, p[1]) -> <<p>>
      [] ~is_local(p) /\ ~is_volume(pm_vols, p[1]) /\ is_assign(pm_assigns, p[1]) -> Multiple(Resolved(pm_assigns, p))
      [] OTHER -> <<>>
Single(r) == IF r.loop \/ r.multi THEN PathError ELSE r.paths[1]
\* volpath() of an absolute path: a multi assign raises AmiPathError.
volpath(p) ==
    IF is_volume(pm_vols, p[1]) THEN p
    ELSE IF ~is_assign(pm_assigns, p[1]) THEN NoPath ELSE Single(Resolved(pm_assigns, p))
SysOf(p) == CASE p = PathError -> Raised [] p = NoPath -> NoSys [] OTHER -> vol_ami_to_sys(pm_vols, pm_host, p)
to_sys_path(p) == SysOf(volpath(p))
\* Mutant: the first path, whether it exists or not.
FirstThere_Always(sys) == sys[1]
\* With searchMulti: the first path that exists, or the first.
FirstThere(sys) ==
    LET hit == {i \in DOMAIN sys : sys[i] \in DOMAIN pm_host}
    IN IF \E i \in DOMAIN sys : sys[i] = Raised /\ \A j \in hit : i < j THEN Raised
       ELSE IF hit = {} THEN sys[1] ELSE sys[Min(hit)]
ami_to_sys_path(cwd, p) ==
    LET Search(ps) == CASE ps = Raised -> Raised [] ps = <<>> -> NoSys [] OTHER -> FirstThere([i \in DOMAIN ps |-> to_sys_path(ps[i])])
    IN IF is_prefix_valid(cwd) THEN Search(volpaths(cwd, p)) ELSE Raised

\* is_multi_assign_path(): follows single assigns to a multi assign.
RECURSIVE is_multi_assign_path(_, _)
is_multi_assign_path(p, fuel) ==
    /\ fuel > 0
    /\ is_assign(pm_assigns, p[1])
    /\ LET list == Get(pm_assigns, p[1]).list IN Len(list) > 1 \/ is_multi_assign_path(list[1], fuel - 1)

-----------------------------------------------------------------------------
(* Configuration, setup, use and shutdown *)

PathInit ==
    /\ pm_phase = "volumes" /\ pm_vols = <<>> /\ pm_assigns = <<>>
    /\ pm_host = HostTree /\ pm_cwd = NoPath /\ pm_edits = 0 /\ pm_cut = FALSE

Edit == pm_edits < MaxEdits /\ pm_edits' = pm_edits + 1

\* parse_config(): the volumes first, then the assigns.
ConfigVolume(spec) ==
    /\ pm_phase = "volumes" /\ Edit
    /\ \E r \in {add_volume(pm_vols, pm_host, spec, FALSE)} :
          /\ pm_vols' = r.vols /\ pm_host' = r.host
          /\ pm_phase' = IF r.st = "ok" THEN "volumes" ELSE r.st
    /\ UNCHANGED <<pm_assigns, pm_cwd, pm_cut>>
ConfigAssign(spec) ==
    /\ pm_phase \in {"volumes", "assigns"} /\ Edit
    /\ \E r \in {add_assign(pm_vols, pm_assigns, pm_host, spec, FALSE)} :
          /\ pm_assigns' = r.assigns
          /\ pm_phase' = IF r.st = "ok" THEN "assigns" ELSE r.st
    /\ UNCHANGED <<pm_vols, pm_host, pm_cwd, pm_cut>>

\* _add_auto_volumes() and _add_auto_assigns(), with the default lists cut to
\* root, ram, c and t.
AutoVolumes(vs, as, h) ==
    LET sys  == IF vs = <<>> THEN add_volume(vs, h, [name |-> "system", src |-> <<>>, cfg |-> {"create"}], FALSE)
                ELSE [st |-> "ok", vols |-> vs, host |-> h]
        Auto(s, spec) == IF is_assign(as, spec.name) \/ is_volume(s.vols, spec.name) THEN s
                         ELSE add_volume(s.vols, s.host, spec, FALSE)
    IN FoldLeft(Auto, sys, <<[name |-> "root", src |-> <<<<>>>>, cfg |-> {}], [name |-> "ram", src |-> <<>>, cfg |-> {"temp"}]>>)
AutoSystem(vs, as, h) ==
    IF is_assign(as, "sys") \/ is_volume(vs, "sys") \/ is_assign(as, "system") \/ is_volume(vs, "system")
    THEN [st |-> "ok", vols |-> vs, host |-> h]
    ELSE add_volume(vs, h, [name |-> "system", src |-> <<>>, cfg |-> {"create"}], FALSE)
AutoAssigns(vs, as) ==
    LET Auto(s, spec) == IF is_assign(s, spec.name) \/ is_volume(vs, spec.name) THEN s ELSE Append(s, spec)
    IN FoldLeft(Auto, as, <<[name |-> "sys", list |-> <<<<"system", ":">>>>, create |-> FALSE],
                            [name |-> "c", list |-> <<<<"sys", ":", "c">>>>, create |-> TRUE],
                            [name |-> "t", list |-> <<<<"ram", ":", "t">>>>, create |-> TRUE]>>)

\* setup(): the automatic ones, all volumes, all assigns, and the current
\* directory, which is the host's.
PathSetup ==
    /\ pm_phase \in {"volumes", "assigns"}
    /\ \E av \in {AutoVolumes(pm_vols, pm_assigns, pm_host)} : \E sy \in {AutoSystem(av.vols, pm_assigns, av.host)} :
       \E as \in {AutoAssigns(sy.vols, pm_assigns)}, cwd \in {sys_to_ami_path(sy.vols, HostCwd)} :
         LET Vol(s, v) == IF s.st # "ok" THEN s ELSE volume_setup(s.host, v)
             Ass(s, a) == IF s.st # "ok" THEN s ELSE assign_setup(sy.vols, as, s.host, a)
         IN \E st \in {FoldLeft(Ass, FoldLeft(Vol, [st |-> "ok", host |-> sy.host], sy.vols), as)} :
              /\ pm_vols' = sy.vols /\ pm_assigns' = as /\ pm_host' = st.host
              /\ pm_phase' = IF st.st # "ok" THEN st.st ELSE IF cwd = NoPath THEN "raised" ELSE "ready"
              /\ pm_cwd' = IF st.st = "ok" THEN cwd ELSE NoPath
    /\ UNCHANGED <<pm_edits, pm_cut>>

AddAssign(spec) ==
    /\ pm_phase = "ready" /\ Edit
    /\ \E r \in {add_assign(pm_vols, pm_assigns, pm_host, spec, TRUE)} :
          /\ pm_assigns' = r.assigns /\ pm_host' = r.host
          /\ pm_phase' = IF r.st = "raised" THEN "raised" ELSE "ready"
          /\ pm_cut' = (pm_cut \/ (r.st # "ok" /\ r.assigns # pm_assigns))
    /\ UNCHANGED <<pm_vols, pm_cwd>>
AddVolume(spec) ==
    /\ pm_phase = "ready" /\ Edit
    /\ \E r \in {add_volume(pm_vols, pm_host, spec, TRUE)} :
          /\ pm_vols' = r.vols /\ pm_host' = r.host
          /\ pm_cut' = (pm_cut \/ (r.st = "ok" /\ is_assign(pm_assigns, spec.name)))
    /\ UNCHANGED <<pm_phase, pm_assigns, pm_cwd>>
del_assign(n) ==
    /\ pm_phase = "ready" /\ is_assign(pm_assigns, n) /\ Edit
    /\ pm_assigns' = Without(pm_assigns, n) /\ pm_cut' = TRUE
    /\ UNCHANGED <<pm_phase, pm_vols, pm_host, pm_cwd>>
del_volume(n) ==
    /\ pm_phase = "ready" /\ is_volume(pm_vols, n) /\ Edit
    /\ pm_host' = volume_shutdown(pm_host, Get(pm_vols, n))
    /\ pm_vols' = Without(pm_vols, n) /\ pm_cut' = TRUE
    /\ UNCHANGED <<pm_phase, pm_assigns, pm_cwd>>
\* main() shuts the paths down however it ends.
path_shutdown ==
    /\ pm_phase \in {"ready", "failed", "raised"} /\ pm_phase' = "down"
    /\ pm_host' = FoldLeft(volume_shutdown, pm_host, pm_vols)
    /\ UNCHANGED <<pm_vols, pm_assigns, pm_cwd, pm_edits, pm_cut>>

PathNext ==
    \/ \E s \in VolSpecs : ConfigVolume(s) \/ AddVolume(s)
    \/ \E s \in AssignSpecs : ConfigAssign(s) \/ AddAssign(s)
    \/ PathSetup
    \/ \E i \in DOMAIN pm_assigns : del_assign(pm_assigns[i].name)
    \/ \E i \in DOMAIN pm_vols : del_volume(pm_vols[i].name)
    \/ path_shutdown

-----------------------------------------------------------------------------
(* Properties *)

\* After setup(), and until an assign or a volume is deleted, replaced by a
\* volume or appended to, every assign leads without a loop to paths on volumes
\* (Assign.setup()), and the directories that it was to make are there.
AssignsLead ==
    pm_phase = "ready" /\ ~pm_cut =>
      \A i \in DOMAIN pm_assigns : \A k \in DOMAIN pm_assigns[i].list :
        \A r \in {Resolved(pm_assigns, pm_assigns[i].list[k])} :
           /\ ~r.loop
           /\ \A j \in DOMAIN r.paths :
                /\ is_absolute(r.paths[j]) /\ is_volume(pm_vols, r.paths[j][1])
                /\ pm_assigns[i].create => isdir(pm_host, vol_ami_to_sys(pm_vols, pm_host, r.paths[j]))

\* A name is not both a volume, which volpaths() would take, and an assign,
\* which resolve_assigns() would take.
NamesApart ==
    pm_phase = "ready" /\ ~pm_cut =>
      \A i \in DOMAIN pm_assigns : ~is_volume(pm_vols, pm_assigns[i].name)

\* Looking up a name in a directory (Open(), DeleteFile()) and looking up the
\* path joined first (Lock()) find the same host path, but for a directory
\* that was reached by a multi assign, where the first raises AmiPathError.
LookupsAgree ==
    pm_phase = "ready" /\ ~pm_cut =>
      \A cwd \in {<<pm_assigns[i].name, ":">> : i \in DOMAIN pm_assigns}
                   \cup {<<pm_vols[i].name, ":">> : i \in DOMAIN pm_vols} :
        \A n \in ToSet(ListOrder) :
          ami_to_sys_path(cwd, <<n>>) =
             IF is_multi_assign_path(cwd, Len(pm_assigns)) THEN Raised ELSE ami_to_sys_path(cwd, join(cwd, <<n>>))

\* A name on a path of several directories is found wherever it exists: what a
\* multi assign hides is hidden by an earlier directory that has the name.
MultiFinds ==
    LET Finds(found, there) ==
          \A k \in DOMAIN there : there[k] \in DOMAIN pm_host => found \in DOMAIN pm_host /\ \E j \in 1..k : found = there[j]
    IN pm_phase = "ready" /\ ~pm_cut =>
         \A i \in DOMAIN pm_assigns : \A n \in ToSet(ListOrder) : \A p \in {<<pm_assigns[i].name, ":", n>>} : \A ps \in {volpaths(pm_cwd, p)} :
           Finds(ami_to_sys_path(pm_cwd, p), [k \in DOMAIN ps |-> to_sys_path(ps[k])])

SameNoCase(p, q) == Len(p) = Len(q) /\ \A i \in DOMAIN p : Lower(p[i]) = Lower(q[i])
\* A host path on a volume, mapped to an Amiga path (the current directory at
\* the start) and back, is the same object but for the case of its names,
\* unless some volume's directory is a prefix of one of its names only.
MapsBack ==
    pm_phase = "ready" =>
      \A d \in DOMAIN pm_host :
        LET p == sys_to_ami_path(pm_vols, d)
            odd == \E i \in DOMAIN pm_vols : IsPrefix(SysString(pm_vols[i].dir), SysString(d)) /\ ~IsPrefix(pm_vols[i].dir, d)
        IN ~odd /\ (\E i \in DOMAIN pm_vols : IsPrefix(pm_vols[i].dir, d)) =>
             p # NoPath /\ LET q == vol_ami_to_sys(pm_vols, pm_host, p) IN SameNoCase(q, d) /\ q \in DOMAIN pm_host

\* shutdown() removes the temporary volumes with all that is on them and
\* nothing else of what the host had.
ShutdownTidy ==
    pm_phase = "down" =>
      LET temps == {pm_vols[i].dir : i \in {i \in DOMAIN pm_vols : "temp" \in pm_vols[i].cfg}}
                 \ {d \in DOMAIN HostTree : HostTree[d] = "file"}
      IN \A d \in DOMAIN HostTree \cup temps :
           (d \in DOMAIN pm_host) <=> ~\E t \in temps : IsPrefix(t, d)

\* A path leads to the host object its volumes and assigns name and back, whatever way
\* it is written, taken apart or set up (AmiPath and PathManager of the code).
PathsLead ==
    /\ WalkArrives /\ SplitJoins /\ ParentIsUp /\ AssignsLead /\ NamesApart /\ LookupsAgree
    /\ MultiFinds /\ MapsBack /\ ShutdownTidy
=============================================================================
