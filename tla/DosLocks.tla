------------------------------ MODULE DosLocks ------------------------------
(***************************************************************************)
(* Locks of dos.library: LockManager and Lock (lib/dos), the SlotArray     *)
(* that numbers them, the DosList with the locks of volumes and assigns,   *)
(* and the functions of DosLibrary that hand locks to programs.  A program *)
(* uses the addresses it was given; files come and go under its locks.     *)
(* Amiga paths are <<prefix, name, ...>>, with the prefix Here for a path  *)
(* relative to the current directory; a path of the host is <<volume, ...>>*)
(***************************************************************************)
EXTENDS Integers, Sequences, SequencesExt, FiniteSets, TLC

CONSTANTS
    LockSlots,    \* max_locks
    LockAddrs,    \* addresses (BPTRs) for lock structures
    StartTree,    \* host path -> "dir" or "file"
    DosDevices,     \* volume or assign -> host directories it stands for
    LockPaths,    \* Amiga paths programs use
    MaxNames,     \* bound: names on a host path
    MaxChanges    \* bound: files created, deleted or renamed

Here == "here"
Nil == "nil"       \* NIL:, "*" and CONSOLE:
NoLock == 0
ASSUME LocksAssumption == 0 \notin LockAddrs /\ LockSlots \in Nat

VARIABLES
    lk_tree,      \* host objects
    lk_slots,     \* the SlotArray: slot -> [next] of a free one, [locks] of a LockKey
    lk_first, lk_num_free,
    lk_mem,       \* fl_Key in memory, also of structures that were freed
    lk_entries,   \* the DosList: [name, type, lock, alist]
    lk_cur,       \* pr_CurrentDir
    lk_fib,       \* the program's FileInfoBlock: [key, type]
    lk_held,      \* history: the program's locks and the host path each is for
    lk_devs,      \* locks of the DevProcs the program has
    lk_scan,      \* history: the scan that is under way
    lk_changes,   \* changes of the tree so far
    lk_raised     \* an exception has ended vamos
lk_vars == <<lk_tree, lk_slots, lk_first, lk_num_free, lk_mem, lk_entries, lk_cur, lk_fib, lk_held, lk_devs, lk_scan, lk_changes, lk_raised>>

NoScan == [lock |-> NoLock, snap |-> {}, got |-> <<>>, bad |-> {}]
EndOfScan == <<"none">>

-----------------------------------------------------------------------------
(* SlotArray and LockKeys, as a record so that several locks can be made *)

Mgr == [slots |-> lk_slots, first |-> lk_first, num_free |-> lk_num_free, mem |-> lk_mem]
SetMgr(g) == lk_slots' = g.slots /\ lk_first' = g.first /\ lk_num_free' = g.num_free /\ lk_mem' = g.mem

LiveIn(g) == UNION {DOMAIN g.slots[i].locks : i \in {i \in DOMAIN g.slots : ~g.slots[i].free}}
\* alloc() of the slot array, for a key without locks.
slot_alloc(g) ==
    [g EXCEPT !.num_free = @ - 1,
              !.first = IF g.num_free = 1 THEN LockSlots ELSE g.slots[g.first].next,
              !.slots[g.first] = [free |-> FALSE, next |-> 0, locks |-> <<>>]]

\* Mutant: the key in memory is only written once.
register_lock_Stale(g, a, lock) ==
    LET g1 == slot_alloc(g)
    IN [g1 EXCEPT !.slots[g.first].locks = (a :> [lock EXCEPT !.key = g.first]) @@ @,
                  !.mem = @ @@ (a :> g.first)]
\* _register_lock(): sys_path_to_key_map is never filled, so that every lock
\* takes a slot of its own.
register_lock(g, a, lock) ==
    LET g1 == slot_alloc(g)
    IN [g1 EXCEPT !.slots[g.first].locks = (a :> [lock EXCEPT !.key = g.first]) @@ @,
                  !.mem = (a :> g.first) @@ @]
\* _unregister_lock(): no_locks() is true when locks are left, which a key with
\* one lock never has; the key keeps its slot.
unregister_lock(g, a) ==
    [g EXCEPT !.slots[g.mem[a]].locks = [b \in DOMAIN @ \ {a} |-> @[b]]]
\* get_by_b_addr() reads the key from the structure; VamosInternalError if there
\* is no such lock.
Known(a) == a \in DOMAIN lk_mem /\ ~lk_slots[lk_mem[a]].free /\ a \in DOMAIN lk_slots[lk_mem[a]].locks
get_by_b_addr(a) == lk_slots[lk_mem[a]].locks[a]

-----------------------------------------------------------------------------
(* Paths *)

Places(p) == IF p[1] \in DOMAIN DosDevices THEN [i \in DOMAIN DosDevices[p[1]] |-> DosDevices[p[1]][i] \o Tail(p)] ELSE <<>>
CurPath == IF lk_cur = NoLock THEN <<"sys">> ELSE get_by_b_addr(lk_cur).ami
ami_abs_path(p) == IF p[1] = Here THEN CurPath \o Tail(p) ELSE p
\* searchMulti: the first place that exists, or the first of all.
FirstOf(ps) ==
    LET hit == {i \in DOMAIN ps : ps[i] \in DOMAIN lk_tree}
    IN IF ps = <<>> THEN <<>> ELSE IF hit = {} THEN ps[1] ELSE ps[CHOOSE i \in hit : \A j \in hit : i <= j]
\* Where FileManager looks: a path relative to a multi assign is an error.
Multi(p) == p[1] = Here /\ Len(DosDevices[CurPath[1]]) > 1
HostPath(p) == LET ps == Places(ami_abs_path(p)) IN IF ps = <<>> THEN <<>> ELSE ps[1]

NewLock(p, h) == [ami |-> p, host |-> h, key |-> 0, dirent |-> EndOfScan]
\* create_lock(): the lock's host path, or <<>> when it gets none.
LockTarget(g, p) ==
    LET h == FirstOf(Places(p)) IN IF h \in DOMAIN lk_tree /\ g.num_free > 0 THEN h ELSE <<>>

\* Where the next lock structure goes: an address is used again at once.
Lowest(S) == {a \in S : \A b \in S : a <= b}
Free == Lowest(LockAddrs \ LiveIn(Mgr))

-----------------------------------------------------------------------------
(* Setup: the DosList gets a lock for every directory *)

\* build_list() and add_locks(): volumes first, then the assigns.
Entries == SetToSeq({n \in DOMAIN DosDevices : DosDevices[n] = <<<<n>>>>}) \o SetToSeq({n \in DOMAIN DosDevices : DosDevices[n] # <<<<n>>>>})
EntryDirs == FlattenSeq([i \in DOMAIN Entries |-> [k \in DOMAIN DosDevices[Entries[i]] |-> <<Entries[i], DosDevices[Entries[i]][k]>>]])
add_locks(g) ==
    LET Step(s, e) == IF e[2] \notin DOMAIN StartTree \/ s.g.num_free = 0 THEN s
                      ELSE LET a == CHOOSE a \in Lowest(LockAddrs \ LiveIn(s.g)) : TRUE
                           IN [g |-> register_lock(s.g, a, NewLock(e[2], e[2])), made |-> Append(s.made, <<e[1], a>>)]
    IN FoldLeft(Step, [g |-> g, made |-> <<>>], EntryDirs)

EmptyMgr == [slots |-> [i \in 0..(LockSlots - 1) |-> [free |-> TRUE, next |-> i + 1, locks |-> <<>>]],
             first |-> 0, num_free |-> LockSlots, mem |-> <<>>]
LocksInit ==
    /\ LET s == add_locks(EmptyMgr)
           of(n) == SelectSeq(s.made, LAMBDA x : x[1] = n)
       IN /\ lk_slots = s.g.slots /\ lk_first = s.g.first /\ lk_num_free = s.g.num_free /\ lk_mem = s.g.mem
          /\ lk_entries = [i \in DOMAIN Entries |->
                [name |-> Entries[i], type |-> IF DosDevices[Entries[i]] = <<<<Entries[i]>>>> THEN 2 ELSE 1,
                 locks |-> [k \in DOMAIN of(Entries[i]) |-> of(Entries[i])[k][2]]]]
    /\ lk_tree = StartTree /\ lk_cur = NoLock /\ lk_fib = [key |-> 0, type |-> 0]
    /\ lk_held = <<>> /\ lk_devs = {} /\ lk_scan = NoScan /\ lk_changes = 0 /\ lk_raised = FALSE

-----------------------------------------------------------------------------
(* Functions of DosLibrary *)

Raise == lk_raised' = TRUE /\ UNCHANGED <<lk_changes, lk_tree, lk_slots, lk_first, lk_num_free, lk_mem, lk_entries, lk_cur, lk_fib, lk_held, lk_devs, lk_scan>>
Give(a, h) == lk_held' = (a :> h) @@ lk_held
NotTree == UNCHANGED <<lk_changes, lk_tree, lk_entries, lk_cur, lk_fib, lk_devs, lk_scan, lk_raised>>
\* The program is given a lock on p, or 0.
Grant(p) ==
    LET h == LockTarget(Mgr, p)
    IN IF h = <<>> THEN UNCHANGED <<lk_slots, lk_first, lk_num_free, lk_mem, lk_held>>
       ELSE \E a \in Free : SetMgr(register_lock(Mgr, a, NewLock(p, h))) /\ Give(a, h)

Lock(p) == Grant(ami_abs_path(p)) /\ NotTree
\* DupLock() of a lock whose object is gone, or without a slot, reads the
\* address of None.
DupLock(a) ==
    IF LockTarget(Mgr, get_by_b_addr(a).ami) = <<>> THEN Raise ELSE Grant(get_by_b_addr(a).ami) /\ NotTree
\* ParentDir(): none for "name:", and AmiPathError below a multi assign.
ParentDir(a) ==
    LET p == get_by_b_addr(a).ami
    IN /\ Len(p) > 1
       /\ IF Len(DosDevices[p[1]]) > 1 THEN Raise ELSE Grant(Front(DosDevices[p[1]][1] \o Tail(p))) /\ NotTree
UnLock(a) ==
    /\ a # lk_cur
    /\ SetMgr(unregister_lock(Mgr, a))
    /\ lk_held' = [b \in DOMAIN lk_held \ {a} |-> lk_held[b]]
    /\ lk_scan' = IF lk_scan.lock = a THEN NoScan ELSE lk_scan
    /\ UNCHANGED <<lk_changes, lk_tree, lk_entries, lk_cur, lk_fib, lk_devs, lk_raised>>
CurrentDir(a) ==
    /\ lk_cur' = a
    /\ UNCHANGED <<lk_changes, lk_tree, lk_slots, lk_first, lk_num_free, lk_mem, lk_entries, lk_fib, lk_held, lk_devs, lk_scan, lk_raised>>

TypeOf(h) == IF h \in DOMAIN lk_tree /\ lk_tree[h] = "dir" THEN 2 ELSE -3
\* Examine(): the key and the type are written before the file is looked at.
Examine(a) ==
    /\ lk_fib' = [key |-> get_by_b_addr(a).key, type |-> TypeOf(get_by_b_addr(a).host)]
    /\ lk_scan' = NoScan
    /\ UNCHANGED <<lk_changes, lk_tree, lk_slots, lk_first, lk_num_free, lk_mem, lk_entries, lk_cur, lk_held, lk_devs, lk_raised>>

Names(h) == {Last(c) : c \in {c \in DOMAIN lk_tree : Len(c) = Len(h) + 1 /\ IsPrefix(h, c)}}
\* os.listdir() at the first call, and the index in the FIB after it.
dirent_of(lock) == IF lock.dirent = EndOfScan THEN SetToSeq(Names(lock.host)) ELSE lock.dirent
ExNext(a) ==
    LET lock  == get_by_b_addr(a)
        list  == dirent_of(lock)
        index == IF lock.dirent = EndOfScan THEN 0 ELSE lk_fib.key
        more  == index < Len(list)
        here  == lock.host \o <<list[index + 1]>>
        mine  == IF lock.dirent = EndOfScan THEN [NoScan EXCEPT !.lock = a, !.snap = Names(lock.host)] ELSE lk_scan
    IN /\ lk_slots' = [lk_slots EXCEPT ![lock.key].locks[a].dirent = IF more THEN list ELSE EndOfScan]
       /\ lk_fib' = IF more THEN [key |-> index + 1, type |-> TypeOf(here)] ELSE lk_fib
       /\ lk_scan' = IF mine.lock # a THEN NoScan
                     ELSE IF ~more THEN [mine EXCEPT !.lock = -a]
                     ELSE IF here \in DOMAIN lk_tree THEN [mine EXCEPT !.got = Append(@, Last(here))]
                     ELSE [mine EXCEPT !.bad = @ \cup {Last(here)}]
       /\ UNCHANGED <<lk_changes, lk_tree, lk_first, lk_num_free, lk_mem, lk_entries, lk_cur, lk_held, lk_devs, lk_raised>>

\* ExamineFH() locks the file for the time of the call.
examine_fh_mgr(g, a, p, h) == unregister_lock(register_lock(g, a, NewLock(p, h)), a)
ExamineFH(p) ==
    LET h == LockTarget(Mgr, ami_abs_path(p))
    IN /\ h # <<>>
       /\ \E a \in Free : /\ SetMgr(examine_fh_mgr(Mgr, a, ami_abs_path(p), h))
                          /\ lk_fib' = [key |-> lk_first, type |-> TypeOf(h)]
       /\ lk_scan' = NoScan
       /\ UNCHANGED <<lk_changes, lk_tree, lk_entries, lk_cur, lk_held, lk_devs, lk_raised>>

\* GetDeviceProc() locks the root of the volume or assign; for NIL: and the
\* console it logs a volume that it has not looked up.
GetDeviceProc(p) ==
    LET root == <<ami_abs_path(p)[1]>>
        h    == LockTarget(Mgr, root)
    IN IF p[1] = Nil THEN Raise ELSE
       /\ h # <<>>
       /\ \E a \in Free : SetMgr(register_lock(Mgr, a, NewLock(root, h))) /\ lk_devs' = lk_devs \cup {a}
       /\ UNCHANGED <<lk_changes, lk_tree, lk_entries, lk_cur, lk_fib, lk_held, lk_scan, lk_raised>>
FreeDeviceProc(a) ==
    /\ SetMgr(unregister_lock(Mgr, a))
    /\ lk_devs' = lk_devs \ {a}
    /\ UNCHANGED <<lk_changes, lk_tree, lk_entries, lk_cur, lk_fib, lk_held, lk_scan, lk_raised>>

\* AssignLock(): the DosList is changed, then AssignManager is asked for a
\* function it does not have; a volume's entry is left alone.
AssignLock(n, a) ==
    LET old == {i \in DOMAIN lk_entries : lk_entries[i].name = n}
    IN IF \E i \in old : lk_entries[i].type = 2 THEN UNCHANGED lk_vars ELSE Raise

-----------------------------------------------------------------------------
(* The host's files, by FileManager *)

Change == lk_changes < MaxChanges /\ lk_changes' = lk_changes + 1
OnHost(t) == Change /\ lk_tree' = t /\ UNCHANGED <<lk_slots, lk_first, lk_num_free, lk_mem, lk_entries, lk_cur, lk_fib, lk_held, lk_devs, lk_scan, lk_raised>>
\* delete(): a directory must be empty, a lock on the object is not looked for.
DeleteFile(p) ==
    IF Multi(p) THEN Raise
    ELSE /\ HostPath(p) \in DOMAIN lk_tree /\ Len(HostPath(p)) > 1
         /\ Names(HostPath(p)) = {}
         /\ OnHost([q \in DOMAIN lk_tree \ {HostPath(p)} |-> lk_tree[q]])
\* rename(): os.rename() moves a directory with all below it.
Rename(p, q) ==
    IF Multi(p) \/ Multi(q) THEN Raise
    ELSE LET from == HostPath(p)  to == HostPath(q)
             new(x) == IF IsPrefix(from, x) THEN to \o SubSeq(x, Len(from) + 1, Len(x)) ELSE x
         IN /\ from \in DOMAIN lk_tree /\ Len(from) > 1 /\ to # <<>> /\ to \notin DOMAIN lk_tree
            /\ Front(to) \in DOMAIN lk_tree /\ lk_tree[Front(to)] = "dir" /\ ~IsPrefix(from, to)
            /\ \A x \in DOMAIN lk_tree : Len(new(x)) <= MaxNames
            /\ OnHost([y \in {new(x) : x \in DOMAIN lk_tree} |-> lk_tree[CHOOSE x \in DOMAIN lk_tree : new(x) = y]])
\* CreateDir() makes the directory and returns a lock on what the path leads to.
CreateDir(p) ==
    IF Multi(p) THEN Raise
    ELSE LET h == HostPath(p)
             found == LET ps == Places(ami_abs_path(p))
                          hit == {i \in DOMAIN ps : ps[i] \in DOMAIN lk_tree \cup {h}}
                      IN ps[CHOOSE i \in hit : \A j \in hit : i <= j]
         IN /\ h # <<>> /\ h \notin DOMAIN lk_tree /\ Len(h) <= MaxNames
            /\ Front(h) \in DOMAIN lk_tree /\ lk_tree[Front(h)] = "dir"
            /\ Change
            /\ lk_tree' = (h :> "dir") @@ lk_tree
            /\ IF lk_num_free = 0 THEN UNCHANGED <<lk_slots, lk_first, lk_num_free, lk_mem, lk_held>>
               ELSE \E a \in Free : SetMgr(register_lock(Mgr, a, NewLock(ami_abs_path(p), found))) /\ Give(a, found)
            /\ UNCHANGED <<lk_entries, lk_cur, lk_fib, lk_devs, lk_scan, lk_raised>>

\* free_list(): finish_lib() releases the locks of the entries.
free_list == FoldLeft(LAMBDA g, e : FoldLeft(unregister_lock, g, e.locks), Mgr, lk_entries)
finish_locks ==
    /\ lk_entries # <<>>
    /\ SetMgr(free_list)
    /\ lk_entries' = <<>>
    /\ UNCHANGED <<lk_changes, lk_tree, lk_cur, lk_fib, lk_held, lk_devs, lk_scan, lk_raised>>

LocksNext ==
    /\ ~lk_raised
    /\ lk_entries # <<>>
    /\ \/ \E p \in LockPaths :
            \/ (Free # {} /\ (Lock(p) \/ ExamineFH(p) \/ GetDeviceProc(p) \/ CreateDir(p)))
            \/ DeleteFile(p)
            \/ \E q \in LockPaths : Rename(p, q)
       \/ \E a \in DOMAIN lk_held :
            \/ (Free # {} /\ (DupLock(a) \/ ParentDir(a)))
            \/ UnLock(a) \/ Examine(a) \/ ExNext(a)
            \/ \E n \in DOMAIN DosDevices : AssignLock(n, a)
       \/ \E a \in DOMAIN lk_held \cup {NoLock} : CurrentDir(a)
       \/ \E a \in lk_devs : FreeDeviceProc(a)
       \/ finish_locks

-----------------------------------------------------------------------------
(* Properties *)

EntryLocks == UNION {ToSet(lk_entries[i].locks) : i \in DOMAIN lk_entries}

\* Every lock a program holds is found by its address, by way of the key in
\* memory that an earlier lock at that address may have left, and is the lock
\* on the object it was made for.
LocksResolve ==
    ~lk_raised =>
      \A a \in DOMAIN lk_held : Known(a) /\ get_by_b_addr(a).host = lk_held[a]

\* The locks there are, are those of the program, of its DevProcs and of the
\* DosList, and no two of them are the same: a lock is neither lost by a
\* function that took it for itself nor released under its owner.
NoLeakedLocks ==
    ~lk_raised =>
      /\ LiveIn(Mgr) = DOMAIN lk_held \cup lk_devs \cup EntryLocks
      /\ DOMAIN lk_held \cap (lk_devs \cup EntryLocks) = {} /\ lk_devs \cap EntryLocks = {}

\* The slots are handed out one after the other and never come back: the free
\* ones are the last lk_num_free of the array, a lock is alone in its slot, and the
\* slots of released locks stay taken and empty.  No key is that of two locks, so
\* that a key left in memory never leads to another lock; but LockSlots locks are
\* all that a session can make.
SlotsSound ==
    /\ \A i \in DOMAIN lk_slots : lk_slots[i].free = (i >= LockSlots - lk_num_free)
    /\ lk_num_free > 0 => lk_first = LockSlots - lk_num_free
    /\ \A i \in DOMAIN lk_slots : Cardinality(DOMAIN lk_slots[i].locks) <= IF lk_slots[i].free THEN 0 ELSE 1
    /\ \A a \in DOMAIN lk_mem : ~lk_slots[lk_mem[a]].free

\* A scan of a directory that is not disturbed by another Examine() gives no
\* name twice, and when it ends it has given every name that was there at its
\* start, or an error for one that was deleted meanwhile.
ScanComplete ==
    /\ IsInjective(lk_scan.got)
    /\ lk_scan.lock < 0 => ToSet(lk_scan.got) \cup lk_scan.bad = lk_scan.snap

\* A lock stands for the object it was made for, under a key that no other lock ever
\* has, until its owner releases it, while files come and go below it (LockManager).
LocksRight == SlotsSound /\ LocksResolve /\ NoLeakedLocks /\ ScanComplete
=============================================================================
