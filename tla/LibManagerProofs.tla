--------------------------- MODULE LibManagerProofs ---------------------------
(***************************************************************************)
(* Proofs about the library manager, for any tasks, names, create modes    *)
(* and libraries, where slices do not end inside library code (with slices *)
(* that do, NoAssertion does not hold).                                    *)
(***************************************************************************)
EXTENDS LibManager, ListLemmas, FiniteSetTheorems

(***************************************************************************)
(* The inductive invariant: the properties for the states in which a task  *)
(* is inside the manager too.  At most one is.  Between LibOpen() and      *)
(* LibClose() the library's own count is one ahead of the programs'        *)
(* opens; from add_base_addr() to del_base_addr() base_addrs is.           *)
(***************************************************************************)
JobType == [addr : {0} \cup Addrs, loaded : BOOLEAN, ok : BOOLEAN, seglist : BOOLEAN]

\* a task is at one of the places P with library a
At(a, P) == \E t \in Tasks : pc[t] \in P /\ job[t].addr = a

Alone == \A t, u \in Tasks : t # u => pc[t] = "idle" \/ pc[u] = "idle"

\* the addresses that no library has had yet
Fresh == \A a \in Addrs : a >= next_addr =>
    /\ a \notin DOMAIN addr_vlib /\ open_cnt[a] = 0 /\ base_addrs[a] = 0
    /\ a \notin ToSet(lib_infos)

CountsRight == \A a \in Addrs :
    /\ IsFiniteSet(Opens(a))
    /\ open_cnt[a] = OpenedBy(a) + IF At(a, {"opened", "close"}) THEN 1 ELSE 0
    /\ a \notin DOMAIN addr_vlib =>
        base_addrs[a] = OpenedBy(a) + IF At(a, {"close", "closed"}) THEN 1 ELSE 0
    /\ a \in DOMAIN addr_vlib => base_addrs[a] = 0 /\ OpenedBy(a) > 0

VLibsRight ==
    /\ \A n \in Names : name_vlib[n] # 0 =>
        name_vlib[n] \in DOMAIN addr_vlib /\ addr_vlib[name_vlib[n]] = n
    /\ \A a \in DOMAIN addr_vlib : name_vlib[addr_vlib[a]] = a

\* lib_infos has a name once, and what programs have open
InfosRight ==
    /\ \A i, j \in 1..Len(lib_infos) : i # j => info_name[lib_infos[i]] # info_name[lib_infos[j]]
    /\ \A a \in ToSet(lib_infos) : a \in seglists /\ a \notin DOMAIN addr_vlib
    /\ \A a \in ToSet(lib_infos) :
        a \in alive \/ \E t \in Tasks : pc[t] = "closed" /\ job[t].seglist /\ job[t].addr = a
    /\ left = -1 => \A a \in Addrs \ DOMAIN addr_vlib : OpenedBy(a) > 0 => a \in ToSet(lib_infos)

\* what a task inside the manager has to do with its library
JobRight(t) ==
    LET a == job[t].addr
    IN  /\ a \in Addrs /\ a \notin DOMAIN addr_vlib /\ a < next_addr /\ left = -1
        /\ pc[t] = "init" => /\ a \in seglists /\ info_name[a] \in Names
                             /\ \A i \in 1..Len(lib_infos) : info_name[lib_infos[i]] # info_name[a]
        /\ pc[t] # "init" => a \in ToSet(lib_infos)
        /\ pc[t] # "closed" => job[t].seglist = FALSE
        /\ pc[t] = "open" /\ job[t].loaded => OpenedBy(a) = 0
        /\ pc[t] = "closed" /\ job[t].seglist => OpenedBy(a) = 0

LInv ==
    /\ TypeOK /\ job \in [Tasks -> JobType] /\ error = "none"
    /\ Alone
    /\ Fresh
    /\ CountsRight
    /\ VLibsRight
    /\ InfosRight
    /\ \A t \in Tasks : pc[t] # "idle" => JobRight(t)

\* after shutdown(), which has counted some open libraries one open less
Over ==
    /\ TypeOK /\ error = "none" /\ left # -1
    /\ \A a \in Addrs : IsFiniteSet(Opens(a)) /\ open_cnt[a] = OpenedBy(a)
    /\ VLibsRight /\ \A a \in DOMAIN addr_vlib : OpenedBy(a) > 0
    /\ \A i, j \in 1..Len(lib_infos) : i # j => info_name[lib_infos[i]] # info_name[lib_infos[j]]
    /\ \A a \in ToSet(lib_infos) : a \in seglists /\ a \in alive
    /\ ShutdownKeepsOpen

-----------------------------------------------------------------------------
(* Counting the opens, and who is inside the manager.                       *)

\* A task opens a library once more: one open of it is counted more.
LEMMA OpensUp ==
    ASSUME handles \in [Tasks -> [Addrs -> Nat]], NEW t \in Tasks, NEW a \in Addrs,
           \A b \in Addrs : IsFiniteSet(Opens(b)), handles' = Handled(t, a, 1)
    PROVE  /\ handles' \in [Tasks -> [Addrs -> Nat]]
           /\ \A b \in Addrs : IsFiniteSet(Opens(b))' /\ OpenedBy(b) \in Nat
           /\ \A b \in Addrs : OpenedBy(b)' = IF b = a THEN OpenedBy(b) + 1 ELSE OpenedBy(b)
           /\ handles'[t][a] > 0
<1> DEFINE h == handles[t][a]
<1>0. h \in Nat /\ h + 1 \in Nat /\ handles[t] \in [Addrs -> Nat]
  OBVIOUS
<1>1. /\ handles' \in [Tasks -> [Addrs -> Nat]]
      /\ handles'[t][a] = h + 1
      /\ \A u \in Tasks, b \in Addrs : u # t \/ b # a => handles'[u][b] = handles[u][b]
  BY <1>0 DEF Handled
<1>2. \A b \in Addrs : OpenedBy(b) \in Nat
  BY FS_CardinalityType DEF OpenedBy
<1>3. \A b \in Addrs : b # a => Opens(b)' = Opens(b)
  BY <1>1 DEF Opens
<1>4. \A u \in Tasks : {u} \X (1..handles'[u][a]) =
            IF u = t THEN ({u} \X (1..handles[u][a])) \cup {<<t, h + 1>>}
            ELSE {u} \X (1..handles[u][a])
  <2>1. 1..(h + 1) = (1..h) \cup {h + 1}
    BY <1>0
  <2> QED BY <1>1, <2>1
<1>5. Opens(a)' = Opens(a) \cup {<<t, h + 1>>}
  BY <1>4 DEF Opens
<1>6. <<t, h + 1>> \notin Opens(a)
  <2> SUFFICES ASSUME <<t, h + 1>> \in Opens(a) PROVE FALSE
    OBVIOUS
  <2>1. PICK u \in Tasks : <<t, h + 1>> \in {u} \X (1..handles[u][a])
    BY DEF Opens
  <2>2. u = t /\ h + 1 \in 1..h
    BY <2>1
  <2> QED BY <1>0, <2>2
<1>7. /\ IsFiniteSet(Opens(a) \cup {<<t, h + 1>>})
      /\ Cardinality(Opens(a) \cup {<<t, h + 1>>}) = Cardinality(Opens(a)) + 1
  BY <1>6, FS_AddElement
<1>8. \A b \in Addrs : IsFiniteSet(Opens(b))'
  BY <1>3, <1>5, <1>7
<1>9. \A b \in Addrs : OpenedBy(b)' = IF b = a THEN OpenedBy(b) + 1 ELSE OpenedBy(b)
  BY <1>3, <1>5, <1>7 DEF OpenedBy
<1> QED BY <1>0, <1>1, <1>2, <1>8, <1>9

\* A task closes a library: one open of it is counted less.
LEMMA OpensDown ==
    ASSUME handles \in [Tasks -> [Addrs -> Nat]], NEW t \in Tasks, NEW a \in Addrs,
           \A b \in Addrs : IsFiniteSet(Opens(b)), handles' = Handled(t, a, -1),
           handles[t][a] > 0
    PROVE  /\ handles' \in [Tasks -> [Addrs -> Nat]]
           /\ \A b \in Addrs : IsFiniteSet(Opens(b))' /\ OpenedBy(b)' \in Nat
           /\ \A b \in Addrs : OpenedBy(b) \in Nat
           /\ \A b \in Addrs : OpenedBy(b)' = IF b = a THEN OpenedBy(b) - 1 ELSE OpenedBy(b)
<1> DEFINE h == handles[t][a]
<1>0. h \in Nat /\ h - 1 \in Nat /\ handles[t] \in [Addrs -> Nat]
  OBVIOUS
<1>1. /\ handles' \in [Tasks -> [Addrs -> Nat]]
      /\ handles'[t][a] = h - 1
      /\ \A u \in Tasks, b \in Addrs : u # t \/ b # a => handles'[u][b] = handles[u][b]
  BY <1>0 DEF Handled
<1>2. \A b \in Addrs : OpenedBy(b) \in Nat
  BY FS_CardinalityType DEF OpenedBy
<1>3. \A b \in Addrs : b # a => Opens(b)' = Opens(b)
  BY <1>1 DEF Opens
<1>4. \A u \in Tasks : {u} \X (1..handles'[u][a]) = ({u} \X (1..handles[u][a])) \ {<<t, h>>}
  <2>1. 1..(h - 1) = (1..h) \ {h}
    BY <1>0
  <2> QED BY <1>1, <2>1
<1>5. Opens(a)' = Opens(a) \ {<<t, h>>}
  BY <1>4 DEF Opens
<1>6. <<t, h>> \in Opens(a)
  <2>1. <<t, h>> \in {t} \X (1..handles[t][a])
    BY <1>0
  <2> QED BY <2>1 DEF Opens
<1>7. /\ IsFiniteSet(Opens(a) \ {<<t, h>>})
      /\ Cardinality(Opens(a) \ {<<t, h>>}) = Cardinality(Opens(a)) - 1
  BY <1>6, FS_RemoveElement
<1>8. \A b \in Addrs : IsFiniteSet(Opens(b))'
  BY <1>3, <1>5, <1>7
<1>9. \A b \in Addrs : OpenedBy(b)' = IF b = a THEN OpenedBy(b) - 1 ELSE OpenedBy(b)
  BY <1>3, <1>5, <1>7 DEF OpenedBy
<1>10. \A b \in Addrs : OpenedBy(b)' \in Nat
  <2>1. \A b \in Addrs : Cardinality(Opens(b)') \in Nat
    BY <1>8, FS_CardinalityType
  <2> QED BY <2>1 DEF OpenedBy
<1> QED BY <1>1, <1>2, <1>8, <1>9, <1>10

\* What a task has open is counted.
LEMMA OpensCounted ==
    ASSUME handles \in [Tasks -> [Addrs -> Nat]], NEW a \in Addrs, IsFiniteSet(Opens(a))
    PROVE  /\ OpenedBy(a) \in Nat
           /\ \A t \in Tasks : handles[t][a] > 0 => OpenedBy(a) > 0
<1>1. Cardinality(Opens(a)) \in Nat /\ (Cardinality(Opens(a)) = 0 <=> Opens(a) = {})
  BY FS_CardinalityType, FS_EmptySet
<1>2. ASSUME NEW t \in Tasks, handles[t][a] > 0
      PROVE  Opens(a) # {}
  <2>1. <<t, 1>> \in {t} \X (1..handles[t][a])
    BY <1>2
  <2> QED BY <2>1 DEF Opens
<1> QED BY <1>1, <1>2 DEF OpenedBy

\* Nothing is open where no one has opened or closed.
LEMMA OpensKept ==
    ASSUME handles' = handles
    PROVE  \A b : Opens(b)' = Opens(b) /\ OpenedBy(b)' = OpenedBy(b)
BY DEF Opens, OpenedBy

\* What the counts are of a library no task is at, of one in LibOpen() or LibClose(),
\* and of one from there to add_base_addr() or del_base_addr().
CountsOf(a, more, base) ==
    /\ IsFiniteSet(Opens(a))
    /\ open_cnt[a] = OpenedBy(a) + more
    /\ a \notin DOMAIN addr_vlib => base_addrs[a] = OpenedBy(a) + base
    /\ a \in DOMAIN addr_vlib => base_addrs[a] = 0 /\ OpenedBy(a) > 0

\* the same of the state after a step
CountsNext(a, more, base) ==
    /\ IsFiniteSet(Opens(a)')
    /\ open_cnt'[a] = OpenedBy(a)' + more
    /\ a \notin DOMAIN addr_vlib' => base_addrs'[a] = OpenedBy(a)' + base
    /\ a \in DOMAIN addr_vlib' => base_addrs'[a] = 0 /\ OpenedBy(a)' > 0

\* how far a library's own count is ahead of the programs' opens, and base_addrs
More(p, j, a) == IF p \in {"opened", "close"} /\ j.addr = a THEN 1 ELSE 0
Based(p, j, a) == IF p \in {"close", "closed"} /\ j.addr = a THEN 1 ELSE 0

\* The counts, from the task that may be inside the manager.
LEMMA CountsOne ==
    ASSUME NEW p, NEW j,
           \A a : At(a, {"opened", "close"}) <=> p \in {"opened", "close"} /\ j.addr = a,
           \A a : At(a, {"close", "closed"}) <=> p \in {"close", "closed"} /\ j.addr = a
    PROVE  CountsRight <=> \A a \in Addrs : CountsOf(a, More(p, j, a), Based(p, j, a))
<1>1. ASSUME NEW a
      PROVE  (IF At(a, {"opened", "close"}) THEN 1 ELSE 0) = More(p, j, a)
  <2>1. CASE At(a, {"opened", "close"})
    BY <2>1, Zenon DEF More
  <2>2. CASE ~At(a, {"opened", "close"})
    BY <2>2, Zenon DEF More
  <2> QED BY <2>1, <2>2
<1>2. ASSUME NEW a
      PROVE  (IF At(a, {"close", "closed"}) THEN 1 ELSE 0) = Based(p, j, a)
  <2>1. CASE At(a, {"close", "closed"})
    BY <2>1, Zenon DEF Based
  <2>2. CASE ~At(a, {"close", "closed"})
    BY <2>2, Zenon DEF Based
  <2> QED BY <2>1, <2>2
<1> DEFINE o(a) == IF At(a, {"opened", "close"}) THEN 1 ELSE 0
           c(a) == IF At(a, {"close", "closed"}) THEN 1 ELSE 0
<1>3. CountsRight <=> \A a \in Addrs : CountsOf(a, o(a), c(a))
  BY Zenon DEF CountsRight, CountsOf
<1>4. \A a : o(a) = More(p, j, a) /\ c(a) = Based(p, j, a)
  BY <1>1, <1>2
<1> HIDE DEF o, c
<1>5. \A a : CountsOf(a, o(a), c(a)) <=> CountsOf(a, More(p, j, a), Based(p, j, a))
  BY <1>4
<1> QED BY <1>3, <1>5

\* The same of the state after a step.
LEMMA CountsOneNext ==
    ASSUME NEW p, NEW j,
           \A a : At(a, {"opened", "close"})' <=> p \in {"opened", "close"} /\ j.addr = a,
           \A a : At(a, {"close", "closed"})' <=> p \in {"close", "closed"} /\ j.addr = a,
           \A a \in Addrs : CountsNext(a, More(p, j, a), Based(p, j, a))
    PROVE  CountsRight'
<1>1. ASSUME NEW a
      PROVE  (IF At(a, {"opened", "close"})' THEN 1 ELSE 0) = More(p, j, a)
  <2>1. CASE At(a, {"opened", "close"})'
    BY <2>1, Zenon DEF More
  <2>2. CASE ~At(a, {"opened", "close"})'
    BY <2>2, Zenon DEF More
  <2> QED BY <2>1, <2>2
<1>2. ASSUME NEW a
      PROVE  (IF At(a, {"close", "closed"})' THEN 1 ELSE 0) = Based(p, j, a)
  <2>1. CASE At(a, {"close", "closed"})'
    BY <2>1, Zenon DEF Based
  <2>2. CASE ~At(a, {"close", "closed"})'
    BY <2>2, Zenon DEF Based
  <2> QED BY <2>1, <2>2
<1> QED BY <1>1, <1>2, Zenon DEF CountsRight, CountsNext

-----------------------------------------------------------------------------
(* Where slices do not end inside library code one task is in the manager.  *)

PcType == {"idle", "init", "open", "opened", "close", "closed"}

\* who is inside the manager when the task t runs, and after its step
OnlyTask(t) ==
    /\ error = "none" /\ left = -1
    /\ pc \in [Tasks -> PcType] /\ job \in [Tasks -> JobType]
    /\ \A u \in Tasks : u # t => pc[u] = "idle"
    /\ \A a \in Addrs : CountsOf(a, More(pc[t], job[t], a), Based(pc[t], job[t], a))
    /\ pc[t] # "idle" => JobRight(t)

\* all there is to show of the tasks when t has gone on to p with job j
Entered(t, p, j) ==
    /\ pc' \in [Tasks -> PcType] /\ job' \in [Tasks -> JobType]
    /\ pc'[t] = p /\ job'[t] = j
    /\ Alone'
    /\ (\A a \in Addrs : CountsNext(a, More(p, j, a), Based(p, j, a))) => CountsRight'
    /\ (p # "idle" => JobRight(t)') => \A u \in Tasks : pc'[u] # "idle" => JobRight(u)'

\* The other tasks are idle.
LEMMA OnlyOne ==
    ASSUME LInv, Preempt = FALSE, NEW t \in Tasks, MayRun(t)
    PROVE  OnlyTask(t)
<1>1. /\ error = "none" /\ left = -1
      /\ pc \in [Tasks -> PcType] /\ job \in [Tasks -> JobType]
      /\ \A u \in Tasks : u # t => pc[u] = "idle"
      /\ pc[t] # "idle" => JobRight(t)
  BY DEF LInv, TypeOK, MayRun, PcType
<1>2. ASSUME NEW P, "idle" \notin P
      PROVE  \A a : At(a, P) <=> pc[t] \in P /\ job[t].addr = a
  BY <1>1, <1>2 DEF At
<1>3. "idle" \notin {"opened", "close"} /\ "idle" \notin {"close", "closed"}
  OBVIOUS
<1>4. CountsRight
  BY DEF LInv
<1>5. \A a \in Addrs : CountsOf(a, More(pc[t], job[t], a), Based(pc[t], job[t], a))
  BY <1>2, <1>3, <1>4, CountsOne, Zenon
<1> QED BY <1>1, <1>5 DEF OnlyTask

\* It goes on, and the others stay idle.
LEMMA EnterOne ==
    ASSUME NEW t \in Tasks, OnlyTask(t), NEW p \in PcType, NEW j \in JobType, Enter(t, p, j)
    PROVE  Entered(t, p, j)
<1>1. /\ pc' \in [Tasks -> PcType] /\ job' \in [Tasks -> JobType]
      /\ pc'[t] = p /\ job'[t] = j
      /\ \A u \in Tasks : u # t => pc'[u] = "idle"
  BY DEF OnlyTask, Enter
<1>2. ASSUME NEW P, "idle" \notin P
      PROVE  \A a : (\E u \in Tasks : pc'[u] \in P /\ job'[u].addr = a) <=> p \in P /\ j.addr = a
  BY <1>1, <1>2
<1>3. "idle" \notin {"opened", "close"} /\ "idle" \notin {"close", "closed"}
  OBVIOUS
<1>4. /\ \A a : At(a, {"opened", "close"})' <=> p \in {"opened", "close"} /\ j.addr = a
      /\ \A a : At(a, {"close", "closed"})' <=> p \in {"close", "closed"} /\ j.addr = a
  BY <1>2, <1>3 DEF At
<1>7. (\A a \in Addrs : CountsNext(a, More(p, j, a), Based(p, j, a))) => CountsRight'
  BY <1>4, CountsOneNext, Zenon
<1>5. Alone'
  BY <1>1 DEF Alone
<1>6. (p # "idle" => JobRight(t)') => \A u \in Tasks : pc'[u] # "idle" => JobRight(u)'
  <2> SUFFICES ASSUME p # "idle" => JobRight(t)', NEW u \in Tasks, pc'[u] # "idle"
               PROVE  JobRight(u)'
    OBVIOUS
  <2>1. u = t /\ p # "idle"
    BY <1>1
  <2> QED BY <2>1
<1> QED BY <1>1, <1>5, <1>6, <1>7 DEF Entered

\* A task that stays idle.
LEMMA StayIdle ==
    ASSUME NEW t \in Tasks, OnlyTask(t), pc[t] = "idle", UNCHANGED <<pc, job>>
    PROVE  Entered(t, "idle", job[t])
<1>1. /\ pc' \in [Tasks -> PcType] /\ job' \in [Tasks -> JobType]
      /\ \A u \in Tasks : pc'[u] = "idle"
  BY DEF OnlyTask
<1>2. \A a : ~At(a, {"opened", "close"})' /\ ~At(a, {"close", "closed"})'
  BY <1>1 DEF At
<1>3. Alone'
  BY <1>1 DEF Alone
<1>4. \A a : /\ At(a, {"opened", "close"})' <=> "idle" \in {"opened", "close"} /\ job[t].addr = a
             /\ At(a, {"close", "closed"})' <=> "idle" \in {"close", "closed"} /\ job[t].addr = a
  <2>1. "idle" \notin {"opened", "close"} /\ "idle" \notin {"close", "closed"}
    OBVIOUS
  <2> QED BY <1>2, <2>1, Zenon
<1>5. (\A a \in Addrs : CountsNext(a, More("idle", job[t], a), Based("idle", job[t], a))) => CountsRight'
  BY <1>4, CountsOneNext, Zenon
<1> QED BY <1>1, <1>3, <1>5 DEF Entered

\* When the task is not inside the manager the counts say what is open.
LEMMA IdleCounts ==
    ASSUME NEW t \in Tasks, OnlyTask(t), pc[t] = "idle"
    PROVE  \A a \in Addrs :
                /\ CountsOf(a, 0, 0) /\ OpenedBy(a) \in Nat
                /\ open_cnt[a] = OpenedBy(a)
                /\ a \notin DOMAIN addr_vlib => base_addrs[a] = OpenedBy(a)
                /\ a \in DOMAIN addr_vlib => base_addrs[a] = 0 /\ OpenedBy(a) > 0
<1> SUFFICES ASSUME NEW a \in Addrs
             PROVE  /\ CountsOf(a, 0, 0) /\ OpenedBy(a) \in Nat
                    /\ open_cnt[a] = OpenedBy(a)
                    /\ a \notin DOMAIN addr_vlib => base_addrs[a] = OpenedBy(a)
                    /\ a \in DOMAIN addr_vlib => base_addrs[a] = 0 /\ OpenedBy(a) > 0
  OBVIOUS
<1>1. CountsOf(a, 0, 0)
  BY DEF OnlyTask, More, Based
<1>2. OpenedBy(a) \in Nat
  BY <1>1, FS_CardinalityType DEF CountsOf, OpenedBy
<1> QED BY <1>1, <1>2 DEF CountsOf

\* What there is to show of a step of the task t.
Kept(t) ==
    /\ TypeOK' /\ error' = "none"
    /\ Fresh' /\ VLibsRight' /\ InfosRight'
    /\ \A a \in Addrs : CountsNext(a, More(pc'[t], job'[t], a), Based(pc'[t], job'[t], a))
    /\ pc'[t] # "idle" => JobRight(t)'

\* The invariant, from what there is to show.
LEMMA KeptAll ==
    ASSUME NEW t \in Tasks, NEW p, NEW j, Entered(t, p, j), Kept(t)
    PROVE  LInv'
BY DEF Entered, Kept, LInv

\* A library in the maps or in lib_infos has an address that is taken.
LEMMA Taken ==
    ASSUME LInv, NEW a \in DOMAIN addr_vlib \cup ToSet(lib_infos)
    PROVE  a \in Addrs /\ a < next_addr /\ next_addr \in Nat
<1>1. /\ next_addr \in 1..(MaxAddr + 1) /\ MaxAddr \in Nat
      /\ DOMAIN addr_vlib \subseteq Addrs /\ lib_infos \in Seq(Addrs)
  BY BoundsAssumption DEF LInv, TypeOK
<1>2. a \in Addrs
  BY <1>1 DEF ToSet
<1>3. ~(a >= next_addr)
  BY <1>2 DEF LInv, Fresh
<1> QED BY <1>1, <1>2, <1>3 DEF Addrs

-----------------------------------------------------------------------------
(* The vamos libraries.                                                     *)

\* where the library of a name is: in the maps, or at an address of its own
Placed(n, a) ==
    /\ a \in Addrs /\ a \notin ToSet(lib_infos)
    /\ \/ a \in DOMAIN addr_vlib /\ addr_vlib[a] = n /\ a # next_addr /\ name_vlib[n] = a
       \/ a \notin DOMAIN addr_vlib /\ a = next_addr /\ open_cnt[a] = 0 /\ base_addrs[a] = 0
                                    /\ name_vlib[n] = 0

\* The address of the vamos library of a name is such a place.
LEMMA VAddrPlaced ==
    ASSUME LInv, NEW n \in Names, VAddr(n) <= MaxAddr
    PROVE  Placed(n, VAddr(n)) /\ next_addr \in Nat /\ next_addr > 0
<1> DEFINE a == VAddr(n)
<1>0. /\ next_addr \in 1..(MaxAddr + 1) /\ MaxAddr \in Nat
      /\ name_vlib[n] \in {0} \cup Addrs /\ DOMAIN addr_vlib \subseteq Addrs
  BY BoundsAssumption DEF LInv, TypeOK
<1>1. CASE name_vlib[n] # 0
  <2>1. a = name_vlib[n] /\ a \in DOMAIN addr_vlib /\ addr_vlib[a] = n
    BY <1>1 DEF VAddr, LInv, VLibsRight
  <2>2. a \notin ToSet(lib_infos) /\ a # next_addr
    BY <1>0, <2>1 DEF LInv, InfosRight, Fresh, Addrs
  <2> QED BY <1>0, <2>1, <2>2 DEF Placed
<1>2. CASE name_vlib[n] = 0
  <2>1. a = next_addr /\ a \in Addrs
    BY <1>0, <1>2 DEF VAddr, Addrs
  <2>2. a \notin DOMAIN addr_vlib /\ open_cnt[a] = 0 /\ base_addrs[a] = 0 /\ a \notin ToSet(lib_infos)
    BY <1>0, <2>1 DEF LInv, Fresh, Addrs
  <2> QED BY <1>0, <1>2, <2>1, <2>2 DEF Placed
<1> QED BY <1>1, <1>2

\* Opening a vamos library, made for this call if there is none (open_vlib()).
LEMMA OpenVLibKeeps ==
    ASSUME LInv, NEW t \in Tasks, OnlyTask(t), NEW n \in Names, open_vlib(t, n)
    PROVE  LInv'
<1> DEFINE a == VAddr(n)
<1>0. /\ Placed(n, a) /\ next_addr \in Nat /\ next_addr > 0
      /\ MaxAddr \in Nat
  BY VAddrPlaced, BoundsAssumption DEF open_vlib
<1> HIDE DEF a
<1>1. /\ pc[t] = "idle" /\ a <= MaxAddr
      /\ add_vlib(n, a)
      /\ open_cnt' = [open_cnt EXCEPT ![a] = @ + 1]
      /\ handles' = Handled(t, a, 1)
      /\ next_addr' = IF a = next_addr THEN a + 1 ELSE next_addr
      /\ UNCHANGED <<lib_infos, info_name, base_addrs, seglists, alive, pc, job, left, error>>
  BY DEF open_vlib, a, alibs
<1>2. Entered(t, "idle", job[t])
  BY <1>1, StayIdle
<1>3. /\ TypeOK /\ error = "none"
      /\ Fresh /\ VLibsRight /\ InfosRight
      /\ \A b \in Addrs : IsFiniteSet(Opens(b))
  BY DEF LInv, CountsRight
<1>4. /\ \A b \in Addrs : IsFiniteSet(Opens(b))
      /\ handles \in [Tasks -> [Addrs -> Nat]]
      /\ open_cnt \in [Addrs -> Nat] /\ base_addrs \in [Addrs -> Nat]
      /\ name_vlib \in [Names -> {0} \cup Addrs]
      /\ DOMAIN addr_vlib \subseteq Addrs /\ \A b \in DOMAIN addr_vlib : addr_vlib[b] \in Names
  BY <1>3 DEF TypeOK
<1>5. a \in Addrs /\ a \notin ToSet(lib_infos)
  BY <1>0 DEF Placed
<1>6. /\ handles' \in [Tasks -> [Addrs -> Nat]]
      /\ \A b \in Addrs : IsFiniteSet(Opens(b))' /\ OpenedBy(b) \in Nat
      /\ \A b \in Addrs : OpenedBy(b)' = IF b = a THEN OpenedBy(b) + 1 ELSE OpenedBy(b)
  BY <1>1, <1>4, <1>5, OpensUp
<1>7. /\ DOMAIN addr_vlib' = DOMAIN addr_vlib \cup {a}
      /\ \A b \in DOMAIN addr_vlib' : addr_vlib'[b] = IF b = a THEN n ELSE addr_vlib[b]
      /\ name_vlib' \in [Names -> {0} \cup Addrs]
      /\ name_vlib'[n] = a /\ \A m \in Names : m # n => name_vlib'[m] = name_vlib[m]
  BY <1>1, <1>4, <1>5 DEF add_vlib
<1>8. /\ open_cnt' \in [Addrs -> Nat]
      /\ \A b \in Addrs : open_cnt'[b] = IF b = a THEN open_cnt[b] + 1 ELSE open_cnt[b]
  BY <1>1, <1>4, <1>5
<1>9. next_addr' \in 1..(MaxAddr + 1) /\ next_addr' >= next_addr /\ (a = next_addr => next_addr' > a)
  BY <1>0, <1>1, <1>3 DEF TypeOK
<1>10. TypeOK'
  BY <1>1, <1>3, <1>4, <1>5, <1>6, <1>7, <1>8, <1>9 DEF TypeOK
<1>11. Fresh'
  <2> SUFFICES ASSUME NEW b \in Addrs, b >= next_addr'
               PROVE  /\ b \notin DOMAIN addr_vlib' /\ open_cnt'[b] = 0 /\ base_addrs'[b] = 0
                      /\ b \notin ToSet(lib_infos')
    BY DEF Fresh
  <2>1. b >= next_addr /\ b # a
    <3>1. b \in Nat /\ a \in Nat /\ next_addr' \in Nat
      BY <1>5, <1>9 DEF Addrs
    <3>2. a = next_addr \/ a < next_addr
      BY <1>0, <1>3, <1>5 DEF Placed, Fresh, Addrs
    <3> QED BY <1>0, <1>9, <3>1, <3>2
  <2> QED BY <1>1, <1>3, <1>7, <1>8, <2>1 DEF Fresh
<1>12. \A b \in Addrs : CountsNext(b, 0, 0)
  <2> SUFFICES ASSUME NEW b \in Addrs
               PROVE  /\ IsFiniteSet(Opens(b))'
                      /\ open_cnt'[b] = OpenedBy(b)'
                      /\ b \notin DOMAIN addr_vlib' => base_addrs'[b] = OpenedBy(b)'
                      /\ b \in DOMAIN addr_vlib' => base_addrs'[b] = 0 /\ OpenedBy(b)' > 0
    BY <1>6 DEF CountsNext
  <2>1. /\ open_cnt[b] = OpenedBy(b)
        /\ b \notin DOMAIN addr_vlib => base_addrs[b] = OpenedBy(b)
        /\ b \in DOMAIN addr_vlib => base_addrs[b] = 0 /\ OpenedBy(b) > 0
    BY <1>1, <1>6, IdleCounts
  <2>2. b = a => base_addrs[b] = 0
    BY <1>0, <2>1 DEF Placed
  <2> QED BY <1>1, <1>6, <1>7, <1>8, <2>1, <2>2
<1>13. VLibsRight'
  <2>1. ASSUME NEW m \in Names, name_vlib'[m] # 0
        PROVE  name_vlib'[m] \in DOMAIN addr_vlib' /\ addr_vlib'[name_vlib'[m]] = m
    BY <1>0, <1>3, <1>7, <2>1 DEF VLibsRight, Placed
  <2>2. ASSUME NEW b \in DOMAIN addr_vlib'
        PROVE  name_vlib'[addr_vlib'[b]] = b
    <3>1. CASE b = a
      BY <1>7, <3>1
    <3>2. CASE b # a
      <4>1. b \in DOMAIN addr_vlib /\ addr_vlib'[b] = addr_vlib[b] /\ name_vlib[addr_vlib[b]] = b
        BY <1>3, <1>7, <3>2 DEF VLibsRight
      <4>2. addr_vlib[b] # n
        BY <1>0, <1>4, <3>2, <4>1 DEF Placed, Addrs
      <4> QED BY <1>4, <1>7, <4>1, <4>2
    <3> QED BY <3>1, <3>2
  <2> QED BY <2>1, <2>2 DEF VLibsRight
<1>14. InfosRight'
  BY <1>1, <1>3, <1>5, <1>6, <1>7 DEF InfosRight
<1>15. Kept(t)
  <2>1. \A b \in Addrs : CountsNext(b, More(pc'[t], job'[t], b), Based(pc'[t], job'[t], b))
    BY <1>1, <1>12 DEF More, Based
  <2> QED BY <1>1, <1>3, <1>10, <1>11, <1>13, <1>14, <2>1 DEF Kept
<1> QED BY <1>2, <1>15, KeptAll

\* expunge_lib() of a library that is not open any more, or is
LEMMA OpenVLibOldKeeps ==
    ASSUME LInv, NEW t \in Tasks, OnlyTask(t), NEW n \in Names, open_vlib_old(t, n)
    PROVE  LInv'
<1> DEFINE a == VAddr(n)
<1>0. /\ Placed(n, a) /\ next_addr \in Nat /\ next_addr > 0
      /\ MaxAddr \in Nat
  BY VAddrPlaced, BoundsAssumption DEF open_vlib_old
<1> HIDE DEF a
<1>1. /\ pc[t] = "idle" /\ a <= MaxAddr
      /\ expunge_vlib(n, a, open_cnt[a])
      /\ next_addr' = IF a = next_addr THEN next_addr + 1 ELSE next_addr
      /\ UNCHANGED <<open_cnt, lib_infos, info_name, base_addrs, seglists, alive, handles, pc, job, left, error>>
  BY DEF open_vlib_old, a, alibs
<1>2. Entered(t, "idle", job[t])
  BY <1>1, StayIdle
<1>3. /\ TypeOK /\ error = "none"
      /\ Fresh /\ VLibsRight /\ InfosRight
      /\ \A b \in Addrs : IsFiniteSet(Opens(b))
  BY DEF LInv, CountsRight
<1>4. /\ open_cnt \in [Addrs -> Nat]
      /\ name_vlib \in [Names -> {0} \cup Addrs]
      /\ DOMAIN addr_vlib \subseteq Addrs
  BY <1>3 DEF TypeOK
<1>5. /\ DOMAIN addr_vlib' = DOMAIN addr_vlib
      /\ \A b \in DOMAIN addr_vlib : addr_vlib'[b] = addr_vlib[b]
      /\ name_vlib' \in [Names -> {0} \cup Addrs]
      /\ \A m \in Names : name_vlib'[m] = name_vlib[m]
  <2>1. CASE a \in DOMAIN addr_vlib
    <3>1. open_cnt[a] > 0
      BY <1>1, <1>4, <2>1, IdleCounts
    <3> QED BY <1>1, <1>4, <3>1 DEF expunge_vlib, vlibs
  <2>2. CASE a \notin DOMAIN addr_vlib
    <3>1. open_cnt[a] = 0 /\ name_vlib[n] = 0
      BY <1>0, <2>2 DEF Placed
    <3>2. rem_vlib(n, a)
      BY <1>1, <3>1 DEF expunge_vlib
    <3>3. DOMAIN addr_vlib \ {a} = DOMAIN addr_vlib
      BY <2>2
    <3>4. addr_vlib' = [x \in DOMAIN addr_vlib |-> addr_vlib[x]]
      BY <3>2, <3>3 DEF rem_vlib
    <3> QED BY <1>4, <3>1, <3>2, <3>4 DEF rem_vlib
  <2> QED BY <2>1, <2>2
<1>6. \A b : Opens(b)' = Opens(b) /\ OpenedBy(b)' = OpenedBy(b)
  BY <1>1, OpensKept
<1>7. next_addr' \in 1..(MaxAddr + 1) /\ next_addr' >= next_addr
  BY <1>0, <1>1, <1>3 DEF TypeOK
<1>8. TypeOK'
  BY <1>1, <1>3, <1>5, <1>7 DEF TypeOK
<1>9. Fresh'
  <2>1. \A b \in Addrs : b >= next_addr' => b >= next_addr
    BY <1>0, <1>7 DEF Addrs
  <2> QED BY <1>1, <1>3, <1>5, <2>1 DEF Fresh
<1>10. \A b \in Addrs : CountsNext(b, 0, 0)
  <2>1. \A b \in Addrs : CountsOf(b, 0, 0)
    BY <1>1, IdleCounts
  <2> QED BY <1>1, <1>5, <1>6, <2>1 DEF CountsOf, CountsNext
<1>11. VLibsRight' /\ InfosRight'
  <2>1. VLibsRight'
    BY <1>3, <1>4, <1>5 DEF VLibsRight, TypeOK
  <2>2. InfosRight'
    BY <1>1, <1>3, <1>5, <1>6 DEF InfosRight
  <2> QED BY <2>1, <2>2
<1>12. Kept(t)
  <2>1. \A b \in Addrs : CountsNext(b, More(pc'[t], job'[t], b), Based(pc'[t], job'[t], b))
    BY <1>1, <1>10 DEF More, Based
  <2> QED BY <1>1, <1>3, <1>8, <1>9, <1>11, <2>1 DEF Kept
<1> QED BY <1>2, <1>12, KeptAll

\* close_lib(): with the last close the library goes.
LEMMA CloseVLibKeeps ==
    ASSUME LInv, NEW t \in Tasks, OnlyTask(t), NEW a \in Addrs, close_vlib(t, a)
    PROVE  LInv'
<1>1. /\ pc[t] = "idle" /\ handles[t][a] > 0 /\ a \in DOMAIN addr_vlib
      /\ open_cnt' = [open_cnt EXCEPT ![a] = @ - 1]
      /\ expunge_vlib(addr_vlib[a], a, open_cnt[a] - 1)
      /\ handles' = Handled(t, a, -1)
      /\ UNCHANGED <<next_addr, lib_infos, info_name, base_addrs, seglists, alive, pc, job, left, error>>
  BY DEF close_vlib, alibs
<1>2. Entered(t, "idle", job[t])
  BY <1>1, StayIdle
<1>3. /\ TypeOK /\ error = "none"
      /\ Fresh /\ VLibsRight /\ InfosRight
      /\ \A b \in Addrs : IsFiniteSet(Opens(b))
  BY DEF LInv, CountsRight
<1>4. /\ handles \in [Tasks -> [Addrs -> Nat]]
      /\ open_cnt \in [Addrs -> Nat]
      /\ name_vlib \in [Names -> {0} \cup Addrs]
      /\ DOMAIN addr_vlib \subseteq Addrs /\ \A b \in DOMAIN addr_vlib : addr_vlib[b] \in Names
  BY <1>3 DEF TypeOK
<1>5. /\ handles' \in [Tasks -> [Addrs -> Nat]]
      /\ \A b \in Addrs : IsFiniteSet(Opens(b))' /\ OpenedBy(b)' \in Nat
      /\ \A b \in Addrs : OpenedBy(b)' = IF b = a THEN OpenedBy(b) - 1 ELSE OpenedBy(b)
  BY <1>1, <1>3, <1>4, OpensDown
<1>6. \A b \in Addrs : /\ OpenedBy(b) \in Nat /\ open_cnt[b] = OpenedBy(b)
                       /\ b \notin DOMAIN addr_vlib => base_addrs[b] = OpenedBy(b)
                       /\ b \in DOMAIN addr_vlib => base_addrs[b] = 0 /\ OpenedBy(b) > 0
  BY <1>1, IdleCounts
<1>7. /\ open_cnt' \in [Addrs -> Nat]
      /\ \A b \in Addrs : open_cnt'[b] = IF b = a THEN open_cnt[b] - 1 ELSE open_cnt[b]
  BY <1>1, <1>4, <1>6
<1>8. /\ DOMAIN addr_vlib' \subseteq DOMAIN addr_vlib
      /\ \A b \in DOMAIN addr_vlib : b # a => b \in DOMAIN addr_vlib'
      /\ a \in DOMAIN addr_vlib' <=> open_cnt'[a] > 0
      /\ \A b \in DOMAIN addr_vlib' : addr_vlib'[b] = addr_vlib[b]
      /\ name_vlib' \in [Names -> {0} \cup Addrs]
      /\ \A m \in Names : name_vlib'[m] = IF a \in DOMAIN addr_vlib' \/ m # addr_vlib[a]
                                          THEN name_vlib[m] ELSE 0
  <2>1. CASE open_cnt[a] - 1 > 0
    BY <1>1, <1>4, <1>7, <2>1 DEF expunge_vlib, vlibs
  <2>2. CASE ~(open_cnt[a] - 1 > 0)
    <3>1. rem_vlib(addr_vlib[a], a)
      BY <1>1, <2>2 DEF expunge_vlib
    <3>2. addr_vlib[a] \in Names
      BY <1>1, <1>4
    <3>3. /\ DOMAIN addr_vlib' = DOMAIN addr_vlib \ {a}
          /\ \A b \in DOMAIN addr_vlib' : addr_vlib'[b] = addr_vlib[b]
          /\ name_vlib' = [name_vlib EXCEPT ![addr_vlib[a]] = 0]
      BY <3>1 DEF rem_vlib
    <3>4. name_vlib' \in [Names -> {0} \cup Addrs]
      BY <1>4, <3>2, <3>3
    <3>5. \A m \in Names : name_vlib'[m] = IF m # addr_vlib[a] THEN name_vlib[m] ELSE 0
      BY <1>4, <3>2, <3>3
    <3>6. ~(open_cnt'[a] > 0) /\ a \notin DOMAIN addr_vlib'
      BY <1>7, <2>2, <3>3
    <3> QED BY <3>3, <3>4, <3>5, <3>6
  <2> QED BY <2>1, <2>2
<1>9. TypeOK'
  BY <1>1, <1>3, <1>4, <1>5, <1>7, <1>8 DEF TypeOK
<1>10. Fresh'
  <2>1. a < next_addr
    BY <1>1, Taken
  <2>2. \A b \in Addrs : b >= next_addr => b # a
    BY <1>3, <2>1 DEF TypeOK, Addrs
  <2> QED BY <1>1, <1>3, <1>7, <1>8, <2>2 DEF Fresh
<1>11. \A b \in Addrs : CountsNext(b, 0, 0)
  <2> SUFFICES ASSUME NEW b \in Addrs
               PROVE  /\ IsFiniteSet(Opens(b)')
                      /\ open_cnt'[b] = OpenedBy(b)'
                      /\ b \notin DOMAIN addr_vlib' => base_addrs'[b] = OpenedBy(b)'
                      /\ b \in DOMAIN addr_vlib' => base_addrs'[b] = 0 /\ OpenedBy(b)' > 0
    BY <1>5 DEF CountsNext
  <2>1. CASE b = a
    <3>1. open_cnt'[b] = OpenedBy(b)' /\ OpenedBy(b)' \in Nat /\ base_addrs'[b] = 0
      BY <1>1, <1>5, <1>6, <1>7, <2>1
    <3>2. b \notin DOMAIN addr_vlib' => OpenedBy(b)' = 0
      BY <1>8, <2>1, <3>1
    <3> QED BY <1>5, <1>8, <2>1, <3>1, <3>2
  <2>2. CASE b # a
    BY <1>1, <1>5, <1>6, <1>7, <1>8, <2>2
  <2> QED BY <2>1, <2>2
<1>12. VLibsRight'
  <2>1. ASSUME NEW m \in Names, name_vlib'[m] # 0
        PROVE  name_vlib'[m] \in DOMAIN addr_vlib' /\ addr_vlib'[name_vlib'[m]] = m
    <3>1. name_vlib'[m] = name_vlib[m] /\ (a \in DOMAIN addr_vlib' \/ m # addr_vlib[a])
      BY <1>8, <2>1
    <3>2. name_vlib[m] \in DOMAIN addr_vlib /\ addr_vlib[name_vlib[m]] = m
      BY <1>3, <2>1, <3>1 DEF VLibsRight
    <3> QED BY <1>8, <3>1, <3>2
  <2>2. ASSUME NEW b \in DOMAIN addr_vlib'
        PROVE  name_vlib'[addr_vlib'[b]] = b
    <3>1. b \in DOMAIN addr_vlib /\ addr_vlib'[b] = addr_vlib[b] /\ addr_vlib[b] \in Names
      BY <1>4, <1>8
    <3>2. name_vlib[addr_vlib[b]] = b /\ name_vlib[addr_vlib[a]] = a
      BY <1>1, <1>3, <3>1 DEF VLibsRight
    <3> QED BY <1>8, <3>1, <3>2
  <2> QED BY <2>1, <2>2 DEF VLibsRight
<1>13. InfosRight'
  <2>1. a \notin ToSet(lib_infos)
    BY <1>1, <1>3 DEF InfosRight
  <2>2. \A b \in Addrs \ DOMAIN addr_vlib' : OpenedBy(b)' > 0 => b \notin DOMAIN addr_vlib /\ OpenedBy(b) > 0
    <3> TAKE b \in Addrs \ DOMAIN addr_vlib'
    <3>1. b = a => ~(open_cnt'[b] > 0) /\ open_cnt'[b] = OpenedBy(b)'
      BY <1>5, <1>6, <1>7, <1>8
    <3> QED BY <1>5, <1>8, <3>1
  <2> QED BY <1>1, <1>3, <1>8, <2>1, <2>2 DEF InfosRight
<1>14. Kept(t)
  <2>1. \A b \in Addrs : CountsNext(b, More(pc'[t], job'[t], b), Based(pc'[t], job'[t], b))
    BY <1>1, <1>11 DEF More, Based
  <2> QED BY <1>1, <1>3, <1>9, <1>10, <1>12, <1>13, <2>1 DEF Kept
<1> QED BY <1>2, <1>14, KeptAll

-----------------------------------------------------------------------------
(* The native libraries.                                                    *)

\* What a step of a task that is alone in the manager may use.
LEMMA NativeFacts ==
    ASSUME LInv, NEW t \in Tasks, OnlyTask(t)
    PROVE  /\ TypeOK /\ Fresh /\ VLibsRight /\ InfosRight /\ left = -1 /\ error = "none"
           /\ next_addr \in 1..(MaxAddr + 1) /\ MaxAddr \in Nat
           /\ lib_infos \in Seq(Addrs) /\ info_name \in [Addrs -> Names \cup {"none"}]
           /\ open_cnt \in [Addrs -> Nat] /\ base_addrs \in [Addrs -> Nat]
           /\ pc[t] \in PcType /\ job[t] \in JobType
           /\ \A a : a \in ToSet(lib_infos) <=> \E i \in 1..Len(lib_infos) : a = lib_infos[i]
           /\ \A a \in ToSet(lib_infos) :
                a \in alive \/ (pc[t] = "closed" /\ job[t].seglist /\ job[t].addr = a)
           /\ \A a \in Addrs : IsFiniteSet(Opens(a)) /\ OpenedBy(a) \in Nat
<1>1. /\ TypeOK /\ Fresh /\ VLibsRight /\ InfosRight /\ left = -1 /\ error = "none"
      /\ pc[t] \in PcType /\ job[t] \in JobType
  BY DEF LInv, OnlyTask
<1>2. /\ next_addr \in 1..(MaxAddr + 1) /\ MaxAddr \in Nat
      /\ lib_infos \in Seq(Addrs) /\ info_name \in [Addrs -> Names \cup {"none"}]
      /\ open_cnt \in [Addrs -> Nat] /\ base_addrs \in [Addrs -> Nat]
  BY <1>1, BoundsAssumption DEF TypeOK
<1>3. \A a : a \in ToSet(lib_infos) <=> \E i \in 1..Len(lib_infos) : a = lib_infos[i]
  <2>1. DOMAIN lib_infos = 1..Len(lib_infos)
    BY <1>2
  <2> QED BY <2>1, Zenon DEF ToSet
<1>4. \A a \in ToSet(lib_infos) :
            a \in alive \/ (pc[t] = "closed" /\ job[t].seglist /\ job[t].addr = a)
  <2> SUFFICES ASSUME NEW a \in ToSet(lib_infos), a \notin alive
               PROVE  pc[t] = "closed" /\ job[t].seglist /\ job[t].addr = a
    OBVIOUS
  <2>1. PICK u \in Tasks : pc[u] = "closed" /\ job[u].seglist /\ job[u].addr = a
    BY <1>1 DEF InfosRight
  <2>2. u = t
    BY <2>1 DEF OnlyTask
  <2> QED BY <2>1, <2>2
<1>5. \A a \in Addrs : IsFiniteSet(Opens(a)) /\ OpenedBy(a) \in Nat
  BY FS_CardinalityType DEF OnlyTask, CountsOf, OpenedBy
<1> QED BY <1>1, <1>2, <1>3, <1>4, <1>5

\* the frame of a step in which no count and no vamos library changes
NoCounts == UNCHANGED <<vlibs, open_cnt, base_addrs, handles>>

\* Where no count changes the counts are right as before.
LEMMA CountsKept ==
    ASSUME NEW t \in Tasks, OnlyTask(t), NoCounts,
           \A a \in Addrs : More(pc'[t], job'[t], a) = More(pc[t], job[t], a),
           \A a \in Addrs : Based(pc'[t], job'[t], a) = Based(pc[t], job[t], a)
    PROVE  \A a \in Addrs : CountsNext(a, More(pc'[t], job'[t], a), Based(pc'[t], job'[t], a))
<1>1. \A b : Opens(b)' = Opens(b) /\ OpenedBy(b)' = OpenedBy(b)
  BY OpensKept DEF NoCounts
<1>2. \A a \in Addrs : CountsOf(a, More(pc[t], job[t], a), Based(pc[t], job[t], a))
  BY DEF OnlyTask
<1> SUFFICES ASSUME NEW a \in Addrs
             PROVE  CountsNext(a, More(pc[t], job[t], a), Based(pc[t], job[t], a))
  OBVIOUS
<1> DEFINE x == More(pc[t], job[t], a)
           y == Based(pc[t], job[t], a)
<1>3. CountsOf(a, x, y)
  BY <1>2
<1> HIDE DEF x, y
<1>4. CountsNext(a, x, y)
  BY <1>1, <1>3 DEF CountsOf, CountsNext, NoCounts, vlibs
<1> QED BY <1>4 DEF x, y

\* open_lib() of a native library that is known: it goes on to LibOpen().
LEMMA OpenKnownKeeps ==
    ASSUME LInv, NEW t \in Tasks, OnlyTask(t), NEW n \in Names, NEW ok \in BOOLEAN,
           pc[t] = "idle", FoundInfos(n) # {},
           Enter(t, "open", [NoJob EXCEPT !.addr = lib_infos[Min(FoundInfos(n))], !.ok = ok]),
           UNCHANGED <<vlibs, open_cnt, base_addrs, handles, next_addr, info_name, seglists,
                       lib_infos, alive, left, error>>
    PROVE  LInv'
<1> DEFINE k == Min(FoundInfos(n))
           a == lib_infos[k]
           j == [NoJob EXCEPT !.addr = a, !.ok = ok]
<1>0. /\ TypeOK /\ Fresh /\ VLibsRight /\ InfosRight /\ error = "none" /\ left = -1
      /\ lib_infos \in Seq(Addrs)
      /\ \A b \in ToSet(lib_infos) : b \in alive
      /\ \A b : b \in ToSet(lib_infos) <=> \E i \in 1..Len(lib_infos) : b = lib_infos[i]
  BY NativeFacts
<1>1. k \in 1..Len(lib_infos)
  <2>1. FoundInfos(n) \subseteq Nat /\ FoundInfos(n) \subseteq 1..Len(lib_infos)
    BY DEF FoundInfos
  <2>2. \E i \in FoundInfos(n) : \A m \in FoundInfos(n) : i <= m
    BY <2>1, NatLeast
  <2>3. k \in FoundInfos(n)
    BY <2>2 DEF Min
  <2> QED BY <2>1, <2>3
<1> HIDE DEF k
<1>2. a \in ToSet(lib_infos) /\ a \in Addrs
  BY <1>0, <1>1
<1>3. /\ j \in JobType /\ j.addr = a /\ j.loaded = FALSE /\ j.seglist = FALSE
  BY <1>2 DEF JobType, NoJob
<1> HIDE DEF a
<1>4. Enter(t, "open", j) /\ "open" \in PcType
  BY DEF a, k, PcType
<1>5. Entered(t, "open", j)
  <2> HIDE DEF j
  <2> QED BY <1>3, <1>4, EnterOne
<1>6. pc'[t] = "open" /\ job'[t].addr = a /\ job'[t].loaded = FALSE /\ job'[t].seglist = FALSE /\ pc' \in [Tasks -> PcType]
  BY <1>3, <1>5 DEF Entered
<1>7. a \notin DOMAIN addr_vlib /\ a < next_addr
  BY <1>0, <1>2, Taken DEF InfosRight
<1>8. JobRight(t)'
  BY <1>0, <1>2, <1>6, <1>7 DEF JobRight, vlibs
<1>9. \A b \in Addrs : CountsNext(b, More(pc'[t], job'[t], b), Based(pc'[t], job'[t], b))
  BY <1>6, CountsKept DEF More, Based, NoCounts
<1>10. TypeOK'
  BY <1>0, <1>6 DEF TypeOK, PcType, vlibs
<1>11. Fresh' /\ VLibsRight'
  BY <1>0 DEF Fresh, VLibsRight, vlibs
<1>12. InfosRight'
  <2>1. \A b : OpenedBy(b)' = OpenedBy(b)
    BY OpensKept
  <2> QED BY <1>0, <2>1 DEF InfosRight, vlibs
<1>13. Kept(t)
  BY <1>0, <1>6, <1>8, <1>9, <1>10, <1>11, <1>12 DEF Kept
<1> QED
  <2> HIDE DEF j
  <2> QED BY <1>5, <1>13, KeptAll

\* open_lib() of a native library that is not known: its segments are loaded.
LEMMA LoadKeeps ==
    ASSUME LInv, NEW t \in Tasks, OnlyTask(t), NEW n \in Names, NEW ok \in BOOLEAN,
           pc[t] = "idle", FoundInfos(n) = {}, next_addr <= MaxAddr,
           Enter(t, "init", [NoJob EXCEPT !.addr = next_addr, !.ok = ok, !.loaded = TRUE]),
           next_addr' = next_addr + 1, seglists' = seglists \cup {next_addr},
           info_name' = [info_name EXCEPT ![next_addr] = n],
           UNCHANGED <<vlibs, open_cnt, base_addrs, handles, lib_infos, alive, left, error>>
    PROVE  LInv'
<1> DEFINE a == next_addr
           j == [NoJob EXCEPT !.addr = a, !.ok = ok, !.loaded = TRUE]
<1>0. /\ TypeOK /\ Fresh /\ VLibsRight /\ InfosRight /\ error = "none" /\ left = -1
      /\ next_addr \in 1..(MaxAddr + 1) /\ MaxAddr \in Nat
      /\ lib_infos \in Seq(Addrs) /\ info_name \in [Addrs -> Names \cup {"none"}]
      /\ \A b \in ToSet(lib_infos) : b \in alive
      /\ \A b : b \in ToSet(lib_infos) <=> \E i \in 1..Len(lib_infos) : b = lib_infos[i]
  BY NativeFacts
<1>1. a \in Addrs /\ a \in Nat
  BY <1>0 DEF Addrs
<1>2. a \notin DOMAIN addr_vlib /\ a \notin ToSet(lib_infos)
  BY <1>0, <1>1 DEF Fresh
<1>3. j \in JobType /\ j.addr = a /\ j.seglist = FALSE
  BY <1>1 DEF JobType, NoJob
<1>4. Enter(t, "init", j) /\ "init" \in PcType
  BY DEF PcType
<1>5. Entered(t, "init", j)
  <2> HIDE DEF j, a
  <2> QED BY <1>3, <1>4, EnterOne
<1>6. pc'[t] = "init" /\ job'[t].addr = a /\ job'[t].seglist = FALSE /\ pc' \in [Tasks -> PcType]
  BY <1>3, <1>5 DEF Entered
<1>7. /\ info_name' \in [Addrs -> Names \cup {"none"}]
      /\ info_name'[a] = n /\ \A b \in Addrs : b # a => info_name'[b] = info_name[b]
  BY <1>0, <1>1
<1>8. \A i \in 1..Len(lib_infos) :
            /\ lib_infos[i] \in Addrs /\ lib_infos[i] # a
            /\ info_name'[lib_infos[i]] = info_name[lib_infos[i]]
            /\ info_name[lib_infos[i]] # n
  BY <1>0, <1>2, <1>7 DEF FoundInfos
<1>9. JobRight(t)'
  <2>1. a < next_addr' /\ a \in seglists'
    BY <1>1
  <2> QED BY <1>0, <1>1, <1>2, <1>6, <1>7, <1>8, <2>1 DEF JobRight, vlibs
<1>10. \A b \in Addrs : CountsNext(b, More(pc'[t], job'[t], b), Based(pc'[t], job'[t], b))
  BY <1>6, CountsKept DEF More, Based, NoCounts
<1>11. TypeOK'
  <2>1. next_addr' \in 1..(MaxAddr + 1) /\ seglists' \subseteq Addrs
    BY <1>0, <1>1 DEF TypeOK
  <2> QED BY <1>0, <1>6, <1>7, <2>1 DEF TypeOK, PcType, vlibs
<1>12. Fresh'
  <2>1. \A b \in Addrs : b >= next_addr' => b >= next_addr
    BY <1>1 DEF Addrs
  <2> QED BY <1>0, <2>1 DEF Fresh, vlibs
<1>13. VLibsRight'
  BY <1>0 DEF VLibsRight, vlibs
<1>14. InfosRight'
  <2>1. \A b : OpenedBy(b)' = OpenedBy(b)
    BY OpensKept
  <2>2. \A i, k \in 1..Len(lib_infos) : i # k => info_name'[lib_infos[i]] # info_name'[lib_infos[k]]
    BY <1>0, <1>8 DEF InfosRight
  <2> QED BY <1>0, <2>1, <2>2 DEF InfosRight, vlibs
<1>15. Kept(t)
  BY <1>0, <1>6, <1>9, <1>10, <1>11, <1>12, <1>13, <1>14 DEF Kept
<1> QED
  <2> HIDE DEF j
  <2> QED BY <1>5, <1>15, KeptAll

\* init_resident() came back: the library joins lib_infos.
LEMMA InitDoneKeeps ==
    ASSUME LInv, NEW t \in Tasks, OnlyTask(t), init_done(t)
    PROVE  LInv'
<1> DEFINE j == job[t]
           a == j.addr
<1>0. /\ TypeOK /\ Fresh /\ VLibsRight /\ InfosRight /\ error = "none" /\ left = -1
      /\ lib_infos \in Seq(Addrs) /\ j \in JobType
      /\ \A b \in ToSet(lib_infos) : b \in alive \/ (pc[t] = "closed" /\ job[t].seglist /\ job[t].addr = b)
      /\ \A b : b \in ToSet(lib_infos) <=> \E i \in 1..Len(lib_infos) : b = lib_infos[i]
  BY NativeFacts
<1>1. /\ pc[t] = "init" /\ alive' = alive \cup {a} /\ lib_infos' = Append(lib_infos, a)
      /\ Enter(t, "open", j) /\ "open" \in PcType
      /\ UNCHANGED <<next_addr, addr_vlib, name_vlib, open_cnt, info_name, base_addrs, seglists,
                     handles, left, error>>
  BY DEF init_done, vlibs, PcType
<1>2. Entered(t, "open", j)
  BY <1>0, <1>1, EnterOne
<1>3. pc'[t] = "open" /\ job'[t] = j /\ pc' \in [Tasks -> PcType]
  BY <1>2 DEF Entered
<1>4. /\ a \in Addrs /\ a \notin DOMAIN addr_vlib /\ a < next_addr /\ a \in seglists /\ j.seglist = FALSE
      /\ \A i \in 1..Len(lib_infos) : info_name[lib_infos[i]] # info_name[a]
  BY <1>1 DEF OnlyTask, JobRight
<1>5. /\ lib_infos' \in Seq(Addrs) /\ Len(lib_infos') = Len(lib_infos) + 1
      /\ \A i \in 1..Len(lib_infos) : lib_infos'[i] = lib_infos[i]
      /\ lib_infos'[Len(lib_infos) + 1] = a /\ Len(lib_infos) \in Nat
      /\ DOMAIN lib_infos' = 1..Len(lib_infos')
  BY <1>0, <1>1, <1>4
<1>6. \A b : b \in ToSet(lib_infos') <=> b \in ToSet(lib_infos) \/ b = a
  BY <1>0, <1>5 DEF ToSet
<1>7. a \notin ToSet(lib_infos)
  BY <1>0, <1>4
<1>8. OpenedBy(a) = 0 /\ \A b : OpenedBy(b)' = OpenedBy(b)
  <2>1. OpenedBy(a) \in Nat /\ ~(OpenedBy(a) > 0)
    BY <1>0, <1>4, <1>7, NativeFacts DEF InfosRight
  <2> QED BY <1>1, <2>1, OpensKept
<1>9. JobRight(t)'
  BY <1>0, <1>1, <1>3, <1>4, <1>6, <1>8 DEF JobRight
<1>10. \A b \in Addrs : CountsNext(b, More(pc'[t], job'[t], b), Based(pc'[t], job'[t], b))
  BY <1>1, <1>3, CountsKept DEF More, Based, NoCounts, vlibs
<1>11. TypeOK'
  BY <1>0, <1>1, <1>3, <1>4, <1>5 DEF TypeOK, PcType
<1>12. Fresh'
  <2>1. \A b \in Addrs : b >= next_addr => b # a
    BY <1>0, <1>4 DEF Addrs, TypeOK
  <2> QED BY <1>0, <1>1, <1>6, <2>1 DEF Fresh
<1>13. VLibsRight'
  BY <1>0, <1>1 DEF VLibsRight
<1>14. InfosRight'
  <2>1. ASSUME NEW i \in 1..Len(lib_infos'), NEW k \in 1..Len(lib_infos'), i # k
        PROVE  info_name[lib_infos'[i]] # info_name[lib_infos'[k]]
    <3>1. i \in 1..Len(lib_infos) \/ i = Len(lib_infos) + 1
      BY <1>5
    <3>2. k \in 1..Len(lib_infos) \/ k = Len(lib_infos) + 1
      BY <1>5
    <3> QED BY <1>0, <1>4, <1>5, <2>1, <3>1, <3>2 DEF InfosRight
  <2> QED BY <1>0, <1>1, <1>4, <1>6, <1>8, <2>1 DEF InfosRight
<1>15. Kept(t)
  BY <1>0, <1>1, <1>3, <1>9, <1>10, <1>11, <1>12, <1>13, <1>14 DEF Kept
<1> QED BY <1>2, <1>15, KeptAll

\* init_resident() failed: the segments go.
LEMMA InitFailedKeeps ==
    ASSUME LInv, NEW t \in Tasks, OnlyTask(t), init_failed(t)
    PROVE  LInv'
<1>0. /\ TypeOK /\ Fresh /\ VLibsRight /\ InfosRight /\ error = "none" /\ left = -1
      /\ lib_infos \in Seq(Addrs)
      /\ \A b \in ToSet(lib_infos) : b \in alive \/ (pc[t] = "closed" /\ job[t].seglist /\ job[t].addr = b)
      /\ \A b : b \in ToSet(lib_infos) <=> \E i \in 1..Len(lib_infos) : b = lib_infos[i]
  BY NativeFacts
<1>1. /\ pc[t] = "init" /\ seglists' = seglists \ {job[t].addr}
      /\ Enter(t, "idle", NoJob) /\ "idle" \in PcType /\ NoJob \in JobType
      /\ UNCHANGED <<next_addr, addr_vlib, name_vlib, open_cnt, lib_infos, info_name, base_addrs,
                     alive, handles, left, error>>
  BY DEF init_failed, vlibs, PcType, NoJob, JobType
<1>2. Entered(t, "idle", NoJob)
  BY <1>1, EnterOne
<1>3. pc'[t] = "idle" /\ pc' \in [Tasks -> PcType]
  BY <1>2 DEF Entered
<1>4. job[t].addr \notin ToSet(lib_infos)
  <2>1. \A i \in 1..Len(lib_infos) : info_name[lib_infos[i]] # info_name[job[t].addr]
    BY <1>1 DEF OnlyTask, JobRight
  <2> QED BY <1>0, <2>1
<1>5. \A b : OpenedBy(b)' = OpenedBy(b)
  BY <1>1, OpensKept
<1>6. \A b \in Addrs : CountsNext(b, More(pc'[t], job'[t], b), Based(pc'[t], job'[t], b))
  BY <1>1, <1>3, CountsKept DEF More, Based, NoCounts, vlibs
<1>7. TypeOK' /\ Fresh' /\ VLibsRight'
  <2>1. TypeOK'
    BY <1>0, <1>1, <1>3 DEF TypeOK, PcType
  <2>2. Fresh' /\ VLibsRight'
    BY <1>0, <1>1 DEF Fresh, VLibsRight
  <2> QED BY <2>1, <2>2
<1>8. InfosRight'
  BY <1>0, <1>1, <1>4, <1>5 DEF InfosRight
<1>9. Kept(t)
  BY <1>0, <1>1, <1>3, <1>6, <1>7, <1>8 DEF Kept
<1> QED BY <1>2, <1>9, KeptAll

\* A library is taken out of lib_infos: the others stay, each name once.
LEMMA InfoGone ==
    ASSUME lib_infos \in Seq(Addrs), NEW a \in ToSet(lib_infos),
           \A i, k \in 1..Len(lib_infos) : i # k => info_name[lib_infos[i]] # info_name[lib_infos[k]]
    PROVE  /\ Contains(lib_infos, a)
           /\ RemoveFirst(lib_infos, a) \in Seq(Addrs)
           /\ \A i, k \in 1..Len(RemoveFirst(lib_infos, a)) : i # k =>
                info_name[RemoveFirst(lib_infos, a)[i]] # info_name[RemoveFirst(lib_infos, a)[k]]
           /\ \A b : b \in ToSet(RemoveFirst(lib_infos, a)) <=> b \in ToSet(lib_infos) /\ b # a
<1> DEFINE s == lib_infos
           r == RemoveFirst(s, a)
<1>1. DOMAIN s = 1..Len(s) /\ \A b : b \in ToSet(s) <=> Contains(s, b)
  <2>1. DOMAIN s = 1..Len(s)
    OBVIOUS
  <2> QED BY <2>1, Zenon DEF ToSet, Contains
<1>2. Contains(s, a) /\ IsInjective(s)
  <2>1. \A i, k \in 1..Len(s) : s[i] = s[k] => i = k
    OBVIOUS
  <2> QED BY <1>1, <2>1, Zenon DEF IsInjective
<1>3. /\ r \in Seq(Addrs) /\ IsInjective(r)
      /\ \A b : Contains(r, b) <=> Contains(s, b) /\ b # a
  BY <1>2, RemoveFacts
<1> HIDE DEF r
<1>4. DOMAIN r = 1..Len(r) /\ \A b : b \in ToSet(r) <=> Contains(r, b)
  <2>1. DOMAIN r = 1..Len(r)
    BY <1>3
  <2> QED BY <2>1, Zenon DEF ToSet, Contains
<1>5. ASSUME NEW i \in 1..Len(r), NEW k \in 1..Len(r), i # k
      PROVE  info_name[r[i]] # info_name[r[k]]
  <2>1. r[i] # r[k]
    BY <1>3, <1>4, <1>5 DEF IsInjective
  <2>2. Contains(s, r[i]) /\ Contains(s, r[k])
    BY <1>3 DEF Contains
  <2>3. PICK x \in 1..Len(s) : s[x] = r[i]
    BY <2>2 DEF Contains
  <2>4. PICK y \in 1..Len(s) : s[y] = r[k]
    BY <2>2 DEF Contains
  <2> QED BY <2>1, <2>3, <2>4
<1> QED BY <1>1, <1>2, <1>3, <1>4, <1>5 DEF r

\* LibOpen() counts the opener: the library's count is one ahead.
LEMMA LibOpenKeeps ==
    ASSUME LInv, NEW t \in Tasks, OnlyTask(t), LibOpen(t)
    PROVE  LInv'
<1> DEFINE j == job[t]
           a == j.addr
<1>0. /\ TypeOK /\ Fresh /\ VLibsRight /\ InfosRight /\ error = "none" /\ left = -1
      /\ j \in JobType /\ open_cnt \in [Addrs -> Nat]
      /\ next_addr \in 1..(MaxAddr + 1) /\ MaxAddr \in Nat
      /\ \A b \in ToSet(lib_infos) : b \in alive \/ (pc[t] = "closed" /\ job[t].seglist /\ job[t].addr = b)
  BY NativeFacts
<1>1. /\ pc[t] = "open" /\ open_cnt' = [open_cnt EXCEPT ![a] = @ + 1]
      /\ Enter(t, "opened", j) /\ "opened" \in PcType
      /\ UNCHANGED <<next_addr, addr_vlib, name_vlib, lib_infos, info_name, base_addrs, seglists, alive,
                     handles, left, error>>
  BY DEF LibOpen, vlibs, alibs, PcType
<1>2. Entered(t, "opened", j)
  BY <1>0, <1>1, EnterOne
<1>3. pc'[t] = "opened" /\ job'[t] = j /\ pc' \in [Tasks -> PcType]
  BY <1>2 DEF Entered
<1>4. a \in Addrs /\ a \notin DOMAIN addr_vlib /\ a < next_addr /\ a \in ToSet(lib_infos) /\ job[t].seglist = FALSE
  BY <1>1 DEF OnlyTask, JobRight
<1>5. /\ open_cnt' \in [Addrs -> Nat]
      /\ \A b \in Addrs : open_cnt'[b] = IF b = a THEN open_cnt[b] + 1 ELSE open_cnt[b]
  BY <1>0, <1>1, <1>4
<1>6. \A b : OpenedBy(b)' = OpenedBy(b) /\ Opens(b)' = Opens(b)
  BY <1>1, OpensKept
<1>7. \A b \in Addrs : CountsNext(b, More(pc'[t], job'[t], b), Based(pc'[t], job'[t], b))
  <2> SUFFICES ASSUME NEW b \in Addrs
               PROVE  CountsNext(b, IF b = a THEN 1 ELSE 0, 0)
    BY <1>3 DEF More, Based
  <2>1. CountsOf(b, 0, 0) /\ OpenedBy(b) \in Nat
    BY <1>1, NativeFacts DEF OnlyTask, More, Based
  <2> QED BY <1>1, <1>5, <1>6, <2>1 DEF CountsOf, CountsNext
<1>8. JobRight(t)'
  BY <1>0, <1>1, <1>3, <1>4 DEF JobRight
<1>9. TypeOK'
  BY <1>0, <1>1, <1>3, <1>5 DEF TypeOK, PcType
<1>10. Fresh'
  <2>1. \A b \in Addrs : b >= next_addr => b # a
    BY <1>0, <1>4 DEF Addrs
  <2> QED BY <1>0, <1>1, <1>5, <2>1 DEF Fresh
<1>11. VLibsRight' /\ InfosRight'
  <2>1. VLibsRight'
    BY <1>0, <1>1 DEF VLibsRight
  <2>2. InfosRight'
    BY <1>0, <1>1, <1>6 DEF InfosRight
  <2> QED BY <2>1, <2>2
<1>12. Kept(t)
  BY <1>0, <1>1, <1>3, <1>7, <1>8, <1>9, <1>10, <1>11 DEF Kept
<1> QED BY <1>2, <1>12, KeptAll

\* LibOpen() returned 0: a library that was just loaded is forgotten.
LEMMA LibOpenFailsKeeps ==
    ASSUME LInv, NEW t \in Tasks, OnlyTask(t), LibOpenFails(t)
    PROVE  LInv'
<1> DEFINE a == job[t].addr
<1>0. /\ TypeOK /\ Fresh /\ VLibsRight /\ InfosRight /\ error = "none" /\ left = -1
      /\ lib_infos \in Seq(Addrs)
      /\ \A b \in ToSet(lib_infos) : b \in alive \/ (pc[t] = "closed" /\ job[t].seglist /\ job[t].addr = b)
  BY NativeFacts
<1>1. /\ pc[t] = "open"
      /\ lib_infos' = IF job[t].loaded THEN RemoveFirst(lib_infos, a) ELSE lib_infos
      /\ error' = IF job[t].loaded /\ ~Contains(lib_infos, a) THEN "ValueError" ELSE "none"
      /\ Enter(t, "idle", NoJob) /\ "idle" \in PcType /\ NoJob \in JobType
      /\ UNCHANGED <<next_addr, addr_vlib, name_vlib, open_cnt, info_name, base_addrs,
                     seglists, alive, handles, left>>
  BY DEF LibOpenFails, vlibs, PcType, NoJob, JobType
<1>2. Entered(t, "idle", NoJob)
  BY <1>1, EnterOne
<1>3. pc'[t] = "idle" /\ pc' \in [Tasks -> PcType]
  BY <1>2 DEF Entered
<1>4. a \in ToSet(lib_infos) /\ (job[t].loaded => OpenedBy(a) = 0)
  BY <1>1 DEF OnlyTask, JobRight
<1>5. /\ Contains(lib_infos, a) /\ lib_infos' \in Seq(Addrs)
      /\ \A i, k \in 1..Len(lib_infos') : i # k => info_name[lib_infos'[i]] # info_name[lib_infos'[k]]
      /\ \A b : b \in ToSet(lib_infos') <=> b \in ToSet(lib_infos) /\ (b = a => ~job[t].loaded)
  <2>1. \A i, k \in 1..Len(lib_infos) : i # k => info_name[lib_infos[i]] # info_name[lib_infos[k]]
    BY <1>0 DEF InfosRight
  <2>2. /\ Contains(lib_infos, a)
        /\ RemoveFirst(lib_infos, a) \in Seq(Addrs)
        /\ \A i, k \in 1..Len(RemoveFirst(lib_infos, a)) : i # k =>
                info_name[RemoveFirst(lib_infos, a)[i]] # info_name[RemoveFirst(lib_infos, a)[k]]
        /\ \A b : b \in ToSet(RemoveFirst(lib_infos, a)) <=> b \in ToSet(lib_infos) /\ b # a
    BY <1>0, <1>4, <2>1, InfoGone
  <2>3. CASE job[t].loaded
    <3>1. lib_infos' = RemoveFirst(lib_infos, a)
      BY <1>1, <2>3
    <3> QED BY <2>2, <2>3, <3>1
  <2>4. CASE ~job[t].loaded
    <3>1. lib_infos' = lib_infos
      BY <1>1, <2>4
    <3> QED BY <1>0, <2>1, <2>2, <2>4, <3>1
  <2> QED BY <2>3, <2>4
<1>6. \A b : OpenedBy(b)' = OpenedBy(b)
  BY <1>1, OpensKept
<1>7. \A b \in Addrs : CountsNext(b, More(pc'[t], job'[t], b), Based(pc'[t], job'[t], b))
  BY <1>1, <1>3, CountsKept DEF More, Based, NoCounts, vlibs
<1>8. error' = "none"
  BY <1>1, <1>5
<1>9. TypeOK' /\ Fresh' /\ VLibsRight'
  <2>1. TypeOK'
    BY <1>0, <1>1, <1>3, <1>5, <1>8 DEF TypeOK, PcType
  <2>2. Fresh'
    BY <1>0, <1>1, <1>5 DEF Fresh
  <2>3. VLibsRight'
    BY <1>0, <1>1 DEF VLibsRight
  <2> QED BY <2>1, <2>2, <2>3
<1>10. InfosRight'
  <2>1. \A b \in Addrs \ DOMAIN addr_vlib : OpenedBy(b)' > 0 => b \in ToSet(lib_infos')
    <3> TAKE b \in Addrs \ DOMAIN addr_vlib
    <3>1. OpenedBy(b)' > 0 => b \in ToSet(lib_infos)
      BY <1>0, <1>6 DEF InfosRight
    <3>2. OpenedBy(b)' > 0 /\ job[t].loaded => b # a
      BY <1>4, <1>6
    <3> QED BY <1>5, <3>1, <3>2, Zenon
  <2>2. \A b \in ToSet(lib_infos') : b \in seglists /\ b \notin DOMAIN addr_vlib /\ b \in alive
    BY <1>0, <1>1, <1>5 DEF InfosRight
  <2> QED BY <1>1, <1>5, <2>1, <2>2 DEF InfosRight
<1>11. Kept(t)
  BY <1>3, <1>7, <1>8, <1>9, <1>10 DEF Kept
<1> QED BY <1>2, <1>11, KeptAll

\* Back from LibOpen(): the base is counted, and too old a library closed again.
LEMMA OpenedKeeps ==
    ASSUME LInv, NEW t \in Tasks, OnlyTask(t), opened(t)
    PROVE  LInv'
<1> DEFINE j == job[t]
           a == j.addr
<1>0. /\ TypeOK /\ Fresh /\ VLibsRight /\ InfosRight /\ error = "none" /\ left = -1
      /\ j \in JobType /\ base_addrs \in [Addrs -> Nat]
      /\ next_addr \in 1..(MaxAddr + 1) /\ MaxAddr \in Nat
      /\ lib_infos \in Seq(Addrs)
      /\ \A b \in ToSet(lib_infos) : b \in alive \/ (pc[t] = "closed" /\ job[t].seglist /\ job[t].addr = b)
      /\ \A b : b \in ToSet(lib_infos) <=> \E i \in 1..Len(lib_infos) : b = lib_infos[i]
      /\ \A b \in Addrs : IsFiniteSet(Opens(b)) /\ OpenedBy(b) \in Nat
      /\ handles \in [Tasks -> [Addrs -> Nat]]
  BY NativeFacts DEF TypeOK
<1>1. /\ pc[t] = "opened" /\ base_addrs' = [base_addrs EXCEPT ![a] = @ + 1]
      /\ \/ /\ handles' = Handled(t, a, 1)
            /\ Enter(t, "idle", NoJob) /\ UNCHANGED error
         \/ /\ Enter(t, "close", j) /\ UNCHANGED <<handles, error>>
         \/ ~Contains(lib_infos, a)
      /\ UNCHANGED <<next_addr, addr_vlib, name_vlib, open_cnt, lib_infos, info_name, seglists, alive, left>>
  BY DEF opened, BaseAdded, vlibs
<1>2. a \in Addrs /\ a \notin DOMAIN addr_vlib /\ a < next_addr /\ a \in ToSet(lib_infos) /\ job[t].seglist = FALSE
  BY <1>1 DEF OnlyTask, JobRight
<1>3. Contains(lib_infos, a)
  <2>1. PICK i \in 1..Len(lib_infos) : a = lib_infos[i]
    BY <1>0, <1>2
  <2> QED BY <2>1 DEF Contains
<1>4. /\ base_addrs' \in [Addrs -> Nat]
      /\ \A b \in Addrs : base_addrs'[b] = IF b = a THEN base_addrs[b] + 1 ELSE base_addrs[b]
  <2>1. base_addrs' = [base_addrs EXCEPT ![a] = @ + 1] /\ a \in Addrs /\ base_addrs \in [Addrs -> Nat]
    BY <1>0, <1>1, <1>2
  <2> HIDE DEF a
  <2> QED BY <2>1
<1>5. \A b \in Addrs : CountsOf(b, IF b = a THEN 1 ELSE 0, 0)
  BY <1>1 DEF OnlyTask, More, Based
<1>6. \A b \in Addrs : b >= next_addr => b # a
  BY <1>0, <1>2 DEF Addrs
<1>7. PcType = {"idle", "init", "open", "opened", "close", "closed"} /\ NoJob \in JobType
  BY DEF PcType, NoJob, JobType
<1>8. CASE handles' = Handled(t, a, 1) /\ Enter(t, "idle", NoJob) /\ UNCHANGED error
  <2>1. Entered(t, "idle", NoJob)
    BY <1>7, <1>8, EnterOne
  <2>2. pc'[t] = "idle" /\ pc' \in [Tasks -> PcType]
    BY <2>1 DEF Entered
  <2>3. /\ handles' \in [Tasks -> [Addrs -> Nat]]
        /\ \A b \in Addrs : IsFiniteSet(Opens(b))'
        /\ \A b \in Addrs : OpenedBy(b)' = IF b = a THEN OpenedBy(b) + 1 ELSE OpenedBy(b)
    BY <1>0, <1>2, <1>8, OpensUp
  <2>4. \A b \in Addrs : CountsNext(b, More(pc'[t], job'[t], b), Based(pc'[t], job'[t], b))
    <3> SUFFICES ASSUME NEW b \in Addrs
                 PROVE  CountsNext(b, 0, 0)
      BY <2>2 DEF More, Based
    <3>1. CountsOf(b, IF b = a THEN 1 ELSE 0, 0) /\ OpenedBy(b) \in Nat
      BY <1>0, <1>5
    <3> QED BY <1>1, <1>2, <1>4, <2>3, <3>1 DEF CountsOf, CountsNext
  <2>5. TypeOK'
    BY <1>0, <1>1, <1>4, <1>7, <1>8, <2>2, <2>3 DEF TypeOK
  <2>6. Fresh' /\ VLibsRight'
    <3>1. Fresh'
      BY <1>0, <1>1, <1>4, <1>6 DEF Fresh
    <3>2. VLibsRight'
      BY <1>0, <1>1 DEF VLibsRight
    <3> QED BY <3>1, <3>2
  <2>7. InfosRight'
    <3>1. \A b \in Addrs \ DOMAIN addr_vlib : OpenedBy(b)' > 0 => b \in ToSet(lib_infos)
      BY <1>0, <1>2, <2>3 DEF InfosRight
    <3> QED BY <1>0, <1>1, <3>1 DEF InfosRight
  <2>8. Kept(t)
    BY <1>0, <1>8, <2>2, <2>4, <2>5, <2>6, <2>7 DEF Kept
  <2> QED BY <2>1, <2>8, KeptAll
<1>9. CASE Enter(t, "close", j) /\ UNCHANGED <<handles, error>>
  <2>1. Entered(t, "close", j)
    BY <1>0, <1>7, <1>9, EnterOne
  <2>2. pc'[t] = "close" /\ job'[t] = j /\ pc' \in [Tasks -> PcType]
    BY <2>1 DEF Entered
  <2>3. \A b : OpenedBy(b)' = OpenedBy(b) /\ Opens(b)' = Opens(b)
    BY <1>9, OpensKept
  <2>4. \A b \in Addrs : CountsNext(b, More(pc'[t], job'[t], b), Based(pc'[t], job'[t], b))
    <3> SUFFICES ASSUME NEW b \in Addrs
                 PROVE  CountsNext(b, IF b = a THEN 1 ELSE 0, IF b = a THEN 1 ELSE 0)
      BY <2>2 DEF More, Based
    <3>1. CountsOf(b, IF b = a THEN 1 ELSE 0, 0) /\ OpenedBy(b) \in Nat
      BY <1>0, <1>5
    <3> QED BY <1>1, <1>2, <1>4, <2>3, <3>1 DEF CountsOf, CountsNext
  <2>5. TypeOK'
    BY <1>0, <1>1, <1>4, <1>7, <1>9, <2>2 DEF TypeOK
  <2>6. Fresh' /\ VLibsRight' /\ InfosRight'
    <3>1. Fresh'
      BY <1>0, <1>1, <1>4, <1>6 DEF Fresh
    <3>2. VLibsRight'
      BY <1>0, <1>1 DEF VLibsRight
    <3>3. InfosRight'
      BY <1>0, <1>1, <2>3 DEF InfosRight
    <3> QED BY <3>1, <3>2, <3>3
  <2>7. JobRight(t)'
    BY <1>0, <1>1, <1>2, <2>2 DEF JobRight
  <2>8. Kept(t)
    BY <1>0, <1>9, <2>2, <2>4, <2>5, <2>6, <2>7 DEF Kept
  <2> QED BY <2>1, <2>8, KeptAll
<1> QED BY <1>1, <1>3, <1>8, <1>9

\* close_lib() of a native library: its base is open.
LEMMA CloseALibKeeps ==
    ASSUME LInv, NEW t \in Tasks, OnlyTask(t), NEW a \in Addrs, close_alib(t, a)
    PROVE  LInv'
<1> DEFINE j == [NoJob EXCEPT !.addr = a]
<1>0. /\ TypeOK /\ Fresh /\ VLibsRight /\ InfosRight /\ error = "none" /\ left = -1
      /\ lib_infos \in Seq(Addrs)
      /\ \A b \in ToSet(lib_infos) : b \in alive \/ (pc[t] = "closed" /\ job[t].seglist /\ job[t].addr = b)
      /\ \A b : b \in ToSet(lib_infos) <=> \E i \in 1..Len(lib_infos) : b = lib_infos[i]
      /\ \A b \in Addrs : IsFiniteSet(Opens(b)) /\ OpenedBy(b) \in Nat
      /\ handles \in [Tasks -> [Addrs -> Nat]]
  BY NativeFacts DEF TypeOK
<1>1. /\ pc[t] = "idle" /\ handles[t][a] > 0 /\ a \notin DOMAIN addr_vlib
      /\ handles' = Handled(t, a, -1)
      /\ IF is_base_addr(a) THEN Enter(t, "close", j) ELSE UNCHANGED <<pc, job>>
      /\ UNCHANGED <<next_addr, addr_vlib, name_vlib, open_cnt, lib_infos, info_name, base_addrs,
                     seglists, alive, left, error>>
  BY DEF close_alib, vlibs, alibs
<1>2. OpenedBy(a) > 0 /\ a \in ToSet(lib_infos) /\ a < next_addr
  <2>1. OpenedBy(a) > 0
    BY <1>0, <1>1, OpensCounted
  <2>2. a \in ToSet(lib_infos)
    BY <1>0, <1>1, <2>1 DEF InfosRight
  <2> QED BY <2>1, <2>2, Taken
<1>3. is_base_addr(a)
  <2>1. base_addrs[a] = OpenedBy(a)
    BY <1>1, IdleCounts
  <2>2. Contains(lib_infos, a)
    BY <1>0, <1>2 DEF Contains
  <2> QED BY <1>2, <2>1, <2>2 DEF is_base_addr
<1>4. j \in JobType /\ j.addr = a /\ j.seglist = FALSE /\ "close" \in PcType
  BY DEF JobType, NoJob, PcType
<1>5. Entered(t, "close", j)
  <2> HIDE DEF j
  <2> QED BY <1>1, <1>3, <1>4, EnterOne
<1>6. pc'[t] = "close" /\ job'[t].addr = a /\ job'[t].seglist = FALSE /\ pc' \in [Tasks -> PcType]
  BY <1>4, <1>5 DEF Entered
<1>7. /\ handles' \in [Tasks -> [Addrs -> Nat]]
      /\ \A b \in Addrs : IsFiniteSet(Opens(b))' /\ OpenedBy(b)' \in Nat
      /\ \A b \in Addrs : OpenedBy(b)' = IF b = a THEN OpenedBy(b) - 1 ELSE OpenedBy(b)
  BY <1>0, <1>1, OpensDown
<1>8. \A b \in Addrs : CountsNext(b, More(pc'[t], job'[t], b), Based(pc'[t], job'[t], b))
  <2> SUFFICES ASSUME NEW b \in Addrs
               PROVE  CountsNext(b, IF b = a THEN 1 ELSE 0, IF b = a THEN 1 ELSE 0)
    BY <1>6 DEF More, Based
  <2>1. CountsOf(b, 0, 0) /\ OpenedBy(b) \in Nat
    BY <1>0, <1>1, IdleCounts
  <2> QED BY <1>1, <1>7, <2>1 DEF CountsOf, CountsNext
<1>9. TypeOK'
  BY <1>0, <1>1, <1>6, <1>7 DEF TypeOK, PcType
<1>10. Fresh' /\ VLibsRight'
  BY <1>0, <1>1 DEF Fresh, VLibsRight
<1>11. InfosRight'
  <2>1. \A b \in Addrs \ DOMAIN addr_vlib : OpenedBy(b)' > 0 => b \in ToSet(lib_infos)
    <3> TAKE b \in Addrs \ DOMAIN addr_vlib
    <3> QED BY <1>0, <1>2, <1>7 DEF InfosRight
  <2> QED BY <1>0, <1>1, <2>1 DEF InfosRight
<1>12. JobRight(t)'
  BY <1>0, <1>1, <1>2, <1>6 DEF JobRight
<1>13. Kept(t)
  BY <1>0, <1>1, <1>6, <1>8, <1>9, <1>10, <1>11, <1>12 DEF Kept
<1> QED
  <2> HIDE DEF j
  <2> QED BY <1>5, <1>13, KeptAll

\* LibClose() counts the closer; with the last one the library may expunge itself.
LEMMA LibCloseKeeps ==
    ASSUME LInv, NEW t \in Tasks, OnlyTask(t), LibClose(t)
    PROVE  LInv'
<1> DEFINE a == job[t].addr
           gone == open_cnt[a] = 1 /\ a \in alive /\ alive' = alive \ {a}
                                   /\ Enter(t, "closed", [job[t] EXCEPT !.seglist = TRUE])
           stay == alive' = alive /\ Enter(t, "closed", job[t])
<1>0. /\ TypeOK /\ Fresh /\ VLibsRight /\ InfosRight /\ error = "none" /\ left = -1
      /\ job[t] \in JobType /\ open_cnt \in [Addrs -> Nat]
      /\ next_addr \in 1..(MaxAddr + 1) /\ MaxAddr \in Nat
      /\ \A b \in ToSet(lib_infos) : b \in alive \/ (pc[t] = "closed" /\ job[t].seglist /\ job[t].addr = b)
      /\ \A b \in Addrs : IsFiniteSet(Opens(b)) /\ OpenedBy(b) \in Nat
  BY NativeFacts
<1>1. /\ pc[t] = "close" /\ open_cnt' = [open_cnt EXCEPT ![a] = @ - 1]
      /\ stay \/ gone
      /\ UNCHANGED <<next_addr, addr_vlib, name_vlib, lib_infos, info_name, base_addrs, seglists,
                     handles, left, error>>
  BY DEF LibClose, vlibs
<1>2. a \in Addrs /\ a \notin DOMAIN addr_vlib /\ a < next_addr /\ a \in ToSet(lib_infos) /\ job[t].seglist = FALSE
  BY <1>1 DEF OnlyTask, JobRight
<1>3. \A b \in Addrs : CountsOf(b, IF b = a THEN 1 ELSE 0, IF b = a THEN 1 ELSE 0)
  BY <1>1 DEF OnlyTask, More, Based
<1>4. open_cnt[a] = OpenedBy(a) + 1
  BY <1>2, <1>3 DEF CountsOf
<1>5. /\ open_cnt' \in [Addrs -> Nat]
      /\ \A b \in Addrs : open_cnt'[b] = IF b = a THEN open_cnt[b] - 1 ELSE open_cnt[b]
  <2>1. open_cnt' = [open_cnt EXCEPT ![a] = @ - 1] /\ open_cnt[a] - 1 \in Nat
    BY <1>0, <1>1, <1>2, <1>4
  <2> HIDE DEF a
  <2> QED BY <1>0, <1>2, <2>1
<1>6. \A b : OpenedBy(b)' = OpenedBy(b) /\ Opens(b)' = Opens(b)
  BY <1>1, OpensKept
<1>7. \E j \in JobType : /\ Entered(t, "closed", j) /\ j.addr = a
                         /\ alive' = alive \/ (alive' = alive \ {a} /\ j.seglist)
                         /\ j.seglist => OpenedBy(a) = 0 \/ j = job[t]
  <2>0. "closed" \in PcType
    BY DEF PcType
  <2>1. CASE stay
    <3>1. Enter(t, "closed", job[t])
      BY <2>1
    <3>2. Entered(t, "closed", job[t])
      BY <1>0, <2>0, <3>1, EnterOne
    <3> QED BY <1>0, <2>1, <3>2
  <2>2. CASE gone
    <3> DEFINE j == [job[t] EXCEPT !.seglist = TRUE]
    <3>1. j \in JobType /\ j.addr = a /\ j.seglist = TRUE
      BY <1>0 DEF JobType
    <3>2. Enter(t, "closed", j)
      BY <2>2
    <3>3. OpenedBy(a) = 0
      BY <1>0, <1>2, <1>4, <2>2
    <3> HIDE DEF j
    <3>4. Entered(t, "closed", j)
      BY <2>0, <3>1, <3>2, EnterOne
    <3> QED BY <2>2, <3>1, <3>3, <3>4
  <2> QED BY <1>1, <2>1, <2>2
<1> HIDE DEF stay, gone
<1>8. PICK j \in JobType : /\ Entered(t, "closed", j) /\ j.addr = a
                           /\ alive' = alive \/ (alive' = alive \ {a} /\ j.seglist)
                           /\ j.seglist => OpenedBy(a) = 0 \/ j = job[t]
  BY <1>7
<1>9. pc'[t] = "closed" /\ job'[t] = j /\ pc' \in [Tasks -> PcType]
  BY <1>8 DEF Entered
<1>10. \A b \in Addrs : CountsNext(b, More(pc'[t], job'[t], b), Based(pc'[t], job'[t], b))
  <2> SUFFICES ASSUME NEW b \in Addrs
               PROVE  CountsNext(b, 0, IF b = a THEN 1 ELSE 0)
    BY <1>8, <1>9 DEF More, Based
  <2>1. CountsOf(b, IF b = a THEN 1 ELSE 0, IF b = a THEN 1 ELSE 0) /\ OpenedBy(b) \in Nat
    BY <1>0, <1>3
  <2> QED BY <1>1, <1>5, <1>6, <2>1 DEF CountsOf, CountsNext
<1>11. TypeOK'
  BY <1>0, <1>1, <1>5, <1>8, <1>9 DEF TypeOK, PcType
<1>12. Fresh' /\ VLibsRight'
  <2>1. \A b \in Addrs : b >= next_addr => b # a
    BY <1>0, <1>2 DEF Addrs
  <2>2. Fresh'
    BY <1>0, <1>1, <1>5, <2>1 DEF Fresh
  <2>3. VLibsRight'
    BY <1>0, <1>1 DEF VLibsRight
  <2> QED BY <2>2, <2>3
<1>13. InfosRight'
  <2>1. \A b \in ToSet(lib_infos) : b \in alive' \/ (b = a /\ j.seglist)
    BY <1>0, <1>1, <1>8
  <2>2. \A b \in ToSet(lib_infos) :
            b \in alive' \/ \E u \in Tasks : pc'[u] = "closed" /\ job'[u].seglist /\ job'[u].addr = b
    BY <1>8, <1>9, <2>1
  <2> QED BY <1>0, <1>1, <1>6, <2>2 DEF InfosRight
<1>14. JobRight(t)'
  <2>1. j.seglist => OpenedBy(a) = 0
    BY <1>2, <1>8
  <2> QED BY <1>0, <1>1, <1>2, <1>6, <1>8, <1>9, <2>1 DEF JobRight
<1>15. Kept(t)
  BY <1>0, <1>1, <1>9, <1>10, <1>11, <1>12, <1>13, <1>14 DEF Kept
<1> QED BY <1>8, <1>15, KeptAll

\* Back from LibClose(): the segments of a library that expunged itself go, and
\* its info, of which no base is open.
LEMMA ClosedKeeps ==
    ASSUME LInv, NEW t \in Tasks, OnlyTask(t), closed(t)
    PROVE  LInv'
<1> DEFINE a == job[t].addr
<1>0. /\ TypeOK /\ Fresh /\ VLibsRight /\ InfosRight /\ error = "none" /\ left = -1
      /\ job[t] \in JobType /\ base_addrs \in [Addrs -> Nat]
      /\ next_addr \in 1..(MaxAddr + 1) /\ MaxAddr \in Nat
      /\ lib_infos \in Seq(Addrs)
      /\ \A b \in ToSet(lib_infos) : b \in alive \/ (pc[t] = "closed" /\ job[t].seglist /\ job[t].addr = b)
      /\ \A b \in Addrs : IsFiniteSet(Opens(b)) /\ OpenedBy(b) \in Nat
  BY NativeFacts
<1>1. /\ pc[t] = "closed" /\ base_addrs' = [base_addrs EXCEPT ![a] = IF @ > 0 THEN @ - 1 ELSE 0]
      /\ \/ ~job[t].seglist /\ UNCHANGED <<seglists, lib_infos, error>>
         \/ /\ job[t].seglist
            /\ seglists' = seglists \ {a}
            /\ lib_infos' = IF base_addrs'[a] = 0 THEN RemoveFirst(lib_infos, a) ELSE lib_infos
            /\ error' = IF base_addrs'[a] > 0 THEN "AssertionError"
                        ELSE IF Contains(lib_infos, a) THEN "none" ELSE "ValueError"
      /\ Enter(t, "idle", NoJob) /\ "idle" \in PcType /\ NoJob \in JobType
      /\ UNCHANGED <<next_addr, addr_vlib, name_vlib, open_cnt, info_name, alive, handles, left>>
  BY DEF closed, BaseRemoved, InfoRemoved, vlibs, PcType, NoJob, JobType
<1>2. /\ a \in Addrs /\ a \notin DOMAIN addr_vlib /\ a < next_addr /\ a \in ToSet(lib_infos)
      /\ job[t].seglist => OpenedBy(a) = 0
  BY <1>1 DEF OnlyTask, JobRight
<1>3. \A b \in Addrs : CountsOf(b, 0, IF b = a THEN 1 ELSE 0)
  BY <1>1 DEF OnlyTask, More, Based
<1>4. base_addrs[a] = OpenedBy(a) + 1
  BY <1>2, <1>3 DEF CountsOf
<1>5. /\ base_addrs' \in [Addrs -> Nat]
      /\ \A b \in Addrs : base_addrs'[b] = IF b = a THEN base_addrs[b] - 1 ELSE base_addrs[b]
  <2>1. /\ base_addrs' = [base_addrs EXCEPT ![a] = IF @ > 0 THEN @ - 1 ELSE 0]
        /\ base_addrs[a] > 0 /\ base_addrs[a] - 1 \in Nat
    BY <1>0, <1>1, <1>2, <1>4
  <2> HIDE DEF a
  <2> QED BY <1>0, <1>2, <2>1
<1>6. \A b : OpenedBy(b)' = OpenedBy(b) /\ Opens(b)' = Opens(b)
  BY <1>1, OpensKept
<1>7. Entered(t, "idle", NoJob)
  BY <1>1, EnterOne
<1>8. pc'[t] = "idle" /\ pc' \in [Tasks -> PcType]
  BY <1>7 DEF Entered
<1>9. \A b \in Addrs : CountsNext(b, More(pc'[t], job'[t], b), Based(pc'[t], job'[t], b))
  <2> SUFFICES ASSUME NEW b \in Addrs
               PROVE  CountsNext(b, 0, 0)
    BY <1>8 DEF More, Based
  <2>1. CountsOf(b, 0, IF b = a THEN 1 ELSE 0) /\ OpenedBy(b) \in Nat
    BY <1>0, <1>3
  <2> QED BY <1>1, <1>2, <1>5, <1>6, <2>1 DEF CountsOf, CountsNext
<1>10. VLibsRight'
  BY <1>0, <1>1 DEF VLibsRight
<1>11. \A b \in Addrs : b >= next_addr => b # a
  BY <1>0, <1>2 DEF Addrs
<1>12. CASE ~job[t].seglist
  <2>0. UNCHANGED <<seglists, lib_infos, error>>
    BY <1>1, <1>12
  <2>1. TypeOK'
    BY <1>0, <1>1, <1>5, <1>8, <2>0 DEF TypeOK, PcType
  <2>2. Fresh'
    BY <1>0, <1>1, <1>5, <1>11, <2>0 DEF Fresh
  <2>3. InfosRight'
    BY <1>0, <1>1, <1>6, <1>12, <2>0 DEF InfosRight
  <2>4. Kept(t)
    BY <1>0, <1>8, <1>9, <1>10, <2>0, <2>1, <2>2, <2>3 DEF Kept
  <2> QED BY <1>7, <2>4, KeptAll
<1>13. CASE job[t].seglist
  <2>1. base_addrs'[a] = 0
    BY <1>2, <1>4, <1>5, <1>13
  <2>2. \A i, k \in 1..Len(lib_infos) : i # k => info_name[lib_infos[i]] # info_name[lib_infos[k]]
    BY <1>0 DEF InfosRight
  <2>3. /\ Contains(lib_infos, a)
        /\ RemoveFirst(lib_infos, a) \in Seq(Addrs)
        /\ \A i, k \in 1..Len(RemoveFirst(lib_infos, a)) : i # k =>
                info_name[RemoveFirst(lib_infos, a)[i]] # info_name[RemoveFirst(lib_infos, a)[k]]
        /\ \A b : b \in ToSet(RemoveFirst(lib_infos, a)) <=> b \in ToSet(lib_infos) /\ b # a
    BY <1>0, <1>2, <2>2, InfoGone
  <2>4. /\ seglists' = seglists \ {a} /\ lib_infos' = RemoveFirst(lib_infos, a)
        /\ error' = "none"
    BY <1>1, <1>13, <2>1, <2>3
  <2>5. TypeOK'
    BY <1>0, <1>1, <1>5, <1>8, <2>3, <2>4 DEF TypeOK, PcType
  <2>6. Fresh'
    BY <1>0, <1>1, <1>5, <1>11, <2>3, <2>4 DEF Fresh
  <2>7. InfosRight'
    <3>1. \A b \in ToSet(lib_infos') : b \in seglists' /\ b \notin DOMAIN addr_vlib /\ b \in alive
      BY <1>0, <2>3, <2>4 DEF InfosRight
    <3>2. \A b \in Addrs \ DOMAIN addr_vlib : OpenedBy(b)' > 0 => b \in ToSet(lib_infos')
      <4> TAKE b \in Addrs \ DOMAIN addr_vlib
      <4>1. OpenedBy(b)' > 0 => b \in ToSet(lib_infos) /\ b # a
        BY <1>0, <1>2, <1>6, <1>13 DEF InfosRight
      <4> QED BY <2>3, <2>4, <4>1
    <3>3. \A i, k \in 1..Len(lib_infos') : i # k => info_name[lib_infos'[i]] # info_name[lib_infos'[k]]
      BY <2>3, <2>4
    <3> QED BY <1>1, <3>1, <3>2, <3>3 DEF InfosRight
  <2>8. Kept(t)
    BY <1>8, <1>9, <1>10, <2>4, <2>5, <2>6, <2>7 DEF Kept
  <2> QED BY <1>7, <2>8, KeptAll
<1> QED BY <1>12, <1>13

-----------------------------------------------------------------------------
(* shutdown(): what the loop over lib_infos leaves.                         *)

\* bases as they were, or an open less where the loop was
Dropped(bases, a, seen) ==
    \/ bases[a] = base_addrs[a]
    \/ seen /\ base_addrs[a] > 0 /\ bases[a] = base_addrs[a] - 1

LoopType == [infos : Seq(Addrs), bases : [Addrs -> Nat], left : Nat, error : {"none"}]

\* After k turns: the open libraries of lib_infos, and some that are not, each name
\* once; those beyond k have the opens they had.
Some(s, k) ==
    /\ s \in LoopType
    /\ s.left <= k /\ s.left <= Len(s.infos)
    /\ \A i, m \in 1..Len(s.infos) : i # m => info_name[s.infos[i]] # info_name[s.infos[m]]
    /\ \A i \in 1..Len(s.infos) : s.infos[i] \in ToSet(lib_infos)
    /\ \A a \in ToSet(lib_infos) : open_cnt[a] > 0 => \E i \in 1..Len(s.infos) : s.infos[i] = a
    /\ \A a \in Addrs : Dropped(s.bases, a, \E i \in 1..Len(s.infos) : i <= k /\ s.infos[i] = a)

\* A turn of the loop keeps the library at its index and drops an open of it, or takes
\* it out.
LEMMA TurnKeeps ==
    ASSUME TypeOK, \A a \in ToSet(lib_infos) : open_cnt[a] = 0 => base_addrs[a] = 0,
           NEW s, NEW k \in Nat \ {0}, Some(s, k - 1)
    PROVE  Some(expunge_lib(s, k), k)
<1>0. /\ s.infos \in Seq(Addrs) /\ Len(s.infos) \in Nat /\ s.left \in Nat /\ s.error = "none"
      /\ s.bases \in [Addrs -> Nat] /\ s \in LoopType /\ base_addrs \in [Addrs -> Nat]
      /\ s.left <= k - 1 /\ s.left <= Len(s.infos) /\ open_cnt \in [Addrs -> Nat]
  BY DEF Some, LoopType, TypeOK
<1> DEFINE a == s.infos[k]
           b2 == BaseRemoved(s.bases, a)
<1>1. CASE k > Len(s.infos)
  <2>1. expunge_lib(s, k) = s
    BY <1>1 DEF expunge_lib
  <2>2. ASSUME NEW x \in Addrs
        PROVE  Dropped(s.bases, x, \E i \in 1..Len(s.infos) : i <= k /\ s.infos[i] = x)
    <3>1. Dropped(s.bases, x, \E i \in 1..Len(s.infos) : i <= k - 1 /\ s.infos[i] = x)
      BY DEF Some
    <3>2. \A i \in 1..Len(s.infos) : i <= k - 1 => i <= k
      BY <1>0
    <3> QED BY <3>1, <3>2 DEF Dropped
  <2>3. s.left <= k
    BY <1>0
  <2> QED BY <1>0, <2>1, <2>2, <2>3 DEF Some
<1>2. CASE ~(k > Len(s.infos))
  <2>1. k \in 1..Len(s.infos) /\ a \in Addrs /\ a \in ToSet(lib_infos)
    BY <1>0, <1>2 DEF Some
  <2>2. \A i \in 1..Len(s.infos) : i # k => s.infos[i] # a
    BY <2>1 DEF Some
  <2>7. a = s.infos[k] /\ b2 = BaseRemoved(s.bases, a)
    OBVIOUS
  <2> HIDE DEF a, b2
  <2>3. s.bases[a] = base_addrs[a]
    <3>1. ~ \E i \in 1..Len(s.infos) : i <= k - 1 /\ s.infos[i] = a
      BY <2>1, <2>2
    <3> QED BY <2>1, <3>1 DEF Some, Dropped
  <2>4. /\ b2 \in [Addrs -> Nat]
        /\ \A x \in Addrs : b2[x] = IF x = a THEN (IF s.bases[x] > 0 THEN s.bases[x] - 1 ELSE 0) ELSE s.bases[x]
    <3> DEFINE v == IF s.bases[a] > 0 THEN s.bases[a] - 1 ELSE 0
    <3>1. b2 = [s.bases EXCEPT ![a] = v]
      BY <2>7 DEF BaseRemoved
    <3>2. v \in Nat
      BY <1>0, <2>1
    <3>3. b2 \in [Addrs -> Nat] /\ \A x \in Addrs : b2[x] = IF x = a THEN v ELSE s.bases[x]
      <4> HIDE DEF v
      <4> QED BY <1>0, <2>1, <3>1, <3>2
    <3> QED BY <3>3
  <2>5. CASE open_cnt[a] > 0
    <3>1. expunge_lib(s, k) = [s EXCEPT !.bases = b2, !.left = @ + 1]
      BY <1>0, <1>2, <2>5, <2>7 DEF expunge_lib
    <3> DEFINE r == expunge_lib(s, k)
    <3>2. r \in LoopType /\ r.infos = s.infos /\ r.bases = b2 /\ r.left = s.left + 1
      <4>1. s.left + 1 \in Nat
        BY <1>0
      <4> QED BY <1>0, <2>4, <3>1, <4>1 DEF LoopType
    <3>3. s.left + 1 <= k /\ s.left + 1 <= Len(s.infos)
      BY <1>0, <2>1
    <3>4. ASSUME NEW x \in Addrs
          PROVE  Dropped(b2, x, \E i \in 1..Len(s.infos) : i <= k /\ s.infos[i] = x)
      <4>1. CASE x = a
        <5>1. \E i \in 1..Len(s.infos) : i <= k /\ s.infos[i] = x
          BY <2>1, <2>7, <4>1
        <5>2. b2[x] = IF base_addrs[x] > 0 THEN base_addrs[x] - 1 ELSE 0
          BY <2>1, <2>3, <2>4, <4>1
        <5>3. base_addrs[x] \in Nat
          BY <1>0
        <5> QED BY <5>1, <5>2, <5>3 DEF Dropped
      <4>2. CASE x # a
        <5>1. b2[x] = s.bases[x]
          BY <2>4, <4>2
        <5>2. Dropped(s.bases, x, \E i \in 1..Len(s.infos) : i <= k - 1 /\ s.infos[i] = x)
          BY DEF Some
        <5>3. \A i \in 1..Len(s.infos) : i <= k - 1 => i <= k
          BY <1>0
        <5> QED BY <5>1, <5>2, <5>3 DEF Dropped
      <4> QED BY <4>1, <4>2
    <3> HIDE DEF r
    <3>5. r = expunge_lib(s, k)
      BY DEF r
    <3> QED BY <3>2, <3>3, <3>4, <3>5 DEF Some
  <2>6. CASE ~(open_cnt[a] > 0)
    <3> DEFINE q == RemoveAt(s.infos, k)
               r == expunge_lib(s, k)
    <3>0. open_cnt[a] = 0
      BY <1>0, <2>1, <2>6
    <3>1. base_addrs[a] = 0
      BY <2>1, <3>0
    <3>2. b2 = s.bases
      <4>1. \A x \in Addrs : b2[x] = s.bases[x]
        BY <2>1, <2>3, <2>4, <3>1
      <4> QED BY <1>0, <2>4, <4>1
    <3>3. /\ q \in Seq(Addrs) /\ Len(q) = Len(s.infos) - 1
          /\ \A i \in 1..(Len(s.infos) - 1) : q[i] = IF i < k THEN s.infos[i] ELSE s.infos[i + 1]
      BY <1>0, <2>1, RemoveAtFacts
    <3>4. r = [s EXCEPT !.bases = b2, !.infos = q]
      <4>1. [s EXCEPT !.bases = b2].bases[a] = 0
        BY <1>0, <2>1, <2>3, <3>1, <3>2 DEF LoopType
      <4>2. s.error = "none" /\ ~(k > Len(s.infos)) /\ ~(open_cnt[s.infos[k]] > 0)
        BY <1>0, <1>2, <2>6, <2>7
      <4>3. [s EXCEPT !.bases = BaseRemoved(@, s.infos[k])].bases[s.infos[k]] = 0
        BY <2>7, <4>1
      <4> QED BY <2>7, <4>2, <4>3 DEF expunge_lib
    <3>14. Len(q) = Len(s.infos) - 1 /\ Len(s.infos) \in Nat /\ k \in 1..Len(s.infos)
      BY <1>0, <2>1, <3>3
    <3>15. \A i \in 1..Len(q) : q[i] = IF i < k THEN s.infos[i] ELSE s.infos[i + 1]
      BY <3>3
    <3> HIDE DEF q, r
    <3>5. r \in LoopType /\ r.infos = q /\ r.bases = s.bases /\ r.left = s.left
      BY <1>0, <3>2, <3>3, <3>4 DEF LoopType
    <3>6. ASSUME NEW i \in 1..Len(q)
          PROVE  \E x \in 1..Len(s.infos) : q[i] = s.infos[x] /\ x = IF i < k THEN i ELSE i + 1
      <4>1. i \in 1..Len(s.infos) /\ i + 1 \in 1..Len(s.infos)
        BY <3>14
      <4> QED BY <3>15, <4>1
    <3>7. ASSUME NEW i \in 1..Len(q), NEW m \in 1..Len(q), i # m
          PROVE  info_name[q[i]] # info_name[q[m]]
      <4>1. PICK x \in 1..Len(s.infos) : q[i] = s.infos[x] /\ x = IF i < k THEN i ELSE i + 1
        BY <3>6
      <4>2. PICK y \in 1..Len(s.infos) : q[m] = s.infos[y] /\ y = IF m < k THEN m ELSE m + 1
        BY <3>6
      <4>3. x # y
        BY <2>1, <3>3, <3>7, <4>1, <4>2
      <4> QED BY <4>1, <4>2, <4>3 DEF Some
    <3>8. \A i \in 1..Len(q) : q[i] \in ToSet(lib_infos)
      BY <3>6 DEF Some
    <3>9. ASSUME NEW x \in Addrs, NEW i \in 1..Len(s.infos), s.infos[i] = x, x # a
          PROVE  \E m \in 1..Len(q) : q[m] = x /\ (i <= k => m <= k)
      <4>1. CASE i < k
        <5>1. i \in 1..Len(q) /\ (i <= k => i <= k)
          BY <3>14, <4>1
        <5> QED BY <3>9, <3>15, <4>1, <5>1
      <4>2. CASE ~(i < k)
        <5>1. i # k
          BY <2>7, <3>9
        <5>3. i - 1 \in 1..Len(q) /\ ~(i - 1 < k) /\ i - 1 + 1 = i /\ ~(i <= k)
          BY <3>14, <4>2, <5>1
        <5>2. i - 1 \in 1..Len(q) /\ q[i - 1] = x /\ ~(i <= k)
          BY <3>9, <3>15, <5>3
        <5> QED BY <5>2
      <4> QED BY <4>1, <4>2
    <3>10. ASSUME NEW x \in ToSet(lib_infos), open_cnt[x] > 0
           PROVE  \E i \in 1..Len(q) : q[i] = x
      <4>1. PICK i \in 1..Len(s.infos) : s.infos[i] = x
        BY <3>10 DEF Some
      <4>2. x # a /\ x \in Addrs
        BY <1>0, <3>0, <3>10, <4>1
      <4> QED BY <3>9, <4>1, <4>2
    <3>11. ASSUME NEW x \in Addrs
           PROVE  Dropped(s.bases, x, \E i \in 1..Len(q) : i <= k /\ q[i] = x)
      <4>1. CASE x = a
        BY <2>3, <4>1 DEF Dropped
      <4>2. CASE x # a
        <5>1. Dropped(s.bases, x, \E i \in 1..Len(s.infos) : i <= k - 1 /\ s.infos[i] = x)
          BY DEF Some
        <5>2. (\E i \in 1..Len(s.infos) : i <= k - 1 /\ s.infos[i] = x)
                => \E i \in 1..Len(q) : i <= k /\ q[i] = x
          <6> SUFFICES ASSUME NEW i \in 1..Len(s.infos), i <= k - 1, s.infos[i] = x
                       PROVE  \E m \in 1..Len(q) : m <= k /\ q[m] = x
            OBVIOUS
          <6> QED BY <3>9, <4>2
        <5> QED BY <5>1, <5>2 DEF Dropped
      <4> QED BY <4>1, <4>2
    <3>12. s.left <= k /\ s.left <= Len(q)
      BY <1>0, <3>14
    <3>13. r = expunge_lib(s, k)
      BY DEF r
    <3>16. Some(r, k)
      <4>1. \A i, m \in 1..Len(q) : i # m => info_name[q[i]] # info_name[q[m]]
        BY <3>7
      <4>2. \A x \in ToSet(lib_infos) : open_cnt[x] > 0 => \E i \in 1..Len(q) : q[i] = x
        BY <3>10
      <4>3. \A x \in Addrs : Dropped(s.bases, x, \E i \in 1..Len(q) : i <= k /\ q[i] = x)
        BY <3>11
      <4>4. r.left <= k /\ r.left <= Len(r.infos)
        BY <3>5, <3>12
      <4>5. \A x \in ToSet(lib_infos) : open_cnt[x] > 0 => \E i \in 1..Len(r.infos) : r.infos[i] = x
        BY <3>5, <4>2
      <4>6. /\ \A i, m \in 1..Len(r.infos) : i # m => info_name[r.infos[i]] # info_name[r.infos[m]]
            /\ \A i \in 1..Len(r.infos) : r.infos[i] \in ToSet(lib_infos)
        BY <3>5, <3>8, <4>1
      <4>7. \A x \in Addrs : Dropped(r.bases, x, \E i \in 1..Len(r.infos) : i <= k /\ r.infos[i] = x)
        BY <3>5, <4>3
      <4> QED BY <3>5, <4>4, <4>5, <4>6, <4>7 DEF Some
    <3> QED BY <3>13, <3>16
  <2> QED BY <2>5, <2>6
<1> QED BY <1>1, <1>2

\* The loop leaves some of the libraries.
LEMMA LoopLeaves ==
    ASSUME TypeOK, \A a \in ToSet(lib_infos) : open_cnt[a] = 0 => base_addrs[a] = 0,
           NEW infos, Len(infos) \in Nat,
           Some([infos |-> infos, bases |-> base_addrs, left |-> 0, error |-> "none"], 0)
    PROVE  Some(ExpungeLoop(infos), Len(infos))
<1> DEFINE N == Len(infos)
           s0 == [infos |-> infos, bases |-> base_addrs, left |-> 0, error |-> "none"]
           Upto(m, f) == f = [k \in 0..m |-> IF k = 0 THEN s0 ELSE expunge_lib(f[k - 1], k)]
           T == {m \in Nat : \E f : Upto(m, f)}
<1>1. 0 \in T
  <2> DEFINE f == [k \in 0..0 |-> s0]
  <2>1. Upto(0, f)
    OBVIOUS
  <2> QED BY <2>1
<1>2. ASSUME NEW m \in Nat, m \in T
      PROVE  m + 1 \in T
  <2>1. PICK f : Upto(m, f)
    BY <1>2
  <2> DEFINE g == [k \in 0..(m + 1) |-> IF k = m + 1 THEN expunge_lib(f[m], m + 1) ELSE f[k]]
  <2> HIDE DEF s0
  <2>2. \A k \in 0..m : f[k] = IF k = 0 THEN s0 ELSE expunge_lib(f[k - 1], k)
    BY <2>1
  <2>3. \A k \in 0..(m + 1) : g[k] = IF k = 0 THEN s0 ELSE expunge_lib(g[k - 1], k)
    <3> SUFFICES ASSUME NEW k \in 0..(m + 1)
                 PROVE  g[k] = IF k = 0 THEN s0 ELSE expunge_lib(g[k - 1], k)
      OBVIOUS
    <3>1. CASE k = m + 1
      <4>1. k # 0 /\ k - 1 = m /\ m \in 0..(m + 1) /\ m # m + 1
        BY <3>1
      <4> QED BY <3>1, <4>1
    <3>2. CASE k # m + 1 /\ k # 0
      <4>1. k \in 0..m /\ k - 1 \in 0..(m + 1) /\ k - 1 # m + 1
        BY <3>2
      <4> QED BY <2>2, <3>2, <4>1
    <3>3. CASE k = 0
      BY <2>2, <3>3
    <3> QED BY <3>1, <3>2, <3>3
  <2>4. Upto(m + 1, g)
    <3> HIDE DEF g
    <3>1. g = [k \in 0..(m + 1) |-> g[k]]
      BY DEF g
    <3> QED BY <2>3, <3>1
  <2> HIDE DEF g, Upto
  <2> QED BY <2>4
<1>3. \E f : Upto(N, f)
  <2> HIDE DEF Upto, T
  <2>1. Nat \subseteq T
    BY <1>1, <1>2, NatInd
  <2>2. N \in T
    BY <2>1
  <2> QED BY <2>2 DEF T
<1> DEFINE after == CHOOSE f : Upto(N, f)
<1>4. Upto(N, after)
  <2> HIDE DEF Upto
  <2> QED BY <1>3
<1>5. ExpungeLoop(infos) = after[N]
  BY DEF ExpungeLoop
<1> HIDE DEF after, s0
<1>6. \A k \in 0..N : after[k] = IF k = 0 THEN s0 ELSE expunge_lib(after[k - 1], k)
  BY <1>4
<1> DEFINE U == {k \in Nat : k <= N => Some(after[k], k)}
<1>7. 0 \in U
  BY <1>6 DEF s0
<1>8. ASSUME NEW k \in Nat, k \in U
      PROVE  k + 1 \in U
  <2> SUFFICES ASSUME k + 1 <= N PROVE Some(after[k + 1], k + 1)
    OBVIOUS
  <2>1. Some(after[k], k + 1 - 1) /\ k + 1 \in 0..N /\ k + 1 # 0 /\ k + 1 - 1 = k /\ k + 1 \in Nat \ {0}
    BY <1>8
  <2>2. after[k + 1] = expunge_lib(after[k], k + 1)
    BY <1>6, <2>1
  <2> QED BY <2>1, <2>2, TurnKeeps
<1>9. N \in U
  <2> HIDE DEF U
  <2> QED BY <1>7, <1>8, NatInd
<1> QED BY <1>5, <1>9

\* shutdown(): libraries that are not open go, those that are stay.
LEMMA ShutdownKeeps ==
    ASSUME LInv, shutdown
    PROVE  Over'
<1> DEFINE s == ExpungeLoop(lib_infos)
<1>0. /\ TypeOK /\ Fresh /\ VLibsRight /\ InfosRight /\ CountsRight /\ error = "none"
      /\ lib_infos \in Seq(Addrs) /\ seglists \subseteq Addrs /\ alive \subseteq Addrs
      /\ base_addrs \in [Addrs -> Nat] /\ open_cnt \in [Addrs -> Nat] /\ left = -1
      /\ DOMAIN addr_vlib \subseteq Addrs
  BY DEF LInv, TypeOK, shutdown
<1>1. /\ \A t \in Tasks : pc[t] = "idle"
      /\ lib_infos' = s.infos /\ left' = s.left /\ base_addrs' = s.bases /\ error' = s.error
      /\ seglists' = seglists \ (ToSet(lib_infos) \ ToSet(s.infos))
      /\ alive' = alive \ (ToSet(lib_infos) \ ToSet(s.infos))
      /\ UNCHANGED <<next_addr, addr_vlib, name_vlib, open_cnt, info_name, handles, pc, job>>
  BY DEF shutdown, vlibs
<1>2. ASSUME NEW b \in Addrs
      PROVE  /\ IsFiniteSet(Opens(b)) /\ OpenedBy(b) \in Nat /\ open_cnt[b] = OpenedBy(b)
             /\ b \notin DOMAIN addr_vlib => base_addrs[b] = OpenedBy(b)
             /\ b \in DOMAIN addr_vlib => OpenedBy(b) > 0
  <2>1. \A P : "idle" \notin P => ~At(b, P)
    BY <1>1 DEF At
  <2>2. "idle" \notin {"opened", "close"} /\ "idle" \notin {"close", "closed"}
    OBVIOUS
  <2>3. (IF At(b, {"opened", "close"}) THEN 1 ELSE 0) = 0
    BY <2>1, <2>2, Zenon
  <2>4. (IF At(b, {"close", "closed"}) THEN 1 ELSE 0) = 0
    BY <2>1, <2>2, Zenon
  <2>5. /\ IsFiniteSet(Opens(b)) /\ open_cnt[b] = OpenedBy(b) + 0
        /\ b \notin DOMAIN addr_vlib => base_addrs[b] = OpenedBy(b) + 0
        /\ b \in DOMAIN addr_vlib => OpenedBy(b) > 0
    BY <1>0, <2>3, <2>4, Zenon DEF CountsRight
  <2>6. OpenedBy(b) \in Nat
    BY <2>5, FS_CardinalityType DEF OpenedBy
  <2> QED BY <2>5, <2>6
<1>3. \A b \in ToSet(lib_infos) : b \in Addrs /\ b \notin DOMAIN addr_vlib /\ b \in seglists /\ b \in alive
  <2>1. \A b \in ToSet(lib_infos) : b \in seglists /\ b \notin DOMAIN addr_vlib /\ b \in alive
    BY <1>0, <1>1 DEF InfosRight
  <2> QED BY <1>0, <2>1
<1>4. Some(s, Len(lib_infos))
  <2>1. DOMAIN lib_infos = 1..Len(lib_infos) /\ Len(lib_infos) \in Nat
    BY <1>0
  <2> DEFINE s0 == [infos |-> lib_infos, bases |-> base_addrs, left |-> 0, error |-> "none"]
  <2>2. s0 \in LoopType /\ s0.infos = lib_infos /\ s0.bases = base_addrs /\ s0.left = 0
    BY <1>0 DEF LoopType
  <2> HIDE DEF s0
  <2>3. \A a : (a \in ToSet(lib_infos)) <=> \E i \in 1..Len(lib_infos) : lib_infos[i] = a
    BY <2>1 DEF ToSet
  <2>4. \A seen : \A a \in Addrs : Dropped(base_addrs, a, seen)
    BY DEF Dropped
  <2>7. \A i, m \in 1..Len(lib_infos) : i # m => info_name[lib_infos[i]] # info_name[lib_infos[m]]
    BY <1>0 DEF InfosRight
  <2>5. Some(s0, 0)
    <3>1. /\ s0.left <= 0 /\ s0.left <= Len(s0.infos)
          /\ \A i, m \in 1..Len(s0.infos) : i # m => info_name[s0.infos[i]] # info_name[s0.infos[m]]
          /\ \A i \in 1..Len(s0.infos) : s0.infos[i] \in ToSet(lib_infos)
      BY <2>1, <2>2, <2>3, <2>7
    <3>2. \A a \in ToSet(lib_infos) : open_cnt[a] > 0 => \E i \in 1..Len(s0.infos) : s0.infos[i] = a
      BY <2>2, <2>3
    <3>3. \A a \in Addrs : Dropped(s0.bases, a, \E i \in 1..Len(s0.infos) : i <= 0 /\ s0.infos[i] = a)
      BY <2>2, <2>4
    <3> QED BY <2>2, <3>1, <3>2, <3>3 DEF Some
  <2>6. \A a \in ToSet(lib_infos) : open_cnt[a] = 0 => base_addrs[a] = 0
    BY <1>2, <1>3
  <2> QED BY <1>0, <2>1, <2>5, <2>6, LoopLeaves DEF s0
<1> HIDE DEF s
<1>5. /\ lib_infos' \in Seq(Addrs) /\ left' \in Nat /\ error' = "none" /\ base_addrs' \in [Addrs -> Nat]
      /\ left' <= Len(lib_infos') /\ left' # -1 /\ left' \in Int
      /\ \A i, k \in 1..Len(lib_infos') : i # k => info_name[lib_infos'[i]] # info_name[lib_infos'[k]]
      /\ \A i \in 1..Len(lib_infos') : lib_infos'[i] \in ToSet(lib_infos)
      /\ \A a \in ToSet(lib_infos) : open_cnt[a] > 0 => \E i \in 1..Len(lib_infos') : lib_infos'[i] = a
      /\ \A a \in Addrs : \/ base_addrs'[a] = base_addrs[a]
                          \/ base_addrs'[a] = base_addrs[a] - 1
  <2>1. s \in LoopType
    BY <1>4 DEF Some
  <2>2. s.infos \in Seq(Addrs) /\ s.left \in Nat /\ s.error = "none" /\ s.bases \in [Addrs -> Nat]
    BY <2>1 DEF LoopType
  <2>3. \A a \in Addrs : s.bases[a] = base_addrs[a] \/ s.bases[a] = base_addrs[a] - 1
    BY <1>4 DEF Some, Dropped
  <2>4. s.left # -1 /\ s.left \in Int
    BY <2>2
  <2> QED BY <1>1, <1>4, <2>2, <2>3, <2>4 DEF Some
<1>6. \A b : (b \in ToSet(lib_infos')) <=> \E i \in 1..Len(lib_infos') : lib_infos'[i] = b
  <2>1. DOMAIN lib_infos' = 1..Len(lib_infos')
    BY <1>5
  <2> QED BY <2>1 DEF ToSet
<1>7. \A b : OpenedBy(b)' = OpenedBy(b) /\ Opens(b)' = Opens(b)
  BY <1>1, OpensKept
<1>8. TypeOK'
  BY <1>0, <1>1, <1>5 DEF TypeOK
<1>9. VLibsRight' /\ \A a \in DOMAIN addr_vlib' : OpenedBy(a)' > 0
  BY <1>0, <1>1, <1>2, <1>7 DEF VLibsRight
<1>10. \A a \in Addrs : IsFiniteSet(Opens(a))' /\ open_cnt'[a] = OpenedBy(a)'
  BY <1>1, <1>2, <1>7
<1>11. \A a \in ToSet(lib_infos') : a \in seglists' /\ a \in alive'
  BY <1>1, <1>3, <1>5, <1>6
<1>12. ShutdownKeepsOpen'
  <2> SUFFICES ASSUME NEW a \in Addrs \ DOMAIN addr_vlib
               PROVE  /\ OpenedBy(a)' > 0 => a \in ToSet(lib_infos')
                      /\ base_addrs'[a] \in {OpenedBy(a)', OpenedBy(a)' - 1}
    BY <1>1, <1>5 DEF ShutdownKeepsOpen
  <2>1. base_addrs'[a] \in {OpenedBy(a), OpenedBy(a) - 1}
    BY <1>2, <1>5
  <2>2. ASSUME OpenedBy(a) > 0
        PROVE  a \in ToSet(lib_infos')
    <3>1. a \in ToSet(lib_infos) /\ open_cnt[a] > 0
      BY <1>0, <1>2, <2>2 DEF InfosRight
    <3> QED BY <1>5, <1>6, <3>1
  <2> QED BY <1>7, <2>1, <2>2
<1> QED BY <1>1, <1>5, <1>8, <1>9, <1>10, <1>11, <1>12 DEF Over

-----------------------------------------------------------------------------
(* The theorem.                                                             *)

\* Before any task has opened a library.
LEMMA LInvInit ==
    ASSUME Init
    PROVE  LInv
<1>1. /\ next_addr = 1 /\ addr_vlib = <<>> /\ name_vlib = [n \in Names |-> 0]
      /\ open_cnt = [a \in Addrs |-> 0] /\ lib_infos = <<>>
      /\ info_name = [a \in Addrs |-> "none"] /\ base_addrs = [a \in Addrs |-> 0]
      /\ seglists = {} /\ alive = {} /\ handles = [t \in Tasks |-> [a \in Addrs |-> 0]]
      /\ pc = [t \in Tasks |-> "idle"] /\ job = [t \in Tasks |-> NoJob]
      /\ left = -1 /\ error = "none"
  BY DEF Init
<1>2. DOMAIN addr_vlib = {} /\ ToSet(lib_infos) = {} /\ Len(lib_infos) = 0
  BY <1>1 DEF ToSet
<1>3. TypeOK /\ job \in [Tasks -> JobType]
  BY <1>1, <1>2, BoundsAssumption DEF TypeOK, NoJob, JobType
<1>4. Alone /\ Fresh /\ VLibsRight /\ \A t \in Tasks : pc[t] # "idle" => JobRight(t)
  <2>1. Alone /\ \A t \in Tasks : pc[t] # "idle" => JobRight(t)
    BY <1>1 DEF Alone
  <2>2. Fresh /\ VLibsRight
    BY <1>1, <1>2 DEF Fresh, VLibsRight
  <2> QED BY <2>1, <2>2
<1>5. CountsRight
  <2>1. \A b \in Addrs : Opens(b) = {}
    BY <1>1 DEF Opens
  <2>2. \A b \in Addrs : IsFiniteSet(Opens(b)) /\ OpenedBy(b) = 0
    BY <2>1, FS_EmptySet DEF OpenedBy
  <2>3. \A b, P : "idle" \notin P => ~At(b, P)
    BY <1>1 DEF At
  <2>4. "idle" \notin {"opened", "close"} /\ "idle" \notin {"close", "closed"}
    OBVIOUS
  <2>5. \A b : (IF At(b, {"opened", "close"}) THEN 1 ELSE 0) = 0
    BY <2>3, <2>4, Zenon
  <2>6. \A b : (IF At(b, {"close", "closed"}) THEN 1 ELSE 0) = 0
    BY <2>3, <2>4, Zenon
  <2>7. ASSUME NEW b \in Addrs
        PROVE  /\ open_cnt[b] = OpenedBy(b) + 0 /\ base_addrs[b] = OpenedBy(b) + 0
    BY <1>1, <2>2
  <2> QED BY <1>2, <2>2, <2>5, <2>6, <2>7, Zenon DEF CountsRight
<1>6. InfosRight
  <2>1. \A b \in Addrs : Opens(b) = {}
    BY <1>1 DEF Opens
  <2>2. \A b \in Addrs : OpenedBy(b) = 0
    BY <2>1, FS_EmptySet DEF OpenedBy
  <2> QED BY <1>2, <2>2 DEF InfosRight
<1> QED BY <1>1, <1>3, <1>4, <1>5, <1>6 DEF LInv

\* Every step, where slices do not end inside library code.
LEMMA LInvStep ==
    ASSUME LInv, [Next]_vars, Preempt = FALSE
    PROVE  LInv' \/ Over'
<1>1. ASSUME NEW t \in Tasks, NEW n \in Names, open_vlib(t, n) \/ open_vlib_old(t, n)
      PROVE  LInv'
  <2>1. OnlyTask(t)
    BY <1>1, OnlyOne DEF open_vlib, open_vlib_old
  <2> QED BY <1>1, <2>1, OpenVLibKeeps, OpenVLibOldKeeps
<1>2. ASSUME NEW t \in Tasks, NEW a \in Addrs, close_vlib(t, a) \/ close_alib(t, a)
      PROVE  LInv'
  <2>1. OnlyTask(t)
    BY <1>2, OnlyOne DEF close_vlib, close_alib
  <2> QED BY <1>2, <2>1, CloseVLibKeeps, CloseALibKeeps
<1>3. ASSUME NEW t \in Tasks, NEW n \in Names, NEW ok \in BOOLEAN, open_alib(t, n, ok)
      PROVE  LInv'
  <2>1. OnlyTask(t) /\ pc[t] = "idle"
    BY <1>3, OnlyOne DEF open_alib
  <2>2. UNCHANGED <<vlibs, open_cnt, lib_infos, base_addrs, alive, handles, left, error>>
    BY <1>3 DEF open_alib
  <2>3. CASE /\ FoundInfos(n) # {}
             /\ Enter(t, "open", [NoJob EXCEPT !.addr = lib_infos[Min(FoundInfos(n))], !.ok = ok])
             /\ UNCHANGED <<next_addr, info_name, seglists>>
    BY <2>1, <2>2, <2>3, OpenKnownKeeps
  <2>4. CASE /\ FoundInfos(n) = {} /\ n \in ALibs /\ next_addr <= MaxAddr
             /\ next_addr' = next_addr + 1
             /\ seglists' = seglists \cup {next_addr}
             /\ info_name' = [info_name EXCEPT ![next_addr] = n]
             /\ Enter(t, "init", [NoJob EXCEPT !.addr = next_addr, !.ok = ok, !.loaded = TRUE])
    BY <2>1, <2>2, <2>4, LoadKeeps
  <2> QED BY <1>3, <2>3, <2>4, Zenon DEF open_alib
<1>4. ASSUME NEW t \in Tasks, init_done(t) \/ init_failed(t) \/ LibOpen(t)
      PROVE  LInv'
  <2>1. OnlyTask(t)
    BY <1>4, OnlyOne DEF init_done, init_failed, LibOpen
  <2> QED BY <1>4, <2>1, InitDoneKeeps, InitFailedKeeps, LibOpenKeeps
<1>5. ASSUME NEW t \in Tasks, LibOpenFails(t) \/ opened(t) \/ LibClose(t) \/ closed(t)
      PROVE  LInv'
  <2>1. OnlyTask(t)
    BY <1>5, OnlyOne DEF LibOpenFails, opened, LibClose, closed
  <2> QED BY <1>5, <2>1, LibOpenFailsKeeps, OpenedKeeps, LibCloseKeeps, ClosedKeeps
<1>6. CASE UNCHANGED vars
  <2>1. \A b : OpenedBy(b)' = OpenedBy(b) /\ Opens(b)' = Opens(b)
    BY <1>6, OpensKept DEF vars
  <2>2. \A b, P : At(b, P)' <=> At(b, P)
    BY <1>6 DEF At, vars
  <2>3. CountsRight'
    BY <1>6, <2>1, <2>2, Zenon DEF LInv, CountsRight, vars, vlibs, alibs
  <2>4. TypeOK' /\ job' \in [Tasks -> JobType] /\ error' = "none" /\ Alone'
    BY <1>6 DEF LInv, TypeOK, Alone, vars, vlibs, alibs
  <2>5. Fresh' /\ VLibsRight'
    BY <1>6 DEF LInv, Fresh, VLibsRight, vars, vlibs, alibs
  <2>6. InfosRight'
    BY <1>6, <2>1 DEF LInv, InfosRight, vars, vlibs, alibs
  <2>7. \A t \in Tasks : pc'[t] # "idle" => JobRight(t)'
    BY <1>6, <2>1 DEF LInv, JobRight, vars, vlibs, alibs
  <2> QED BY <2>3, <2>4, <2>5, <2>6, <2>7 DEF LInv
<1>7. Next \/ UNCHANGED vars
  OBVIOUS
<1> QED BY <1>1, <1>2, <1>3, <1>4, <1>5, <1>6, <1>7, ShutdownKeeps, Zenon DEF Next, Ended

\* The invariant says of the quiet states what the properties say.
LEMMA LInvSound ==
    ASSUME LInv, left = -1
    PROVE  LibrariesSound
<1>0. /\ TypeOK /\ error = "none" /\ Fresh /\ CountsRight /\ VLibsRight /\ InfosRight
      /\ handles \in [Tasks -> [Addrs -> Nat]] /\ DOMAIN addr_vlib \subseteq Addrs
      /\ \A b \in Addrs : IsFiniteSet(Opens(b))
      /\ \A b \in DOMAIN addr_vlib : b \in Addrs => OpenedBy(b) > 0
  BY DEF LInv, TypeOK, CountsRight
<1>1. \A b \in Addrs : OpenedBy(b) \in Nat /\ \A t \in Tasks : handles[t][b] > 0 => OpenedBy(b) > 0
  BY <1>0, OpensCounted
<1>2. NoDeadHandle
  <2> SUFFICES ASSUME NEW t \in Tasks, NEW a \in Addrs, handles[t][a] > 0,
                      a \notin DOMAIN addr_vlib
               PROVE  a \in alive /\ a \in seglists
    BY DEF NoDeadHandle
  <2>1. OpenedBy(a) > 0 /\ a \in ToSet(lib_infos)
    BY <1>0, <1>1 DEF InfosRight
  <2>2. ASSUME NEW u \in Tasks, pc[u] = "closed", job[u].seglist, job[u].addr = a
        PROVE  FALSE
    <3>1. OpenedBy(a) = 0
      BY <2>2 DEF LInv, JobRight
    <3> QED BY <1>1, <2>1, <3>1
  <2> QED BY <1>0, <2>1, <2>2 DEF InfosRight
<1>3. VLibsMatch
  BY <1>0 DEF VLibsMatch, VLibsRight
<1>4. CountsMatch
  <2> SUFFICES ASSUME \A t \in Tasks : pc[t] = "idle", NEW a \in Addrs
               PROVE  /\ open_cnt[a] = OpenedBy(a)
                      /\ a \notin DOMAIN addr_vlib => base_addrs[a] = OpenedBy(a)
    BY DEF CountsMatch, Quiet
  <2>1. \A b, P : "idle" \notin P => ~At(b, P)
    BY DEF At
  <2>2. "idle" \notin {"opened", "close"} /\ "idle" \notin {"close", "closed"}
    OBVIOUS
  <2>3. (IF At(a, {"opened", "close"}) THEN 1 ELSE 0) = 0
    BY <2>1, <2>2, Zenon
  <2>4. (IF At(a, {"close", "closed"}) THEN 1 ELSE 0) = 0
    BY <2>1, <2>2, Zenon
  <2>5. /\ open_cnt[a] = OpenedBy(a) + 0
        /\ a \notin DOMAIN addr_vlib => base_addrs[a] = OpenedBy(a) + 0
    BY <1>0, <2>3, <2>4, Zenon DEF CountsRight
  <2> QED BY <1>1, <2>5
<1>5. InfosMatch
  BY <1>0 DEF InfosMatch, InfosRight, Quiet
<1>6. ShutdownKeepsOpen
  BY DEF ShutdownKeepsOpen
<1> QED BY <1>0, <1>2, <1>3, <1>4, <1>5, <1>6 DEF LibrariesSound, NoException

\* The same of the states after shutdown(), which last.
LEMMA OverSound ==
    ASSUME Over
    PROVE  LibrariesSound /\ ([Next]_vars => Over')
<1>0. /\ TypeOK /\ error = "none" /\ left # -1 /\ VLibsRight /\ ShutdownKeepsOpen
      /\ handles \in [Tasks -> [Addrs -> Nat]] /\ DOMAIN addr_vlib \subseteq Addrs
      /\ \A b \in Addrs : IsFiniteSet(Opens(b)) /\ open_cnt[b] = OpenedBy(b)
      /\ \A a \in ToSet(lib_infos) : a \in seglists /\ a \in alive
  BY DEF Over, TypeOK
<1>1. \A b \in Addrs : OpenedBy(b) \in Nat /\ \A t \in Tasks : handles[t][b] > 0 => OpenedBy(b) > 0
  BY <1>0, OpensCounted
<1>2. NoDeadHandle
  BY <1>0, <1>1 DEF NoDeadHandle, ShutdownKeepsOpen
<1>3. VLibsMatch /\ CountsMatch /\ InfosMatch
  BY <1>0 DEF Over, VLibsMatch, VLibsRight, CountsMatch, InfosMatch
<1>4. ASSUME [Next]_vars
      PROVE  Over'
  <2>1. UNCHANGED vars
    BY <1>0, <1>4, Zenon DEF Next, Ended, MayRun, shutdown, open_vlib, open_vlib_old, close_vlib, close_alib,
      open_alib, init_done, init_failed, LibOpen, LibOpenFails, opened, LibClose, closed
  <2>2. \A b : OpenedBy(b)' = OpenedBy(b) /\ Opens(b)' = Opens(b)
    BY <2>1, OpensKept DEF vars
  <2>3. ShutdownKeepsOpen'
    BY <1>0, <2>1, <2>2 DEF ShutdownKeepsOpen, vars, vlibs, alibs
  <2>4. TypeOK' /\ VLibsRight'
    BY <1>0, <2>1 DEF TypeOK, VLibsRight, vars, vlibs, alibs
  <2> QED BY <2>1, <2>2, <2>3, <2>4 DEF Over, vars, vlibs, alibs
<1> QED BY <1>0, <1>2, <1>3, <1>4 DEF LibrariesSound, NoException

\* Where slices do not end inside library code, whoever has opened a library has
\* one that is there: the maps, the open counts and lib_infos agree after any opens,
\* closes, expunges and failures, no ValueError or assertion ends vamos, and shutdown()
\* expunges no library that is open, though it drops an open of it from base_addrs.
THEOREM LibrariesAreSound ==
    ASSUME Preempt = FALSE
    PROVE  Spec => []LibrariesSound
<1> DEFINE I == (LInv /\ left = -1) \/ Over
<1>1. Init => I
  BY LInvInit DEF Init
<1>2. I /\ [Next]_vars => I'
  <2>1. ASSUME Over, [Next]_vars
        PROVE  I'
    BY <2>1, OverSound
  <2>2. ASSUME LInv, left = -1, [Next]_vars
        PROVE  I'
    <3>1. CASE shutdown
      BY <2>2, <3>1, ShutdownKeeps
    <3>2. CASE ~shutdown
      <4>1. left' = -1
        BY <2>2, <3>2, Zenon DEF Next, Ended, open_vlib, open_vlib_old, close_vlib, close_alib,
          open_alib, init_done, init_failed, LibOpen, LibOpenFails, opened, LibClose, closed, vars
      <4>2. LInv' \/ Over'
        BY <2>2, LInvStep
      <4> QED BY <4>1, <4>2
    <3> QED BY <3>1, <3>2
  <2> QED BY <2>1, <2>2
<1>3. I => LibrariesSound
  BY LInvSound, OverSound
<1> QED BY <1>1, <1>2, <1>3, PTL DEF Spec
===============================================================================
