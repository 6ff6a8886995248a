---------------------------- MODULE RuntimeProofs ----------------------------
(***************************************************************************)
(* Proofs about the runtime of one task, for any slices, stacks, register  *)
(* values and depth of nesting: runs of m68k code and of Python functions  *)
(* find their registers and their stack again, and the hook comes in time. *)
(***************************************************************************)
EXTENDS Runtime, ListLemmas, FiniteSetTheorems

-----------------------------------------------------------------------------
(* Sums over the frames of the Python stack.                                *)

\* The partial sums of f, up to n.
Sums(f, n, sum) == sum = [k \in 0..n |-> IF k = 0 THEN 0 ELSE sum[k - 1] + f[k]]

\* Partial sums exist.
LEMMA SumsExist ==
    ASSUME NEW f, NEW n \in Nat, \A k \in 1..n : f[k] \in Int
    PROVE  \E sum : Sums(f, n, sum) /\ \A k \in 0..n : sum[k] \in Int
<1> DEFINE T == {m \in Nat : m <= n => \E s : Sums(f, m, s) /\ \A k \in 0..m : s[k] \in Int}
<1>1. 0 \in T
  <2> DEFINE s == [k \in 0..0 |-> 0]
  <2>1. Sums(f, 0, s) /\ \A k \in 0..0 : s[k] \in Int
    BY DEF Sums
  <2> QED BY <2>1
<1>2. ASSUME NEW m \in Nat, m \in T
      PROVE  m + 1 \in T
  <2> SUFFICES ASSUME m + 1 <= n
               PROVE  \E s : Sums(f, m + 1, s) /\ \A k \in 0..(m + 1) : s[k] \in Int
    OBVIOUS
  <2>1. PICK s : Sums(f, m, s) /\ \A k \in 0..m : s[k] \in Int
    BY <1>2
  <2> DEFINE g == [k \in 0..(m + 1) |-> IF k = m + 1 THEN s[m] + f[m + 1] ELSE s[k]]
  <2>2. \A k \in 0..m : s[k] = IF k = 0 THEN 0 ELSE s[k - 1] + f[k]
    BY <2>1 DEF Sums
  <2>3. \A k \in 0..(m + 1) : g[k] = IF k = 0 THEN 0 ELSE g[k - 1] + f[k]
    <3> SUFFICES ASSUME NEW k \in 0..(m + 1)
                 PROVE  g[k] = IF k = 0 THEN 0 ELSE g[k - 1] + f[k]
      OBVIOUS
    <3>1. CASE k = m + 1
      <4>1. k # 0 /\ k - 1 = m /\ m \in 0..(m + 1) /\ m # m + 1
        BY <3>1
      <4> QED BY <3>1, <4>1
    <3>2. CASE k # m + 1 /\ k # 0
      <4>1. k \in 0..m /\ k - 1 \in 0..(m + 1) /\ k - 1 # m + 1
        BY <3>2
      <4> QED BY <2>2, <3>2, <4>1
    <3>3. CASE k = 0
      BY <2>2, <3>3
    <3> QED BY <3>1, <3>2, <3>3
  <2>4. Sums(f, m + 1, g)
    <3> HIDE DEF g
    <3>1. g = [k \in 0..(m + 1) |-> g[k]]
      BY DEF g
    <3> QED BY <2>3, <3>1 DEF Sums
  <2>5. \A k \in 0..(m + 1) : g[k] \in Int
    <3>1. s[m] \in Int /\ f[m + 1] \in Int
      BY <2>1
    <3> QED BY <2>1, <3>1
  <2> HIDE DEF g
  <2> QED BY <2>4, <2>5
<1> HIDE DEF T
<1>3. Nat \subseteq T
  BY <1>1, <1>2, NatInd
<1> QED BY <1>3 DEF T

\* The partial sums of the beginning of a longer sum are the same.
LEMMA SumsAgree ==
    ASSUME NEW f, NEW h, NEW n \in Nat, NEW m \in Nat, m <= n,
           NEW s, Sums(f, n, s), NEW t, Sums(h, m, t),
           \A k \in 1..m : f[k] = h[k]
    PROVE  \A k \in 0..m : s[k] = t[k]
<1> DEFINE T == {k \in Nat : k <= m => s[k] = t[k]}
<1>1. /\ \A k \in 0..n : s[k] = IF k = 0 THEN 0 ELSE s[k - 1] + f[k]
      /\ \A k \in 0..m : t[k] = IF k = 0 THEN 0 ELSE t[k - 1] + h[k]
  BY DEF Sums
<1>2. 0 \in T
  BY <1>1
<1>3. ASSUME NEW k \in Nat, k \in T PROVE k + 1 \in T
  <2> SUFFICES ASSUME k + 1 <= m PROVE s[k + 1] = t[k + 1]
    OBVIOUS
  <2> DEFINE i == k + 1
  <2>1. i \in 1..m /\ i \in 0..n /\ i - 1 = k /\ s[k] = t[k] /\ i # 0
    BY <1>3
  <2> HIDE DEF i
  <2>2. s[i] = t[i]
    BY <1>1, <2>1
  <2> QED BY <2>2 DEF i
<1> HIDE DEF T
<1>4. Nat \subseteq T
  BY <1>2, <1>3, NatInd
<1> QED BY <1>4 DEF T

\* A sum of nothing, and a sum and its last term.
LEMMA SumSteps ==
    ASSUME NEW f, NEW n \in Nat, \A k \in 1..n : f[k] \in Int
    PROVE  /\ SumOf(f, n) \in Int
           /\ n = 0 => SumOf(f, n) = 0
           /\ \A h : n > 0 /\ (\A k \in 1..(n - 1) : f[k] = h[k]) =>
                SumOf(f, n) = SumOf(h, n - 1) + f[n]
<1> DEFINE a == CHOOSE s : Sums(f, n, s)
<1>1. Sums(f, n, a) /\ SumOf(f, n) = a[n]
  <2>1. \E s : Sums(f, n, s)
    BY SumsExist
  <2>2. SumOf(f, n) = a[n]
    BY DEF SumOf, Sums
  <2> QED BY <2>1, <2>2
<1> HIDE DEF a
<1>2. PICK s : Sums(f, n, s) /\ \A k \in 0..n : s[k] \in Int
  BY SumsExist
<1>3. a[n] = s[n] /\ a[n] \in Int
  <2>1. \A k \in 0..n : a[k] = s[k]
    BY <1>1, <1>2, SumsAgree
  <2> QED BY <1>2, <2>1
<1>4. n = 0 => a[n] = 0
  BY <1>1 DEF Sums
<1>5. ASSUME NEW h, n > 0, \A k \in 1..(n - 1) : f[k] = h[k]
      PROVE  SumOf(f, n) = SumOf(h, n - 1) + f[n]
  <2> DEFINE m == n - 1
             b == CHOOSE t : Sums(h, m, t)
  <2>1. m \in Nat /\ m <= n /\ \A k \in 1..m : h[k] \in Int
    BY <1>5
  <2>2. SumOf(h, m) = b[m]
    BY DEF SumOf, Sums
  <2>3. a[n] = a[m] + f[n]
    BY <1>1, <1>5 DEF Sums
  <2> HIDE DEF m
  <2>4. \E t : Sums(h, m, t)
    BY <2>1, SumsExist
  <2>5. Sums(h, m, b)
    <3> HIDE DEF Sums
    <3> QED BY <2>4
  <2> HIDE DEF b
  <2>6. \A k \in 1..m : f[k] = h[k]
    BY <1>5 DEF m
  <2>7. \A k \in 0..m : a[k] = b[k]
    BY <1>1, <2>1, <2>5, <2>6, SumsAgree
  <2>8. a[m] = b[m]
    BY <2>1, <2>7
  <2> QED BY <1>1, <2>2, <2>3, <2>8 DEF m
<1> QED BY <1>1, <1>3, <1>4, <1>5


-----------------------------------------------------------------------------
(* What the frames are.                                                     *)

Cpus == [reg : RegVals \cup {Max(RegVals), Min(RegVals)}, sp : 1..OwnTop]
Cells == {"data", "exit", "ret"}
Mems == [1..OwnTop -> Cells]
RunFrames == [type : {"run"}, ctx : Cpus, base : 1..OwnTop, gets : BOOLEAN,
              used : Nat, limit : Int, looping : BOOLEAN]
TrapFrames == [type : {"trap"}, cpu : Cpus, mem : UNION {[InUse(sp) -> Cells] : sp \in 1..OwnTop}]
Frames == RunFrames \cup TrapFrames
RunStates == [nesting : Nat, total_cycles : Int, exit : BOOLEAN, mach_error : BOOLEAN]

\* The fields of the frame of a run, and of a trap function.
LEMMA FrameFields ==
    ASSUME NEW fr \in Frames
    PROVE  /\ fr.type \in {"run", "trap"}
           /\ fr.type = "run" =>
                /\ fr \in RunFrames /\ fr.ctx \in Cpus /\ fr.base \in 1..OwnTop /\ fr.gets \in BOOLEAN
                /\ fr.used \in Nat /\ fr.limit \in Int /\ fr.looping \in BOOLEAN
           /\ fr.type = "trap" => fr \in TrapFrames /\ fr.cpu \in Cpus
<1>1. CASE fr \in RunFrames
  BY <1>1 DEF RunFrames
<1>2. CASE fr \in TrapFrames
  BY <1>2 DEF TrapFrames
<1> QED BY <1>1, <1>2 DEF Frames

\* Another frame on top.
LEMMA TopSet ==
    ASSUME NEW fs \in Seq(Frames), fs # <<>>, NEW fr \in Frames,
           NEW gs, gs = [fs EXCEPT ![Len(fs)] = fr]
    PROVE  /\ gs \in Seq(Frames) /\ gs # <<>> /\ Len(gs) = Len(fs) /\ Last(gs) = fr
           /\ \A i \in 1..Len(fs) : gs[i] = IF i = Len(fs) THEN fr ELSE fs[i]
<1>1. Len(fs) \in 1..Len(fs)
  OBVIOUS
<1>2. gs \in Seq(Frames) /\ Len(gs) = Len(fs)
  BY <1>1
<1>3. \A i \in 1..Len(fs) : gs[i] = IF i = Len(fs) THEN fr ELSE fs[i]
  OBVIOUS
<1> QED BY <1>1, <1>2, <1>3 DEF Last

\* A frame more.
LEMMA TopAdded ==
    ASSUME NEW fs \in Seq(Frames), NEW fr \in Frames, NEW gs, gs = Append(fs, fr)
    PROVE  /\ gs \in Seq(Frames) /\ gs # <<>> /\ Len(gs) = Len(fs) + 1 /\ Last(gs) = fr
           /\ \A i \in 1..Len(fs) : gs[i] = fs[i]
           /\ gs[Len(fs) + 1] = fr
BY DEF Last

\* A frame less.
LEMMA TopGone ==
    ASSUME NEW fs \in Seq(Frames), fs # <<>>, NEW gs, gs = Front(fs)
    PROVE  /\ gs \in Seq(Frames) /\ Len(gs) = Len(fs) - 1 /\ Len(fs) \in Nat \ {0}
           /\ \A i \in 1..(Len(fs) - 1) : gs[i] = fs[i]
           /\ Len(fs) > 1 => gs # <<>> /\ Last(gs) = fs[Len(fs) - 1]
           /\ Len(fs) = 1 => gs = <<>>
<1>1. Len(fs) \in Nat \ {0}
  OBVIOUS
<1>2. /\ gs \in Seq(Frames) /\ Len(gs) = Len(fs) - 1
      /\ \A i \in 1..(Len(fs) - 1) : gs[i] = fs[i]
  <2> DEFINE k == Len(fs) - 1
  <2>1. k \in Nat /\ k <= Len(fs) /\ gs = SubSeq(fs, 1, k)
    BY <1>1 DEF Front
  <2> HIDE DEF k
  <2>2. gs \in Seq(Frames) /\ Len(gs) = k /\ \A i \in 1..k : gs[i] = fs[i]
    BY <2>1
  <2> QED BY <2>2 DEF k
<1>3. Len(fs) > 1 => gs # <<>> /\ Last(gs) = fs[Len(fs) - 1]
  BY <1>1, <1>2 DEF Last
<1>4. Len(fs) = 1 => gs = <<>>
  BY <1>1, <1>2
<1> QED BY <1>1, <1>2, <1>3, <1>4

-----------------------------------------------------------------------------
(* Sums over the frames.                                                    *)

Total(g, fs) == SumOf([i \in 1..Len(fs) |-> g[fs[i]]], Len(fs))

\* What the top frame adds to a sum, and that sums are natural numbers.
LEMMA TotalSplits ==
    ASSUME NEW g \in [Frames -> Nat], NEW fs \in Seq(Frames), NEW hs \in Seq(Frames),
           Len(fs) = Len(hs) + 1, \A i \in 1..Len(hs) : fs[i] = hs[i]
    PROVE  Total(g, fs) = Total(g, hs) + g[fs[Len(fs)]]
<1> DEFINE n == Len(fs)
           f == [i \in 1..Len(fs) |-> g[fs[i]]]
           h == [i \in 1..Len(hs) |-> g[hs[i]]]
<1>1. n \in Nat /\ n > 0 /\ n - 1 = Len(hs) /\ n \in 1..n
  OBVIOUS
<1>2. \A k \in 1..n : f[k] = g[fs[k]] /\ g[fs[k]] \in Int
  OBVIOUS
<1>3. \A k \in 1..(n - 1) : f[k] = h[k]
  BY <1>1
<1> HIDE DEF f, h, n
<1>4. SumOf(f, n) = SumOf(h, n - 1) + f[n]
  <2>1. \A k \in 1..n : f[k] \in Int
    BY <1>2
  <2> QED BY <1>1, <1>3, <2>1, SumSteps
<1> QED BY <1>1, <1>2, <1>4 DEF Total, f, h, n

\* The sum over no frames.
LEMMA TotalEmpty == ASSUME NEW g PROVE Total(g, <<>>) = 0
<1> DEFINE f == [i \in 1..Len(<<>>) |-> g[<<>>[i]]]
<1> HIDE DEF f
<1>1. SumOf(f, 0) = 0
  BY SumSteps
<1> QED BY <1>1 DEF f, Total

\* A sum is a natural number.
LEMMA TotalNat ==
    ASSUME NEW g \in [Frames -> Nat], NEW fs \in Seq(Frames)
    PROVE  Total(g, fs) \in Nat
<1> DEFINE T == {n \in Nat : \A gs \in Seq(Frames) : Len(gs) = n => Total(g, gs) \in Nat}
<1>1. 0 \in T
  <2> SUFFICES ASSUME NEW gs \in Seq(Frames), Len(gs) = 0 PROVE Total(g, gs) \in Nat
    OBVIOUS
  <2>1. gs = <<>>
    OBVIOUS
  <2> QED BY <2>1, TotalEmpty
<1>2. ASSUME NEW n \in Nat, n \in T PROVE n + 1 \in T
  <2> SUFFICES ASSUME NEW gs \in Seq(Frames), Len(gs) = n + 1 PROVE Total(g, gs) \in Nat
    OBVIOUS
  <2> DEFINE hs == Front(gs)
  <2>1. gs # <<>>
    OBVIOUS
  <2>2. /\ hs \in Seq(Frames) /\ Len(gs) = Len(hs) + 1 /\ Len(hs) = n
        /\ \A i \in 1..Len(hs) : gs[i] = hs[i]
    <3>1. /\ hs \in Seq(Frames) /\ Len(hs) = Len(gs) - 1
          /\ \A i \in 1..(Len(gs) - 1) : hs[i] = gs[i]
      BY <2>1, TopGone
    <3> HIDE DEF hs
    <3> QED BY <3>1
  <2> HIDE DEF hs
  <2>3. Total(g, gs) = Total(g, hs) + g[gs[Len(gs)]]
    BY <2>2, TotalSplits
  <2>4. Total(g, hs) \in Nat
    BY <1>2, <2>2
  <2>5. g[gs[Len(gs)]] \in Nat
    BY <2>1
  <2> QED BY <2>3, <2>4, <2>5
<1> HIDE DEF T
<1>3. Nat \subseteq T
  BY <1>1, <1>2, NatInd
<1>4. Len(fs) \in T
  BY <1>3
<1> QED BY <1>4 DEF T

\* The sum over the frames after another frame on top, a frame more, a frame less.
LEMMA TotalChanges ==
    ASSUME NEW g \in [Frames -> Nat], NEW fs \in Seq(Frames), NEW fr \in Frames
    PROVE  /\ fs # <<>> => Total(g, [fs EXCEPT ![Len(fs)] = fr]) = Total(g, fs) - g[Last(fs)] + g[fr]
           /\ Total(g, Append(fs, fr)) = Total(g, fs) + g[fr]
           /\ fs # <<>> => Total(g, Front(fs)) = Total(g, fs) - g[Last(fs)]
<1>1. Total(g, Append(fs, fr)) = Total(g, fs) + g[fr]
  <2> DEFINE gs == Append(fs, fr)
  <2>1. /\ gs \in Seq(Frames) /\ Len(gs) = Len(fs) + 1 /\ gs[Len(gs)] = fr
        /\ \A i \in 1..Len(fs) : gs[i] = fs[i]
    OBVIOUS
  <2> HIDE DEF gs
  <2>2. Total(g, gs) = Total(g, fs) + g[gs[Len(gs)]]
    BY <2>1, TotalSplits
  <2> QED BY <2>1, <2>2 DEF gs
<1>2. ASSUME fs # <<>> PROVE Total(g, fs) = Total(g, Front(fs)) + g[Last(fs)]
  <2> DEFINE hs == Front(fs)
  <2>1. /\ hs \in Seq(Frames) /\ Len(fs) = Len(hs) + 1
        /\ \A i \in 1..Len(hs) : fs[i] = hs[i]
    <3>1. /\ hs \in Seq(Frames) /\ Len(hs) = Len(fs) - 1
          /\ \A i \in 1..(Len(fs) - 1) : hs[i] = fs[i]
      BY <1>2, TopGone
    <3> HIDE DEF hs
    <3> QED BY <3>1
  <2> HIDE DEF hs
  <2>2. Total(g, fs) = Total(g, hs) + g[fs[Len(fs)]]
    BY <2>1, TotalSplits
  <2> QED BY <2>2 DEF hs, Last
<1>3. ASSUME fs # <<>>
      PROVE  Total(g, [fs EXCEPT ![Len(fs)] = fr]) = Total(g, Front(fs)) + g[fr]
  <2> DEFINE gs == [fs EXCEPT ![Len(fs)] = fr]
             hs == Front(fs)
  <2>1. /\ hs \in Seq(Frames) /\ Len(fs) = Len(hs) + 1 /\ Len(hs) \in Nat
        /\ \A i \in 1..Len(hs) : fs[i] = hs[i]
    <3>1. /\ hs \in Seq(Frames) /\ Len(hs) = Len(fs) - 1 /\ Len(fs) \in Nat \ {0}
          /\ \A i \in 1..(Len(fs) - 1) : hs[i] = fs[i]
      BY <1>3, TopGone
    <3> HIDE DEF hs
    <3> QED BY <3>1
  <2>2. /\ gs \in Seq(Frames) /\ Len(gs) = Len(fs) /\ Last(gs) = fr
        /\ \A i \in 1..Len(fs) : gs[i] = IF i = Len(fs) THEN fr ELSE fs[i]
    BY <1>3, TopSet
  <2> HIDE DEF gs, hs
  <2>3. \A i \in 1..Len(hs) : gs[i] = hs[i]
    BY <2>1, <2>2
  <2>4. gs \in Seq(Frames) /\ Len(gs) = Len(hs) + 1
    BY <2>1, <2>2
  <2>5. Total(g, gs) = Total(g, hs) + g[gs[Len(gs)]]
    BY <2>1, <2>3, <2>4, TotalSplits
  <2> QED BY <2>2, <2>5 DEF gs, hs, Last
<1>4. Total(g, fs) \in Nat /\ g[fr] \in Nat
  BY TotalNat
<1>5. ASSUME fs # <<>> PROVE Last(fs) \in Frames /\ Total(g, Front(fs)) \in Nat
  <2>1. Front(fs) \in Seq(Frames)
    BY <1>5, TopGone
  <2>2. Last(fs) \in Frames
    BY <1>5 DEF Last
  <2> QED BY <2>1, <2>2, TotalNat
<1>6. ASSUME fs # <<>>
      PROVE  /\ Total(g, [fs EXCEPT ![Len(fs)] = fr]) = Total(g, fs) - g[Last(fs)] + g[fr]
             /\ Total(g, Front(fs)) = Total(g, fs) - g[Last(fs)]
  <2> DEFINE h == Total(g, Front(fs))
             e == g[Last(fs)]
             d == g[fr]
  <2>1. h \in Nat /\ e \in Nat /\ d \in Nat
    BY <1>4, <1>5, <1>6
  <2>2. Total(g, fs) = h + e /\ Total(g, [fs EXCEPT ![Len(fs)] = fr]) = h + d
    BY <1>2, <1>3, <1>6
  <2> HIDE DEF h, e, d
  <2>3. Total(g, [fs EXCEPT ![Len(fs)] = fr]) = Total(g, fs) - e + d /\ h = Total(g, fs) - e
    BY <2>1, <2>2
  <2> QED BY <2>3 DEF h, e, d
<1> QED BY <1>1, <1>6

-----------------------------------------------------------------------------
(* The stacks of the frames.                                                *)

SameStack(a, b) == a > StackTop <=> b > StackTop
\* Cell a, and those below it on its stack, are not in use at stack pointer sp.
Apart(a, sp) == IF sp <= StackTop THEN a < sp \/ a > StackTop ELSE a > StackTop /\ a < sp
\* The cells up to here are those of a frame and of the frames above it.
Level(fr) == IF fr.type = "run" THEN fr.base ELSE fr.cpu.sp

\* Runs and traps alternate.  A run has the registers of the trap function that
\* started it, a trap is called with less of the stack than its run has.
Chained(fs) == \A i \in 1..Len(fs) :
    /\ fs[i].type = "run" /\ i > 1 => fs[i - 1].type = "trap" /\ fs[i].ctx = fs[i - 1].cpu
    /\ fs[i].type = "trap" =>
        /\ i > 1 /\ fs[i - 1].type = "run"
        /\ fs[i].cpu.sp < fs[i - 1].base /\ SameStack(fs[i].cpu.sp, fs[i - 1].base)
        /\ DOMAIN fs[i].mem = InUse(fs[i].cpu.sp)
\* A frame stays off what the trap functions below it have on the stacks.
Separate(fs) == \A i, j \in 1..Len(fs) :
    i < j /\ fs[i].type = "trap" => Apart(Level(fs[j]), fs[i].cpu.sp)
CpuAt(fs, c) == fs # <<>> =>
    /\ Last(fs).type = "trap" => c = Last(fs).cpu
    /\ Last(fs).type = "run" => c.sp <= Last(fs).base /\ SameStack(c.sp, Last(fs).base)
Kept(fs, m) == \A i \in 1..Len(fs) : fs[i].type = "trap" =>
    \A a \in DOMAIN fs[i].mem : m[a] = fs[i].mem[a]

Sound(fs, c, m) == Chained(fs) /\ Separate(fs) /\ CpuAt(fs, c) /\ Kept(fs, m)

\* Memory n is m but for cells that no frame of fs uses.
WrittenOff(fs, m, n) == \A a \in 1..OwnTop : n[a] # m[a] =>
    \A i \in 1..Len(fs) : fs[i].type = "trap" => a \notin InUse(fs[i].cpu.sp)

\* What is below a place that is not in use is not in use.
LEMMA Deeper ==
    ASSUME NEW a \in Int, NEW b \in Int, NEW sp \in Int, Apart(a, sp), b <= a, SameStack(a, b)
    PROVE  Apart(b, sp)
BY StackAssumption DEF Apart, SameStack

\* What is apart is not in use.
LEMMA ApartFree ==
    ASSUME NEW a \in Int, NEW sp \in Int, Apart(a, sp)
    PROVE  a \notin InUse(sp)
BY StackAssumption DEF Apart, InUse

\* Writing to cells that are not in use keeps those that are.
LEMMA WrittenKeeps ==
    ASSUME NEW fs \in Seq(Frames), NEW m \in Mems, NEW n \in Mems,
           Chained(fs), Kept(fs, m), WrittenOff(fs, m, n)
    PROVE  Kept(fs, n)
<1> SUFFICES ASSUME NEW i \in 1..Len(fs), fs[i].type = "trap", NEW a \in DOMAIN fs[i].mem
             PROVE  n[a] = fs[i].mem[a]
  BY DEF Kept
<1>1. fs[i] \in Frames /\ fs[i].cpu.sp \in 1..OwnTop
  <2>1. fs[i] \in Frames
    OBVIOUS
  <2> QED BY <2>1, FrameFields DEF Cpus
<1>2. a \in InUse(fs[i].cpu.sp)
  BY DEF Chained
<1>3. a \in 1..OwnTop
  BY <1>1, <1>2, StackAssumption DEF InUse
<1>4. n[a] = m[a]
  BY <1>2, <1>3 DEF WrittenOff
<1> QED BY <1>4 DEF Kept

\* Writing up to the base of the run on top is such a writing.
LEMMA RunWrites ==
    ASSUME NEW fs \in Seq(Frames), fs # <<>>, Separate(fs), NEW m, NEW n,
           Last(fs).type = "run",
           \A a \in 1..OwnTop : n[a] # m[a] => a <= Last(fs).base /\ SameStack(a, Last(fs).base)
    PROVE  WrittenOff(fs, m, n)
<1> SUFFICES ASSUME NEW a \in 1..OwnTop, n[a] # m[a],
                    NEW i \in 1..Len(fs), fs[i].type = "trap"
             PROVE  a \notin InUse(fs[i].cpu.sp)
  BY DEF WrittenOff
<1>1. Len(fs) \in 1..Len(fs) /\ i < Len(fs)
  BY DEF Last
<1>2. fs[i] \in Frames /\ Last(fs) \in Frames
  BY <1>1 DEF Last
<1>3. fs[i].cpu.sp \in Int /\ Last(fs).base \in Int
  BY <1>2, FrameFields DEF Cpus
<1>4. Apart(Last(fs).base, fs[i].cpu.sp)
  BY <1>1 DEF Separate, Level, Last
<1>5. a <= Last(fs).base /\ SameStack(Last(fs).base, a)
  BY DEF SameStack
<1>6. Apart(a, fs[i].cpu.sp)
  BY <1>3, <1>4, <1>5, Deeper
<1> QED BY <1>3, <1>6, ApartFree

\* The run on top has gone on: an instruction, or a turn of its loop.
LEMMA RunGoesOn ==
    ASSUME NEW fs \in Seq(Frames), fs # <<>>, NEW m \in Mems, NEW n \in Mems,
           NEW c \in Cpus, NEW d \in Cpus, Sound(fs, c, m),
           Last(fs).type = "run", NEW fr \in RunFrames,
           fr.ctx = Last(fs).ctx, fr.base = Last(fs).base,
           d.sp <= fr.base, SameStack(d.sp, fr.base),
           \A a \in 1..OwnTop : n[a] # m[a] => a <= fr.base /\ SameStack(a, fr.base)
    PROVE  Sound([fs EXCEPT ![Len(fs)] = fr], d, n)
<1> DEFINE gs == [fs EXCEPT ![Len(fs)] = fr]
<1>0. fr \in Frames /\ fr.type = "run"
  BY DEF Frames, RunFrames
<1>1. /\ gs \in Seq(Frames) /\ gs # <<>> /\ Len(gs) = Len(fs) /\ Last(gs) = fr
      /\ \A i \in 1..Len(fs) : gs[i] = IF i = Len(fs) THEN fr ELSE fs[i]
  BY <1>0, TopSet
<1>2. Kept(fs, n)
  BY RunWrites, WrittenKeeps DEF Sound
<1>3. Len(fs) \in Nat /\ Last(fs) = fs[Len(fs)]
  BY DEF Last
<1> HIDE DEF gs
<1>4. Chained(gs)
  <2> SUFFICES ASSUME NEW i \in 1..Len(fs)
               PROVE  /\ gs[i].type = "run" /\ i > 1 => gs[i - 1].type = "trap" /\ gs[i].ctx = gs[i - 1].cpu
                      /\ gs[i].type = "trap" =>
                          /\ i > 1 /\ gs[i - 1].type = "run"
                          /\ gs[i].cpu.sp < gs[i - 1].base /\ SameStack(gs[i].cpu.sp, gs[i - 1].base)
                          /\ DOMAIN gs[i].mem = InUse(gs[i].cpu.sp)
    BY <1>1 DEF Chained
  <2>1. i > 1 => i - 1 \in 1..Len(fs) /\ i - 1 # Len(fs) /\ gs[i - 1] = fs[i - 1]
    BY <1>1, <1>3
  <2>2. CASE i = Len(fs)
    <3>1. gs[i] = fr /\ fs[i].type = "run" /\ fs[i].ctx = fr.ctx
      BY <1>1, <1>3, <2>2
    <3> QED BY <1>0, <2>1, <3>1 DEF Sound, Chained
  <2>3. CASE i # Len(fs)
    <3>1. gs[i] = fs[i]
      BY <1>1, <2>3
    <3> QED BY <2>1, <3>1 DEF Sound, Chained
  <2> QED BY <2>2, <2>3
<1>5. Separate(gs)
  <2> SUFFICES ASSUME NEW i \in 1..Len(fs), NEW j \in 1..Len(fs), i < j, gs[i].type = "trap"
               PROVE  Apart(Level(gs[j]), gs[i].cpu.sp)
    BY <1>1 DEF Separate
  <2>1. gs[i] = fs[i]
    BY <1>0, <1>1
  <2>2. Level(gs[j]) = Level(fs[j])
    BY <1>0, <1>1, <1>3 DEF Level
  <2> QED BY <2>1, <2>2 DEF Sound, Separate
<1>6. CpuAt(gs, d)
  BY <1>0, <1>1 DEF CpuAt
<1>7. Kept(gs, n)
  BY <1>0, <1>1, <1>2 DEF Kept
<1> QED BY <1>4, <1>5, <1>6, <1>7 DEF Sound, gs

\* A frame that may come on top: of a trap function in the run on top, or of a run
\* in the trap function on top, with registers d and memory n.
MayAdd(fs, fr, d, m, n) ==
    /\ Last(fs).type = "run" =>
        /\ fr.type = "trap" /\ fr.cpu = d /\ DOMAIN fr.mem = InUse(d.sp)
        /\ d.sp < Last(fs).base /\ SameStack(d.sp, Last(fs).base)
        /\ \A a \in InUse(d.sp) : fr.mem[a] = n[a]
    /\ Last(fs).type = "trap" =>
        /\ fr.type = "run" /\ fr.ctx = Last(fs).cpu /\ d.sp = fr.base
    /\ \A i \in 1..Len(fs) : fs[i].type = "trap" => Apart(Level(fr), fs[i].cpu.sp)
    /\ \A a \in 1..OwnTop : n[a] # m[a] => a = Level(fr)

\* A frame more.
LEMMA FrameAdded ==
    ASSUME NEW fs \in Seq(Frames), fs # <<>>, NEW m \in Mems, NEW n \in Mems,
           NEW c, NEW d, Sound(fs, c, m),
           NEW fr \in Frames,
           MayAdd(fs, fr, d, m, n)
    PROVE  Sound(Append(fs, fr), d, n)
<1> DEFINE gs == Append(fs, fr)
<1>1. /\ gs \in Seq(Frames) /\ gs # <<>> /\ Len(gs) = Len(fs) + 1 /\ Last(gs) = fr
      /\ \A i \in 1..Len(fs) : gs[i] = fs[i]
      /\ gs[Len(fs) + 1] = fr
  BY TopAdded
<1>2. Len(fs) \in Nat /\ Len(fs) > 0 /\ Last(fs) = fs[Len(fs)] /\ Last(fs) \in Frames
  BY DEF Last
<1>3. Last(fs).type \in {"run", "trap"}
  BY <1>2, FrameFields
<1>4. Kept(fs, n)
  <2>1. WrittenOff(fs, m, n)
    <3> SUFFICES ASSUME NEW a \in 1..OwnTop, n[a] # m[a],
                        NEW i \in 1..Len(fs), fs[i].type = "trap"
                 PROVE  a \notin InUse(fs[i].cpu.sp)
      BY DEF WrittenOff
    <3>1. fs[i] \in Frames
      OBVIOUS
    <3>2. fs[i].cpu.sp \in Int
      BY <3>1, FrameFields DEF Cpus
    <3> QED BY <3>2, ApartFree DEF MayAdd
  <2> QED BY <2>1, WrittenKeeps DEF Sound
<1> HIDE DEF gs
<1>5. Chained(gs)
  <2> SUFFICES ASSUME NEW i \in 1..(Len(fs) + 1)
               PROVE  /\ gs[i].type = "run" /\ i > 1 => gs[i - 1].type = "trap" /\ gs[i].ctx = gs[i - 1].cpu
                      /\ gs[i].type = "trap" =>
                          /\ i > 1 /\ gs[i - 1].type = "run"
                          /\ gs[i].cpu.sp < gs[i - 1].base /\ SameStack(gs[i].cpu.sp, gs[i - 1].base)
                          /\ DOMAIN gs[i].mem = InUse(gs[i].cpu.sp)
    BY <1>1 DEF Chained
  <2>1. i > 1 => i - 1 \in 1..Len(fs) /\ gs[i - 1] = fs[i - 1]
    BY <1>1, <1>2
  <2>2. CASE i = Len(fs) + 1
    <3>1. gs[i] = fr /\ gs[i - 1] = Last(fs) /\ i > 1
      BY <1>1, <1>2, <2>1, <2>2
    <3>2. CASE Last(fs).type = "run"
      BY <3>1, <3>2 DEF MayAdd
    <3>3. CASE Last(fs).type = "trap"
      BY <3>1, <3>3 DEF MayAdd
    <3> QED BY <1>3, <3>2, <3>3
  <2>3. CASE i \in 1..Len(fs)
    <3>1. gs[i] = fs[i]
      BY <1>1, <2>3
    <3> QED BY <2>1, <2>3, <3>1 DEF Sound, Chained
  <2> QED BY <1>2, <2>2, <2>3
<1>6. Separate(gs)
  <2> SUFFICES ASSUME NEW i \in 1..(Len(fs) + 1), NEW j \in 1..(Len(fs) + 1), i < j, gs[i].type = "trap"
               PROVE  Apart(Level(gs[j]), gs[i].cpu.sp)
    BY <1>1 DEF Separate
  <2>1. i \in 1..Len(fs) /\ gs[i] = fs[i]
    BY <1>1, <1>2
  <2>2. CASE j = Len(fs) + 1
    BY <1>1, <2>1, <2>2 DEF MayAdd
  <2>3. CASE j \in 1..Len(fs)
    BY <1>1, <2>1, <2>3 DEF Sound, Separate
  <2> QED BY <1>2, <2>2, <2>3
<1>7. CpuAt(gs, d)
  <2>1. CASE Last(fs).type = "run"
    BY <1>1, <2>1 DEF CpuAt, MayAdd
  <2>2. CASE Last(fs).type = "trap"
    <3>1. fr.base \in Int
      BY <2>2, FrameFields DEF MayAdd
    <3> QED BY <1>1, <2>2, <3>1 DEF CpuAt, SameStack, MayAdd
  <2> QED BY <1>3, <2>1, <2>2
<1>8. Kept(gs, n)
  <2> SUFFICES ASSUME NEW i \in 1..(Len(fs) + 1), gs[i].type = "trap", NEW a \in DOMAIN gs[i].mem
               PROVE  n[a] = gs[i].mem[a]
    BY <1>1 DEF Kept
  <2>1. CASE i = Len(fs) + 1
    <3>1. gs[i] = fr /\ Last(fs).type = "run"
      BY <1>1, <1>3, <2>1 DEF MayAdd
    <3> QED BY <3>1 DEF MayAdd
  <2>2. CASE i \in 1..Len(fs)
    BY <1>1, <1>4, <2>2 DEF Kept
  <2> QED BY <1>2, <2>1, <2>2
<1> QED BY <1>5, <1>6, <1>7, <1>8 DEF Sound, gs

\* A frame less: the frame below is there as it was.
LEMMA FrameGone ==
    ASSUME NEW fs \in Seq(Frames), fs # <<>>, NEW m \in Mems, NEW n \in Mems,
           NEW c, NEW d, Sound(fs, c, m), NEW gs, gs = Front(fs),
           CpuAt(gs, d), WrittenOff(gs, m, n)
    PROVE  Sound(gs, d, n)
<1>1. /\ gs \in Seq(Frames) /\ Len(gs) = Len(fs) - 1 /\ Len(fs) \in Nat \ {0}
      /\ \A i \in 1..(Len(fs) - 1) : gs[i] = fs[i]
  BY TopGone
<1>2. \A i \in 1..Len(gs) : gs[i] = fs[i] /\ i \in 1..Len(fs) /\ (i > 1 => i - 1 \in 1..Len(gs))
  BY <1>1
<1>3. Chained(gs)
  BY <1>2 DEF Chained, Sound
<1>4. Separate(gs)
  <2> SUFFICES ASSUME NEW i \in 1..Len(gs), NEW j \in 1..Len(gs), i < j, gs[i].type = "trap"
               PROVE  Apart(Level(gs[j]), gs[i].cpu.sp)
    BY DEF Separate
  <2>1. gs[i] = fs[i] /\ gs[j] = fs[j] /\ i \in 1..Len(fs) /\ j \in 1..Len(fs)
    BY <1>2
  <2> QED BY <2>1 DEF Separate, Sound
<1>5. Kept(gs, m)
  BY <1>2 DEF Kept, Sound
<1>6. Kept(gs, n)
  BY <1>1, <1>3, <1>5, WrittenKeeps
<1> QED BY <1>3, <1>4, <1>6 DEF Sound

-----------------------------------------------------------------------------
(* The number of runs, and the cycles they have used and may still use.     *)

RunsOf(fs) == {i \in 1..Len(fs) : fs[i].type = "run"}
DepthOf(fs) == Cardinality(RunsOf(fs))

\* The number of runs after another frame on top, a frame more, a frame less.
LEMMA DepthChanges ==
    ASSUME NEW fs \in Seq(Frames), NEW fr \in Frames
    PROVE  /\ DepthOf(fs) \in Nat
           /\ fs # <<>> /\ Last(fs).type = fr.type => DepthOf([fs EXCEPT ![Len(fs)] = fr]) = DepthOf(fs)
           /\ DepthOf(Append(fs, fr)) = DepthOf(fs) + IF fr.type = "run" THEN 1 ELSE 0
           /\ fs # <<>> => DepthOf(Front(fs)) = DepthOf(fs) - IF Last(fs).type = "run" THEN 1 ELSE 0
<1>0. Len(fs) \in Nat
  OBVIOUS
<1>1. IsFiniteSet(RunsOf(fs)) /\ DepthOf(fs) \in Nat
  <2>1. IsFiniteSet(1..Len(fs))
    BY <1>0, FS_Interval
  <2>2. RunsOf(fs) \subseteq 1..Len(fs)
    BY DEF RunsOf
  <2>3. IsFiniteSet(RunsOf(fs))
    BY <2>1, <2>2, FS_Subset
  <2> QED BY <2>3, FS_CardinalityType DEF DepthOf
<1>2. ASSUME fs # <<>>, Last(fs).type = fr.type
      PROVE  DepthOf([fs EXCEPT ![Len(fs)] = fr]) = DepthOf(fs)
  <2> DEFINE gs == [fs EXCEPT ![Len(fs)] = fr]
  <2>1. Len(gs) = Len(fs) /\ \A i \in 1..Len(fs) : gs[i] = IF i = Len(fs) THEN fr ELSE fs[i]
    BY <1>2, TopSet
  <2> HIDE DEF gs
  <2>2. RunsOf(gs) = RunsOf(fs)
    BY <1>2, <2>1 DEF RunsOf, Last
  <2> QED BY <2>2 DEF gs, DepthOf
<1>3. DepthOf(Append(fs, fr)) = DepthOf(fs) + IF fr.type = "run" THEN 1 ELSE 0
  <2> DEFINE gs == Append(fs, fr)
  <2>1. /\ Len(gs) = Len(fs) + 1 /\ gs[Len(fs) + 1] = fr
        /\ \A i \in 1..Len(fs) : gs[i] = fs[i]
    BY TopAdded
  <2> HIDE DEF gs
  <2>2. CASE fr.type = "run"
    <3>1. RunsOf(gs) = RunsOf(fs) \cup {Len(fs) + 1} /\ Len(fs) + 1 \notin RunsOf(fs)
      BY <1>0, <2>1, <2>2 DEF RunsOf
    <3> QED BY <1>1, <2>2, <3>1, FS_AddElement DEF DepthOf, gs
  <2>3. CASE fr.type # "run"
    <3>1. RunsOf(gs) = RunsOf(fs)
      BY <1>0, <2>1, <2>3 DEF RunsOf
    <3> QED BY <1>1, <2>3, <3>1 DEF DepthOf, gs
  <2> QED BY <2>2, <2>3
<1>4. ASSUME fs # <<>>
      PROVE  DepthOf(Front(fs)) = DepthOf(fs) - IF Last(fs).type = "run" THEN 1 ELSE 0
  <2> DEFINE gs == Front(fs)
  <2>1. /\ Len(gs) = Len(fs) - 1 /\ Len(fs) \in Nat \ {0}
        /\ \A i \in 1..(Len(fs) - 1) : gs[i] = fs[i]
    BY <1>4, TopGone
  <2> HIDE DEF gs
  <2>2. RunsOf(gs) = RunsOf(fs) \ {Len(fs)}
    BY <2>1 DEF RunsOf
  <2>3. Len(fs) \in RunsOf(fs) <=> Last(fs).type = "run"
    BY <2>1 DEF RunsOf, Last
  <2>4. DepthOf(gs) = IF Len(fs) \in RunsOf(fs) THEN DepthOf(fs) - 1 ELSE DepthOf(fs)
    BY <1>1, <2>2, FS_RemoveElement DEF DepthOf
  <2> QED BY <1>1, <2>3, <2>4 DEF gs
<1> QED BY <1>1, <1>2, <1>3, <1>4

\* Cycles of a frame in its execute(), and those it may still use in it; cycles of
\* a slice of s that its execute() was not given.
UsedOf == [fr \in Frames |-> IF fr.type = "run" THEN fr.used ELSE 0]
RoomOf == [fr \in Frames |->
             IF fr.type = "run" /\ ~fr.looping /\ fr.used <= fr.limit THEN fr.limit - fr.used ELSE 0]
SpareOf(s) == [fr \in Frames |->
                 IF fr.type # "run" THEN 0 ELSE IF fr.looping THEN s
                 ELSE IF fr.limit <= s THEN s - fr.limit ELSE 0]

\* These are natural numbers, and none for traps.
LEMMA Shares ==
    ASSUME NEW s \in Nat
    PROVE  /\ UsedOf \in [Frames -> Nat] /\ RoomOf \in [Frames -> Nat] /\ SpareOf(s) \in [Frames -> Nat]
           /\ \A fr \in Frames : fr.type = "trap" => UsedOf[fr] = 0 /\ RoomOf[fr] = 0 /\ SpareOf(s)[fr] = 0
           /\ \A fr \in Frames : fr.type = "run" /\ fr.looping =>
                UsedOf[fr] = fr.used /\ RoomOf[fr] = 0 /\ SpareOf(s)[fr] = s
           /\ \A fr \in Frames : fr.type = "run" /\ ~fr.looping => UsedOf[fr] = fr.used
           /\ \A fr \in Frames : fr.type = "run" /\ ~fr.looping /\ fr.used <= fr.limit /\ fr.limit <= s =>
                RoomOf[fr] = fr.limit - fr.used /\ SpareOf(s)[fr] = s - fr.limit
<1>1. ASSUME NEW fr \in Frames
      PROVE  fr.type = "run" => fr.used \in Nat /\ fr.limit \in Int
  BY FrameFields
<1>2. UsedOf \in [Frames -> Nat] /\ RoomOf \in [Frames -> Nat] /\ SpareOf(s) \in [Frames -> Nat]
  <2>1. UsedOf \in [Frames -> Nat]
    BY <1>1 DEF UsedOf
  <2>2. RoomOf \in [Frames -> Nat]
    BY <1>1 DEF RoomOf
  <2>3. SpareOf(s) \in [Frames -> Nat]
    BY <1>1 DEF SpareOf
  <2> QED BY <2>1, <2>2, <2>3
<1> QED BY <1>1, <1>2 DEF UsedOf, RoomOf, SpareOf

\* A run in its execute() has its limit of the slice.
LEMMA SharesOfRun ==
    ASSUME NEW s \in Nat, NEW fr \in Frames, fr.type = "run", ~fr.looping,
           fr.used <= fr.limit, fr.limit <= s
    PROVE  UsedOf[fr] = fr.used /\ RoomOf[fr] = fr.limit - fr.used /\ SpareOf(s)[fr] = s - fr.limit
<1>1. UsedOf[fr] = fr.used
  BY Shares
<1>2. RoomOf[fr] = fr.limit - fr.used /\ SpareOf(s)[fr] = s - fr.limit
  BY Shares
<1> QED BY <1>1, <1>2

\* The sums after another frame on top.
LEMMA SharesSet ==
    ASSUME NEW fs \in Seq(Frames), fs # <<>>, NEW fr \in Frames, NEW s \in Nat,
           NEW gs, gs = [fs EXCEPT ![Len(fs)] = fr]
    PROVE  /\ Total(UsedOf, gs) = Total(UsedOf, fs) - UsedOf[Last(fs)] + UsedOf[fr]
           /\ Total(RoomOf, gs) = Total(RoomOf, fs) - RoomOf[Last(fs)] + RoomOf[fr]
           /\ Total(SpareOf(s), gs) = Total(SpareOf(s), fs) - SpareOf(s)[Last(fs)] + SpareOf(s)[fr]
<1>1. UsedOf \in [Frames -> Nat] /\ RoomOf \in [Frames -> Nat] /\ SpareOf(s) \in [Frames -> Nat]
  BY Shares
<1>2. \A g \in [Frames -> Nat] : Total(g, gs) = Total(g, fs) - g[Last(fs)] + g[fr]
  BY TotalChanges
<1> QED BY <1>1, <1>2

\* The sums after a frame more.
LEMMA SharesAdded ==
    ASSUME NEW fs \in Seq(Frames), NEW fr \in Frames, NEW s \in Nat, NEW gs, gs = Append(fs, fr)
    PROVE  /\ Total(UsedOf, gs) = Total(UsedOf, fs) + UsedOf[fr]
           /\ Total(RoomOf, gs) = Total(RoomOf, fs) + RoomOf[fr]
           /\ Total(SpareOf(s), gs) = Total(SpareOf(s), fs) + SpareOf(s)[fr]
<1>1. UsedOf \in [Frames -> Nat] /\ RoomOf \in [Frames -> Nat] /\ SpareOf(s) \in [Frames -> Nat]
  BY Shares
<1>2. \A g \in [Frames -> Nat] : Total(g, gs) = Total(g, fs) + g[fr]
  BY TotalChanges
<1> QED BY <1>1, <1>2

\* The sums after a frame less.
LEMMA SharesGone ==
    ASSUME NEW fs \in Seq(Frames), fs # <<>>, NEW s \in Nat, NEW gs, gs = Front(fs)
    PROVE  /\ Total(UsedOf, gs) = Total(UsedOf, fs) - UsedOf[Last(fs)]
           /\ Total(RoomOf, gs) = Total(RoomOf, fs) - RoomOf[Last(fs)]
           /\ Total(SpareOf(s), gs) = Total(SpareOf(s), fs) - SpareOf(s)[Last(fs)]
           /\ Total(SpareOf(s), gs) \in Nat
<1>1. UsedOf \in [Frames -> Nat] /\ RoomOf \in [Frames -> Nat] /\ SpareOf(s) \in [Frames -> Nat]
  BY Shares
<1>2. Last(fs) \in Frames /\ gs \in Seq(Frames)
  BY TopGone DEF Last
<1>3. \A g \in [Frames -> Nat] : Total(g, gs) = Total(g, fs) - g[Last(fs)]
  BY <1>2, TotalChanges
<1>4. Total(SpareOf(s), gs) \in Nat
  BY <1>1, <1>2, TotalNat
<1> QED BY <1>1, <1>3, <1>4

\* The sums are natural numbers.
LEMMA SharesNat ==
    ASSUME NEW fs \in Seq(Frames), NEW s \in Nat
    PROVE  Total(UsedOf, fs) \in Nat /\ Total(RoomOf, fs) \in Nat /\ Total(SpareOf(s), fs) \in Nat
BY TotalNat, Shares

\* The cycles that the model counts.
LEMMA UsedIs == ASSUME NEW fs \in Seq(Frames) PROVE Used(fs) = Total(UsedOf, fs)
<1>1. \A i \in 1..Len(fs) : fs[i] \in Frames
  OBVIOUS
<1>2. [i \in 1..Len(fs) |-> UsedOf[fs[i]]] = [i \in 1..Len(fs) |-> IF fs[i].type = "run" THEN fs[i].used ELSE 0]
  BY <1>1 DEF UsedOf
<1> QED BY <1>2 DEF Used, Total

-----------------------------------------------------------------------------
(***************************************************************************)
(* The inductive invariant.  Chained, Separate and CpuAt say why an outer  *)
(* frame finds its registers and its part of the stacks again.  For the    *)
(* hook, every run has a slice: what its execute() has used and may still  *)
(* use, and what it was not given.  Cycles since the hook that are in no   *)
(* execute() any more are gone from left_cycles.                           *)
(***************************************************************************)
RuntimeTypes ==
    /\ running \in BOOLEAN /\ run_states \in Seq(RunStates)
    /\ left_cycles \in Int /\ slice_cycles \in Nat
    /\ cpu \in Cpus /\ mem \in Mems /\ frames \in Seq(Frames)
    /\ executed \in Int /\ lost \in Int /\ since \in Nat
    /\ raised # "none" => frames = <<>>

\* each run state knows its depth
Nested(rss) == \A i \in 1..Len(rss) : rss[i].nesting = i - 1
Depths ==
    /\ Len(run_states) = DepthOf(frames) /\ Len(run_states) <= MaxNesting + 1
    /\ running <=> run_states # <<>>
    /\ running <=> frames # <<>>
    /\ Nested(run_states)

\* a run that is between two execute() has used none
RestsAt(fr) == fr.type = "run" /\ fr.looping => fr.used = 0
Resting(fs) == \A i \in 1..Len(fs) : RestsAt(fs[i])
CountedRight == running => Last(run_states).total_cycles = executed - lost - Total(UsedOf, frames)

\* a run keeps to its limit, which is a slice at most
LimitedTo(fr, s) == fr.type = "run" /\ ~fr.looping => fr.used <= fr.limit /\ fr.limit <= s
Limited(fs, s) == \A i \in 1..Len(fs) : LimitedTo(fs[i], s)
\* n runs, cycles ago since the hook and left to the next, and the sums of the three shares
Ticks(s, left, n, ago, u, r, q) ==
    /\ left <= s
    /\ u + r + q = s * n
    /\ ago + r <= s * (MaxNesting + 1)
    /\ left > 0 => ago + left <= u + s
Clocked(fs, s, left, n, ago) == s > 0 =>
    /\ Limited(fs, s)
    /\ Ticks(s, left, n, ago, Total(UsedOf, fs), Total(RoomOf, fs), Total(SpareOf(s), fs))

RuntimeInv ==
    /\ RuntimeTypes
    /\ raised = "none" =>
        /\ Sound(frames, cpu, mem) /\ Depths /\ Resting(frames) /\ CountedRight
        /\ Clocked(frames, slice_cycles, left_cycles, Len(run_states), since)

\* The invariant has what the run checks.
LEMMA RuntimeInvNests == ASSUME RuntimeInv PROVE RunsNest
<1>1. CASE raised # "none"
  BY <1>1 DEF RuntimeInv, RuntimeTypes, RunsNest, RegsKept, StackKept, CyclesCounted, HookInTime,
              NestingMatches, InTrap
<1>2. CASE raised = "none"
  <2>1. RegsKept
    BY <1>2 DEF RuntimeInv, Sound, CpuAt, RegsKept, InTrap, Top
  <2>2. StackKept
    BY <1>2 DEF RuntimeInv, Sound, Kept, StackKept
  <2>3. CyclesCounted
    BY <1>2, UsedIs DEF RuntimeInv, RuntimeTypes, CountedRight, CyclesCounted
  <2>4. HookInTime
    <3> SUFFICES ASSUME slice_cycles > 0 PROVE since <= slice_cycles * (MaxNesting + 1)
      BY DEF HookInTime
    <3>1. since + Total(RoomOf, frames) <= slice_cycles * (MaxNesting + 1)
      BY <1>2 DEF RuntimeInv, Clocked, Ticks
    <3>2. Total(RoomOf, frames) \in Nat
      BY TotalNat, Shares DEF RuntimeInv, RuntimeTypes
    <3>3. since \in Nat /\ slice_cycles * (MaxNesting + 1) \in Int
      BY NestingAssumption DEF RuntimeInv, RuntimeTypes
    <3> DEFINE p == slice_cycles * (MaxNesting + 1)
    <3> HIDE DEF p
    <3>4. since <= p
      BY <3>1, <3>2, <3>3 DEF p
    <3> QED BY <3>4 DEF p
  <2>5. NestingMatches
    <3>1. running \in BOOLEAN /\ Depths
      BY <1>2 DEF RuntimeInv, RuntimeTypes
    <3>2. running = (run_states # <<>>)
      BY <3>1 DEF Depths
    <3> QED BY <3>1, <3>2 DEF Depths, Nested, DepthOf, RunsOf, Runs, NestingMatches
  <2> QED BY <2>1, <2>2, <2>3, <2>4, <2>5 DEF RunsNest
<1> QED BY <1>1, <1>2

-----------------------------------------------------------------------------
(* The steps: what they do to sums, limits and counters.                    *)

\* What the conditions of the actions on frames mean.
LEMMA Busy ==
    ASSUME RuntimeInv, frames # <<>>
    PROVE  /\ raised = "none" /\ running /\ Top = Last(frames) /\ Top \in Frames
           /\ Len(run_states) \in Nat \ {0} /\ run_states # <<>> /\ Last(run_states) \in RunStates
<1>1. raised = "none" /\ running /\ run_states # <<>>
  BY DEF RuntimeInv, RuntimeTypes, Depths
<1>2. Top \in Frames
  BY DEF RuntimeInv, RuntimeTypes, Top, Last
<1>3. Last(run_states) \in RunStates /\ Len(run_states) \in Nat \ {0}
  BY <1>1 DEF RuntimeInv, RuntimeTypes, Last
<1> QED BY <1>1, <1>2, <1>3 DEF Top

\* Resting and Limited after another frame on top.
LEMMA SetLimited ==
    ASSUME NEW fs \in Seq(Frames), fs # <<>>, NEW fr \in Frames,
           NEW gs, gs = [fs EXCEPT ![Len(fs)] = fr]
    PROVE  /\ Resting(fs) /\ RestsAt(fr) => Resting(gs)
           /\ \A s : Limited(fs, s) /\ LimitedTo(fr, s) => Limited(gs, s)
<1>1. Len(gs) = Len(fs) /\ \A i \in 1..Len(fs) : gs[i] = IF i = Len(fs) THEN fr ELSE fs[i]
  BY TopSet
<1>2. \A i \in 1..Len(gs) : gs[i] = fr \/ (i \in 1..Len(fs) /\ gs[i] = fs[i])
  BY <1>1
<1>3. Resting(fs) /\ RestsAt(fr) => Resting(gs)
  BY <1>2 DEF Resting
<1>4. ASSUME NEW s, Limited(fs, s), LimitedTo(fr, s) PROVE Limited(gs, s)
  BY <1>2, <1>4 DEF Limited
<1> QED BY <1>3, <1>4

\* Resting and Limited after a frame more.
LEMMA AddedLimited ==
    ASSUME NEW fs \in Seq(Frames), NEW fr \in Frames, NEW gs, gs = Append(fs, fr)
    PROVE  /\ Resting(fs) /\ RestsAt(fr) => Resting(gs)
           /\ \A s : Limited(fs, s) /\ LimitedTo(fr, s) => Limited(gs, s)
<1>1. /\ Len(gs) = Len(fs) + 1 /\ gs[Len(fs) + 1] = fr /\ Len(fs) \in Nat
      /\ \A i \in 1..Len(fs) : gs[i] = fs[i]
  BY TopAdded
<1>2. \A i \in 1..Len(gs) : gs[i] = fr \/ (i \in 1..Len(fs) /\ gs[i] = fs[i])
  BY <1>1
<1>3. Resting(fs) /\ RestsAt(fr) => Resting(gs)
  BY <1>2 DEF Resting
<1>4. ASSUME NEW s, Limited(fs, s), LimitedTo(fr, s) PROVE Limited(gs, s)
  BY <1>2, <1>4 DEF Limited
<1> QED BY <1>3, <1>4

\* Resting and Limited after a frame less.
LEMMA GoneLimited ==
    ASSUME NEW fs \in Seq(Frames), fs # <<>>, NEW gs, gs = Front(fs)
    PROVE  /\ Resting(fs) => Resting(gs)
           /\ \A s : Limited(fs, s) => Limited(gs, s)
<1>1. /\ Len(gs) = Len(fs) - 1 /\ Len(fs) \in Nat \ {0}
      /\ \A i \in 1..(Len(fs) - 1) : gs[i] = fs[i]
  BY TopGone
<1>2. \A i \in 1..Len(gs) : gs[i] = fs[i] /\ i \in 1..Len(fs)
  BY <1>1
<1>3. Resting(fs) => Resting(gs)
  BY <1>2 DEF Resting
<1>4. ASSUME NEW s, Limited(fs, s) PROVE Limited(gs, s)
  BY <1>2, <1>4 DEF Limited
<1> QED BY <1>3, <1>4

\* The counts after the top run changed its shares from a, b, c to x, y, z.
LEMMA TicksSet ==
    ASSUME NEW s \in Nat, NEW n \in Nat, NEW left \in Int, NEW ago \in Nat,
           NEW left2 \in Int, NEW ago2 \in Nat, NEW u \in Nat, NEW r \in Nat, NEW q \in Nat,
           NEW a \in Nat, NEW b \in Nat, NEW c \in Nat, NEW x \in Nat, NEW y \in Nat, NEW z \in Nat,
           Ticks(s, left, n, ago, u, r, q),
           left2 <= s, x + y + z = a + b + c, ago2 + y <= ago + b,
           left2 > 0 => left > 0 /\ ago2 + left2 - x <= ago + left - a
    PROVE  Ticks(s, left2, n, ago2, u - a + x, r - b + y, q - c + z)
<1> DEFINE P == s * n
           Q == s * (MaxNesting + 1)
<1>1. P \in Int /\ Q \in Int
  BY NestingAssumption
<1>2. u + r + q = P /\ ago + r <= Q /\ (left > 0 => ago + left <= u + s)
  BY DEF Ticks
<1> HIDE DEF P, Q
<1>3. /\ (u - a + x) + (r - b + y) + (q - c + z) = P
      /\ ago2 + (r - b + y) <= Q
  BY <1>1, <1>2
<1>4. left2 > 0 => ago2 + left2 <= (u - a + x) + s
  BY <1>2
<1> QED BY <1>3, <1>4 DEF Ticks, P, Q

\* The top run is over; it had used a of the cycles up to its limit.
LEMMA TicksGone ==
    ASSUME NEW s \in Nat, NEW n \in Nat, NEW left \in Int, NEW ago \in Nat,
           NEW left2 \in Int, NEW ago2 \in Nat, NEW u \in Nat, NEW r \in Nat, NEW q \in Nat,
           NEW a \in Nat, NEW limit \in Int, a <= limit, limit <= s, u - a >= 0,
           Ticks(s, left, n, ago, u, r, q),
           left2 <= left, ago2 <= ago,
           left2 > 0 => ago2 + left2 <= s \/ ago2 + left2 <= ago + left - a
    PROVE  Ticks(s, left2, n - 1, ago2, u - a, r - (limit - a), q - (s - limit))
<1> DEFINE P == s * n
           PP == s * (n - 1)
           Q == s * (MaxNesting + 1)
<1>1. P \in Int /\ PP = P - s /\ Q \in Int
  BY NestingAssumption
<1>2. left <= s /\ u + r + q = P /\ ago + r <= Q /\ (left > 0 => ago + left <= u + s)
  BY DEF Ticks
<1> HIDE DEF P, PP, Q
<1>3. /\ (u - a) + (r - (limit - a)) + (q - (s - limit)) = PP
      /\ ago2 + (r - (limit - a)) <= Q
  BY <1>1, <1>2
<1>4. left2 > 0 => ago2 + left2 <= (u - a) + s
  BY <1>2
<1>5. left2 <= s
  BY <1>2
<1> QED BY <1>3, <1>4, <1>5 DEF Ticks, PP, Q

\* A run more, which was given nothing of its slice.
LEMMA TicksAdded ==
    ASSUME NEW s \in Nat, NEW n \in Nat, NEW left \in Int, NEW ago \in Nat,
           NEW u \in Nat, NEW r \in Nat, NEW q \in Nat, Ticks(s, left, n, ago, u, r, q)
    PROVE  Ticks(s, left, n + 1, ago, u, r, q + s)
<1> DEFINE P == s * n
           PP == s * (n + 1)
<1>1. P \in Int /\ PP = P + s /\ u + r + q = P
  BY DEF Ticks
<1> HIDE DEF P, PP
<1>2. u + r + (q + s) = PP
  BY <1>1
<1> QED BY <1>2 DEF Ticks, PP

\* The top run is given the rest of the slice, after the hook a whole one.
LEMMA TicksLoop ==
    ASSUME NEW s \in Nat, NEW n \in Nat, NEW left \in Int, NEW ago \in Nat,
           NEW left2 \in Int, NEW ago2 \in Nat, NEW u \in Nat, NEW r \in Nat, NEW q \in Nat,
           Ticks(s, left, n, ago, u, r, q), n <= MaxNesting + 1, q >= s, s > 0,
           \/ left <= 0 /\ left2 = s /\ ago2 = 0
           \/ left > 0 /\ left2 = left /\ ago2 = ago
    PROVE  Ticks(s, left2, n, ago2, u, r + left2, q - s + (s - left2))
<1> DEFINE P == s * n
           Q == s * (MaxNesting + 1)
<1>1. P \in Int /\ Q \in Int /\ P <= Q
  <2> DEFINE d == MaxNesting + 1 - n
  <2>1. d \in Nat /\ MaxNesting + 1 = n + d
    BY NestingAssumption
  <2> HIDE DEF d
  <2>2. s * d \in Nat
    BY <2>1
  <2>3. s * (n + d) = s * n + s * d
    BY <2>1
  <2>4. Q = s * n + s * d
    BY <2>1, <2>3
  <2> QED BY <2>2, <2>4
<1>2. left <= s /\ u + r + q = P /\ ago + r <= Q /\ (left > 0 => ago + left <= u + s)
  BY DEF Ticks
<1> HIDE DEF P, Q
<1>3. u + (r + left2) + (q - s + (s - left2)) = P /\ ago2 + (r + left2) <= Q
  BY <1>1, <1>2
<1>4. left2 <= s /\ (left2 > 0 => ago2 + left2 <= u + s)
  BY <1>2
<1> QED BY <1>3, <1>4 DEF Ticks, P, Q

\* The top run goes on: what must hold for its shares and for the cycles since and to a hook.
ShareMoves(s, fr, old, left, ago, left2, ago2) ==
    /\ LimitedTo(fr, s) /\ left2 <= s
    /\ UsedOf[fr] + RoomOf[fr] + SpareOf(s)[fr] = UsedOf[old] + RoomOf[old] + SpareOf(s)[old]
    /\ ago2 + RoomOf[fr] <= ago + RoomOf[old]
    /\ left2 > 0 => left > 0 /\ ago2 + left2 - UsedOf[fr] <= ago + left - UsedOf[old]

\* The clock after such a change.
LEMMA ClockSet ==
    ASSUME NEW fs \in Seq(Frames), fs # <<>>, NEW fr \in Frames, NEW s \in Nat, NEW n \in Nat,
           NEW left \in Int, NEW ago \in Nat, NEW left2 \in Int, NEW ago2 \in Nat,
           Clocked(fs, s, left, n, ago), NEW gs, gs = [fs EXCEPT ![Len(fs)] = fr],
           s > 0 => ShareMoves(s, fr, Last(fs), left, ago, left2, ago2)
    PROVE  Clocked(gs, s, left2, n, ago2)
<1> SUFFICES ASSUME s > 0
             PROVE  /\ Limited(gs, s)
                    /\ Ticks(s, left2, n, ago2, Total(UsedOf, gs), Total(RoomOf, gs), Total(SpareOf(s), gs))
  BY DEF Clocked
<1>0. /\ Total(UsedOf, gs) = Total(UsedOf, fs) - UsedOf[Last(fs)] + UsedOf[fr]
      /\ Total(RoomOf, gs) = Total(RoomOf, fs) - RoomOf[Last(fs)] + RoomOf[fr]
      /\ Total(SpareOf(s), gs) = Total(SpareOf(s), fs) - SpareOf(s)[Last(fs)] + SpareOf(s)[fr]
  <2>1. Total(UsedOf, gs) = Total(UsedOf, fs) - UsedOf[Last(fs)] + UsedOf[fr]
    BY SharesSet
  <2>2. Total(RoomOf, gs) = Total(RoomOf, fs) - RoomOf[Last(fs)] + RoomOf[fr]
    BY SharesSet
  <2>3. Total(SpareOf(s), gs) = Total(SpareOf(s), fs) - SpareOf(s)[Last(fs)] + SpareOf(s)[fr]
    BY SharesSet
  <2> QED BY <2>1, <2>2, <2>3
<1> DEFINE u == Total(UsedOf, fs)
           r == Total(RoomOf, fs)
           q == Total(SpareOf(s), fs)
           a == UsedOf[Last(fs)]
           b == RoomOf[Last(fs)]
           c == SpareOf(s)[Last(fs)]
           x == UsedOf[fr]
           y == RoomOf[fr]
           z == SpareOf(s)[fr]
<1>1. Last(fs) \in Frames
  BY DEF Last
<1>2. Total(UsedOf, gs) = u - a + x /\ Total(RoomOf, gs) = r - b + y /\ Total(SpareOf(s), gs) = q - c + z
  BY <1>0
<1>3. /\ a \in Nat /\ b \in Nat /\ c \in Nat /\ x \in Nat /\ y \in Nat /\ z \in Nat
  BY <1>1, Shares
<1>4. u \in Nat /\ r \in Nat /\ q \in Nat
  BY SharesNat
<1>5. Limited(gs, s)
  BY SetLimited DEF Clocked, ShareMoves
<1>6. /\ Ticks(s, left, n, ago, u, r, q)
      /\ left2 <= s /\ x + y + z = a + b + c /\ ago2 + y <= ago + b
      /\ left2 > 0 => left > 0 /\ ago2 + left2 - x <= ago + left - a
  BY DEF Clocked, ShareMoves
<1> HIDE DEF u, r, q, a, b, c, x, y, z
<1>7. Ticks(s, left2, n, ago2, u - a + x, r - b + y, q - c + z)
  BY <1>3, <1>4, <1>6, TicksSet
<1> QED BY <1>2, <1>5, <1>7

\* A trap function more, or one less.
LEMMA ClockTrapAdded ==
    ASSUME NEW fs \in Seq(Frames), NEW fr \in Frames, NEW s \in Nat, NEW n, NEW left, NEW ago,
           Clocked(fs, s, left, n, ago), fr.type = "trap", NEW gs, gs = Append(fs, fr)
    PROVE  Clocked(gs, s, left, n, ago) /\ Total(UsedOf, gs) = Total(UsedOf, fs)
<1>1. UsedOf[fr] = 0 /\ RoomOf[fr] = 0 /\ SpareOf(s)[fr] = 0
  BY Shares
<1>2. /\ Total(UsedOf, gs) = Total(UsedOf, fs)
      /\ Total(RoomOf, gs) = Total(RoomOf, fs)
      /\ Total(SpareOf(s), gs) = Total(SpareOf(s), fs)
  <2>1. /\ Total(UsedOf, gs) = Total(UsedOf, fs) + UsedOf[fr]
        /\ Total(RoomOf, gs) = Total(RoomOf, fs) + RoomOf[fr]
        /\ Total(SpareOf(s), gs) = Total(SpareOf(s), fs) + SpareOf(s)[fr]
    BY SharesAdded
  <2>2. Total(UsedOf, fs) \in Nat /\ Total(RoomOf, fs) \in Nat /\ Total(SpareOf(s), fs) \in Nat
    BY SharesNat
  <2> QED BY <1>1, <2>1, <2>2
<1>3. Limited(fs, s) => Limited(gs, s)
  BY AddedLimited DEF LimitedTo
<1> QED BY <1>2, <1>3 DEF Clocked

\* A trap function is over: no cycles change.
LEMMA ClockTrapGone ==
    ASSUME NEW fs \in Seq(Frames), fs # <<>>, NEW s \in Nat, NEW n, NEW left, NEW ago,
           Clocked(fs, s, left, n, ago), Last(fs).type = "trap", NEW gs, gs = Front(fs)
    PROVE  Clocked(gs, s, left, n, ago) /\ Total(UsedOf, gs) = Total(UsedOf, fs)
<1>1. Last(fs) \in Frames
  BY DEF Last
<1>2. UsedOf[Last(fs)] = 0 /\ RoomOf[Last(fs)] = 0 /\ SpareOf(s)[Last(fs)] = 0
  BY <1>1, Shares
<1>3. /\ Total(UsedOf, gs) = Total(UsedOf, fs)
      /\ Total(RoomOf, gs) = Total(RoomOf, fs)
      /\ Total(SpareOf(s), gs) = Total(SpareOf(s), fs)
  <2>1. /\ Total(UsedOf, gs) = Total(UsedOf, fs) - UsedOf[Last(fs)]
        /\ Total(RoomOf, gs) = Total(RoomOf, fs) - RoomOf[Last(fs)]
        /\ Total(SpareOf(s), gs) = Total(SpareOf(s), fs) - SpareOf(s)[Last(fs)]
    BY SharesGone
  <2>2. Total(UsedOf, fs) \in Nat /\ Total(RoomOf, fs) \in Nat /\ Total(SpareOf(s), fs) \in Nat
    BY SharesNat
  <2> QED BY <1>2, <2>1, <2>2
<1>4. Limited(fs, s) => Limited(gs, s)
  BY GoneLimited
<1> QED BY <1>3, <1>4 DEF Clocked

\* A run more: it has not been given anything yet.
LEMMA ClockRunAdded ==
    ASSUME NEW fs \in Seq(Frames), NEW fr \in Frames, NEW s \in Nat, NEW n \in Nat,
           NEW left \in Int, NEW ago \in Nat,
           Clocked(fs, s, left, n, ago), fr.type = "run", fr.looping, fr.used = 0,
           NEW gs, gs = Append(fs, fr)
    PROVE  Clocked(gs, s, left, n + 1, ago) /\ Total(UsedOf, gs) = Total(UsedOf, fs)
<1> DEFINE u == Total(UsedOf, fs)
           r == Total(RoomOf, fs)
           q == Total(SpareOf(s), fs)
<1>1. UsedOf[fr] = 0 /\ RoomOf[fr] = 0 /\ SpareOf(s)[fr] = s
  BY Shares
<1>2. u \in Nat /\ r \in Nat /\ q \in Nat
  BY SharesNat
<1>3. Total(UsedOf, gs) = u /\ Total(RoomOf, gs) = r /\ Total(SpareOf(s), gs) = q + s
  <2>1. /\ Total(UsedOf, gs) = u + UsedOf[fr]
        /\ Total(RoomOf, gs) = r + RoomOf[fr]
        /\ Total(SpareOf(s), gs) = q + SpareOf(s)[fr]
    BY SharesAdded
  <2> HIDE DEF u, r, q
  <2> QED BY <1>1, <1>2, <2>1
<1>4. Limited(fs, s) => Limited(gs, s)
  BY AddedLimited DEF LimitedTo
<1>5. s > 0 => Limited(fs, s) /\ Ticks(s, left, n, ago, u, r, q)
  BY DEF Clocked
<1> HIDE DEF u, r, q
<1>6. s > 0 => Ticks(s, left, n + 1, ago, u, r, q + s)
  BY <1>2, <1>5, TicksAdded
<1>7. Clocked(gs, s, left, n + 1, ago)
  BY <1>3, <1>4, <1>5, <1>6 DEF Clocked
<1> QED BY <1>3, <1>7 DEF u

\* The top run is over, after it used its cycles or lost them.
LEMMA ClockRunGone ==
    ASSUME NEW fs \in Seq(Frames), fs # <<>>, NEW s \in Nat, NEW n \in Nat,
           NEW left \in Int, NEW ago \in Nat, NEW left2 \in Int, NEW ago2 \in Nat,
           Last(fs).type = "run", ~Last(fs).looping, Clocked(fs, s, left, n, ago),
           left2 <= left, ago2 <= ago,
           left2 > 0 /\ s > 0 => ago2 + left2 <= s \/ ago2 + left2 <= ago + left - Last(fs).used,
           NEW gs, gs = Front(fs)
    PROVE  /\ Clocked(gs, s, left2, n - 1, ago2)
           /\ Total(UsedOf, gs) = Total(UsedOf, fs) - Last(fs).used
<1> DEFINE u == Total(UsedOf, fs)
           r == Total(RoomOf, fs)
           q == Total(SpareOf(s), fs)
           a == Last(fs).used
           limit == Last(fs).limit
<1>1. Last(fs) \in Frames /\ gs \in Seq(Frames)
  BY TopGone DEF Last
<1>2. UsedOf[Last(fs)] = a /\ a \in Nat /\ limit \in Int
  BY <1>1, Shares, FrameFields
<1>3. u \in Nat /\ r \in Nat /\ q \in Nat /\ Total(UsedOf, gs) \in Nat
  BY <1>1, SharesNat
<1>4. Total(UsedOf, gs) = u - a
  BY <1>2, SharesGone
<1>5. ASSUME s > 0 PROVE Clocked(gs, s, left2, n - 1, ago2)
  <2>1. Limited(fs, s) /\ Ticks(s, left, n, ago, u, r, q)
    BY <1>5 DEF Clocked
  <2>2. a <= limit /\ limit <= s
    BY <2>1 DEF Limited, LimitedTo, Last
  <2>3. RoomOf[Last(fs)] = limit - a /\ SpareOf(s)[Last(fs)] = s - limit
    <3>1. ~Last(fs).looping /\ Last(fs).used <= Last(fs).limit /\ Last(fs).limit <= s
      BY <2>2
    <3> QED BY <1>1, <3>1, SharesOfRun
  <2>4. Total(RoomOf, gs) = r - (limit - a) /\ Total(SpareOf(s), gs) = q - (s - limit)
    BY <2>3, SharesGone
  <2>5. Limited(gs, s)
    BY <2>1, GoneLimited
  <2>6. left2 > 0 => ago2 + left2 <= s \/ ago2 + left2 <= ago + left - a
    BY <1>5
  <2> HIDE DEF u, r, q, a, limit
  <2>7. u - a >= 0
    BY <1>3, <1>4
  <2>8. Ticks(s, left2, n - 1, ago2, u - a, r - (limit - a), q - (s - limit))
    BY <1>2, <1>3, <2>1, <2>2, <2>6, <2>7, TicksGone
  <2> QED BY <1>4, <2>4, <2>5, <2>8 DEF Clocked
<1>6. Clocked(gs, s, left2, n - 1, ago2)
  BY <1>5 DEF Clocked
<1> QED BY <1>4, <1>6

\* The top run is given the rest of the slice, after the hook a whole one.
LEMMA ClockLoop ==
    ASSUME NEW fs \in Seq(Frames), fs # <<>>, NEW fr \in Frames, NEW s \in Nat, NEW n \in Nat,
           NEW left \in Int, NEW ago \in Nat, NEW left2 \in Int, NEW ago2 \in Nat,
           Last(fs).type = "run", Last(fs).looping, fr.type = "run", ~fr.looping, fr.used = 0,
           s > 0 => fr.limit = left2,
           Clocked(fs, s, left, n, ago), Resting(fs), n <= MaxNesting + 1,
           s > 0 => \/ left <= 0 /\ left2 = s /\ ago2 = 0
                    \/ left > 0 /\ left2 = left /\ ago2 = ago,
           NEW gs, gs = [fs EXCEPT ![Len(fs)] = fr]
    PROVE  Clocked(gs, s, left2, n, ago2)
<1> SUFFICES ASSUME s > 0
             PROVE  /\ Limited(gs, s)
                    /\ Ticks(s, left2, n, ago2, Total(UsedOf, gs), Total(RoomOf, gs), Total(SpareOf(s), gs))
  BY DEF Clocked
<1>0. /\ Total(UsedOf, gs) = Total(UsedOf, fs) - UsedOf[Last(fs)] + UsedOf[fr]
      /\ Total(RoomOf, gs) = Total(RoomOf, fs) - RoomOf[Last(fs)] + RoomOf[fr]
      /\ Total(SpareOf(s), gs) = Total(SpareOf(s), fs) - SpareOf(s)[Last(fs)] + SpareOf(s)[fr]
  <2>1. Total(UsedOf, gs) = Total(UsedOf, fs) - UsedOf[Last(fs)] + UsedOf[fr]
    BY SharesSet
  <2>2. Total(RoomOf, gs) = Total(RoomOf, fs) - RoomOf[Last(fs)] + RoomOf[fr]
    BY SharesSet
  <2>3. Total(SpareOf(s), gs) = Total(SpareOf(s), fs) - SpareOf(s)[Last(fs)] + SpareOf(s)[fr]
    BY SharesSet
  <2> QED BY <2>1, <2>2, <2>3
<1> DEFINE u == Total(UsedOf, fs)
           r == Total(RoomOf, fs)
           q == Total(SpareOf(s), fs)
<1>1. Last(fs) \in Frames /\ Last(fs).used = 0
  <2>1. Len(fs) \in 1..Len(fs)
    OBVIOUS
  <2> QED BY <2>1 DEF Last, Resting, RestsAt
<1>2. Limited(fs, s) /\ Ticks(s, left, n, ago, u, r, q)
  BY DEF Clocked
<1>3. left2 <= s /\ left2 > 0 /\ fr.limit = left2
  <2>1. left <= s
    BY <1>2 DEF Ticks
  <2> QED BY <2>1
<1>4. UsedOf[Last(fs)] = 0 /\ RoomOf[Last(fs)] = 0 /\ SpareOf(s)[Last(fs)] = s
  BY <1>1, Shares
<1>5. UsedOf[fr] = 0 /\ RoomOf[fr] = left2 /\ SpareOf(s)[fr] = s - left2
  <2>1. fr.used <= fr.limit /\ fr.limit <= s
    BY <1>3
  <2>2. UsedOf[fr] = fr.used /\ RoomOf[fr] = fr.limit - fr.used /\ SpareOf(s)[fr] = s - fr.limit
    BY <2>1, SharesOfRun
  <2> QED BY <1>3, <2>2
<1>6. u \in Nat /\ r \in Nat /\ q \in Nat
  BY SharesNat
<1>7. q >= s
  <2> DEFINE h == Total(SpareOf(s), Front(fs))
  <2>1. h = q - SpareOf(s)[Last(fs)] /\ h \in Nat
    BY SharesGone
  <2> HIDE DEF h, q
  <2> QED BY <1>4, <1>6, <2>1
<1>8. Limited(gs, s)
  <2>1. LimitedTo(fr, s)
    BY <1>3 DEF LimitedTo
  <2> QED BY <1>2, <2>1, SetLimited
<1>9. /\ Total(UsedOf, gs) = u - UsedOf[Last(fs)] + UsedOf[fr]
      /\ Total(RoomOf, gs) = r - RoomOf[Last(fs)] + RoomOf[fr]
      /\ Total(SpareOf(s), gs) = q - SpareOf(s)[Last(fs)] + SpareOf(s)[fr]
  BY <1>0
<1> HIDE DEF u, r, q
<1>11. Total(UsedOf, gs) = u /\ Total(RoomOf, gs) = r + left2 /\ Total(SpareOf(s), gs) = q - s + (s - left2)
  BY <1>4, <1>5, <1>6, <1>9
<1>12. Ticks(s, left2, n, ago2, u, r + left2, q - s + (s - left2))
  BY <1>2, <1>6, <1>7, TicksLoop
<1> QED BY <1>8, <1>11, <1>12

\* Before the first run there is nothing to count.
LEMMA ClockEmpty ==
    ASSUME NEW s \in Nat, NEW left \in Int, left <= s PROVE Clocked(<<>>, s, left, 0, 0)
<1>1. /\ Total(UsedOf, <<>>) = 0 /\ Total(RoomOf, <<>>) = 0 /\ Total(SpareOf(s), <<>>) = 0
  BY TotalEmpty
<1>2. s * 0 = 0 /\ s * (MaxNesting + 1) >= 0
  BY NestingAssumption
<1>3. Limited(<<>>, s)
  BY DEF Limited
<1> QED BY <1>1, <1>2, <1>3 DEF Clocked, Ticks

\* An element of a list is replaced.
LEMMA ElementSet ==
    ASSUME NEW T, NEW s \in Seq(T), NEW k \in 1..Len(s), NEW e \in T
    PROVE  /\ [s EXCEPT ![k] = e] \in Seq(T) /\ Len([s EXCEPT ![k] = e]) = Len(s)
           /\ \A i \in 1..Len(s) : [s EXCEPT ![k] = e][i] = IF i = k THEN e ELSE s[i]
OBVIOUS

\* The run states after the innermost has changed.
LEMMA StatesSet ==
    ASSUME NEW rss \in Seq(RunStates), rss # <<>>, NEW rs \in RunStates, Nested(rss),
           rs.nesting = Last(rss).nesting, NEW new, new = [rss EXCEPT ![Len(rss)] = rs]
    PROVE  new \in Seq(RunStates) /\ Len(new) = Len(rss) /\ Last(new) = rs /\ Nested(new)
<1>1. Len(rss) \in 1..Len(rss)
  OBVIOUS
<1>2. /\ new \in Seq(RunStates) /\ Len(new) = Len(rss)
      /\ \A i \in 1..Len(rss) : new[i] = IF i = Len(rss) THEN rs ELSE rss[i]
  BY <1>1
<1> QED BY <1>1, <1>2 DEF Last, Nested

\* The run states with one more.
LEMMA StatesAdded ==
    ASSUME NEW rss \in Seq(RunStates), NEW rs \in RunStates, Nested(rss),
           rs.nesting = Len(rss), NEW new, new = Append(rss, rs)
    PROVE  new \in Seq(RunStates) /\ Len(new) = Len(rss) + 1 /\ Last(new) = rs /\ Nested(new)
<1>1. /\ new \in Seq(RunStates) /\ Len(new) = Len(rss) + 1 /\ new[Len(rss) + 1] = rs
      /\ Len(rss) \in Nat /\ \A i \in 1..Len(rss) : new[i] = rss[i]
  OBVIOUS
<1>2. Nested(new)
  <2> SUFFICES ASSUME NEW i \in 1..Len(new) PROVE new[i].nesting = i - 1
    BY DEF Nested
  <2>1. CASE i = Len(rss) + 1
    BY <1>1, <2>1
  <2>2. CASE i # Len(rss) + 1
    <3>1. i \in 1..Len(rss)
      BY <1>1, <2>2
    <3> QED BY <1>1, <3>1 DEF Nested
  <2> QED BY <2>1, <2>2
<1> QED BY <1>1, <1>2 DEF Last

\* The run states with one less: the outer run takes over what it counted.
LEMMA StatesGone ==
    ASSUME NEW rss \in Seq(RunStates), rss # <<>>, NEW rs \in RunStates, Nested(rss), Len(rss) # 1,
           NEW new, new = [popped(rss, rs) EXCEPT ![Len(rss) - 1] = taken_over(@, rs)]
    PROVE  /\ new \in Seq(RunStates) /\ Len(new) = Len(rss) - 1 /\ new # <<>>
           /\ Last(new).total_cycles = rs.total_cycles /\ Nested(new)
<1> DEFINE rest == popped(rss, rs)
           k == Len(rss) - 1
           over == taken_over(rest[k], rs)
<1>0. Len(rss) \in Nat \ {0} /\ \A i \in 1..Len(rss) : rss[i] \in RunStates
  OBVIOUS
<1>1. /\ k \in Nat \ {0} /\ rest \in Seq(RunStates) /\ Len(rest) = k
      /\ \A i \in 1..k : rest[i] = rss[i]
  <2>1. k \in Nat \ {0} /\ k <= Len(rss) /\ rest = SubSeq(rss, 1, k)
    BY <1>0 DEF popped, Front
  <2> HIDE DEF k
  <2> QED BY <2>1
<1>2. rest[k] \in RunStates /\ rest[k].nesting = k - 1
  BY <1>0, <1>1 DEF Nested
<1>3. over \in RunStates /\ over.nesting = k - 1 /\ over.total_cycles = rs.total_cycles
  <2> HIDE DEF rest, k
  <2> QED BY <1>2 DEF RunStates, taken_over
<1> HIDE DEF rest, over
<1>4. /\ new \in Seq(RunStates) /\ Len(new) = k
      /\ \A i \in 1..k : new[i] = IF i = k THEN over ELSE rest[i]
  <2>1. new = [rest EXCEPT ![k] = over]
    BY DEF rest, over
  <2>2. rest \in Seq(RunStates) /\ Len(rest) = k /\ k \in 1..Len(rest) /\ over \in RunStates
    BY <1>1, <1>3
  <2> HIDE DEF k
  <2> DEFINE n == [rest EXCEPT ![k] = over]
  <2>3. /\ n \in Seq(RunStates) /\ Len(n) = Len(rest)
        /\ \A i \in 1..Len(rest) : n[i] = IF i = k THEN over ELSE rest[i]
    BY <2>2, ElementSet
  <2> HIDE DEF n
  <2>4. new = n
    BY <2>1 DEF n
  <2> QED BY <2>2, <2>3, <2>4
<1>5. Nested(new)
  <2> SUFFICES ASSUME NEW i \in 1..k PROVE new[i].nesting = i - 1
    BY <1>4 DEF Nested
  <2>1. CASE i = k
    BY <1>3, <1>4, <2>1
  <2>2. CASE i # k
    <3>1. new[i] = rss[i] /\ i \in 1..Len(rss)
      BY <1>0, <1>1, <1>4, <2>2
    <3> QED BY <3>1 DEF Nested
  <2> QED BY <2>1, <2>2
<1> HIDE DEF k
<1>6. Last(new).total_cycles = rs.total_cycles /\ new # <<>>
  BY <1>1, <1>3, <1>4 DEF Last
<1> QED BY <1>4, <1>5, <1>6 DEF k

-----------------------------------------------------------------------------
(* The steps.                                                               *)

\* Fields of registers and run states after they were set.
LEMMA RegsSet ==
    ASSUME NEW c \in Cpus, NEW sp \in 1..OwnTop
    PROVE  /\ c.sp \in 1..OwnTop
           /\ [c EXCEPT !.sp = sp] \in Cpus /\ [c EXCEPT !.sp = sp].sp = sp
           /\ [c EXCEPT !.reg = Max(RegVals)] \in Cpus /\ [c EXCEPT !.reg = Max(RegVals)].sp = c.sp
           /\ \A v \in RegVals : [c EXCEPT !.reg = v] \in Cpus /\ [c EXCEPT !.reg = v].sp = c.sp
BY DEF Cpus

\* What execute() and the end of a run write to a run state.
LEMMA AccountFacts ==
    ASSUME NEW rs \in RunStates, NEW cycles \in Int
    PROVE  /\ account(rs, cycles) \in RunStates /\ account(rs, cycles).nesting = rs.nesting
           /\ account(rs, cycles).total_cycles = rs.total_cycles + cycles
           /\ [account(rs, cycles) EXCEPT !.exit = TRUE] \in RunStates
           /\ [account(rs, cycles) EXCEPT !.exit = TRUE].total_cycles = rs.total_cycles + cycles
           /\ [rs EXCEPT !.mach_error = TRUE] \in RunStates
           /\ [rs EXCEPT !.mach_error = TRUE].total_cycles = rs.total_cycles
<1>1. /\ account(rs, cycles) \in RunStates /\ account(rs, cycles).nesting = rs.nesting
      /\ account(rs, cycles).total_cycles = rs.total_cycles + cycles
  BY DEF RunStates, account
<1>2. \A r \in RunStates : /\ [r EXCEPT !.exit = TRUE] \in RunStates
                           /\ [r EXCEPT !.exit = TRUE].total_cycles = r.total_cycles
  BY DEF RunStates
<1>3. /\ [rs EXCEPT !.mach_error = TRUE] \in RunStates
      /\ [rs EXCEPT !.mach_error = TRUE].total_cycles = rs.total_cycles
  BY DEF RunStates
<1> HIDE DEF RunStates, account
<1> QED BY <1>1, <1>2, <1>3

\* A run of m68k code starts with a frame in which nothing is used.
LEMMA NewRunIs ==
    ASSUME NEW sp \in 1..OwnTop, NEW c \in Cpus, NEW gets \in BOOLEAN
    PROVE  LET fr == NewRun(sp, c, gets)
           IN  /\ fr \in Frames /\ fr.type = "run" /\ fr.ctx = c /\ fr.base = sp
               /\ fr.looping /\ fr.used = 0
BY DEF NewRun, RunFrames, Frames

\* start()
LEMMA StartKeeps ==
    ASSUME RuntimeInv, NEW gets \in BOOLEAN, start(gets, [cpu EXCEPT !.reg = Max(RegVals)])
    PROVE  RuntimeInv'
<1> DEFINE regs == [cpu EXCEPT !.reg = Max(RegVals)]
           fr == NewRun(StackTop - 1, regs, gets)
<1>0. RuntimeTypes /\ raised = "none" /\ Depths
  BY DEF RuntimeInv, start
<1>1. /\ ~running /\ frames = <<>> /\ raised = "none" /\ running' = TRUE
      /\ run_states' = <<RunState(0, 0)>> /\ left_cycles' = slice_cycles
      /\ mem' = [mem EXCEPT ![StackTop - 1] = "exit"] /\ cpu' = [regs EXCEPT !.sp = StackTop - 1]
      /\ frames' = <<fr>> /\ since' = 0 /\ lost' = 0 /\ executed' = 0
      /\ UNCHANGED <<slice_cycles, raised>>
  BY DEF start, prepare
<1>2. StackTop - 1 \in 1..OwnTop
  BY StackAssumption
<1>3. regs \in Cpus /\ cpu' \in Cpus /\ cpu'.sp = StackTop - 1
  BY <1>0, <1>1, <1>2, RegsSet DEF RuntimeTypes
<1>4. mem' \in Mems
  BY <1>0, <1>1 DEF RuntimeTypes, Mems, Cells
<1>5. /\ fr \in Frames /\ fr.type = "run" /\ fr.ctx = regs /\ fr.base = StackTop - 1
      /\ fr.looping /\ fr.used = 0
  BY <1>2, <1>3, NewRunIs
<1> HIDE DEF fr, regs
<1>6. frames' = Append(<<>>, fr) /\ <<>> \in Seq(Frames) /\ frames' \in Seq(Frames)
  BY <1>1, <1>5
<1>7. Sound(frames', cpu', mem')
  <2>1. Len(frames') = 1 /\ frames'[1] = fr /\ Last(frames') = fr
    BY <1>1 DEF Last
  <2>2. Chained(frames')
    BY <1>5, <2>1 DEF Chained
  <2>3. Separate(frames')
    BY <1>5, <2>1 DEF Separate
  <2>4. CpuAt(frames', cpu')
    BY <1>2, <1>3, <1>5, <2>1 DEF CpuAt, SameStack
  <2>5. Kept(frames', mem')
    BY <1>5, <2>1 DEF Kept
  <2> QED BY <2>2, <2>3, <2>4, <2>5 DEF Sound
<1>8. /\ run_states' \in Seq(RunStates) /\ Len(run_states') = 1 /\ Last(run_states').total_cycles = 0
      /\ Nested(run_states')
  <2>1. RunState(0, 0) \in RunStates /\ RunState(0, 0).total_cycles = 0 /\ RunState(0, 0).nesting = 0
    BY DEF RunState, RunStates
  <2> QED BY <1>1, <2>1 DEF Last, Nested
<1>9. Depths'
  <2>1. DepthOf(<<>>) = 0
    <3>1. run_states = <<>>
      BY <1>0, <1>1 DEF Depths
    <3> QED BY <1>0, <1>1, <3>1 DEF Depths
  <2>2. DepthOf(frames') = 1
    <3>1. DepthOf(Append(<<>>, fr)) = DepthOf(<<>>) + IF fr.type = "run" THEN 1 ELSE 0
      BY <1>5, <1>6, DepthChanges
    <3> QED BY <1>5, <1>6, <2>1, <3>1
  <2>3. run_states' # <<>> /\ frames' # <<>>
    BY <1>1, <1>8
  <2>4. MaxNesting + 1 >= 1
    BY NestingAssumption
  <2> QED BY <1>1, <1>8, <2>2, <2>3, <2>4 DEF Depths
<1>10. Resting(frames')
  <2>1. Resting(<<>>) /\ RestsAt(fr)
    BY <1>5 DEF Resting, RestsAt
  <2> QED BY <1>5, <1>6, <2>1, AddedLimited
<1>11. slice_cycles \in Nat /\ slice_cycles \in Int
  BY <1>0 DEF RuntimeTypes
<1>12. Clocked(<<>>, slice_cycles, slice_cycles, 0, 0)
  BY <1>11, ClockEmpty
<1>13. Clocked(frames', slice_cycles, slice_cycles, 0 + 1, 0) /\ Total(UsedOf, frames') = Total(UsedOf, <<>>)
  <2> DEFINE z == 0
  <2>1. z \in Nat /\ Clocked(<<>>, slice_cycles, slice_cycles, z, z)
    BY <1>12
  <2> HIDE DEF z
  <2>2. Clocked(frames', slice_cycles, slice_cycles, z + 1, z) /\ Total(UsedOf, frames') = Total(UsedOf, <<>>)
    BY <1>5, <1>6, <1>11, <2>1, ClockRunAdded
  <2> QED BY <2>2 DEF z
<1>14. CountedRight'
  BY <1>1, <1>8, <1>13, TotalEmpty DEF CountedRight
<1>15. Clocked(frames', slice_cycles', left_cycles', Len(run_states'), since')
  BY <1>1, <1>8, <1>13
<1>16. RuntimeTypes'
  BY <1>0, <1>1, <1>3, <1>4, <1>6, <1>8 DEF RuntimeTypes
<1> QED BY <1>7, <1>9, <1>10, <1>14, <1>15, <1>16 DEF RuntimeInv

\* nested_run(): on the caller's stack or on one of its own
LEMMA NestedRunKeeps ==
    ASSUME RuntimeInv, NEW gets \in BOOLEAN, NEW own \in {0, OwnTop},
           nested_run(own, gets, [cpu EXCEPT !.reg = Max(RegVals)])
    PROVE  RuntimeInv'
<1> DEFINE regs == [cpu EXCEPT !.reg = Max(RegVals)]
           sp == nested_sp(own)
           fr == NewRun(sp - 1, cpu, gets)
           rs == RunState(Len(run_states), Last(run_states).total_cycles)
<1>1. /\ frames # <<>> /\ Top.type = "trap" /\ Len(run_states) <= MaxNesting
      /\ own = 0 \/ \A i \in Runs : frames[i].base <= StackTop
      /\ own # 0 \/ sp > Bottom(cpu.sp)
      /\ run_states' = Append(run_states, rs)
      /\ frames' = Append(frames, fr)
      /\ mem' = [mem EXCEPT ![sp - 1] = "exit"] /\ cpu' = [regs EXCEPT !.sp = sp - 1]
      /\ UNCHANGED <<running, left_cycles, slice_cycles, raised, executed, lost, since>>
  BY DEF nested_run, InTrap, prepare
<1>2. /\ raised = "none" /\ running /\ Top = Last(frames) /\ Top \in Frames
      /\ Len(run_states) \in Nat \ {0} /\ run_states # <<>> /\ Last(run_states) \in RunStates
  BY <1>1, Busy
<1>3. /\ RuntimeTypes /\ Sound(frames, cpu, mem) /\ Depths /\ Resting(frames) /\ CountedRight
      /\ Clocked(frames, slice_cycles, left_cycles, Len(run_states), since)
      /\ cpu \in Cpus /\ mem \in Mems /\ frames \in Seq(Frames) /\ run_states \in Seq(RunStates)
      /\ slice_cycles \in Nat /\ left_cycles \in Int /\ since \in Nat
  BY <1>2 DEF RuntimeInv, RuntimeTypes
<1>4. cpu.sp \in 1..OwnTop /\ regs \in Cpus
  <2>1. 1 \in 1..OwnTop
    BY StackAssumption
  <2> QED BY <1>3, <2>1, RegsSet
<1>5. \/ own = 0 /\ sp = cpu.sp - 1 /\ sp - 1 < cpu.sp /\ sp - 1 >= 1 /\ SameStack(sp - 1, cpu.sp)
      \/ own # 0 /\ sp = OwnTop /\ sp - 1 > StackTop
  BY <1>1, <1>4, StackAssumption DEF nested_sp, Bottom, SameStack
<1>6. sp - 1 \in 1..OwnTop
  BY <1>4, <1>5, StackAssumption
<1>7. cpu' \in Cpus /\ cpu'.sp = sp - 1
  BY <1>1, <1>4, <1>6, RegsSet
<1>8. /\ fr \in Frames /\ fr.type = "run" /\ fr.ctx = cpu /\ fr.base = sp - 1
      /\ fr.looping /\ fr.used = 0
  BY <1>3, <1>6, NewRunIs
<1>9. mem' \in Mems /\ \A a \in 1..OwnTop : mem'[a] # mem[a] => a = sp - 1
  BY <1>1, <1>3 DEF Mems, Cells
<1>10. rs \in RunStates /\ rs.nesting = Len(run_states) /\ rs.total_cycles = Last(run_states).total_cycles
  <2>1. Last(run_states).total_cycles \in Int
    BY <1>2 DEF RunStates
  <2> QED BY <1>2, <2>1 DEF RunState, RunStates
<1>11. \A i \in 1..Len(frames) : frames[i].type = "trap" => Apart(sp - 1, frames[i].cpu.sp)
  <2> SUFFICES ASSUME NEW i \in 1..Len(frames), frames[i].type = "trap"
               PROVE  Apart(sp - 1, frames[i].cpu.sp)
    OBVIOUS
  <2>1. frames[i] \in Frames
    BY <1>3
  <2>2. frames[i].cpu.sp \in 1..OwnTop
    BY <2>1, FrameFields DEF Cpus
  <2>3. Len(frames) \in Nat /\ Last(frames) = frames[Len(frames)] /\ cpu = Last(frames).cpu
    BY <1>1, <1>2, <1>3 DEF Sound, CpuAt, Last
  <2>4. CASE own = 0
    <3> DEFINE a == sp - 1
    <3>1. a < cpu.sp /\ SameStack(cpu.sp, a) /\ a \in Int
      BY <1>5, <1>6, <2>4 DEF SameStack
    <3> HIDE DEF a, sp
    <3>2. CASE i = Len(frames)
      <4>1. cpu.sp = frames[i].cpu.sp
        BY <2>3, <3>2
      <4>2. Apart(a, cpu.sp)
        BY <1>4, <3>1, StackAssumption DEF Apart, SameStack
      <4> QED BY <4>1, <4>2 DEF a
    <3>3. CASE i < Len(frames)
      <4>1. Len(frames) \in 1..Len(frames)
        BY <1>1, <1>3
      <4>2. Apart(Level(frames[Len(frames)]), frames[i].cpu.sp)
        BY <1>3, <3>3, <4>1 DEF Sound, Separate
      <4>3. Apart(cpu.sp, frames[i].cpu.sp)
        BY <1>1, <1>2, <2>3, <4>2 DEF Level
      <4>4. Apart(a, frames[i].cpu.sp)
        BY <1>4, <2>2, <3>1, <4>3, Deeper
      <4> QED BY <4>4 DEF a
    <3> QED BY <2>3, <3>2, <3>3
  <2>5. CASE own # 0
    <3>1. i > 1 /\ frames[i - 1].type = "run" /\ SameStack(frames[i].cpu.sp, frames[i - 1].base)
      BY <1>3 DEF Sound, Chained
    <3>2. i - 1 \in Runs
      BY <2>3, <3>1 DEF Runs
    <3>3. frames[i - 1].base <= StackTop
      BY <1>1, <2>5, <3>2
    <3>4. frames[i - 1] \in Frames
      BY <1>3, <3>2 DEF Runs
    <3>5. frames[i - 1].base \in Int
      BY <3>1, <3>4, FrameFields
    <3>6. frames[i].cpu.sp <= StackTop
      BY <2>2, <3>1, <3>3, <3>5, StackAssumption DEF SameStack
    <3> QED BY <1>5, <2>5, <3>6 DEF Apart
  <2> QED BY <2>4, <2>5
<1>12. Last(frames).cpu = cpu
  BY <1>1, <1>2, <1>3 DEF Sound, CpuAt
<1> HIDE DEF fr, rs, sp, regs
<1>13. Sound(frames', cpu', mem')
  <2>1. MayAdd(frames, fr, cpu', mem, mem')
    <3>1. Last(frames).type # "run" /\ Level(fr) = fr.base
      BY <1>1, <1>2, <1>8 DEF Level
    <3> QED BY <1>7, <1>8, <1>9, <1>11, <1>12, <3>1 DEF MayAdd
  <2> QED BY <1>1, <1>3, <1>8, <1>9, <2>1, FrameAdded
<1>14. /\ run_states' \in Seq(RunStates) /\ Len(run_states') = Len(run_states) + 1
       /\ Last(run_states') = rs
       /\ Nested(run_states')
  <2>1. Nested(run_states)
    BY <1>3 DEF Depths
  <2> QED BY <1>1, <1>2, <1>3, <1>10, <2>1, StatesAdded
<1>15. frames' \in Seq(Frames) /\ frames' # <<>>
  BY <1>1, <1>3, <1>8, TopAdded
<1>16. Depths'
  <2>1. DepthOf(frames') = DepthOf(frames) + 1
    BY <1>1, <1>3, <1>8, DepthChanges
  <2>2. Len(run_states) = DepthOf(frames)
    BY <1>3 DEF Depths
  <2>3. Len(run_states') = DepthOf(frames') /\ Len(run_states') <= MaxNesting + 1 /\ run_states' # <<>>
    BY <1>1, <1>2, <1>14, <2>1, <2>2, NestingAssumption
  <2> QED BY <1>1, <1>2, <1>14, <1>15, <2>3 DEF Depths
<1>17. Resting(frames')
  <2>1. RestsAt(fr)
    BY <1>8 DEF RestsAt
  <2> QED BY <1>1, <1>3, <1>8, <2>1, AddedLimited
<1>18. Clocked(frames', slice_cycles, left_cycles, Len(run_states) + 1, since)
       /\ Total(UsedOf, frames') = Total(UsedOf, frames)
  <2>1. Len(run_states) \in Nat
    BY <1>2
  <2>2. /\ frames \in Seq(Frames) /\ slice_cycles \in Nat /\ left_cycles \in Int /\ since \in Nat
        /\ Clocked(frames, slice_cycles, left_cycles, Len(run_states), since)
        /\ frames' = Append(frames, fr)
    BY <1>1, <1>3
  <2> QED BY <1>8, <2>1, <2>2, ClockRunAdded
<1>19. CountedRight'
  BY <1>1, <1>2, <1>3, <1>10, <1>14, <1>18 DEF CountedRight
<1>20. Clocked(frames', slice_cycles', left_cycles', Len(run_states'), since')
  BY <1>1, <1>14, <1>18
<1>21. RuntimeTypes'
  BY <1>1, <1>2, <1>3, <1>7, <1>9, <1>14, <1>15 DEF RuntimeTypes
<1> QED BY <1>13, <1>16, <1>17, <1>19, <1>20, <1>21 DEF RuntimeInv

\* The run on top goes on, whatever it does with registers and its part of a stack.
LEMMA TopSetKeeps ==
    ASSUME RuntimeInv, frames # <<>>, Top.type = "run",
           NEW fr \in RunFrames, fr.ctx = Top.ctx, fr.base = Top.base, RestsAt(fr),
           frames' = SetTop(fr), UNCHANGED <<running, slice_cycles, raised, lost>>,
           run_states' \in Seq(RunStates), Len(run_states') = Len(run_states), Nested(run_states'),
           cpu' \in Cpus, mem' \in Mems, cpu'.sp <= Top.base, SameStack(cpu'.sp, Top.base),
           \A a \in 1..OwnTop : mem'[a] # mem[a] => a <= Top.base /\ SameStack(a, Top.base),
           left_cycles' \in Int, executed' \in Int, since' \in Nat,
           Last(run_states').total_cycles = executed' - lost - Total(UsedOf, frames'),
           Clocked(frames', slice_cycles, left_cycles', Len(run_states), since')
    PROVE  RuntimeInv'
<1>1. /\ raised = "none" /\ running /\ Top = Last(frames) /\ Top \in Frames
      /\ Len(run_states) \in Nat \ {0} /\ run_states # <<>>
  BY Busy
<1>2. /\ RuntimeTypes /\ Sound(frames, cpu, mem) /\ Depths /\ Resting(frames)
      /\ cpu \in Cpus /\ mem \in Mems /\ frames \in Seq(Frames)
  BY <1>1 DEF RuntimeInv, RuntimeTypes
<1>3. fr \in Frames /\ fr.type = "run"
  BY DEF Frames, RunFrames
<1>4. frames' = [frames EXCEPT ![Len(frames)] = fr]
  BY DEF SetTop
<1>5. frames' \in Seq(Frames) /\ frames' # <<>>
  BY <1>2, <1>3, <1>4, TopSet
<1>6. Sound(frames', cpu', mem')
  <2>1. /\ Last(frames).type = "run" /\ fr.ctx = Last(frames).ctx /\ fr.base = Last(frames).base
        /\ cpu'.sp <= fr.base /\ SameStack(cpu'.sp, fr.base)
        /\ \A a \in 1..OwnTop : mem'[a] # mem[a] => a <= fr.base /\ SameStack(a, fr.base)
    BY <1>1
  <2>2. Sound([frames EXCEPT ![Len(frames)] = fr], cpu', mem')
    BY <1>2, <2>1, RunGoesOn
  <2> QED BY <1>4, <2>2
<1>7. Depths'
  <2>1. DepthOf(frames') = DepthOf(frames)
    BY <1>1, <1>2, <1>3, <1>4, DepthChanges
  <2>2. run_states' # <<>>
    BY <1>1
  <2> QED BY <1>1, <1>2, <1>5, <2>1, <2>2 DEF Depths
<1>8. Resting(frames')
  BY <1>2, <1>3, <1>4, SetLimited
<1>9. CountedRight'
  BY DEF CountedRight
<1>10. RuntimeTypes'
  BY <1>1, <1>2, <1>5 DEF RuntimeTypes
<1>11. Clocked(frames', slice_cycles', left_cycles', Len(run_states'), since')
  OBVIOUS
<1> QED BY <1>6, <1>7, <1>8, <1>9, <1>10, <1>11 DEF RuntimeInv

\* What the run on top has, and what it has to keep to.
LEMMA RunOnTop ==
    ASSUME RuntimeInv, frames # <<>>, Top.type = "run"
    PROVE  /\ raised = "none" /\ Top = Last(frames) /\ Top \in Frames /\ Top \in RunFrames
           /\ Top.base \in 1..OwnTop /\ Top.used \in Nat /\ Top.limit \in Int /\ Top.looping \in BOOLEAN
           /\ cpu \in Cpus /\ cpu.sp \in 1..OwnTop /\ cpu.sp <= Top.base /\ SameStack(cpu.sp, Top.base)
           /\ mem \in Mems /\ frames \in Seq(Frames) /\ run_states \in Seq(RunStates)
           /\ slice_cycles \in Nat /\ left_cycles \in Int /\ since \in Nat /\ executed \in Int /\ lost \in Int
           /\ Len(run_states) \in Nat \ {0} /\ run_states # <<>> /\ Last(run_states) \in RunStates
           /\ Last(run_states).total_cycles \in Int
           /\ Nested(run_states) /\ Resting(frames) /\ RestsAt(Top)
           /\ Clocked(frames, slice_cycles, left_cycles, Len(run_states), since)
           /\ slice_cycles > 0 => LimitedTo(Top, slice_cycles) /\ left_cycles <= slice_cycles
           /\ Last(run_states).total_cycles = executed - lost - Total(UsedOf, frames)
           /\ Len(run_states) <= MaxNesting + 1
           /\ Total(UsedOf, frames) \in Nat
<1>1. /\ raised = "none" /\ running /\ Top = Last(frames) /\ Top \in Frames
      /\ Len(run_states) \in Nat \ {0} /\ run_states # <<>> /\ Last(run_states) \in RunStates
  BY Busy
<1>2. /\ RuntimeTypes /\ Sound(frames, cpu, mem) /\ Depths /\ Resting(frames) /\ CountedRight
      /\ Clocked(frames, slice_cycles, left_cycles, Len(run_states), since)
  BY <1>1 DEF RuntimeInv
<1>3. /\ cpu \in Cpus /\ mem \in Mems /\ frames \in Seq(Frames) /\ run_states \in Seq(RunStates)
      /\ slice_cycles \in Nat /\ left_cycles \in Int /\ since \in Nat /\ executed \in Int /\ lost \in Int
  BY <1>2 DEF RuntimeTypes
<1>4. /\ Top \in RunFrames /\ Top.base \in 1..OwnTop /\ Top.used \in Nat /\ Top.limit \in Int
      /\ Top.looping \in BOOLEAN
  BY <1>1, FrameFields
<1>5. cpu.sp \in 1..OwnTop
  BY <1>3 DEF Cpus
<1>6. cpu.sp <= Top.base /\ SameStack(cpu.sp, Top.base)
  BY <1>1, <1>2 DEF Sound, CpuAt
<1>7. Len(frames) \in 1..Len(frames)
  BY <1>3
<1>8. RestsAt(Top)
  BY <1>1, <1>2, <1>7 DEF Resting, Last
<1>9. slice_cycles > 0 => LimitedTo(Top, slice_cycles) /\ left_cycles <= slice_cycles
  BY <1>1, <1>2, <1>7 DEF Clocked, Ticks, Limited, Last
<1>10. Total(UsedOf, frames) \in Nat
  <2>1. 0 \in Nat
    OBVIOUS
  <2> QED BY <1>3, <2>1, SharesNat
<1>11. Last(run_states).total_cycles \in Int
  BY <1>1 DEF RunStates
<1> QED BY <1>1, <1>2, <1>3, <1>4, <1>5, <1>6, <1>8, <1>9, <1>10, <1>11 DEF Depths, CountedRight

\* The loop of a run starts its next execute(), after the hook if the slice is over.
LEMMA LoopKeeps ==
    ASSUME RuntimeInv, run_loop
    PROVE  RuntimeInv'
<1> DEFINE hook == slice_cycles > 0 /\ left_cycles <= 0
           left == IF hook THEN slice_cycles ELSE left_cycles
           fr == [Top EXCEPT !.looping = FALSE, !.used = 0,
                             !.limit = IF slice_cycles > 0 THEN left ELSE RunCycles]
<1>1. /\ frames # <<>> /\ Top.type = "run" /\ Top.looping
      /\ left_cycles' = left /\ since' = (IF hook THEN 0 ELSE since)
      /\ frames' = SetTop(fr)
      /\ UNCHANGED <<running, run_states, slice_cycles, cpu, mem, raised, executed, lost>>
  BY DEF run_loop
<1>2. /\ Top = Last(frames) /\ Top \in RunFrames /\ Top.used = 0
      /\ cpu \in Cpus /\ cpu.sp <= Top.base /\ SameStack(cpu.sp, Top.base)
      /\ mem \in Mems /\ frames \in Seq(Frames) /\ run_states \in Seq(RunStates) /\ Nested(run_states)
      /\ slice_cycles \in Nat /\ left_cycles \in Int /\ since \in Nat /\ executed \in Int
      /\ Len(run_states) \in Nat /\ Len(run_states) <= MaxNesting + 1
      /\ Resting(frames) /\ Clocked(frames, slice_cycles, left_cycles, Len(run_states), since)
  BY <1>1, RunOnTop DEF RestsAt
<1>3. left \in Int /\ since' \in Nat
  BY <1>1, <1>2
<1>4. slice_cycles > 0 => \/ left_cycles <= 0 /\ left = slice_cycles /\ since' = 0
                          \/ left_cycles > 0 /\ left = left_cycles /\ since' = since
  BY <1>1, <1>2
<1> HIDE DEF left, hook
<1>5. /\ fr \in RunFrames /\ fr.type = "run" /\ fr.ctx = Top.ctx /\ fr.base = Top.base
      /\ fr.used = 0 /\ fr.looping = FALSE /\ (slice_cycles > 0 => fr.limit = left)
  <2>1. RunCycles \in Int
    BY SlicesAssumption
  <2> QED BY <1>2, <1>3, <2>1 DEF RunFrames
<1> HIDE DEF fr
<1>6. frames' = [frames EXCEPT ![Len(frames)] = fr] /\ fr \in Frames
  BY <1>1, <1>5 DEF SetTop, Frames
<1>7. Clocked(frames', slice_cycles, left, Len(run_states), since')
  <2>1. Last(frames).type = "run" /\ Last(frames).looping /\ ~fr.looping
    BY <1>1, <1>2, <1>5
  <2>2. /\ frames \in Seq(Frames) /\ frames # <<>> /\ slice_cycles \in Nat /\ Len(run_states) \in Nat
        /\ left_cycles \in Int /\ since \in Nat /\ left \in Int /\ since' \in Nat
        /\ Clocked(frames, slice_cycles, left_cycles, Len(run_states), since)
        /\ Resting(frames) /\ Len(run_states) <= MaxNesting + 1
    BY <1>1, <1>2, <1>3
  <2> QED BY <1>4, <1>5, <1>6, <2>1, <2>2, ClockLoop
<1>8. Total(UsedOf, frames') = Total(UsedOf, frames)
  <2>1. Total(UsedOf, frames') = Total(UsedOf, frames) - UsedOf[Last(frames)] + UsedOf[fr]
    <3>1. frames \in Seq(Frames) /\ frames # <<>> /\ slice_cycles \in Nat
      BY <1>1, <1>2
    <3> QED BY <1>6, <3>1, SharesSet
  <2>2. UsedOf[Last(frames)] = 0 /\ UsedOf[fr] = 0
    <3>1. Last(frames) \in Frames /\ Top.type = "run"
      BY <1>1, <1>2 DEF Frames
    <3> QED BY <1>2, <1>5, <1>6, <3>1 DEF UsedOf
  <2>3. Total(UsedOf, frames) \in Nat
    BY <1>1, RunOnTop
  <2> QED BY <2>1, <2>2, <2>3
<1>9. Last(run_states').total_cycles = executed' - lost - Total(UsedOf, frames')
  <2>1. Last(run_states).total_cycles = executed - lost - Total(UsedOf, frames)
    BY <1>1, RunOnTop
  <2> QED BY <1>1, <1>8, <2>1
<1>10. RestsAt(fr)
  BY <1>5 DEF RestsAt
<1> QED BY <1>1, <1>2, <1>3, <1>5, <1>7, <1>9, <1>10, TopSetKeeps

\* execute() came back because it had used up its cycles.
LEMMA ReachedKeeps ==
    ASSUME RuntimeInv, cycles_reached
    PROVE  RuntimeInv'
<1> DEFINE fr == [Top EXCEPT !.looping = TRUE, !.used = 0]
           rs == account(Last(run_states), Top.used)
           left == left_after(left_cycles, Top.used)
<1>1. /\ frames # <<>> /\ Top.type = "run" /\ ~Top.looping /\ Top.used >= Top.limit
      /\ run_states' = [run_states EXCEPT ![Len(run_states)] = rs]
      /\ left_cycles' = left /\ frames' = SetTop(fr)
      /\ UNCHANGED <<running, slice_cycles, cpu, mem, raised, executed, lost, since>>
  BY DEF cycles_reached, InCode, Last
<1>2. /\ Top = Last(frames) /\ Top \in RunFrames /\ Top \in Frames /\ Top.used \in Nat /\ Top.limit \in Int
      /\ cpu \in Cpus /\ cpu.sp <= Top.base /\ SameStack(cpu.sp, Top.base)
      /\ mem \in Mems /\ frames \in Seq(Frames) /\ run_states \in Seq(RunStates) /\ Nested(run_states)
      /\ slice_cycles \in Nat /\ left_cycles \in Int /\ since \in Nat /\ executed \in Int /\ lost \in Int
      /\ Len(run_states) \in Nat /\ Last(run_states) \in RunStates /\ run_states # <<>>
      /\ Clocked(frames, slice_cycles, left_cycles, Len(run_states), since)
      /\ slice_cycles > 0 => LimitedTo(Top, slice_cycles) /\ left_cycles <= slice_cycles
  BY <1>1, RunOnTop
<1>3. /\ fr \in RunFrames /\ fr.type = "run" /\ fr.ctx = Top.ctx /\ fr.base = Top.base
      /\ fr.used = 0 /\ fr.looping = TRUE
  BY <1>2 DEF RunFrames
<1>4. rs \in RunStates /\ rs.nesting = Last(run_states).nesting
      /\ rs.total_cycles = Last(run_states).total_cycles + Top.used
  <2>1. Last(run_states) \in RunStates /\ Top.used \in Int
    BY <1>2
  <2> QED BY <2>1, AccountFacts
<1>5. left \in Int /\ left <= left_cycles /\ (left > 0 => left_cycles > 0 /\ left = left_cycles - Top.used)
  BY <1>2 DEF left_after
<1> HIDE DEF fr, rs, left
<1>6. frames' = [frames EXCEPT ![Len(frames)] = fr] /\ fr \in Frames
  BY <1>1, <1>3 DEF SetTop, Frames
<1>7. UsedOf[Top] = Top.used /\ UsedOf[fr] = 0
  BY <1>1, <1>2, <1>3, <1>6 DEF UsedOf
<1>8. Clocked(frames', slice_cycles, left, Len(run_states), since)
  <2>1. ASSUME slice_cycles > 0
        PROVE  ShareMoves(slice_cycles, fr, Top, left_cycles, since, left, since)
    <3>1. Top.used = Top.limit /\ Top.limit <= slice_cycles /\ left_cycles <= slice_cycles
      BY <1>1, <1>2, <2>1 DEF LimitedTo
    <3>2. RoomOf[Top] = Top.limit - Top.used /\ SpareOf(slice_cycles)[Top] = slice_cycles - Top.limit
      <4>1. Top.used <= Top.limit /\ Top \in Frames /\ slice_cycles \in Nat
        BY <1>2, <3>1
      <4> QED BY <1>1, <3>1, <4>1, SharesOfRun
    <3>3. RoomOf[fr] = 0 /\ SpareOf(slice_cycles)[fr] = slice_cycles
      BY <1>2, <1>3, <1>6, Shares
    <3>4. LimitedTo(fr, slice_cycles)
      BY <1>3 DEF LimitedTo
    <3> QED BY <1>2, <1>5, <1>7, <3>1, <3>2, <3>3, <3>4 DEF ShareMoves
  <2> QED BY <1>1, <1>2, <1>5, <1>6, <2>1, ClockSet
<1>9. /\ run_states' \in Seq(RunStates) /\ Len(run_states') = Len(run_states)
      /\ Last(run_states') = rs /\ Nested(run_states')
  BY <1>1, <1>2, <1>4, StatesSet
<1>10. Last(run_states').total_cycles = executed' - lost - Total(UsedOf, frames')
  <2>1. Last(run_states).total_cycles = executed - lost - Total(UsedOf, frames)
        /\ Total(UsedOf, frames) \in Nat
    BY <1>1, RunOnTop
  <2>2. Total(UsedOf, frames') = Total(UsedOf, frames) - UsedOf[Last(frames)] + UsedOf[fr]
    <3>1. frames \in Seq(Frames) /\ frames # <<>> /\ slice_cycles \in Nat
      BY <1>1, <1>2
    <3> QED BY <1>6, <3>1, SharesSet
  <2> QED BY <1>1, <1>2, <1>4, <1>7, <1>9, <2>1, <2>2
<1>11. RestsAt(fr)
  BY <1>3 DEF RestsAt
<1> QED BY <1>1, <1>2, <1>3, <1>5, <1>8, <1>9, <1>10, <1>11, TopSetKeeps

\* One instruction: a cycle more that is used, and one less that may be.
LEMMA CycleTaken ==
    ASSUME RuntimeInv, Instruction, NEW gs, gs = SetTop(Cycle(Top))
    PROVE  /\ Cycle(Top) \in RunFrames /\ Cycle(Top).ctx = Top.ctx /\ Cycle(Top).base = Top.base
           /\ RestsAt(Cycle(Top)) /\ gs = [frames EXCEPT ![Len(frames)] = Cycle(Top)]
           /\ Clocked(gs, slice_cycles, left_cycles, Len(run_states), since + 1)
           /\ Total(UsedOf, gs) = Total(UsedOf, frames) + 1
           /\ frames # <<>> /\ Top.type = "run"
<1> DEFINE fr == Cycle(Top)
<1>1. frames # <<>> /\ Top.type = "run" /\ ~Top.looping /\ Top.used < Top.limit
  BY DEF Instruction, InCode
<1>2. /\ Top = Last(frames) /\ Top \in RunFrames /\ Top \in Frames /\ Top.used \in Nat /\ Top.limit \in Int
      /\ frames \in Seq(Frames) /\ slice_cycles \in Nat /\ left_cycles \in Int /\ since \in Nat
      /\ Len(run_states) \in Nat
      /\ Clocked(frames, slice_cycles, left_cycles, Len(run_states), since)
      /\ slice_cycles > 0 => LimitedTo(Top, slice_cycles) /\ left_cycles <= slice_cycles
      /\ Total(UsedOf, frames) \in Nat
  BY <1>1, RunOnTop
<1>3. /\ fr \in RunFrames /\ fr.type = "run" /\ fr.ctx = Top.ctx /\ fr.base = Top.base
      /\ fr.used = Top.used + 1 /\ fr.limit = Top.limit /\ fr.looping = Top.looping
  BY <1>2 DEF RunFrames, Cycle
<1> HIDE DEF fr
<1>4. gs = [frames EXCEPT ![Len(frames)] = fr] /\ fr \in Frames
  BY <1>3 DEF SetTop, Frames, fr
<1>5. UsedOf[Top] = Top.used /\ UsedOf[fr] = Top.used + 1
  BY <1>1, <1>2, <1>3, <1>4 DEF UsedOf
<1>6. Clocked(gs, slice_cycles, left_cycles, Len(run_states), since + 1)
  <2>1. ASSUME slice_cycles > 0
        PROVE  ShareMoves(slice_cycles, fr, Top, left_cycles, since, left_cycles, since + 1)
    <3>1. Top.used + 1 <= Top.limit /\ Top.used <= Top.limit /\ Top.limit <= slice_cycles
          /\ left_cycles <= slice_cycles
      BY <1>1, <1>2, <2>1 DEF LimitedTo
    <3>2. RoomOf[Top] = Top.limit - Top.used /\ SpareOf(slice_cycles)[Top] = slice_cycles - Top.limit
      <4>1. Top.type = "run" /\ ~Top.looping /\ Top.used <= Top.limit /\ Top.limit <= slice_cycles
        BY <1>1, <3>1
      <4>2. Top \in Frames /\ slice_cycles \in Nat
        BY <1>2
      <4> QED BY <4>1, <4>2, SharesOfRun
    <3>3. RoomOf[fr] = Top.limit - (Top.used + 1) /\ SpareOf(slice_cycles)[fr] = slice_cycles - Top.limit
      <4>1. fr.type = "run" /\ ~fr.looping /\ fr.used <= fr.limit /\ fr.limit <= slice_cycles
        BY <1>1, <1>3, <3>1
      <4>2. RoomOf[fr] = fr.limit - fr.used /\ SpareOf(slice_cycles)[fr] = slice_cycles - fr.limit
        <5>1. slice_cycles \in Nat
          BY <1>2
        <5> QED BY <1>4, <4>1, <5>1, SharesOfRun
      <4> QED BY <1>3, <4>2
    <3>4. LimitedTo(fr, slice_cycles)
      BY <1>3, <3>1 DEF LimitedTo
    <3> DEFINE a == Top.used
               limit == Top.limit
    <3>5. a \in Nat /\ limit \in Int /\ left_cycles \in Int /\ since \in Nat /\ slice_cycles \in Nat
      BY <1>2
    <3>6. /\ UsedOf[Top] = a /\ RoomOf[Top] = limit - a /\ SpareOf(slice_cycles)[Top] = slice_cycles - limit
          /\ UsedOf[fr] = a + 1 /\ RoomOf[fr] = limit - (a + 1) /\ SpareOf(slice_cycles)[fr] = slice_cycles - limit
          /\ left_cycles <= slice_cycles
      BY <1>5, <3>1, <3>2, <3>3
    <3> HIDE DEF a, limit
    <3>7. /\ UsedOf[fr] + RoomOf[fr] + SpareOf(slice_cycles)[fr]
               = UsedOf[Top] + RoomOf[Top] + SpareOf(slice_cycles)[Top]
          /\ since + 1 + RoomOf[fr] <= since + RoomOf[Top]
          /\ since + 1 + left_cycles - UsedOf[fr] <= since + left_cycles - UsedOf[Top]
      BY <3>5, <3>6
    <3> QED BY <3>4, <3>6, <3>7 DEF ShareMoves
  <2>2. since + 1 \in Nat
    BY <1>2
  <2> QED BY <1>1, <1>2, <1>4, <2>1, <2>2, ClockSet
<1>7. Total(UsedOf, gs) = Total(UsedOf, frames) + 1
  <2>1. Total(UsedOf, gs) = Total(UsedOf, frames) - UsedOf[Last(frames)] + UsedOf[fr]
    BY <1>1, <1>2, <1>4, SharesSet
  <2> QED BY <1>2, <1>5, <2>1
<1>8. RestsAt(fr)
  BY <1>1, <1>3 DEF RestsAt
<1> QED BY <1>1, <1>3, <1>4, <1>6, <1>7, <1>8 DEF fr

\* Instructions that stay in the run: they write a register, push and pop.
LEMMA InstructionKeeps ==
    ASSUME RuntimeInv, Instruction, Counted, frames' = SetTop(Cycle(Top)),
           UNCHANGED <<running, run_states, left_cycles, slice_cycles, raised, lost>>,
           cpu' \in Cpus, mem' \in Mems, cpu'.sp <= Top.base, SameStack(cpu'.sp, Top.base),
           \A a \in 1..OwnTop : mem'[a] # mem[a] => a <= Top.base /\ SameStack(a, Top.base)
    PROVE  RuntimeInv'
<1>1. /\ Cycle(Top) \in RunFrames /\ Cycle(Top).ctx = Top.ctx /\ Cycle(Top).base = Top.base
      /\ RestsAt(Cycle(Top))
      /\ Clocked(frames', slice_cycles, left_cycles, Len(run_states), since + 1)
      /\ Total(UsedOf, frames') = Total(UsedOf, frames) + 1
      /\ frames # <<>> /\ Top.type = "run"
  BY CycleTaken
<1>2. /\ run_states \in Seq(RunStates) /\ Nested(run_states)
      /\ left_cycles \in Int /\ since \in Nat /\ executed \in Int /\ lost \in Int
      /\ Last(run_states).total_cycles = executed - lost - Total(UsedOf, frames)
      /\ Total(UsedOf, frames) \in Nat
  BY <1>1, RunOnTop
<1>3. executed' = executed + 1 /\ since' = since + 1
  BY DEF Counted
<1>4. Last(run_states').total_cycles = executed' - lost - Total(UsedOf, frames')
  BY <1>1, <1>2, <1>3
<1>5. Clocked(frames', slice_cycles, left_cycles', Len(run_states), since')
  BY <1>1, <1>3
<1>6. /\ run_states' \in Seq(RunStates) /\ Len(run_states') = Len(run_states) /\ Nested(run_states')
      /\ left_cycles' \in Int /\ executed' \in Int /\ since' \in Nat
  BY <1>2, <1>3
<1> QED BY <1>1, <1>4, <1>5, <1>6, TopSetKeeps

\* An instruction that writes a register.
LEMMA WriteRegKeeps == ASSUME RuntimeInv, WriteReg PROVE RuntimeInv'
<1>1. PICK v \in RegVals : cpu' = [cpu EXCEPT !.reg = v]
  BY DEF WriteReg
<1>2. /\ Instruction /\ Counted /\ frames' = SetTop(Cycle(Top)) /\ mem' = mem
      /\ UNCHANGED <<running, run_states, left_cycles, slice_cycles, raised, lost>>
  BY DEF WriteReg
<1>3. frames # <<>> /\ Top.type = "run"
  BY <1>2 DEF Instruction, InCode
<1>4. cpu \in Cpus /\ cpu.sp \in 1..OwnTop /\ cpu.sp <= Top.base /\ SameStack(cpu.sp, Top.base) /\ mem \in Mems
  BY <1>3, RunOnTop
<1>5. cpu' \in Cpus /\ cpu'.sp = cpu.sp
  BY <1>1, <1>4, RegsSet
<1> QED BY <1>2, <1>4, <1>5, InstructionKeeps

\* An instruction that pushes.
LEMMA PushKeeps == ASSUME RuntimeInv, Push PROVE RuntimeInv'
<1>1. /\ Instruction /\ Counted /\ frames' = SetTop(Cycle(Top))
      /\ cpu.sp > Bottom(cpu.sp) /\ cpu' = [cpu EXCEPT !.sp = cpu.sp - 1]
      /\ mem' = [mem EXCEPT ![cpu.sp - 1] = "data"]
      /\ UNCHANGED <<running, run_states, left_cycles, slice_cycles, raised, lost>>
  BY DEF Push
<1>2. frames # <<>> /\ Top.type = "run"
  BY <1>1 DEF Instruction, InCode
<1>3. /\ cpu \in Cpus /\ cpu.sp \in 1..OwnTop /\ cpu.sp <= Top.base /\ SameStack(cpu.sp, Top.base)
      /\ mem \in Mems /\ Top.base \in 1..OwnTop
  BY <1>2, RunOnTop
<1> DEFINE sp == cpu.sp - 1
<1>4. sp \in 1..OwnTop /\ sp <= Top.base /\ SameStack(sp, Top.base)
  BY <1>1, <1>3, StackAssumption DEF Bottom, SameStack
<1> HIDE DEF sp
<1>5. cpu' = [cpu EXCEPT !.sp = sp] /\ mem' = [mem EXCEPT ![sp] = "data"]
  BY <1>1 DEF sp
<1>6. cpu' \in Cpus /\ cpu'.sp = sp
  BY <1>3, <1>4, <1>5, RegsSet
<1>7. mem' \in Mems /\ \A a \in 1..OwnTop : mem'[a] # mem[a] => a = sp
  BY <1>3, <1>5 DEF Mems, Cells
<1>8. \A a \in 1..OwnTop : mem'[a] # mem[a] => a <= Top.base /\ SameStack(a, Top.base)
  BY <1>4, <1>7
<1> QED BY <1>1, <1>4, <1>6, <1>7, <1>8, InstructionKeeps

\* An instruction that pops.
LEMMA PopKeeps == ASSUME RuntimeInv, Pop PROVE RuntimeInv'
<1>1. /\ Instruction /\ Counted /\ frames' = SetTop(Cycle(Top))
      /\ cpu.sp < Top.base /\ cpu' = [cpu EXCEPT !.sp = cpu.sp + 1]
      /\ mem' = [mem EXCEPT ![cpu.sp] = "data"]
      /\ UNCHANGED <<running, run_states, left_cycles, slice_cycles, raised, lost>>
  BY DEF Pop
<1>2. frames # <<>> /\ Top.type = "run"
  BY <1>1 DEF Instruction, InCode
<1>3. /\ cpu \in Cpus /\ cpu.sp \in 1..OwnTop /\ cpu.sp <= Top.base /\ SameStack(cpu.sp, Top.base)
      /\ mem \in Mems /\ Top.base \in 1..OwnTop
  BY <1>2, RunOnTop
<1> DEFINE sp == cpu.sp + 1
<1>4. sp \in 1..OwnTop /\ sp <= Top.base /\ SameStack(sp, Top.base)
  BY <1>1, <1>3, StackAssumption DEF SameStack
<1> HIDE DEF sp
<1>5. cpu' = [cpu EXCEPT !.sp = sp]
  BY <1>1 DEF sp
<1>6. cpu' \in Cpus /\ cpu'.sp = sp
  BY <1>3, <1>4, <1>5, RegsSet
<1>7. mem' \in Mems /\ \A a \in 1..OwnTop : mem'[a] # mem[a] => a = cpu.sp
  BY <1>1, <1>3 DEF Mems, Cells
<1>8. \A a \in 1..OwnTop : mem'[a] # mem[a] => a <= Top.base /\ SameStack(a, Top.base)
  BY <1>3, <1>7
<1> QED BY <1>1, <1>4, <1>6, <1>7, <1>8, InstructionKeeps

\* An instruction that calls a trap: the function's frame comes on top.
LEMMA CallTrapKeeps == ASSUME RuntimeInv, CallTrap PROVE RuntimeInv'
<1> DEFINE gs == SetTop(Cycle(Top))
           sp == cpu.sp - 1
           fr == [type |-> "trap", cpu |-> cpu', mem |-> [a \in InUse(sp) |-> mem'[a]]]
<1>1. /\ Instruction /\ Counted /\ frames' = Append(gs, fr)
      /\ cpu.sp > Bottom(cpu.sp) /\ cpu' = [cpu EXCEPT !.sp = sp]
      /\ mem' = [mem EXCEPT ![sp] = "ret"]
      /\ UNCHANGED <<running, run_states, left_cycles, slice_cycles, raised, lost>>
  BY DEF CallTrap
<1>2. /\ Cycle(Top) \in RunFrames /\ Cycle(Top).ctx = Top.ctx /\ Cycle(Top).base = Top.base
      /\ RestsAt(Cycle(Top)) /\ gs = [frames EXCEPT ![Len(frames)] = Cycle(Top)]
      /\ Clocked(gs, slice_cycles, left_cycles, Len(run_states), since + 1)
      /\ Total(UsedOf, gs) = Total(UsedOf, frames) + 1
      /\ frames # <<>> /\ Top.type = "run"
  BY <1>1, CycleTaken
<1>3. /\ raised = "none" /\ Top = Last(frames)
      /\ cpu \in Cpus /\ cpu.sp \in 1..OwnTop /\ cpu.sp <= Top.base /\ SameStack(cpu.sp, Top.base)
      /\ mem \in Mems /\ Top.base \in 1..OwnTop /\ frames \in Seq(Frames)
      /\ run_states # <<>> /\ Nested(run_states) /\ Resting(frames)
      /\ slice_cycles \in Nat /\ since \in Nat /\ executed \in Int /\ lost \in Int
      /\ Last(run_states).total_cycles = executed - lost - Total(UsedOf, frames)
      /\ Total(UsedOf, frames) \in Nat
  BY <1>2, RunOnTop
<1>4. RuntimeTypes /\ Sound(frames, cpu, mem) /\ Depths
  BY <1>3 DEF RuntimeInv
<1>5. sp \in 1..OwnTop /\ sp < Top.base /\ SameStack(sp, Top.base)
  <2>1. /\ cpu.sp > Bottom(cpu.sp) /\ cpu.sp \in 1..OwnTop /\ cpu.sp <= Top.base /\ SameStack(cpu.sp, Top.base)
        /\ Top.base \in 1..OwnTop
    BY <1>1, <1>3
  <2> HIDE DEF fr, gs
  <2> QED BY <2>1, StackAssumption DEF Bottom, SameStack
<1> HIDE DEF sp
<1>6. cpu' \in Cpus /\ cpu'.sp = sp
  BY <1>1, <1>3, <1>5, RegsSet
<1>7. mem' \in Mems /\ \A a \in 1..OwnTop : mem'[a] # mem[a] => a = sp
  BY <1>1, <1>3 DEF Mems, Cells
<1>8. InUse(sp) \subseteq 1..OwnTop
  BY <1>5, StackAssumption DEF InUse
<1>9. /\ fr \in Frames /\ fr.type = "trap" /\ fr.cpu = cpu' /\ DOMAIN fr.mem = InUse(sp)
      /\ \A a \in InUse(sp) : fr.mem[a] = mem'[a]
  <2>1. [a \in InUse(sp) |-> mem'[a]] \in [InUse(sp) -> Cells]
    BY <1>7, <1>8 DEF Mems
  <2>2. [a \in InUse(sp) |-> mem'[a]] \in UNION {[InUse(x) -> Cells] : x \in 1..OwnTop}
    BY <1>5, <2>1
  <2>3. fr \in TrapFrames
    <3> DEFINE r == [a \in InUse(sp) |-> mem'[a]]
    <3>1. r \in UNION {[InUse(x) -> Cells] : x \in 1..OwnTop}
      BY <2>2
    <3> HIDE DEF r
    <3>2. [type |-> "trap", cpu |-> cpu', mem |-> r] \in TrapFrames
      BY <1>6, <3>1 DEF TrapFrames
    <3> QED BY <3>2 DEF r
  <2>4. fr.type = "trap" /\ fr.cpu = cpu' /\ fr.mem = [a \in InUse(sp) |-> mem'[a]]
    OBVIOUS
  <2> QED BY <2>3, <2>4 DEF Frames
<1>10. gs \in Seq(Frames) /\ gs # <<>> /\ Last(gs) = Cycle(Top) /\ Cycle(Top).type = "run" /\ Cycle(Top) \in Frames
  <2>1. Cycle(Top) \in Frames /\ Cycle(Top).type = "run"
    BY <1>2 DEF Frames, RunFrames
  <2> QED BY <1>2, <1>3, <2>1, TopSet
<1> HIDE DEF fr, gs
<1>11. Sound(gs, cpu, mem)
  <2>1. /\ Cycle(Top).ctx = Last(frames).ctx /\ Cycle(Top).base = Last(frames).base /\ Last(frames).type = "run"
        /\ cpu.sp <= Cycle(Top).base /\ SameStack(cpu.sp, Cycle(Top).base)
    BY <1>2, <1>3
  <2>2. \A a \in 1..OwnTop : mem[a] # mem[a] => a <= Cycle(Top).base /\ SameStack(a, Cycle(Top).base)
    OBVIOUS
  <2> QED BY <1>2, <1>3, <1>4, <2>1, <2>2, RunGoesOn
<1>12. Sound(frames', cpu', mem')
  <2>1. \A i \in 1..Len(gs) : gs[i].type = "trap" => Apart(sp, gs[i].cpu.sp)
    <3> SUFFICES ASSUME NEW i \in 1..Len(gs), gs[i].type = "trap" PROVE Apart(sp, gs[i].cpu.sp)
      OBVIOUS
    <3>1. Len(gs) \in 1..Len(gs) /\ i < Len(gs)
      BY <1>10 DEF Last
    <3>2. Apart(Level(gs[Len(gs)]), gs[i].cpu.sp)
      BY <1>11, <3>1 DEF Sound, Separate
    <3>3. Level(gs[Len(gs)]) = Top.base
      BY <1>2, <1>10 DEF Level, Last
    <3>4. gs[i] \in Frames
      BY <1>10
    <3>5. gs[i].cpu.sp \in Int
      BY <3>4, FrameFields DEF Cpus
    <3>6. Top.base \in Int /\ sp \in Int /\ sp <= Top.base /\ SameStack(Top.base, sp)
      BY <1>3, <1>5 DEF SameStack
    <3>7. Apart(Top.base, gs[i].cpu.sp)
      BY <3>2, <3>3
    <3> QED BY <3>5, <3>6, <3>7, Deeper
  <2>2. MayAdd(gs, fr, cpu', mem, mem')
    <3>1. Level(fr) = sp
      BY <1>6, <1>9 DEF Level
    <3>2. Last(gs).base = Top.base /\ Last(gs).type = "run"
      BY <1>2, <1>10
    <3> QED BY <1>5, <1>6, <1>7, <1>9, <2>1, <3>1, <3>2 DEF MayAdd
  <2> QED BY <1>1, <1>3, <1>7, <1>9, <1>10, <1>11, <2>2, FrameAdded
<1>13. frames' \in Seq(Frames) /\ frames' # <<>>
  BY <1>1, <1>9, <1>10, TopAdded
<1>14. Depths'
  <2>1. DepthOf(gs) = DepthOf(frames)
    BY <1>2, <1>3, <1>10, DepthChanges
  <2>2. DepthOf(frames') = DepthOf(gs) /\ DepthOf(gs) \in Nat
    <3>1. DepthOf(Append(gs, fr)) = DepthOf(gs) + (IF fr.type = "run" THEN 1 ELSE 0) /\ DepthOf(gs) \in Nat
      BY <1>9, <1>10, DepthChanges
    <3> QED BY <1>1, <1>9, <3>1
  <2> QED BY <1>1, <1>2, <1>4, <1>13, <2>1, <2>2 DEF Depths
<1>15. Resting(frames')
  <2>1. Resting(gs)
    BY <1>2, <1>3, <1>10, SetLimited
  <2>2. RestsAt(fr)
    BY <1>9 DEF RestsAt
  <2> QED BY <1>1, <1>9, <1>10, <2>1, <2>2, AddedLimited
<1>16. executed' = executed + 1 /\ since' = since + 1 /\ since' \in Nat /\ executed' \in Int
  BY <1>1, <1>3 DEF Counted
<1>17. /\ Clocked(frames', slice_cycles, left_cycles, Len(run_states), since')
       /\ Total(UsedOf, frames') = Total(UsedOf, gs)
  <2>1. Clocked(gs, slice_cycles, left_cycles, Len(run_states), since')
    BY <1>2, <1>16
  <2>2. slice_cycles \in Nat /\ left_cycles \in Int /\ Len(run_states) \in Nat /\ since' \in Nat
        /\ gs \in Seq(Frames) /\ fr \in Frames /\ fr.type = "trap" /\ frames' = Append(gs, fr)
    BY <1>1, <1>3, <1>4, <1>9, <1>10, <1>16 DEF RuntimeTypes
  <2> QED BY <2>1, <2>2, ClockTrapAdded
<1>18. CountedRight'
  <2>1. Last(run_states').total_cycles = executed' - lost' - Total(UsedOf, frames')
    BY <1>1, <1>2, <1>3, <1>16, <1>17
  <2> QED BY <2>1 DEF CountedRight
<1>19. Clocked(frames', slice_cycles', left_cycles', Len(run_states'), since')
  BY <1>1, <1>17
<1>20. RuntimeTypes'
  BY <1>1, <1>3, <1>4, <1>6, <1>7, <1>13, <1>16 DEF RuntimeTypes
<1> QED BY <1>12, <1>14, <1>15, <1>18, <1>19, <1>20 DEF RuntimeInv

\* The function of a trap ends: its frame goes, and the return address with it.
LEMMA TrapReturnsKeeps == ASSUME RuntimeInv, TrapReturns PROVE RuntimeInv'
<1> DEFINE gs == Front(frames)
           n == Len(frames)
           sp == cpu.sp + 1
<1>1. /\ frames # <<>> /\ Top.type = "trap" /\ cpu' = [cpu EXCEPT !.sp = sp]
      /\ mem' = [mem EXCEPT ![cpu.sp] = "data"] /\ frames' = gs
      /\ UNCHANGED <<running, run_states, left_cycles, slice_cycles, raised, executed, lost, since>>
  BY DEF TrapReturns, InTrap
<1>2. /\ raised = "none" /\ running /\ Top = Last(frames) /\ Top \in Frames
      /\ Len(run_states) \in Nat \ {0} /\ run_states # <<>>
  BY <1>1, Busy
<1>3. /\ RuntimeTypes /\ Sound(frames, cpu, mem) /\ Depths /\ Resting(frames) /\ CountedRight
      /\ Clocked(frames, slice_cycles, left_cycles, Len(run_states), since)
      /\ cpu \in Cpus /\ mem \in Mems /\ frames \in Seq(Frames)
      /\ slice_cycles \in Nat /\ left_cycles \in Int /\ since \in Nat
  BY <1>2 DEF RuntimeInv, RuntimeTypes
<1>4. /\ gs \in Seq(Frames) /\ Len(gs) = n - 1 /\ n \in Nat \ {0}
      /\ \A i \in 1..(n - 1) : gs[i] = frames[i]
      /\ n > 1 => gs # <<>> /\ Last(gs) = frames[n - 1]
  BY <1>1, <1>3, TopGone
<1>5. /\ n > 1 /\ frames[n - 1].type = "run" /\ frames[n] = Top /\ Top.cpu = cpu
      /\ cpu.sp < frames[n - 1].base /\ SameStack(cpu.sp, frames[n - 1].base)
  <2>1. n \in 1..Len(frames) /\ frames[n] = Top
    BY <1>2, <1>4 DEF Last
  <2>2. Top.cpu = cpu
    BY <1>1, <1>2, <1>3 DEF Sound, CpuAt
  <2> HIDE DEF n
  <2> QED BY <1>1, <1>3, <2>1, <2>2 DEF Sound, Chained
<1>6. gs # <<>> /\ Last(gs).type = "run" /\ Last(gs) \in Frames
      /\ cpu.sp < Last(gs).base /\ SameStack(cpu.sp, Last(gs).base)
  BY <1>4, <1>5 DEF Last
<1>7. cpu.sp \in 1..OwnTop /\ Last(gs).base \in 1..OwnTop
  BY <1>3, <1>6, FrameFields DEF Cpus
<1>8. sp \in 1..OwnTop /\ sp <= Last(gs).base /\ SameStack(sp, Last(gs).base)
  <2> HIDE DEF gs
  <2> QED BY <1>6, <1>7, StackAssumption DEF SameStack
<1> HIDE DEF gs, n, sp
<1>9. cpu' \in Cpus /\ cpu'.sp = sp
  BY <1>1, <1>3, <1>8, RegsSet
<1>10. mem' \in Mems /\ \A a \in 1..OwnTop : mem'[a] # mem[a] => a = cpu.sp
  BY <1>1, <1>3 DEF Mems, Cells
<1>11. CpuAt(gs, cpu')
  BY <1>6, <1>8, <1>9 DEF CpuAt
<1>12. WrittenOff(gs, mem, mem')
  <2> SUFFICES ASSUME NEW i \in 1..Len(gs), gs[i].type = "trap"
               PROVE  cpu.sp \notin InUse(gs[i].cpu.sp)
    BY <1>10 DEF WrittenOff
  <2>1. i \in 1..Len(frames) /\ n \in 1..Len(frames) /\ i < n /\ gs[i] = frames[i]
    BY <1>4 DEF n
  <2>2. Apart(Level(frames[n]), frames[i].cpu.sp)
    BY <1>3, <2>1 DEF Sound, Separate
  <2>3. Level(frames[n]) = cpu.sp
    BY <1>1, <1>5 DEF Level
  <2>4. gs[i] \in Frames
    BY <1>4
  <2>5. gs[i].cpu.sp \in Int
    BY <2>4, FrameFields DEF Cpus
  <2> QED BY <1>7, <2>1, <2>2, <2>3, <2>5, ApartFree
<1>13. Sound(frames', cpu', mem')
  <2>1. gs = Front(frames)
    BY DEF gs
  <2> QED BY <1>1, <1>3, <1>10, <1>11, <1>12, <2>1, FrameGone
<1>14. Resting(frames')
  BY <1>1, <1>3, GoneLimited DEF gs
<1>15. /\ Clocked(frames', slice_cycles, left_cycles, Len(run_states), since)
       /\ Total(UsedOf, frames') = Total(UsedOf, frames)
  <2>1. frames' = Front(frames) /\ Last(frames).type = "trap" /\ Len(run_states) \in Nat
    BY <1>1, <1>2 DEF gs
  <2> QED BY <1>1, <1>3, <2>1, ClockTrapGone
<1>16. Depths'
  <2>1. \A fr \in Frames : frames # <<>> =>
           DepthOf(Front(frames)) = DepthOf(frames) - IF Last(frames).type = "run" THEN 1 ELSE 0
    BY <1>3, DepthChanges
  <2>2. DepthOf(frames) \in Nat
    BY <1>2, <1>3, DepthChanges
  <2>3. DepthOf(frames') = DepthOf(frames)
    BY <1>1, <1>2, <2>1, <2>2 DEF gs
  <2> QED BY <1>1, <1>2, <1>3, <1>6, <2>3 DEF Depths
<1>17. CountedRight'
  BY <1>1, <1>3, <1>15 DEF CountedRight
<1>18. Clocked(frames', slice_cycles', left_cycles', Len(run_states'), since')
  BY <1>1, <1>15
<1>19. RuntimeTypes'
  BY <1>1, <1>2, <1>3, <1>4, <1>9, <1>10 DEF RuntimeTypes
<1> QED BY <1>13, <1>14, <1>16, <1>17, <1>18, <1>19 DEF RuntimeInv

\* A single run is alone on the Python stack.
LEMMA OneRun ==
    ASSUME NEW fs \in Seq(Frames), fs # <<>>, Chained(fs), Last(fs).type = "run"
    PROVE  DepthOf(fs) = 1 <=> Len(fs) = 1
<1>1. Len(fs) \in 1..Len(fs) /\ Len(fs) \in RunsOf(fs) /\ 1 \in 1..Len(fs)
  BY DEF RunsOf, Last
<1>2. 1 \in RunsOf(fs)
  <2>1. fs[1].type = "run"
    <3>1. fs[1] \in Frames /\ fs[1].type # "trap"
      BY <1>1 DEF Chained
    <3> QED BY <3>1, FrameFields
  <2> QED BY <1>1, <2>1 DEF RunsOf
<1>3. IsFiniteSet(RunsOf(fs))
  <2>1. IsFiniteSet(1..Len(fs)) /\ RunsOf(fs) \subseteq 1..Len(fs)
    BY FS_Interval DEF RunsOf
  <2> QED BY <2>1, FS_Subset
<1>4. ASSUME DepthOf(fs) = 1 PROVE Len(fs) = 1
  <2>1. PICK i : RunsOf(fs) = {i}
    BY <1>3, <1>4, FS_Singleton DEF DepthOf
  <2> QED BY <1>1, <1>2, <2>1
<1>5. ASSUME Len(fs) = 1 PROVE DepthOf(fs) = 1
  <2>1. RunsOf(fs) = {1}
    BY <1>2, <1>5 DEF RunsOf
  <2> QED BY <2>1, FS_Singleton DEF DepthOf
<1> QED BY <1>4, <1>5

\* The run on top is over, after it used its cycles or lost them: the trap function that
\* started it has its registers and its stack again, and start() leaves nothing.
LEMMA EndRunKeeps ==
    ASSUME RuntimeInv, frames # <<>>, Top.type = "run", ~Top.looping,
           NEW rs \in RunStates, EndRun(rs), UNCHANGED <<slice_cycles, executed>>,
           left_cycles' \in Int, left_cycles' <= left_cycles, since' \in Nat, since' <= since, lost' \in Int,
           rs.total_cycles = executed - lost' - (Total(UsedOf, frames) - Top.used),
           left_cycles' > 0 /\ slice_cycles > 0 =>
             since' + left_cycles' <= slice_cycles \/ since' + left_cycles' <= since + left_cycles - Top.used
    PROVE  RuntimeInv'
<1> DEFINE gs == Front(frames)
           n == Len(frames)
           over == [popped(run_states, rs) EXCEPT ![Len(run_states) - 1] = taken_over(@, rs)]
<1>1. /\ raised = "none" /\ Top = Last(frames) /\ Top \in Frames
      /\ cpu \in Cpus /\ mem \in Mems /\ frames \in Seq(Frames) /\ run_states \in Seq(RunStates)
      /\ slice_cycles \in Nat /\ left_cycles \in Int /\ since \in Nat /\ executed \in Int
      /\ Len(run_states) \in Nat \ {0} /\ run_states # <<>> /\ Nested(run_states) /\ Resting(frames)
      /\ Len(run_states) <= MaxNesting + 1
      /\ Clocked(frames, slice_cycles, left_cycles, Len(run_states), since)
  BY RunOnTop
<1>2. RuntimeTypes /\ running /\ Sound(frames, cpu, mem) /\ Len(run_states) = DepthOf(frames)
  BY <1>1, Busy DEF RuntimeInv, Depths
<1>3. /\ gs \in Seq(Frames) /\ Len(gs) = n - 1 /\ n \in Nat \ {0}
      /\ \A i \in 1..(n - 1) : gs[i] = frames[i]
      /\ n > 1 => gs # <<>> /\ Last(gs) = frames[n - 1]
      /\ n = 1 => gs = <<>>
  BY <1>1, TopGone
<1>4. Len(run_states) = 1 <=> n = 1
  BY <1>1, <1>2, OneRun DEF Sound
<1>5. n > 1 => frames[n - 1].type = "trap" /\ Top.ctx = frames[n - 1].cpu
  <2>1. n \in 1..Len(frames) /\ frames[n] = Top
    BY <1>1, <1>3 DEF Last
  <2> HIDE DEF n
  <2> QED BY <1>2, <2>1 DEF Sound, Chained
<1>6. /\ mem' = [a \in DOMAIN mem |-> IF a \in Live THEN mem[a] ELSE "data"]
      /\ Len(run_states) = 1 => running' = FALSE /\ run_states' = <<>> /\ frames' = <<>>
                                /\ UNCHANGED <<cpu, raised>>
      /\ Len(run_states) # 1 =>
           /\ run_states' = over /\ cpu' = Top.ctx /\ UNCHANGED running
           /\ \/ frames' = <<>> /\ raised' = "TypeError"
              \/ frames' = gs /\ UNCHANGED raised
  BY DEF EndRun, restored
<1>7. Len(run_states) # 1 =>
        /\ over \in Seq(RunStates) /\ Len(over) = Len(run_states) - 1 /\ over # <<>>
        /\ Last(over).total_cycles = rs.total_cycles /\ Nested(over)
  BY <1>1, StatesGone
<1>8. /\ Clocked(gs, slice_cycles, left_cycles', Len(run_states) - 1, since')
      /\ Total(UsedOf, gs) = Total(UsedOf, frames) - Top.used
  <2>1. /\ Last(frames).type = "run" /\ ~Last(frames).looping /\ Len(run_states) \in Nat
        /\ left_cycles' > 0 /\ slice_cycles > 0 =>
             since' + left_cycles' <= slice_cycles \/ since' + left_cycles' <= since + left_cycles - Last(frames).used
    BY <1>1
  <2>2. \A l \in Int : \A t \in Nat :
          l <= left_cycles /\ t <= since /\
          (l > 0 /\ slice_cycles > 0 => t + l <= slice_cycles \/ t + l <= since + left_cycles - Last(frames).used)
          => /\ Clocked(Front(frames), slice_cycles, l, Len(run_states) - 1, t)
             /\ Total(UsedOf, Front(frames)) = Total(UsedOf, frames) - Last(frames).used
    BY <1>1, <2>1, ClockRunGone
  <2>3. /\ Clocked(Front(frames), slice_cycles, left_cycles', Len(run_states) - 1, since')
        /\ Total(UsedOf, Front(frames)) = Total(UsedOf, frames) - Last(frames).used
    BY <2>1, <2>2
  <2> QED BY <1>1, <2>3
<1>9. Resting(gs)
  BY <1>1, GoneLimited
<1>10. DepthOf(gs) = Len(run_states) - 1
  <2>1. \A fr \in Frames : frames # <<>> =>
           DepthOf(Front(frames)) = DepthOf(frames) - IF Last(frames).type = "run" THEN 1 ELSE 0
    BY <1>1, DepthChanges
  <2> QED BY <1>1, <1>2, <2>1
<1>11. mem' \in Mems
  BY <1>1, <1>6 DEF Mems, Cells
<1>12. WrittenOff(gs, mem, mem')
  <2> SUFFICES ASSUME NEW a \in 1..OwnTop, mem'[a] # mem[a], NEW i \in 1..Len(gs), gs[i].type = "trap"
               PROVE  a \notin InUse(gs[i].cpu.sp)
    BY DEF WrittenOff
  <2>1. i \in 1..Len(frames) /\ gs[i] = frames[i]
    BY <1>3
  <2>2. DOMAIN frames[i].mem = InUse(gs[i].cpu.sp)
    BY <1>2, <2>1 DEF Sound, Chained
  <2>3. a \in DOMAIN mem /\ a \notin Live
    BY <1>1, <1>6 DEF Mems
  <2> QED BY <2>1, <2>2, <2>3 DEF Live
<1>13. CASE Len(run_states) = 1
  <2>1. /\ frames' = <<>> /\ frames' = gs /\ running' = FALSE /\ run_states' = <<>> /\ cpu' = cpu
        /\ raised' = "none" /\ Len(run_states') = 0 /\ Len(run_states) - 1 = 0
    BY <1>1, <1>3, <1>4, <1>6, <1>13
  <2>2. run_states' \in Seq(RunStates) /\ Nested(run_states')
    BY <2>1 DEF Nested
  <2>3. Sound(frames', cpu', mem')
    BY <2>1 DEF Sound, Chained, Separate, CpuAt, Kept
  <2>4. Depths'
    <3>1. DepthOf(frames') = 0
      BY <1>10, <2>1
    <3>2. 0 <= MaxNesting + 1
      BY NestingAssumption
    <3> HIDE DEF gs
    <3> QED BY <2>1, <2>2, <3>1, <3>2 DEF Depths
  <2>5. CountedRight'
    BY <2>1 DEF CountedRight
  <2>6. Clocked(frames', slice_cycles', left_cycles', Len(run_states'), since') /\ Resting(frames')
    <3>1. slice_cycles' = slice_cycles
      OBVIOUS
    <3> HIDE DEF gs
    <3> QED BY <1>8, <1>9, <2>1, <3>1
  <2>7. RuntimeTypes'
    <3>1. running' \in BOOLEAN /\ slice_cycles' \in Nat /\ executed' \in Int
      BY <1>1, <2>1
    <3> QED BY <1>1, <1>3, <1>11, <2>1, <2>2, <3>1 DEF RuntimeTypes
  <2> QED BY <2>3, <2>4, <2>5, <2>6, <2>7 DEF RuntimeInv
<1>14. CASE Len(run_states) # 1
  <2>1. /\ run_states' = over /\ cpu' = Top.ctx /\ running'
        /\ n > 1 /\ gs # <<>> /\ Last(gs) = frames[n - 1]
        /\ \/ frames' = <<>> /\ raised' = "TypeError"
           \/ frames' = gs /\ raised' = "none"
    <3>1. n > 1 /\ n \in Nat
      BY <1>3, <1>4, <1>14
    <3>2. /\ run_states' = over /\ cpu' = Top.ctx /\ running' = running
          /\ \/ frames' = <<>> /\ raised' = "TypeError"
             \/ frames' = gs /\ raised' = raised
      BY <1>6, <1>14
    <3> HIDE DEF over, gs, n
    <3>3. gs # <<>> /\ Last(gs) = frames[n - 1]
      BY <1>3, <3>1
    <3>4. running'
      BY <1>2, <3>2
    <3> QED BY <1>1, <3>1, <3>2, <3>3, <3>4
  <2>2. cpu' \in Cpus
    BY <1>1, <2>1, FrameFields
  <2>3. RuntimeTypes'
    <3>1. run_states' \in Seq(RunStates)
      BY <1>7, <1>14, <2>1
    <3>2. running' \in BOOLEAN /\ slice_cycles' \in Nat /\ executed' \in Int
      <4>1. running' = running
        BY <1>6, <1>14
      <4> QED BY <1>1, <1>2, <4>1 DEF RuntimeTypes
    <3>3. frames' \in Seq(Frames) /\ (raised' # "none" => frames' = <<>>)
      <4>1. \/ frames' = <<>> /\ raised' = "TypeError"
            \/ frames' = gs /\ raised' = "none"
        BY <2>1
      <4>2. gs \in Seq(Frames) /\ <<>> \in Seq(Frames)
        BY <1>3
      <4> HIDE DEF gs
      <4> QED BY <4>1, <4>2
    <3> QED BY <1>11, <2>2, <3>1, <3>2, <3>3 DEF RuntimeTypes
  <2>4. CASE raised' # "none"
    BY <2>3, <2>4 DEF RuntimeInv
  <2>5. CASE raised' = "none"
    <3>1. frames' = gs
      BY <2>1, <2>5
    <3>2. CpuAt(gs, cpu')
      BY <1>5, <2>1 DEF CpuAt
    <3>3. Sound(frames', cpu', mem')
      BY <1>1, <1>2, <1>11, <1>12, <3>1, <3>2, FrameGone
    <3> DEFINE k == Len(run_states) - 1
    <3>4. run_states' # <<>> /\ Len(run_states') = k /\ Nested(run_states') /\ k <= MaxNesting + 1
          /\ Last(run_states').total_cycles = rs.total_cycles
      <4>1. k <= MaxNesting + 1
        BY <1>1, NestingAssumption
      <4> HIDE DEF over, k
      <4> QED BY <1>7, <1>14, <2>1, <4>1 DEF k
    <3>5. Depths'
      <4> HIDE DEF gs, k, over
      <4> QED BY <1>10, <2>1, <3>1, <3>4 DEF Depths, k
    <3>6. CountedRight'
      <4>1. Last(run_states').total_cycles = executed - lost' - Total(UsedOf, gs)
        BY <1>8, <3>4
      <4> HIDE DEF gs, k, over
      <4> QED BY <3>1, <4>1 DEF CountedRight
    <3>7. Clocked(frames', slice_cycles', left_cycles', Len(run_states'), since') /\ Resting(frames')
      <4>1. slice_cycles' = slice_cycles
        OBVIOUS
      <4> HIDE DEF gs, over
      <4> QED BY <1>8, <1>9, <3>1, <3>4, <4>1
    <3> QED BY <2>3, <3>3, <3>5, <3>6, <3>7 DEF RuntimeInv
  <2> QED BY <2>4, <2>5
<1> QED BY <1>13, <1>14

\* A run reaches its end.
LEMMA ExitReachedKeeps == ASSUME RuntimeInv, ExitReached PROVE RuntimeInv'
<1> DEFINE rs == [account(Last(run_states), Top.used) EXCEPT !.exit = TRUE]
<1>1. /\ frames # <<>> /\ Top.type = "run" /\ ~Top.looping
      /\ EndRun(rs) /\ left_cycles' = left_after(left_cycles, Top.used)
      /\ UNCHANGED <<slice_cycles, executed, lost, since>>
  BY DEF ExitReached, InCode
<1>2. /\ Last(run_states) \in RunStates /\ Top.used \in Nat /\ left_cycles \in Int /\ since \in Nat
      /\ executed \in Int /\ lost \in Int /\ Last(run_states).total_cycles \in Int
      /\ Last(run_states).total_cycles = executed - lost - Total(UsedOf, frames)
      /\ Total(UsedOf, frames) \in Nat
  BY <1>1, RunOnTop
<1>3. rs \in RunStates /\ rs.total_cycles = Last(run_states).total_cycles + Top.used
  <2>1. Last(run_states) \in RunStates /\ Top.used \in Int
    BY <1>2
  <2> QED BY <2>1, AccountFacts
<1> HIDE DEF rs
<1>4. rs.total_cycles = executed - lost' - (Total(UsedOf, frames) - Top.used)
  <2>1. lost' = lost
    BY <1>1
  <2> QED BY <1>2, <1>3, <2>1
<1>5. /\ left_cycles' \in Int /\ left_cycles' <= left_cycles
      /\ left_cycles' > 0 => since + left_cycles' <= since + left_cycles - Top.used
  BY <1>1, <1>2 DEF left_after
<1>6. /\ since' = since /\ since' \in Nat /\ since' <= since /\ lost' \in Int
      /\ UNCHANGED <<slice_cycles, executed>>
  BY <1>1, <1>2
<1>7. left_cycles' > 0 /\ slice_cycles > 0 =>
        since' + left_cycles' <= slice_cycles \/ since' + left_cycles' <= since + left_cycles - Top.used
  BY <1>5, <1>6
<1> QED BY <1>1, <1>3, <1>4, <1>5, <1>6, <1>7, EndRunKeeps

\* The lesser of two numbers.
LEMMA LesserOf ==
    ASSUME NEW a \in Nat, NEW b \in Nat
    PROVE  Min({a, b}) = IF a <= b THEN a ELSE b
<1> DEFINE c == IF a <= b THEN a ELSE b
<1>1. c \in {a, b} /\ \A y \in {a, b} : c <= y
  OBVIOUS
<1>2. ASSUME NEW x \in {a, b}, \A y \in {a, b} : x <= y PROVE x = c
  BY <1>2
<1> HIDE DEF c
<1>3. Min({a, b}) = c
  BY <1>1, <1>2 DEF Min
<1> QED BY <1>3 DEF c

\* A run fails, and the cycles of its execute() are lost.
LEMMA MachineFailsKeeps == ASSUME RuntimeInv, MachineFails PROVE RuntimeInv'
<1> DEFINE rs == [Last(run_states) EXCEPT !.mach_error = TRUE]
<1>1. /\ frames # <<>> /\ Top.type = "run" /\ ~Top.looping
      /\ EndRun(rs) /\ lost' = lost + Top.used /\ since' = since - Min({since, Top.used})
      /\ UNCHANGED <<left_cycles, slice_cycles, executed>>
  BY DEF MachineFails, InCode
<1>2. /\ Last(run_states) \in RunStates /\ Top.used \in Nat /\ left_cycles \in Int /\ since \in Nat
      /\ slice_cycles \in Nat /\ (slice_cycles > 0 => left_cycles <= slice_cycles)
      /\ executed \in Int /\ lost \in Int /\ Last(run_states).total_cycles \in Int
      /\ Last(run_states).total_cycles = executed - lost - Total(UsedOf, frames)
      /\ Total(UsedOf, frames) \in Nat
  BY <1>1, RunOnTop
<1>3. rs \in RunStates /\ rs.total_cycles = Last(run_states).total_cycles
  BY <1>2, AccountFacts
<1> HIDE DEF rs
<1>4. rs.total_cycles = executed - lost' - (Total(UsedOf, frames) - Top.used) /\ lost' \in Int
  <2> DEFINE a == Top.used
             b == Total(UsedOf, frames)
             c == Last(run_states).total_cycles
  <2>1. /\ a \in Nat /\ b \in Nat /\ c \in Int /\ executed \in Int /\ lost \in Int
        /\ lost' = lost + a /\ c = executed - lost - b /\ rs.total_cycles = c
    BY <1>1, <1>2, <1>3
  <2> HIDE DEF a, b, c
  <2>2. rs.total_cycles = executed - lost' - (b - a) /\ lost' \in Int
    BY <2>1
  <2> QED BY <2>2 DEF a, b
<1>5. since' = IF since <= Top.used THEN 0 ELSE since - Top.used
  BY <1>1, <1>2, LesserOf
<1>6. since' \in Nat /\ since' <= since
  BY <1>2, <1>5
<1>7. left_cycles' > 0 /\ slice_cycles > 0 =>
        since' + left_cycles' <= slice_cycles \/ since' + left_cycles' <= since + left_cycles - Top.used
  <2>1. left_cycles' = left_cycles
    BY <1>1
  <2>2. CASE since <= Top.used
    BY <1>2, <1>5, <2>1, <2>2
  <2>3. CASE ~(since <= Top.used)
    <3>1. since' = since - Top.used
      BY <1>5, <2>3
    <3>2. left_cycles \in Int /\ since \in Nat /\ Top.used \in Nat
      BY <1>2
    <3>3. since' + left_cycles' <= since + left_cycles - Top.used
      BY <2>1, <3>1, <3>2
    <3> QED BY <3>3
  <2> QED BY <2>2, <2>3
<1>8. left_cycles' \in Int /\ left_cycles' <= left_cycles /\ UNCHANGED <<slice_cycles, executed>>
  BY <1>1, <1>2
<1> QED BY <1>1, <1>3, <1>4, <1>6, <1>7, <1>8, EndRunKeeps

\* An exception leaves no frame.
LEMMA TrapRaisesKeeps == ASSUME RuntimeInv, TrapRaises PROVE RuntimeInv'
<1>1. /\ raised' = "Exception" /\ frames' = <<>>
      /\ UNCHANGED <<running, run_states, left_cycles, slice_cycles, cpu, mem, executed, lost, since>>
  BY DEF TrapRaises
<1>2. RuntimeTypes'
  BY <1>1 DEF RuntimeInv, RuntimeTypes
<1> QED BY <1>1, <1>2 DEF RuntimeInv

\* The runtime of a new task.
LEMMA RuntimeInitInv == ASSUME RuntimeInit PROVE RuntimeInv
<1>1. /\ running = FALSE /\ run_states = <<>> /\ left_cycles = 0 /\ slice_cycles \in Slices
      /\ cpu = [reg |-> Min(RegVals), sp |-> StackTop] /\ mem = [a \in 1..OwnTop |-> "data"]
      /\ frames = <<>> /\ raised = "none" /\ executed = 0 /\ lost = 0 /\ since = 0
  BY DEF RuntimeInit
<1>2. slice_cycles \in Nat
  BY <1>1, SlicesAssumption
<1>3. cpu \in Cpus
  <2>1. StackTop \in 1..OwnTop
    BY StackAssumption
  <2> QED BY <1>1, <2>1 DEF Cpus
<1>4. mem \in Mems
  BY <1>1 DEF Mems, Cells
<1>5. RuntimeTypes
  <2>1. run_states \in Seq(RunStates) /\ frames \in Seq(Frames)
    <3>1. <<>> \in Seq(RunStates) /\ <<>> \in Seq(Frames)
      OBVIOUS
    <3> QED BY <1>1, <3>1
  <2>2. left_cycles \in Int /\ executed \in Int /\ lost \in Int /\ since \in Nat
    BY <1>1
  <2>3. running \in BOOLEAN
    BY <1>1
  <2> QED BY <1>1, <1>2, <1>3, <1>4, <2>1, <2>2, <2>3 DEF RuntimeTypes
<1>6. Sound(frames, cpu, mem) /\ Resting(frames)
  BY <1>1 DEF Sound, Chained, Separate, CpuAt, Kept, Resting
<1>7. Depths
  <2>1. RunsOf(frames) = {}
    BY <1>1 DEF RunsOf
  <2>2. DepthOf(frames) = 0
    BY <2>1, FS_EmptySet DEF DepthOf
  <2> QED BY <1>1, <2>2, NestingAssumption DEF Depths, Nested
<1>8. Clocked(frames, slice_cycles, left_cycles, Len(run_states), since)
  <2>1. Clocked(<<>>, slice_cycles, left_cycles, 0, 0)
    BY <1>1, <1>2, ClockEmpty
  <2>2. Len(run_states) = 0
    BY <1>1
  <2> QED BY <1>1, <2>1, <2>2
<1>9. CountedRight
  BY <1>1 DEF CountedRight
<1> QED BY <1>5, <1>6, <1>7, <1>8, <1>9 DEF RuntimeInv

\* Every step keeps the invariant.
LEMMA RuntimeNextKeeps == ASSUME RuntimeInv, RuntimeNext PROVE RuntimeInv'
<1>1. ASSUME NEW gets \in BOOLEAN, start(gets, [cpu EXCEPT !.reg = Max(RegVals)]) PROVE RuntimeInv'
  BY <1>1, StartKeeps
<1>2. ASSUME NEW gets \in BOOLEAN, NEW own \in {0, OwnTop},
             nested_run(own, gets, [cpu EXCEPT !.reg = Max(RegVals)])
      PROVE  RuntimeInv'
  BY <1>2, NestedRunKeeps
<1>3. CASE run_loop
  BY <1>3, LoopKeeps
<1>4. CASE cycles_reached
  BY <1>4, ReachedKeeps
<1>5. CASE WriteReg
  BY <1>5, WriteRegKeeps
<1>6. CASE Push
  BY <1>6, PushKeeps
<1>7. CASE Pop
  BY <1>7, PopKeeps
<1>8. CASE CallTrap
  BY <1>8, CallTrapKeeps
<1>9. CASE TrapReturns
  BY <1>9, TrapReturnsKeeps
<1>10. CASE ExitReached
  BY <1>10, ExitReachedKeeps
<1>11. CASE MachineFails
  BY <1>11, MachineFailsKeeps
<1>12. CASE TrapRaises
  BY <1>12, TrapRaisesKeeps
<1> QED BY <1>1, <1>2, <1>3, <1>4, <1>5, <1>6, <1>7, <1>8, <1>9, <1>10, <1>11, <1>12 DEF RuntimeNext

\* However runs of m68k code and Python functions nest and end, each level finds its
\* registers, its stack and its run state again, the cycles of all are accounted, and the
\* hook comes in time: for all slices, stacks and depths of nesting (runtime.py).
THEOREM RunsAlwaysNest == RuntimeSpec => []RunsNest
<1>1. RuntimeInit => RuntimeInv
  BY RuntimeInitInv
<1>2. RuntimeInv /\ [RuntimeNext]_runtime_vars => RuntimeInv'
  <2> SUFFICES ASSUME RuntimeInv, [RuntimeNext]_runtime_vars PROVE RuntimeInv'
    OBVIOUS
  <2>1. CASE UNCHANGED runtime_vars
    BY <2>1 DEF runtime_vars, RuntimeInv, RuntimeTypes, Sound, Depths, CountedRight, Clocked
  <2> QED BY <2>1, RuntimeNextKeeps
<1>3. RuntimeInv => RunsNest
  BY RuntimeInvNests
<1> QED BY <1>1, <1>2, <1>3, PTL DEF RuntimeSpec
=============================================================================
