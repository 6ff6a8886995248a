--------------------------- MODULE ExecListsProofs ---------------------------
(***************************************************************************)
(* Proofs about Exec lists, for any lists and nodes: the links in memory   *)
(* implement sequences of nodes.                                           *)
(***************************************************************************)
EXTENDS ExecLists, ListLemmas, FiniteSetTheorems

ListsSpec == ListsInit /\ [][ListsNext]_list_vars

\* what a link may go out from, and what it may lead to
Starts == Nodes \cup {HeadOf(l) : l \in Lists}
Ends == Nodes \cup {TailOf(l) : l \in Lists}

\* the address at place i of a list: its header is at both ends
Place(l, s, i) == IF i = 0 THEN HeadOf(l) ELSE IF i <= Len(s) THEN s[i] ELSE TailOf(l)

\* the header of l and the nodes of s are linked in both directions
Linked(w, l, s) ==
    /\ w[TailOf(l)] = Null
    /\ \A i \in 0..Len(s) : /\ succ(w, Place(l, s, i)) = Place(l, s, i + 1)
                            /\ pred(w, Place(l, s, i + 1)) = Place(l, s, i)

(***************************************************************************)
(* The inductive invariant: the words stand for sequences in which a node  *)
(* is once at most.  Nothing is said of the links of other nodes, which    *)
(* RemHead() and Remove() leave as they were.                              *)
(***************************************************************************)
Represents(w, ss) ==
    /\ w = [x \in Words |-> w[x]]
    /\ ss \in [Lists -> Seq(Nodes)]
    /\ \A l, m \in Lists : \A i \in 1..Len(ss[l]) : \A j \in 1..Len(ss[m]) :
            ss[l][i] = ss[m][j] => l = m /\ i = j
    /\ \A l \in Lists : Linked(w, l, ss[l])

ListsInv == Represents(word, [l \in Lists |-> Walk(word, l)])

-----------------------------------------------------------------------------
(* Following the links.                                                     *)

\* The nodes that links lead to, one after the other.
LEMMA FollowedIs ==
    ASSUME NEW next, NEW x, NEW s \in Seq(Nodes), Len(s) <= Cardinality(Nodes),
           \A i \in 0..Len(s) : i # Len(s) => next[IF i = 0 THEN x ELSE s[i]] = s[i + 1],
           \A i \in 1..Len(s) : next[s[i]] # Null,
           next[next[IF Len(s) = 0 THEN x ELSE s[Len(s)]]] = Null
    PROVE  Followed(next, x) = s
<1> DEFINE N == Cardinality(Nodes)
           Turn(t) == LET y == next[IF t = <<>> THEN x ELSE Last(t)]
                      IN  IF next[y] = Null THEN t ELSE Append(t, y)
           Upto(m, f) == f = [k \in 0..m |-> IF k = 0 THEN <<>> ELSE Turn(f[k - 1])]
           T == {m \in Nat : \E f : Upto(m, f)}
<1>0. N \in Nat /\ Len(s) \in Nat
  BY NodesAssumption, FS_CardinalityType
<1>1. 0 \in T
  <2> DEFINE f == [k \in 0..0 |-> <<>>]
  <2> HIDE DEF Turn
  <2>1. Upto(0, f)
    OBVIOUS
  <2> QED BY <2>1
<1>2. ASSUME NEW m \in Nat, m \in T
      PROVE  m + 1 \in T
  <2> HIDE DEF Turn
  <2>1. PICK f : Upto(m, f)
    BY <1>2
  <2> DEFINE g == [k \in 0..(m + 1) |-> IF k = m + 1 THEN Turn(f[m]) ELSE f[k]]
  <2>2. \A k \in 0..m : f[k] = IF k = 0 THEN <<>> ELSE Turn(f[k - 1])
    BY <2>1
  <2>3. \A k \in 0..(m + 1) : g[k] = IF k = 0 THEN <<>> ELSE Turn(g[k - 1])
    <3> SUFFICES ASSUME NEW k \in 0..(m + 1)
                 PROVE  g[k] = IF k = 0 THEN <<>> ELSE Turn(g[k - 1])
      OBVIOUS
    <3>1. CASE k = m + 1
      <4>1. k # 0 /\ k - 1 = m /\ m \in 0..(m + 1) /\ m # m + 1
        BY <3>1
      <4> QED BY <3>1, <4>1
    <3>2. CASE k # m + 1 /\ k # 0
      <4>1. k \in 0..m /\ k - 1 \in 0..(m + 1) /\ k - 1 # m + 1
        BY <3>2
      <4> QED BY <2>2, <3>2, <4>1
    <3>3. CASE k = 0
      BY <2>2, <3>3
    <3> QED BY <3>1, <3>2, <3>3
  <2>4. Upto(m + 1, g)
    <3> HIDE DEF g
    <3>1. g = [k \in 0..(m + 1) |-> g[k]]
      BY DEF g
    <3> QED BY <2>3, <3>1
  <2> HIDE DEF g, Upto
  <2> QED BY <2>4
<1>3. \E f : Upto(N, f)
  <2> HIDE DEF Upto, T
  <2>1. Nat \subseteq T
    BY <1>1, <1>2, NatInd
  <2>2. N \in T
    BY <1>0, <2>1
  <2> QED BY <2>2 DEF T
<1> DEFINE walked == CHOOSE f : Upto(N, f)
<1>4. Upto(N, walked)
  <2> HIDE DEF Upto
  <2> QED BY <1>3
<1>5. Followed(next, x) = walked[N]
  BY DEF Followed
<1> HIDE DEF walked, Turn
<1>6. \A k \in 0..N : walked[k] = IF k = 0 THEN <<>> ELSE Turn(walked[k - 1])
  BY <1>4
<1> DEFINE Done(k) == IF k <= Len(s) THEN k ELSE Len(s)
           Part(k, t) == t \in Seq(Nodes) /\ Len(t) = Done(k) /\ \A i \in 1..Done(k) : t[i] = s[i]
           U == {k \in Nat : k <= N => Part(k, walked[k])}
<1>7. 0 \in U
  <2>1. walked[0] = <<>> /\ Done(0) = 0
    BY <1>0, <1>6
  <2>2. Part(0, <<>>)
    BY <2>1
  <2> QED BY <2>1, <2>2
<1>8. ASSUME NEW k \in Nat, k \in U
      PROVE  k + 1 \in U
  <2> SUFFICES ASSUME k + 1 <= N PROVE Part(k + 1, walked[k + 1])
    OBVIOUS
  <2> DEFINE t == walked[k]
  <2>1. Part(k, t) /\ k + 1 \in 0..N /\ k + 1 # 0 /\ k + 1 - 1 = k
    BY <1>0, <1>8
  <2>2. walked[k + 1] = Turn(t)
    BY <1>6, <2>1
  <2> HIDE DEF t
  <2> DEFINE y == next[IF t = <<>> THEN x ELSE Last(t)]
  <2>3. (IF t = <<>> THEN x ELSE Last(t)) = IF Done(k) = 0 THEN x ELSE s[Done(k)]
    BY <1>0, <2>1 DEF Last
  <2>4. CASE k < Len(s)
    <3>1. Done(k) = k /\ k \in 0..Len(s) /\ k # Len(s) /\ k + 1 \in 1..Len(s)
      BY <1>0, <2>4
    <3>2. y = s[k + 1] /\ next[y] # Null
      BY <2>3, <3>1
    <3>3. Turn(t) = Append(t, s[k + 1])
      BY <3>2 DEF Turn
    <3>4. s[k + 1] \in Nodes
      BY <3>1
    <3> QED BY <1>0, <2>1, <2>2, <2>4, <3>3, <3>4
  <2>5. CASE ~(k < Len(s))
    <3>1. Done(k) = Len(s) /\ Done(k + 1) = Len(s)
      BY <1>0, <2>5
    <3>2. next[y] = Null
      BY <2>3, <3>1
    <3>3. Turn(t) = t
      BY <3>2 DEF Turn
    <3> QED BY <2>1, <2>2, <3>1, <3>3
  <2> QED BY <2>4, <2>5
<1>9. N \in U
  <2> HIDE DEF U
  <2> QED BY <1>0, <1>7, <1>8, NatInd
<1>10. Part(N, walked[N]) /\ Done(N) = Len(s)
  BY <1>0, <1>9
<1>11. walked[N] = s
  BY <1>10
<1> QED BY <1>5, <1>11

-----------------------------------------------------------------------------
(* The words that links are in.                                             *)

\* Where a link is, no other link is, and not the word lh_Tail.
LEMMA WordsApart ==
    /\ \A x \in Starts : SuccWord(x) \in Words
    /\ \A x \in Ends : PredWord(x) \in Words
    /\ \A x, y \in Starts : SuccWord(x) = SuccWord(y) => x = y
    /\ \A x, y \in Ends : PredWord(x) = PredWord(y) => x = y
    /\ \A x \in Starts, y \in Ends : SuccWord(x) # PredWord(y)
    /\ \A x \in Starts, l \in Lists : SuccWord(x) # TailOf(l)
    /\ \A x \in Ends, l \in Lists : PredWord(x) # TailOf(l)
    /\ \A l \in Lists : TailOf(l) \in Words
<1>1. \A n \in Nodes : SuccWord(n) = <<n, "ln_Succ">> /\ PredWord(n) = <<n, "ln_Pred">>
  BY DEF SuccWord, PredWord
<1>2. \A l \in Lists : /\ SuccWord(HeadOf(l)) = <<l, "lh_Head">>
                       /\ PredWord(TailOf(l)) = <<l, "lh_TailPred">>
                       /\ TailOf(l) = <<l, "lh_Tail">> /\ HeadOf(l) = <<l, "lh_Head">>
  <2> TAKE l \in Lists
  <2>1. HeadOf(l) \notin Nodes /\ TailOf(l) \notin Nodes
    BY AddressAssumption
  <2>2. SuccWord(HeadOf(l)) = HeadOf(l)
    BY <2>1 DEF SuccWord
  <2>3. PredWord(TailOf(l)) = TailPredOf(l)
    BY <2>1 DEF PredWord, TailOf
  <2> QED BY <2>2, <2>3 DEF HeadOf, TailOf, TailPredOf
<1>3. \A x \in Starts : \/ x \in Nodes /\ SuccWord(x) = <<x, "ln_Succ">>
                        \/ \E l \in Lists : x = <<l, "lh_Head">> /\ SuccWord(x) = <<l, "lh_Head">>
  BY <1>1, <1>2 DEF Starts
<1>4. \A x \in Ends : \/ x \in Nodes /\ PredWord(x) = <<x, "ln_Pred">>
                      \/ \E l \in Lists : x = <<l, "lh_Tail">> /\ PredWord(x) = <<l, "lh_TailPred">>
  BY <1>1, <1>2 DEF Ends
<1>5. /\ \A n \in Nodes : SuccWord(n) \in Words /\ PredWord(n) \in Words
      /\ \A l \in Lists : HeadOf(l) \in Words /\ TailOf(l) \in Words /\ TailPredOf(l) \in Words
  BY DEF Words
<1>6. \A x \in Starts : SuccWord(x) \in Words
  BY <1>2, <1>5 DEF Starts
<1>7. \A x \in Ends : PredWord(x) \in Words
  BY <1>2, <1>5 DEF Ends, TailPredOf
<1>8. \A x, y \in Starts : SuccWord(x) = SuccWord(y) => x = y
  BY <1>3
<1>9. \A x, y \in Ends : PredWord(x) = PredWord(y) => x = y
  BY <1>4
<1>10. \A x \in Starts, y \in Ends : SuccWord(x) # PredWord(y)
  BY <1>3, <1>4
<1>11. \A x \in Starts, l \in Lists : SuccWord(x) # TailOf(l)
  BY <1>3 DEF TailOf
<1>12. \A x \in Ends, l \in Lists : PredWord(x) # TailOf(l)
  BY <1>4 DEF TailOf
<1> QED BY <1>5, <1>6, <1>7, <1>8, <1>9, <1>10, <1>11, <1>12

\* The places of the lists: addresses, none at 0, each at one place of one list.
LEMMA PlacesApart ==
    ASSUME NEW w, NEW ss, Represents(w, ss)
    PROVE  /\ \A l \in Lists : \A i \in 0..Len(ss[l]) : Place(l, ss[l], i) \in Starts
           /\ \A l \in Lists : \A i \in 1..(Len(ss[l]) + 1) : Place(l, ss[l], i) \in Ends
           /\ \A l \in Lists : \A i \in 0..(Len(ss[l]) + 1) : Place(l, ss[l], i) # Null
           /\ \A l, m \in Lists : \A i \in 0..Len(ss[l]) : \A j \in 0..Len(ss[m]) :
                Place(l, ss[l], i) = Place(m, ss[m], j) => l = m /\ i = j
           /\ \A l, m \in Lists : \A i \in 1..(Len(ss[l]) + 1) : \A j \in 1..(Len(ss[m]) + 1) :
                Place(l, ss[l], i) = Place(m, ss[m], j) => l = m /\ i = j
<1>1. \A l \in Lists : ss[l] \in Seq(Nodes) /\ Len(ss[l]) \in Nat
  BY DEF Represents
<1>2. \A l \in Lists : /\ HeadOf(l) \notin Nodes \cup {Null} /\ TailOf(l) \notin Nodes \cup {Null}
                       /\ HeadOf(l) \in Starts /\ TailOf(l) \in Ends
  BY AddressAssumption DEF Starts, Ends
<1>3. \A l, m \in Lists : (HeadOf(l) = HeadOf(m) => l = m) /\ (TailOf(l) = TailOf(m) => l = m)
  BY DEF HeadOf, TailOf
<1>4. \A l \in Lists : \A i \in 1..Len(ss[l]) :
            ss[l][i] \in Nodes /\ ss[l][i] # Null /\ ss[l][i] \in Starts \cap Ends
  BY <1>1, NullAssumption DEF Starts, Ends
<1>5. \A l \in Lists : /\ Place(l, ss[l], 0) = HeadOf(l)
                       /\ Place(l, ss[l], Len(ss[l]) + 1) = TailOf(l)
                       /\ \A i \in 1..Len(ss[l]) : Place(l, ss[l], i) = ss[l][i]
  BY <1>1 DEF Place
<1>6. \A l \in Lists : \A i \in 0..Len(ss[l]) : Place(l, ss[l], i) \in Starts
  <2> SUFFICES ASSUME NEW l \in Lists, NEW i \in 0..Len(ss[l])
               PROVE  Place(l, ss[l], i) \in Starts
    OBVIOUS
  <2>1. i = 0 \/ i \in 1..Len(ss[l])
    BY <1>1
  <2> QED BY <1>2, <1>4, <1>5, <2>1
<1>7. \A l \in Lists : \A i \in 1..(Len(ss[l]) + 1) : Place(l, ss[l], i) \in Ends
  <2> SUFFICES ASSUME NEW l \in Lists, NEW i \in 1..(Len(ss[l]) + 1)
               PROVE  Place(l, ss[l], i) \in Ends
    OBVIOUS
  <2>1. i = Len(ss[l]) + 1 \/ i \in 1..Len(ss[l])
    BY <1>1
  <2> QED BY <1>2, <1>4, <1>5, <2>1
<1>8. \A l \in Lists : \A i \in 0..(Len(ss[l]) + 1) : Place(l, ss[l], i) # Null
  <2> SUFFICES ASSUME NEW l \in Lists, NEW i \in 0..(Len(ss[l]) + 1)
               PROVE  Place(l, ss[l], i) # Null
    OBVIOUS
  <2>1. i = 0 \/ i = Len(ss[l]) + 1 \/ i \in 1..Len(ss[l])
    BY <1>1
  <2> QED BY <1>2, <1>4, <1>5, <2>1
<1>9. ASSUME NEW l \in Lists, NEW m \in Lists, NEW i \in 0..Len(ss[l]), NEW j \in 0..Len(ss[m]),
             Place(l, ss[l], i) = Place(m, ss[m], j)
      PROVE  l = m /\ i = j
  <2>1. i = 0 \/ i \in 1..Len(ss[l])
    BY <1>1
  <2>2. j = 0 \/ j \in 1..Len(ss[m])
    BY <1>1
  <2>3. CASE i = 0
    BY <1>2, <1>3, <1>4, <1>5, <1>9, <2>2, <2>3
  <2>4. CASE i \in 1..Len(ss[l])
    <3>1. j # 0
      BY <1>2, <1>4, <1>5, <1>9, <2>4
    <3> QED BY <1>5, <1>9, <2>2, <2>4, <3>1 DEF Represents
  <2> QED BY <2>1, <2>3, <2>4
<1>10. ASSUME NEW l \in Lists, NEW m \in Lists, NEW i \in 1..(Len(ss[l]) + 1),
              NEW j \in 1..(Len(ss[m]) + 1), Place(l, ss[l], i) = Place(m, ss[m], j)
      PROVE  l = m /\ i = j
  <2>1. i = Len(ss[l]) + 1 \/ i \in 1..Len(ss[l])
    BY <1>1
  <2>2. j = Len(ss[m]) + 1 \/ j \in 1..Len(ss[m])
    BY <1>1
  <2>3. CASE i = Len(ss[l]) + 1
    BY <1>2, <1>3, <1>4, <1>5, <1>10, <2>2, <2>3
  <2>4. CASE i \in 1..Len(ss[l])
    <3>1. j # Len(ss[m]) + 1
      BY <1>2, <1>4, <1>5, <1>10, <2>4
    <3> QED BY <1>5, <1>10, <2>2, <2>4, <3>1 DEF Represents
  <2> QED BY <2>1, <2>3, <2>4
<1> QED BY <1>6, <1>7, <1>8, <1>9, <1>10

\* What a list stands for is what both iterations over it give.
LEMMA WalkIs ==
    ASSUME NEW w, NEW ss, Represents(w, ss), NEW l \in Lists
    PROVE  /\ Walk(w, l) = ss[l]
           /\ WalkBack(w, l) = Reverse(ss[l])
           /\ w[TailOf(l)] = Null
<1> DEFINE s == ss[l]
           n == Len(s)
           at(i) == Place(l, s, i)
<1>1. s \in Seq(Nodes) /\ n \in Nat /\ Linked(w, l, s)
  BY DEF Represents
<1>2. /\ \A i \in 1..n : at(i) = s[i] /\ s[i] \in Nodes
      /\ at(0) = HeadOf(l) /\ at(n + 1) = TailOf(l)
  BY <1>1 DEF Place
<1>3. \A i \in 0..(n + 1) : at(i) # Null
  BY PlacesApart
<1>4. \A i \in 0..(n + 1) : at(i) \in Addresses
  <2> SUFFICES ASSUME NEW i \in 0..(n + 1) PROVE at(i) \in Addresses
    OBVIOUS
  <2>1. i = 0 \/ i = n + 1 \/ i \in 1..n
    BY <1>1
  <2> QED BY <1>2, <2>1 DEF Addresses
<1>5. /\ w[TailOf(l)] = Null
      /\ \A i \in 0..n : succ(w, at(i)) = at(i + 1) /\ pred(w, at(i + 1)) = at(i)
  BY <1>1 DEF Linked
<1>6. succ(w, TailOf(l)) = Null /\ pred(w, HeadOf(l)) = Null
  <2>1. HeadOf(l) \notin Nodes /\ TailOf(l) \notin Nodes
    BY AddressAssumption
  <2>2. SuccWord(TailOf(l)) = TailOf(l)
    BY <2>1 DEF SuccWord
  <2>3. PredWord(HeadOf(l)) = TailOf(l)
    BY <2>1 DEF PredWord, HeadOf
  <2> QED BY <1>5, <2>2, <2>3 DEF succ, pred
<1> HIDE DEF at
<1>7. n <= Cardinality(Nodes)
  <2>1. s \in [1..n -> Nodes]
    BY <1>1
  <2>2. \A i, j \in 1..n : s[i] = s[j] => i = j
    BY DEF Represents
  <2>3. s \in Injection(1..n, Nodes)
    BY <2>1, <2>2 DEF Injection, IsInjective
  <2>4. Cardinality(1..n) <= Cardinality(Nodes)
    BY <2>3, NodesAssumption, FS_Injection
  <2>5. Cardinality(1..n) = n
    BY <1>1, FS_Interval
  <2> QED BY <2>4, <2>5
<1>8. Walk(w, l) = s
  <2> DEFINE next == SuccOf(w)
             x == HeadOf(l)
  <2>1. \A i \in 0..n : next[at(i)] = at(i + 1)
    BY <1>1, <1>4, <1>5 DEF SuccOf
  <2>2. next[TailOf(l)] = Null
    BY <1>6 DEF SuccOf, Addresses
  <2> HIDE DEF next
  <2>3. \A i \in 0..n : at(i) = IF i = 0 THEN x ELSE s[i]
    BY <1>1, <1>2
  <2>4. \A i \in 0..n : i # n => next[IF i = 0 THEN x ELSE s[i]] = s[i + 1]
    <3> SUFFICES ASSUME NEW i \in 0..n, i # n
                 PROVE  next[at(i)] = s[i + 1]
      BY <2>3
    <3>1. i + 1 \in 1..n
      BY <1>1
    <3> QED BY <1>2, <2>1, <3>1
  <2>5. \A i \in 1..n : next[s[i]] # Null
    <3> SUFFICES ASSUME NEW i \in 1..n
                 PROVE  next[s[i]] # Null
      OBVIOUS
    <3>1. i \in 0..n /\ i + 1 \in 0..(n + 1)
      BY <1>1
    <3> QED BY <1>2, <1>3, <2>1, <3>1
  <2>6. next[next[IF n = 0 THEN x ELSE s[n]]] = Null
    <3>1. n \in 0..n /\ (IF n = 0 THEN x ELSE s[n]) = at(n)
      BY <1>1, <2>3
    <3>2. next[at(n)] = TailOf(l)
      BY <1>2, <2>1, <3>1
    <3> QED BY <2>2, <3>1, <3>2
  <2> HIDE DEF x
  <2>7. Followed(next, x) = s
    BY <1>1, <1>7, <2>4, <2>5, <2>6, FollowedIs
  <2> QED BY <2>7 DEF Walk, next, x
<1>9. WalkBack(w, l) = Reverse(s)
  <2> DEFINE next == PredOf(w)
             x == TailOf(l)
             r == Reverse(s)
  <2>0. /\ r \in Seq(Nodes) /\ Len(r) = n
        /\ \A i \in 1..n : r[i] = s[(n - i) + 1]
    BY <1>1 DEF Reverse
  <2>1. \A i \in 0..n : next[at(i + 1)] = at(i)
    <3> TAKE i \in 0..n
    <3>1. i + 1 \in 0..(n + 1)
      BY <1>1
    <3> QED BY <1>4, <1>5, <3>1 DEF PredOf
  <2>2. next[HeadOf(l)] = Null
    BY <1>6 DEF PredOf, Addresses
  <2> HIDE DEF next, r
  <2>3. \A i \in 0..n : at((n - i) + 1) = IF i = 0 THEN x ELSE r[i]
    <3> TAKE i \in 0..n
    <3>1. CASE i = 0
      BY <1>1, <1>2, <3>1
    <3>2. CASE i # 0
      <4>1. i \in 1..n /\ (n - i) + 1 \in 1..n
        BY <1>1, <3>2
      <4> QED BY <1>2, <2>0, <3>2, <4>1
    <3> QED BY <3>1, <3>2
  <2>4. \A i \in 0..n : i # n => next[IF i = 0 THEN x ELSE r[i]] = r[i + 1]
    <3> SUFFICES ASSUME NEW i \in 0..n, i # n
                 PROVE  next[at((n - i) + 1)] = r[i + 1]
      BY <2>3
    <3>1. i + 1 \in 1..n /\ n - i \in 0..n /\ n - i \in 1..n /\ (n - (i + 1)) + 1 = n - i
      BY <1>1
    <3>2. next[at((n - i) + 1)] = at(n - i)
      BY <2>1, <3>1
    <3> QED BY <1>2, <2>0, <3>1, <3>2
  <2>5. \A i \in 1..n : next[r[i]] # Null
    <3> SUFFICES ASSUME NEW i \in 1..n
                 PROVE  next[r[i]] # Null
      OBVIOUS
    <3>1. i \in 0..n /\ i # 0 /\ n - i \in 0..n /\ n - i \in 0..(n + 1)
      BY <1>1
    <3>2. r[i] = at((n - i) + 1)
      BY <2>3, <3>1
    <3> QED BY <1>3, <2>1, <3>1, <3>2
  <2>6. next[next[IF n = 0 THEN x ELSE r[n]]] = Null
    <3>1. n \in 0..n /\ (n - n) + 1 = 0 + 1 /\ 0 \in 0..n
      BY <1>1
    <3>2. (IF n = 0 THEN x ELSE r[n]) = at(0 + 1)
      BY <2>3, <3>1
    <3>3. next[at(0 + 1)] = HeadOf(l)
      BY <1>2, <2>1, <3>1
    <3> QED BY <2>2, <3>2, <3>3
  <2> HIDE DEF x
  <2>7. Followed(next, x) = r
    <3>1. Len(r) <= Cardinality(Nodes)
      BY <1>7, <2>0
    <3>2. \A i \in 0..Len(r) : i # Len(r) => next[IF i = 0 THEN x ELSE r[i]] = r[i + 1]
      BY <2>0, <2>4
    <3>3. next[next[IF Len(r) = 0 THEN x ELSE r[Len(r)]]] = Null
      BY <2>0, <2>6
    <3>4. \A i \in 1..Len(r) : next[r[i]] # Null
      BY <2>0, <2>5
    <3>5. r \in Seq(Nodes)
      BY <2>0
    <3> QED BY <3>1, <3>2, <3>3, <3>4, <3>5, FollowedIs, Zenon
  <2> QED BY <2>7 DEF WalkBack, next, x, r
<1> QED BY <1>5, <1>8, <1>9

-----------------------------------------------------------------------------
(* Putting a node in, and taking one out.                                   *)

\* no link changes but those from a to n to b and back
OnlyAround(w, w2, a, n, b) ==
    \A x \in Words \ {SuccWord(a), PredWord(n), SuccWord(n), PredWord(b)} : w2[x] = w[x]

\* n is linked in between a and b
LinkedIn(w, w2, a, n, b) ==
    /\ w2 = [x \in Words |-> w2[x]]
    /\ succ(w2, a) = n /\ pred(w2, n) = a /\ succ(w2, n) = b /\ pred(w2, b) = n
    /\ OnlyAround(w, w2, a, n, b)

\* a and b are linked past n; what the links of n are then is left open
TakenOut(w, w2, a, n, b) ==
    /\ w2 = [x \in Words |-> w2[x]]
    /\ succ(w2, a) = b /\ pred(w2, b) = a
    /\ OnlyAround(w, w2, a, n, b)

Free(ss, n) == n \in Nodes /\ \A l \in Lists : \A i \in 1..Len(ss[l]) : ss[l][i] # n

\* The places of a sequence with one node more, and with one node less.
LEMMA PlacesInserted ==
    ASSUME NEW l \in Lists, NEW s \in Seq(Nodes), NEW n \in Nodes, NEW k \in 1..(Len(s) + 1)
    PROVE  /\ InsertAt(s, k, n) \in Seq(Nodes) /\ Len(InsertAt(s, k, n)) = Len(s) + 1
           /\ \A i \in 0..(Len(s) + 2) :
                Place(l, InsertAt(s, k, n), i) =
                                 IF i < k THEN Place(l, s, i)
                                 ELSE IF i = k THEN n ELSE Place(l, s, i - 1)
<1> DEFINE r == InsertAt(s, k, n)
<1>1. /\ r \in Seq(Nodes) /\ Len(r) = Len(s) + 1 /\ Len(s) \in Nat
      /\ \A i \in 1..(k - 1) : r[i] = s[i]
      /\ r[k] = n
      /\ \A i \in (k + 1)..(Len(s) + 1) : r[i] = s[i - 1]
  <2>1. /\ r \in Seq(Nodes) /\ Len(r) = Len(s) + 1 /\ r[k] = n
    BY InsertAtFacts
  <2>2. Len(s) \in Nat
    OBVIOUS
  <2>3. \A i \in 1..(k - 1) : r[i] = s[i]
    BY InsertAtFacts
  <2>4. \A i \in (k + 1)..(Len(s) + 1) : r[i] = s[i - 1]
    BY InsertAtFacts
  <2> QED BY <2>1, <2>2, <2>3, <2>4
<1> HIDE DEF r
<1>2. ASSUME NEW i \in 0..(Len(s) + 2)
      PROVE  Place(l, r, i) = IF i < k THEN Place(l, s, i)
                              ELSE IF i = k THEN n ELSE Place(l, s, i - 1)
  <2>1. CASE i < k
    <3>1. i = 0 \/ (i \in 1..(k - 1) /\ i # 0 /\ i <= Len(r) /\ i <= Len(s))
      BY <1>1, <2>1
    <3> QED BY <1>1, <2>1, <3>1 DEF Place
  <2>2. CASE i = k
    BY <1>1, <2>2 DEF Place
  <2>3. CASE i > k
    <3>1. i # 0 /\ i - 1 # 0
      BY <2>3
    <3>2. CASE i = Len(s) + 2
      BY <1>1, <2>3, <3>1, <3>2 DEF Place
    <3>3. CASE i # Len(s) + 2
      <4>1. i \in (k + 1)..(Len(s) + 1) /\ i <= Len(r) /\ i - 1 <= Len(s)
        BY <1>1, <2>3, <3>3
      <4> QED BY <1>1, <2>3, <3>1, <4>1 DEF Place
    <3> QED BY <3>2, <3>3
  <2> QED BY <1>1, <2>1, <2>2, <2>3
<1> QED BY <1>1, <1>2 DEF r

\* what RemoveAt() leaves of the places
LEMMA PlacesRemoved ==
    ASSUME NEW l \in Lists, NEW s \in Seq(Nodes), NEW k \in 1..Len(s)
    PROVE  /\ RemoveAt(s, k) \in Seq(Nodes) /\ Len(RemoveAt(s, k)) = Len(s) - 1
           /\ \A i \in 0..Len(s) :
                Place(l, RemoveAt(s, k), i) =
                                 IF i < k THEN Place(l, s, i) ELSE Place(l, s, i + 1)
<1> DEFINE r == RemoveAt(s, k)
<1>1. /\ r \in Seq(Nodes) /\ Len(r) = Len(s) - 1 /\ Len(s) \in Nat
      /\ \A i \in 1..(Len(s) - 1) : r[i] = IF i < k THEN s[i] ELSE s[i + 1]
  BY RemoveAtFacts
<1> HIDE DEF r
<1>2. ASSUME NEW i \in 0..Len(s)
      PROVE  Place(l, r, i) = IF i < k THEN Place(l, s, i) ELSE Place(l, s, i + 1)
  <2>1. CASE i = 0
    BY <1>1, <2>1 DEF Place
  <2>2. CASE i = Len(s)
    <3>1. i # 0 /\ i + 1 # 0 /\ ~(i < k) /\ ~(i <= Len(r)) /\ ~(i + 1 <= Len(s))
      BY <1>1, <2>2
    <3> QED BY <3>1 DEF Place
  <2>3. CASE i # 0 /\ i # Len(s)
    <3>1. i \in 1..(Len(s) - 1) /\ i <= Len(r) /\ i <= Len(s) /\ i + 1 <= Len(s) /\ i + 1 # 0
      BY <1>1, <2>3
    <3> QED BY <1>1, <2>3, <3>1 DEF Place
  <2> QED BY <2>1, <2>2, <2>3
<1> QED BY <1>1, <1>2 DEF r

\* A step that changes no link that goes out from x, or that leads to it.
LEMMA WordsKept ==
    ASSUME NEW w, NEW w2, NEW a \in Starts, NEW n \in Nodes, NEW b \in Ends,
           OnlyAround(w, w2, a, n, b)
    PROVE  /\ \A x \in Starts : x # a /\ x # n => succ(w2, x) = succ(w, x)
           /\ \A x \in Ends : x # b /\ x # n => pred(w2, x) = pred(w, x)
           /\ \A l \in Lists : w2[TailOf(l)] = w[TailOf(l)]
<1>0. n \in Starts /\ n \in Ends
  BY DEF Starts, Ends
<1>1. ASSUME NEW x \in Starts, x # a, x # n
      PROVE  succ(w2, x) = succ(w, x)
  <2>1. SuccWord(x) \in Words \ {SuccWord(a), PredWord(n), SuccWord(n), PredWord(b)}
    BY <1>0, <1>1, WordsApart
  <2> QED BY <2>1 DEF succ, OnlyAround
<1>2. ASSUME NEW x \in Ends, x # b, x # n
      PROVE  pred(w2, x) = pred(w, x)
  <2>1. PredWord(x) \in Words \ {SuccWord(a), PredWord(n), SuccWord(n), PredWord(b)}
    BY <1>0, <1>2, WordsApart
  <2> QED BY <2>1 DEF pred, OnlyAround
<1>3. ASSUME NEW l \in Lists
      PROVE  w2[TailOf(l)] = w[TailOf(l)]
  <2>1. TailOf(l) \in Words \ {SuccWord(a), PredWord(n), SuccWord(n), PredWord(b)}
    BY <1>0, WordsApart
  <2> QED BY <2>1 DEF OnlyAround
<1> QED BY <1>1, <1>2, <1>3

\* A node of no list goes in at a place of one list; no other list is disturbed.
LEMMA InsertKeeps ==
    ASSUME NEW w, NEW w2, NEW ss, Represents(w, ss), NEW l \in Lists, NEW n, Free(ss, n),
           NEW k \in 1..(Len(ss[l]) + 1),
           LinkedIn(w, w2, Place(l, ss[l], k - 1), n, Place(l, ss[l], k))
    PROVE  Represents(w2, [ss EXCEPT ![l] = InsertAt(@, k, n)])
<1> DEFINE s == ss[l]
           q == InsertAt(s, k, n)
           tt == [ss EXCEPT ![l] = q]
           a == Place(l, s, k - 1)
           b == Place(l, s, k)
<1>1. /\ s \in Seq(Nodes) /\ Len(s) \in Nat /\ n \in Nodes /\ ss \in [Lists -> Seq(Nodes)]
      /\ \A m \in Lists : ss[m] \in Seq(Nodes) /\ Len(ss[m]) \in Nat
  BY DEF Represents, Free
<1>2. /\ q \in Seq(Nodes) /\ Len(q) = Len(s) + 1
      /\ \A i \in 0..(Len(s) + 2) :
            Place(l, q, i) = IF i < k THEN Place(l, s, i)
                             ELSE IF i = k THEN n ELSE Place(l, s, i - 1)
  BY <1>1, PlacesInserted
<1> HIDE DEF q
<1>3. /\ tt \in [Lists -> Seq(Nodes)] /\ tt[l] = q
      /\ \A m \in Lists : m # l => tt[m] = ss[m]
  BY <1>1, <1>2
<1>4. a \in Starts /\ b \in Ends /\ k - 1 \in 0..Len(s)
  BY <1>1, PlacesApart
<1>5. /\ succ(w2, a) = n /\ pred(w2, n) = a /\ succ(w2, n) = b /\ pred(w2, b) = n
      /\ w2 = [x \in Words |-> w2[x]]
  BY DEF LinkedIn
<1>6. /\ \A x \in Starts : x # a /\ x # n => succ(w2, x) = succ(w, x)
      /\ \A x \in Ends : x # b /\ x # n => pred(w2, x) = pred(w, x)
      /\ \A m \in Lists : w2[TailOf(m)] = w[TailOf(m)]
  <2>1. OnlyAround(w, w2, a, n, b)
    BY DEF LinkedIn
  <2> HIDE DEF a, b
  <2>2. a \in Starts /\ b \in Ends /\ n \in Nodes
    BY <1>1, <1>4
  <2> QED BY <2>1, <2>2, WordsKept
<1>7. \A m \in Lists : \A i \in 0..(Len(ss[m]) + 1) : Place(m, ss[m], i) # n
  <2> TAKE m \in Lists
  <2> TAKE i \in 0..(Len(ss[m]) + 1)
  <2>1. HeadOf(m) # n /\ TailOf(m) # n
    BY <1>1, AddressAssumption
  <2>2. CASE i \in 1..Len(ss[m])
    <3>1. ss[m][i] # n /\ i # 0 /\ i <= Len(ss[m])
      BY <1>1, <2>2 DEF Free
    <3> QED BY <3>1 DEF Place
  <2>3. CASE i \notin 1..Len(ss[m])
    <3>1. Place(m, ss[m], i) = HeadOf(m) \/ Place(m, ss[m], i) = TailOf(m)
      BY <1>1, <2>3 DEF Place
    <3> QED BY <2>1, <3>1
  <2> QED BY <2>2, <2>3
<1>8. \A m \in Lists : \A i \in 0..Len(ss[m]) :
            /\ (m # l \/ i # k - 1) =>
                    succ(w2, Place(m, ss[m], i)) = Place(m, ss[m], i + 1)
            /\ (m # l \/ i + 1 # k) =>
                    pred(w2, Place(m, ss[m], i + 1)) = Place(m, ss[m], i)
  <2> TAKE m \in Lists
  <2> TAKE i \in 0..Len(ss[m])
  <2>1. i + 1 \in 1..(Len(ss[m]) + 1) /\ i \in 0..(Len(ss[m]) + 1) /\ i + 1 \in 0..(Len(ss[m]) + 1)
    BY <1>1
  <2>2. /\ succ(w, Place(m, ss[m], i)) = Place(m, ss[m], i + 1)
        /\ pred(w, Place(m, ss[m], i + 1)) = Place(m, ss[m], i)
    BY DEF Represents, Linked
  <2>3. Place(m, ss[m], i) \in Starts /\ Place(m, ss[m], i + 1) \in Ends
    BY <2>1, PlacesApart
  <2>4. Place(m, ss[m], i) # n /\ Place(m, ss[m], i + 1) # n
    BY <1>7, <2>1
  <2>5. (m # l \/ i # k - 1) => Place(m, ss[m], i) # a
    BY <1>4, PlacesApart
  <2>6. (m # l \/ i + 1 # k) => Place(m, ss[m], i + 1) # b
    BY <2>1, PlacesApart
  <2> QED BY <1>6, <2>2, <2>3, <2>4, <2>5, <2>6
<1>9. \A m \in Lists : w2[TailOf(m)] = Null
  BY <1>6 DEF Represents, Linked
<1>10. ASSUME NEW m \in Lists, m # l
       PROVE  Linked(w2, m, tt[m])
  BY <1>3, <1>8, <1>9, <1>10 DEF Linked
<1>11. Linked(w2, l, q)
  <2> SUFFICES ASSUME NEW i \in 0..Len(q)
               PROVE  /\ succ(w2, Place(l, q, i)) = Place(l, q, i + 1)
                      /\ pred(w2, Place(l, q, i + 1)) = Place(l, q, i)
    BY <1>9 DEF Linked
  <2>0. i \in 0..(Len(s) + 2) /\ i + 1 \in 0..(Len(s) + 2) /\ i + 1 - 1 = i /\ k - 1 + 1 = k
    BY <1>1, <1>2
  <2>1. CASE i < k - 1
    <3>1. i \in 0..Len(s) /\ i # k - 1 /\ i + 1 # k /\ i < k /\ i + 1 < k
      BY <1>1, <1>2, <2>1
    <3>2. Place(l, q, i) = Place(l, s, i) /\ Place(l, q, i + 1) = Place(l, s, i + 1)
      BY <1>2, <2>0, <3>1
    <3> QED BY <1>8, <3>1, <3>2
  <2>2. CASE i = k - 1
    <3>1. i < k /\ i + 1 = k /\ ~(i + 1 < k)
      BY <2>2
    <3>2. Place(l, q, i) = a /\ Place(l, q, i + 1) = n
      BY <1>2, <2>0, <2>2, <3>1
    <3> QED BY <1>5, <3>2
  <2>3. CASE i = k
    <3>1. ~(i < k) /\ i + 1 # k /\ ~(i + 1 < k)
      BY <2>3
    <3>2. Place(l, q, i) = n /\ Place(l, q, i + 1) = b
      BY <1>2, <2>0, <2>3, <3>1
    <3> QED BY <1>5, <3>2
  <2>4. CASE i > k
    <3>1. /\ i - 1 \in 0..Len(s) /\ i - 1 # k - 1 /\ i - 1 + 1 # k /\ i - 1 + 1 = i
          /\ ~(i < k) /\ i # k /\ i + 1 # k /\ ~(i + 1 < k)
      BY <1>1, <1>2, <2>4
    <3>2. Place(l, q, i) = Place(l, s, i - 1) /\ Place(l, q, i + 1) = Place(l, s, i)
      BY <1>2, <2>0, <3>1
    <3>3. /\ succ(w2, Place(l, s, i - 1)) = Place(l, s, i)
          /\ pred(w2, Place(l, s, i)) = Place(l, s, i - 1)
      BY <1>8, <3>1
    <3> QED BY <3>2, <3>3
  <2> QED BY <2>1, <2>2, <2>3, <2>4
<1> DEFINE old(i) == IF i < k THEN i ELSE i - 1
<1>12. /\ k \in 1..Len(q) /\ q[k] = n
       /\ \A i \in 1..Len(q) : i # k => old(i) \in 1..Len(s) /\ q[i] = s[old(i)]
  <2>1. k \in 1..Len(q) /\ k \in 0..(Len(s) + 2) /\ ~(k < k) /\ k # 0 /\ k <= Len(q)
    BY <1>1, <1>2
  <2>2. q[k] = n
    BY <1>2, <2>1 DEF Place
  <2>3. ASSUME NEW i \in 1..Len(q), i # k
        PROVE  old(i) \in 1..Len(s) /\ q[i] = s[old(i)]
    <3>1. /\ i \in 0..(Len(s) + 2) /\ i # 0 /\ i <= Len(q) /\ old(i) \in 1..Len(s)
          /\ old(i) # 0 /\ old(i) <= Len(s)
      BY <1>1, <1>2, <2>3
    <3>2. Place(l, q, i) = Place(l, s, old(i))
      BY <1>2, <2>3, <3>1
    <3> QED BY <3>1, <3>2 DEF Place
  <2> QED BY <2>1, <2>2, <2>3
<1> HIDE DEF old
<1>13. \A m \in Lists : \A i \in 1..Len(ss[m]) : ss[m][i] # n
  BY DEF Free
<1>14. \A m, p \in Lists : \A i \in 1..Len(ss[m]) : \A j \in 1..Len(ss[p]) :
            ss[m][i] = ss[p][j] => m = p /\ i = j
  BY DEF Represents
<1>15. ASSUME NEW m \in Lists, NEW p \in Lists, NEW i \in 1..Len(tt[m]), NEW j \in 1..Len(tt[p]),
              tt[m][i] = tt[p][j]
       PROVE  m = p /\ i = j
  <2>1. CASE m # l /\ p # l
    BY <1>3, <1>14, <1>15, <2>1
  <2>2. CASE m # l /\ p = l
    <3>1. i \in 1..Len(ss[m]) /\ j \in 1..Len(q) /\ ss[m][i] = q[j]
      BY <1>3, <1>15, <2>2
    <3>2. j # k
      BY <1>12, <1>13, <3>1
    <3>3. old(j) \in 1..Len(ss[l]) /\ ss[m][i] = ss[l][old(j)]
      BY <1>12, <3>1, <3>2
    <3> QED BY <1>14, <2>2, <3>1, <3>3
  <2>3. CASE m = l /\ p # l
    <3>1. i \in 1..Len(q) /\ j \in 1..Len(ss[p]) /\ q[i] = ss[p][j]
      BY <1>3, <1>15, <2>3
    <3>2. i # k
      BY <1>12, <1>13, <3>1
    <3>3. old(i) \in 1..Len(ss[l]) /\ ss[p][j] = ss[l][old(i)]
      BY <1>12, <3>1, <3>2
    <3> QED BY <1>14, <2>3, <3>1, <3>3
  <2>4. CASE m = l /\ p = l
    <3>1. i \in 1..Len(q) /\ j \in 1..Len(q) /\ q[i] = q[j]
      BY <1>3, <1>15, <2>4
    <3>2. CASE i = k \/ j = k
      BY <1>12, <1>13, <2>4, <3>1, <3>2
    <3>3. CASE i # k /\ j # k
      <4>1. s[old(i)] = s[old(j)] /\ old(i) \in 1..Len(s) /\ old(j) \in 1..Len(s)
        BY <1>12, <3>1, <3>3
      <4>2. old(i) = old(j)
        BY <1>14, <4>1
      <4>3. i = j
        BY <1>1, <1>2, <3>1, <3>3, <4>2 DEF old
      <4> QED BY <2>4, <4>3
    <3> QED BY <3>2, <3>3
  <2> QED BY <2>1, <2>2, <2>3, <2>4
<1>16. Represents(w2, tt)
  BY <1>3, <1>5, <1>10, <1>11, <1>15 DEF Represents
<1> QED BY <1>16 DEF q

\* A node is taken out of a list; no other list is disturbed.
LEMMA RemoveKeeps ==
    ASSUME NEW w, NEW w2, NEW ss, Represents(w, ss), NEW l \in Lists, NEW k \in 1..Len(ss[l]),
           TakenOut(w, w2, Place(l, ss[l], k - 1), ss[l][k], Place(l, ss[l], k + 1))
    PROVE  Represents(w2, [ss EXCEPT ![l] = RemoveAt(@, k)])
<1> DEFINE s == ss[l]
           q == RemoveAt(s, k)
           tt == [ss EXCEPT ![l] = q]
           n == s[k]
           a == Place(l, s, k - 1)
           b == Place(l, s, k + 1)
<1>1. /\ s \in Seq(Nodes) /\ Len(s) \in Nat /\ ss \in [Lists -> Seq(Nodes)]
      /\ \A m \in Lists : ss[m] \in Seq(Nodes) /\ Len(ss[m]) \in Nat
  BY DEF Represents
<1>2. /\ q \in Seq(Nodes) /\ Len(q) = Len(s) - 1
      /\ \A i \in 0..Len(s) :
            Place(l, q, i) = IF i < k THEN Place(l, s, i) ELSE Place(l, s, i + 1)
  BY <1>1, PlacesRemoved
<1>0. \A i \in 1..(Len(s) - 1) : q[i] = IF i < k THEN s[i] ELSE s[i + 1]
  BY <1>1, RemoveAtFacts
<1> HIDE DEF q
<1>3. /\ tt \in [Lists -> Seq(Nodes)] /\ tt[l] = q
      /\ \A m \in Lists : m # l => tt[m] = ss[m]
  BY <1>1, <1>2
<1>4. /\ k - 1 \in 0..Len(s) /\ k \in 0..Len(s) /\ k \in 1..(Len(s) + 1) /\ k + 1 \in 1..(Len(s) + 1)
      /\ n \in Nodes /\ n = Place(l, s, k)
  BY <1>1 DEF Place
<1>5. a \in Starts /\ b \in Ends
  BY <1>4, PlacesApart
<1>6. succ(w2, a) = b /\ pred(w2, b) = a /\ w2 = [x \in Words |-> w2[x]]
  BY DEF TakenOut
<1>7. /\ \A x \in Starts : x # a /\ x # n => succ(w2, x) = succ(w, x)
      /\ \A x \in Ends : x # b /\ x # n => pred(w2, x) = pred(w, x)
      /\ \A m \in Lists : w2[TailOf(m)] = w[TailOf(m)]
  <2>1. OnlyAround(w, w2, a, n, b)
    BY DEF TakenOut
  <2>2. a \in Starts /\ b \in Ends /\ n \in Nodes
    BY <1>4, <1>5
  <2> HIDE DEF a, b, n
  <2> QED BY <2>1, <2>2, WordsKept
<1>8. \A m \in Lists : \A i \in 0..Len(ss[m]) : (m # l \/ (i # k - 1 /\ i # k)) =>
            /\ succ(w2, Place(m, ss[m], i)) = Place(m, ss[m], i + 1)
            /\ pred(w2, Place(m, ss[m], i + 1)) = Place(m, ss[m], i)
  <2> SUFFICES ASSUME NEW m \in Lists, NEW i \in 0..Len(ss[m]), m # l \/ (i # k - 1 /\ i # k)
               PROVE  /\ succ(w2, Place(m, ss[m], i)) = Place(m, ss[m], i + 1)
                      /\ pred(w2, Place(m, ss[m], i + 1)) = Place(m, ss[m], i)
    OBVIOUS
  <2>1. i + 1 \in 1..(Len(ss[m]) + 1) /\ (m # l \/ (i + 1 # k /\ i + 1 # k + 1))
    BY <1>1
  <2>2. /\ succ(w, Place(m, ss[m], i)) = Place(m, ss[m], i + 1)
        /\ pred(w, Place(m, ss[m], i + 1)) = Place(m, ss[m], i)
    BY DEF Represents, Linked
  <2>3. Place(m, ss[m], i) \in Starts /\ Place(m, ss[m], i + 1) \in Ends
    BY <2>1, PlacesApart
  <2>4. Place(m, ss[m], i) # a /\ Place(m, ss[m], i) # n
    BY <1>4, PlacesApart
  <2>5. Place(m, ss[m], i + 1) # b /\ Place(m, ss[m], i + 1) # n
    BY <1>4, <2>1, PlacesApart
  <2> QED BY <1>7, <2>2, <2>3, <2>4, <2>5
<1>9. \A m \in Lists : w2[TailOf(m)] = Null
  BY <1>7 DEF Represents, Linked
<1>10. ASSUME NEW m \in Lists, m # l
       PROVE  Linked(w2, m, tt[m])
  BY <1>3, <1>8, <1>9, <1>10 DEF Linked
<1>11. Linked(w2, l, q)
  <2> SUFFICES ASSUME NEW i \in 0..Len(q)
               PROVE  /\ succ(w2, Place(l, q, i)) = Place(l, q, i + 1)
                      /\ pred(w2, Place(l, q, i + 1)) = Place(l, q, i)
    BY <1>9 DEF Linked
  <2>0. i \in 0..Len(s) /\ i + 1 \in 0..Len(s)
    BY <1>1, <1>2
  <2>1. CASE i < k - 1
    <3>1. i # k - 1 /\ i # k /\ i < k /\ i + 1 < k
      BY <2>1
    <3>2. Place(l, q, i) = Place(l, s, i) /\ Place(l, q, i + 1) = Place(l, s, i + 1)
      BY <1>2, <2>0, <3>1
    <3> QED BY <1>8, <2>0, <3>1, <3>2
  <2>2. CASE i = k - 1
    <3>1. i < k /\ i + 1 = k /\ ~(i + 1 < k)
      BY <2>2
    <3>2. Place(l, q, i) = a /\ Place(l, q, i + 1) = b
      BY <1>2, <2>0, <2>2, <3>1
    <3> QED BY <1>6, <3>2
  <2>3. CASE i >= k
    <3>1. ~(i < k) /\ ~(i + 1 < k) /\ i + 1 # k - 1 /\ i + 1 # k
      BY <2>3
    <3>2. Place(l, q, i) = Place(l, s, i + 1) /\ Place(l, q, i + 1) = Place(l, s, i + 1 + 1)
      BY <1>2, <2>0, <3>1
    <3> QED BY <1>8, <2>0, <3>1, <3>2
  <2> QED BY <2>1, <2>2, <2>3
<1> DEFINE old(i) == IF i < k THEN i ELSE i + 1
<1>12. \A i \in 1..Len(q) : old(i) \in 1..Len(s) /\ q[i] = s[old(i)]
  BY <1>0, <1>1, <1>2
<1>13. \A i, j \in 1..Len(q) : old(i) = old(j) => i = j
  BY <1>1, <1>2
<1> HIDE DEF old
<1>14. \A m, p \in Lists : \A i \in 1..Len(ss[m]) : \A j \in 1..Len(ss[p]) :
            ss[m][i] = ss[p][j] => m = p /\ i = j
  BY DEF Represents
<1>15. ASSUME NEW m \in Lists, NEW p \in Lists, NEW i \in 1..Len(tt[m]), NEW j \in 1..Len(tt[p]),
              tt[m][i] = tt[p][j]
       PROVE  m = p /\ i = j
  <2>1. CASE m # l /\ p # l
    BY <1>3, <1>14, <1>15, <2>1
  <2>2. CASE m # l /\ p = l
    <3>1. i \in 1..Len(ss[m]) /\ j \in 1..Len(q) /\ ss[m][i] = q[j]
      BY <1>3, <1>15, <2>2
    <3>2. old(j) \in 1..Len(ss[l]) /\ ss[m][i] = ss[l][old(j)]
      BY <1>12, <3>1
    <3> QED BY <1>14, <2>2, <3>1, <3>2
  <2>3. CASE m = l /\ p # l
    <3>1. i \in 1..Len(q) /\ j \in 1..Len(ss[p]) /\ q[i] = ss[p][j]
      BY <1>3, <1>15, <2>3
    <3>2. old(i) \in 1..Len(ss[l]) /\ ss[p][j] = ss[l][old(i)]
      BY <1>12, <3>1
    <3> QED BY <1>14, <2>3, <3>1, <3>2
  <2>4. CASE m = l /\ p = l
    <3>1. i \in 1..Len(q) /\ j \in 1..Len(q) /\ q[i] = q[j]
      BY <1>3, <1>15, <2>4
    <3>2. s[old(i)] = s[old(j)] /\ old(i) \in 1..Len(s) /\ old(j) \in 1..Len(s)
      BY <1>12, <3>1
    <3>3. old(i) = old(j)
      BY <1>14, <3>2
    <3> QED BY <1>13, <2>4, <3>1, <3>3
  <2> QED BY <2>1, <2>2, <2>3, <2>4
<1>16. Represents(w2, tt)
  BY <1>3, <1>6, <1>10, <1>11, <1>15 DEF Represents
<1> QED BY <1>16 DEF q

-----------------------------------------------------------------------------
(* The operations write these links, each in its own order.                 *)

\* The words of headers that are links.
LEMMA HeaderWords ==
    ASSUME NEW l \in Lists
    PROVE  /\ SuccWord(HeadOf(l)) = HeadOf(l) /\ PredWord(TailOf(l)) = TailPredOf(l)
           /\ SuccWord(TailOf(l)) = TailOf(l) /\ PredWord(HeadOf(l)) = TailOf(l)
<1>1. HeadOf(l) \notin Nodes /\ TailOf(l) \notin Nodes
  BY AddressAssumption
<1>2. SuccWord(HeadOf(l)) = HeadOf(l) /\ SuccWord(TailOf(l)) = TailOf(l)
  BY <1>1 DEF SuccWord
<1>3. PredWord(HeadOf(l)) = TailOf(l)
  BY <1>1 DEF PredWord, HeadOf
<1>4. PredWord(TailOf(l)) = TailPredOf(l)
  BY <1>1 DEF PredWord, TailOf
<1> QED BY <1>2, <1>3, <1>4

\* The four links of a node that is put in, in the orders of add_head(), add_tail(),
\* insert(), AddTail() and AddHead().
LEMMA LinksWritten ==
    ASSUME NEW w, w = [x \in Words |-> w[x]], NEW a \in Starts, NEW n \in Nodes, NEW b \in Ends,
           a # n, b # n
    PROVE  /\ LinkedIn(w, SetPred(SetSucc(SetSucc(SetPred(w, n, a), n, b), a, n), b, n), a, n, b)
           /\ LinkedIn(w, SetSucc(SetPred(SetPred(SetSucc(w, n, b), b, n), n, a), a, n), a, n, b)
           /\ LinkedIn(w, SetSucc(SetPred(SetPred(SetSucc(w, n, b), n, a), b, n), a, n), a, n, b)
           /\ LinkedIn(w, SetPred(SetSucc(SetPred(SetSucc(w, n, b), n, a), a, n), b, n), a, n, b)
           /\ LinkedIn(w, SetSucc(SetPred(SetSucc(SetPred(w, n, a), n, b), b, n), a, n), a, n, b)
<1> DEFINE sa == SuccWord(a)
           pn == PredWord(n)
           sn == SuccWord(n)
           pb == PredWord(b)
<1>0. n \in Starts /\ n \in Ends
  BY DEF Starts, Ends
<1>1. /\ sa \in Words /\ pn \in Words /\ sn \in Words /\ pb \in Words
      /\ sa # pn /\ sa # sn /\ sa # pb /\ pn # sn /\ pn # pb /\ sn # pb
  BY <1>0, WordsApart
<1>2. ASSUME NEW w2, w2 = [x \in Words |-> w2[x]],
             w2[sa] = n, w2[pn] = a, w2[sn] = b, w2[pb] = n,
             \A x \in Words \ {sa, pn, sn, pb} : w2[x] = w[x]
      PROVE  LinkedIn(w, w2, a, n, b)
  BY <1>2 DEF LinkedIn, OnlyAround, succ, pred
<1> HIDE DEF sa, pn, sn, pb
<1>3. LinkedIn(w, SetPred(SetSucc(SetSucc(SetPred(w, n, a), n, b), a, n), b, n), a, n, b)
  <2> DEFINE w2 == [[[[w EXCEPT ![pn] = a] EXCEPT ![sn] = b] EXCEPT ![sa] = n] EXCEPT ![pb] = n]
  <2>1. w2 = SetPred(SetSucc(SetSucc(SetPred(w, n, a), n, b), a, n), b, n)
    BY DEF SetSucc, SetPred, sa, pn, sn, pb
  <2>2. LinkedIn(w, w2, a, n, b)
    BY <1>1, <1>2
  <2> QED BY <2>1, <2>2
<1>4. LinkedIn(w, SetSucc(SetPred(SetPred(SetSucc(w, n, b), b, n), n, a), a, n), a, n, b)
  <2> DEFINE w2 == [[[[w EXCEPT ![sn] = b] EXCEPT ![pb] = n] EXCEPT ![pn] = a] EXCEPT ![sa] = n]
  <2>1. w2 = SetSucc(SetPred(SetPred(SetSucc(w, n, b), b, n), n, a), a, n)
    BY DEF SetSucc, SetPred, sa, pn, sn, pb
  <2>2. LinkedIn(w, w2, a, n, b)
    BY <1>1, <1>2
  <2> QED BY <2>1, <2>2
<1>5. LinkedIn(w, SetSucc(SetPred(SetPred(SetSucc(w, n, b), n, a), b, n), a, n), a, n, b)
  <2> DEFINE w2 == [[[[w EXCEPT ![sn] = b] EXCEPT ![pn] = a] EXCEPT ![pb] = n] EXCEPT ![sa] = n]
  <2>1. w2 = SetSucc(SetPred(SetPred(SetSucc(w, n, b), n, a), b, n), a, n)
    BY DEF SetSucc, SetPred, sa, pn, sn, pb
  <2>2. LinkedIn(w, w2, a, n, b)
    BY <1>1, <1>2
  <2> QED BY <2>1, <2>2
<1>6. LinkedIn(w, SetPred(SetSucc(SetPred(SetSucc(w, n, b), n, a), a, n), b, n), a, n, b)
  <2> DEFINE w2 == [[[[w EXCEPT ![sn] = b] EXCEPT ![pn] = a] EXCEPT ![sa] = n] EXCEPT ![pb] = n]
  <2>1. w2 = SetPred(SetSucc(SetPred(SetSucc(w, n, b), n, a), a, n), b, n)
    BY DEF SetSucc, SetPred, sa, pn, sn, pb
  <2>2. LinkedIn(w, w2, a, n, b)
    BY <1>1, <1>2
  <2> QED BY <2>1, <2>2
<1>7. LinkedIn(w, SetSucc(SetPred(SetSucc(SetPred(w, n, a), n, b), b, n), a, n), a, n, b)
  <2> DEFINE w2 == [[[[w EXCEPT ![pn] = a] EXCEPT ![sn] = b] EXCEPT ![pb] = n] EXCEPT ![sa] = n]
  <2>1. w2 = SetSucc(SetPred(SetSucc(SetPred(w, n, a), n, b), b, n), a, n)
    BY DEF SetSucc, SetPred, sa, pn, sn, pb
  <2>2. LinkedIn(w, w2, a, n, b)
    BY <1>1, <1>2
  <2> QED BY <2>1, <2>2
<1> QED BY <1>3, <1>4, <1>5, <1>6, <1>7

\* The links past a node that is taken out, as Remove() leaves the node and as
\* Node.remove() does.
LEMMA LinksPast ==
    ASSUME NEW w, w = [x \in Words |-> w[x]], NEW a \in Starts, NEW n \in Nodes, NEW b \in Ends,
           a # n, b # n
    PROVE  /\ TakenOut(w, SetSucc(SetPred(w, b, a), a, b), a, n, b)
           /\ TakenOut(w, SetPred(SetSucc(SetSucc(SetPred(w, b, a), a, b), n, Null), n, Null),
                       a, n, b)
<1> DEFINE sa == SuccWord(a)
           pn == PredWord(n)
           sn == SuccWord(n)
           pb == PredWord(b)
<1>0. n \in Starts /\ n \in Ends
  BY DEF Starts, Ends
<1>1. /\ sa \in Words /\ pn \in Words /\ sn \in Words /\ pb \in Words
      /\ sa # pn /\ sa # sn /\ sa # pb /\ pn # sn /\ pn # pb /\ sn # pb
  BY <1>0, WordsApart
<1>2. ASSUME NEW w2, w2 = [x \in Words |-> w2[x]], w2[sa] = b, w2[pb] = a,
             \A x \in Words \ {sa, pn, sn, pb} : w2[x] = w[x]
      PROVE  TakenOut(w, w2, a, n, b)
  BY <1>2 DEF TakenOut, OnlyAround, succ, pred
<1> HIDE DEF sa, pn, sn, pb
<1>3. TakenOut(w, SetSucc(SetPred(w, b, a), a, b), a, n, b)
  <2> DEFINE w2 == [[w EXCEPT ![pb] = a] EXCEPT ![sa] = b]
  <2>1. w2 = SetSucc(SetPred(w, b, a), a, b)
    BY DEF SetSucc, SetPred, sa, pb
  <2>2. TakenOut(w, w2, a, n, b)
    BY <1>1, <1>2
  <2> QED BY <2>1, <2>2
<1>4. TakenOut(w, SetPred(SetSucc(SetSucc(SetPred(w, b, a), a, b), n, Null), n, Null), a, n, b)
  <2> DEFINE w2 == [[[[w EXCEPT ![pb] = a] EXCEPT ![sa] = b] EXCEPT ![sn] = Null] EXCEPT ![pn] = Null]
  <2>1. w2 = SetPred(SetSucc(SetSucc(SetPred(w, b, a), a, b), n, Null), n, Null)
    BY DEF SetSucc, SetPred, sa, pn, sn, pb
  <2>2. TakenOut(w, w2, a, n, b)
    BY <1>1, <1>2
  <2> QED BY <2>1, <2>2
<1> QED BY <1>3, <1>4

-----------------------------------------------------------------------------
(* What each operation does to the sequences.                               *)

\* The places that a free node goes in between.
LEMMA Between ==
    ASSUME NEW w, NEW ss, Represents(w, ss), NEW l \in Lists, NEW n, Free(ss, n),
           NEW k \in 1..(Len(ss[l]) + 1)
    PROVE  /\ n \in Nodes /\ w = [x \in Words |-> w[x]]
           /\ Place(l, ss[l], k - 1) \in Starts /\ Place(l, ss[l], k - 1) # n
           /\ Place(l, ss[l], k) \in Ends /\ Place(l, ss[l], k) # n
           /\ succ(w, Place(l, ss[l], k - 1)) = Place(l, ss[l], k)
           /\ pred(w, Place(l, ss[l], k)) = Place(l, ss[l], k - 1)
           /\ Place(l, ss[l], k) # Null
<1> DEFINE s == ss[l]
<1>1. s \in Seq(Nodes) /\ Len(s) \in Nat /\ n \in Nodes /\ w = [x \in Words |-> w[x]]
  BY DEF Represents, Free
<1>2. k - 1 \in 0..Len(s) /\ k - 1 + 1 = k /\ k \in 0..(Len(s) + 1)
  BY <1>1
<1>3. /\ Place(l, s, k - 1) \in Starts /\ Place(l, s, k) \in Ends /\ Place(l, s, k) # Null
  BY <1>2, PlacesApart
<1>4. /\ succ(w, Place(l, s, k - 1)) = Place(l, s, k)
      /\ pred(w, Place(l, s, k)) = Place(l, s, k - 1)
  <2>1. Linked(w, l, s)
    BY DEF Represents
  <2> QED BY <1>2, <2>1 DEF Linked
<1>5. HeadOf(l) # n /\ TailOf(l) # n
  BY <1>1, AddressAssumption
<1>6. \A i \in 1..Len(s) : s[i] # n
  BY DEF Free
<1>7. Place(l, s, k - 1) # n
  BY <1>1, <1>2, <1>5, <1>6 DEF Place
<1>8. Place(l, s, k) # n
  BY <1>1, <1>2, <1>5, <1>6 DEF Place
<1> QED BY <1>1, <1>3, <1>4, <1>7, <1>8

\* add_head() and AddHead() put a node in at the front.
LEMMA HeadKeeps ==
    ASSUME NEW w, NEW ss, Represents(w, ss), NEW l \in Lists, NEW n, Free(ss, n)
    PROVE  /\ Represents(add_head(w, l, n), [ss EXCEPT ![l] = InsertAt(@, 1, n)])
           /\ Represents(AddHead(w, l, n), [ss EXCEPT ![l] = InsertAt(@, 1, n)])
<1> DEFINE a == HeadOf(l)
           b == Place(l, ss[l], 1)
<1>1. /\ ss[l] \in Seq(Nodes) /\ Len(ss[l]) \in Nat /\ 1 \in 1..(Len(ss[l]) + 1) /\ 1 - 1 = 0
      /\ Place(l, ss[l], 0) = a
  BY DEF Represents, Place
<1>2. /\ n \in Nodes /\ w = [x \in Words |-> w[x]]
      /\ a \in Starts /\ a # n /\ b \in Ends /\ b # n /\ succ(w, a) = b
  <2> DEFINE k == 1
  <2>1. k \in 1..(Len(ss[l]) + 1) /\ k - 1 = 0
    BY <1>1
  <2> HIDE DEF k
  <2>2. /\ n \in Nodes /\ w = [x \in Words |-> w[x]]
        /\ Place(l, ss[l], k - 1) \in Starts /\ Place(l, ss[l], k - 1) # n
        /\ Place(l, ss[l], k) \in Ends /\ Place(l, ss[l], k) # n
        /\ succ(w, Place(l, ss[l], k - 1)) = Place(l, ss[l], k)
    BY <2>1, Between
  <2> QED BY <1>1, <2>1, <2>2 DEF k
<1>3. SuccWord(a) = a /\ w[HeadOf(l)] = b
  BY <1>2, HeaderWords DEF succ
<1> HIDE DEF b
<1>4. LinkedIn(w, add_head(w, l, n), a, n, b)
  <2>1. add_head(w, l, n) = SetPred(SetSucc(SetSucc(SetPred(w, n, a), n, b), a, n), b, n)
    BY <1>2 DEF add_head
  <2> HIDE DEF a
  <2> QED BY <1>2, <2>1, LinksWritten
<1>5. LinkedIn(w, AddHead(w, l, n), a, n, b)
  <2>1. AddHead(w, l, n) = SetSucc(SetPred(SetSucc(SetPred(w, n, a), n, b), b, n), a, n)
    BY <1>3 DEF AddHead, SetSucc
  <2> HIDE DEF a
  <2> QED BY <1>2, <2>1, LinksWritten
<1>6. /\ LinkedIn(w, add_head(w, l, n), Place(l, ss[l], 1 - 1), n, Place(l, ss[l], 1))
      /\ LinkedIn(w, AddHead(w, l, n), Place(l, ss[l], 1 - 1), n, Place(l, ss[l], 1))
  BY <1>1, <1>4, <1>5 DEF b
<1> QED BY <1>1, <1>6, InsertKeeps

\* add_tail() and AddTail() put a node in at the end.
LEMMA TailKeeps ==
    ASSUME NEW w, NEW ss, Represents(w, ss), NEW l \in Lists, NEW n, Free(ss, n)
    PROVE  /\ Represents(add_tail(w, l, n), [ss EXCEPT ![l] = InsertAt(@, Len(ss[l]) + 1, n)])
           /\ Represents(AddTail(w, l, n), [ss EXCEPT ![l] = InsertAt(@, Len(ss[l]) + 1, n)])
<1> DEFINE k == Len(ss[l]) + 1
           a == Place(l, ss[l], k - 1)
           b == TailOf(l)
<1>1. /\ ss[l] \in Seq(Nodes) /\ Len(ss[l]) \in Nat /\ k \in 1..(Len(ss[l]) + 1)
      /\ Place(l, ss[l], k) = b
  BY DEF Represents, Place
<1>2. /\ n \in Nodes /\ w = [x \in Words |-> w[x]]
      /\ a \in Starts /\ a # n /\ b \in Ends /\ b # n /\ pred(w, b) = a
  BY <1>1, Between
<1>3. PredWord(b) = TailPredOf(l) /\ w[TailPredOf(l)] = a
  BY <1>2, HeaderWords DEF pred
<1> HIDE DEF a
<1>4. LinkedIn(w, add_tail(w, l, n), a, n, b)
  <2>1. add_tail(w, l, n) = SetSucc(SetPred(SetPred(SetSucc(w, n, b), b, n), n, a), a, n)
    BY <1>2 DEF add_tail
  <2> HIDE DEF b
  <2> QED BY <1>2, <2>1, LinksWritten
<1>5. LinkedIn(w, AddTail(w, l, n), a, n, b)
  <2>1. AddTail(w, l, n) = SetPred(SetSucc(SetPred(SetSucc(w, n, b), n, a), a, n), b, n)
    BY <1>3 DEF AddTail, SetPred
  <2> HIDE DEF b
  <2> QED BY <1>2, <2>1, LinksWritten
<1>6. /\ LinkedIn(w, add_tail(w, l, n), Place(l, ss[l], k - 1), n, Place(l, ss[l], k))
      /\ LinkedIn(w, AddTail(w, l, n), Place(l, ss[l], k - 1), n, Place(l, ss[l], k))
  BY <1>1, <1>4, <1>5 DEF a
<1> HIDE DEF k
<1>7. /\ Represents(add_tail(w, l, n), [ss EXCEPT ![l] = InsertAt(@, k, n)])
      /\ Represents(AddTail(w, l, n), [ss EXCEPT ![l] = InsertAt(@, k, n)])
  BY <1>1, <1>6, InsertKeeps
<1> QED BY <1>7 DEF k

\* insert() after a node puts a node in at the next place.
LEMMA AfterKeeps ==
    ASSUME NEW w, NEW ss, Represents(w, ss), NEW l \in Lists, NEW n, Free(ss, n),
           NEW i \in 1..Len(ss[l])
    PROVE  Represents(insert(w, l, n, ss[l][i]), [ss EXCEPT ![l] = InsertAt(@, i + 1, n)])
<1> DEFINE k == i + 1
           a == ss[l][i]
           b == Place(l, ss[l], k)
<1>1. /\ ss[l] \in Seq(Nodes) /\ Len(ss[l]) \in Nat /\ k \in 1..(Len(ss[l]) + 1) /\ k - 1 = i
      /\ Place(l, ss[l], i) = a /\ a \in Nodes
  BY DEF Represents, Place
<1>2. /\ n \in Nodes /\ w = [x \in Words |-> w[x]]
      /\ a \in Starts /\ a # n /\ b \in Ends /\ b # n /\ succ(w, a) = b /\ b # Null
  BY <1>1, Between
<1>3. a \notin {Null, HeadOf(l)}
  BY <1>1, AddressAssumption, NullAssumption
<1> HIDE DEF a, b
<1>4. insert(w, l, n, a) = SetSucc(SetPred(SetPred(SetSucc(w, n, b), n, a), b, n), a, n)
  BY <1>2, <1>3 DEF insert
<1>5. LinkedIn(w, insert(w, l, n, a), a, n, b)
  BY <1>2, <1>4, LinksWritten
<1>6. LinkedIn(w, insert(w, l, n, a), Place(l, ss[l], k - 1), n, Place(l, ss[l], k))
  BY <1>1, <1>5 DEF b
<1> HIDE DEF k
<1>7. Represents(insert(w, l, n, a), [ss EXCEPT ![l] = InsertAt(@, k, n)])
  BY <1>1, <1>6, InsertKeeps
<1> QED BY <1>7 DEF k, a

\* enqueue() puts a node in before the first one that has less priority.
LEMMA EnqueueKeeps ==
    ASSUME NEW w, NEW ss, Represents(w, ss), NEW l \in Lists, NEW n, Free(ss, n)
    PROVE  \E k \in 1..(Len(ss[l]) + 1) :
            /\ Represents(enqueue(w, l, n), [ss EXCEPT ![l] = InsertAt(@, k, n)])
            /\ \A i \in 1..(k - 1) : ~(Priority[ss[l][i]] < Priority[n])
            /\ k <= Len(ss[l]) => Priority[ss[l][k]] < Priority[n]
<1> DEFINE s == ss[l]
           lower == {i \in DOMAIN s : Priority[s[i]] < Priority[n]}
           j == CHOOSE i \in lower : \A m \in lower : i <= m
<1>1. s \in Seq(Nodes) /\ Len(s) \in Nat /\ DOMAIN s = 1..Len(s)
  BY DEF Represents
<1>2. Walk(w, l) = s
  BY WalkIs
<1>3. enqueue(w, l, n) = IF lower = {} THEN add_tail(w, l, n)
                         ELSE insert(w, l, n, IF j = 1 THEN Null ELSE s[j - 1])
  BY <1>2 DEF enqueue
<1>4. \A i \in 1..Len(s) : i \in lower <=> Priority[s[i]] < Priority[n]
  BY <1>1
<1>5. lower \subseteq 1..Len(s)
  BY <1>1
<1> HIDE DEF lower
<1>6. CASE lower = {}
  <2> DEFINE k == Len(s) + 1
  <2>1. k \in 1..(Len(s) + 1) /\ k - 1 = Len(s) /\ ~(k <= Len(s))
    BY <1>1
  <2>2. Represents(enqueue(w, l, n), [ss EXCEPT ![l] = InsertAt(@, k, n)])
    BY <1>3, <1>6, TailKeeps
  <2>3. \A i \in 1..(k - 1) : ~(Priority[s[i]] < Priority[n])
    BY <1>4, <1>6, <2>1
  <2> HIDE DEF k
  <2> QED BY <2>1, <2>2, <2>3
<1>7. CASE lower # {}
  <2>1. lower \subseteq Nat
    BY <1>1, <1>5
  <2>2. \E i \in lower : \A m \in lower : i <= m
    BY <1>7, <2>1, NatLeast
  <2>3. j \in lower /\ \A m \in lower : j <= m
    BY <2>2
  <2> HIDE DEF j
  <2>4. j \in 1..Len(s) /\ j \in 1..(Len(s) + 1) /\ Priority[s[j]] < Priority[n]
    BY <1>1, <1>4, <1>5, <2>3
  <2>5. \A i \in 1..(j - 1) : ~(Priority[s[i]] < Priority[n])
    <3> SUFFICES ASSUME NEW i \in 1..(j - 1), Priority[s[i]] < Priority[n]
                 PROVE  FALSE
      OBVIOUS
    <3>1. i \in 1..Len(s) /\ ~(j <= i)
      BY <2>4
    <3>2. i \in lower
      BY <1>4, <3>1
    <3> QED BY <2>3, <3>1, <3>2
  <2>6. Represents(enqueue(w, l, n), [ss EXCEPT ![l] = InsertAt(@, j, n)])
    <3>1. CASE j = 1
      <4>1. insert(w, l, n, Null) = add_head(w, l, n)
        BY DEF insert
      <4> QED BY <1>3, <1>7, <3>1, <4>1, HeadKeeps
    <3>2. CASE j # 1
      <4> DEFINE i == j - 1
      <4>1. i \in 1..Len(s) /\ i + 1 = j
        BY <2>4, <3>2
      <4>2. enqueue(w, l, n) = insert(w, l, n, s[i])
        BY <1>3, <1>7, <3>2
      <4> HIDE DEF i
      <4>3. Represents(insert(w, l, n, ss[l][i]), [ss EXCEPT ![l] = InsertAt(@, i + 1, n)])
        BY <4>1, AfterKeeps
      <4> QED BY <4>1, <4>2, <4>3
    <3> QED BY <3>1, <3>2
  <2> QED BY <2>4, <2>5, <2>6
<1> QED BY <1>6, <1>7

\* Remove() and Node.remove() take a node out of its list.
LEMMA OutKeeps ==
    ASSUME NEW w, NEW ss, Represents(w, ss), NEW l \in Lists, NEW k \in 1..Len(ss[l])
    PROVE  /\ succ(w, ss[l][k]) # Null /\ pred(w, ss[l][k]) # Null
           /\ Represents(unlinked(w, ss[l][k]), [ss EXCEPT ![l] = RemoveAt(@, k)])
           /\ Represents(SetPred(SetSucc(unlinked(w, ss[l][k]), ss[l][k], Null), ss[l][k], Null),
                         [ss EXCEPT ![l] = RemoveAt(@, k)])
<1> DEFINE s == ss[l]
           n == s[k]
           a == Place(l, s, k - 1)
           b == Place(l, s, k + 1)
<1>1. s \in Seq(Nodes) /\ Len(s) \in Nat /\ w = [x \in Words |-> w[x]] /\ Linked(w, l, s)
  BY DEF Represents
<1>2. /\ k - 1 \in 0..Len(s) /\ k \in 0..Len(s) /\ k - 1 + 1 = k /\ k # k - 1 /\ k + 1 # k
      /\ k \in 1..(Len(s) + 1) /\ k + 1 \in 1..(Len(s) + 1)
      /\ k - 1 \in 0..(Len(s) + 1) /\ k + 1 \in 0..(Len(s) + 1)
      /\ n \in Nodes /\ n = Place(l, s, k)
  BY <1>1 DEF Place
<1>3. succ(w, n) = b /\ pred(w, n) = a
  BY <1>1, <1>2 DEF Linked
<1>4. a \in Starts /\ b \in Ends /\ a # Null /\ b # Null /\ a # n /\ b # n
  <2>1. a \in Starts /\ a # Null
    BY <1>2, PlacesApart
  <2>2. b \in Ends /\ b # Null
    BY <1>2, PlacesApart
  <2>3. a # Place(l, s, k)
    BY <1>2, PlacesApart
  <2>4. b # Place(l, s, k)
    BY <1>2, PlacesApart
  <2> QED BY <1>2, <2>1, <2>2, <2>3, <2>4
<1>5. unlinked(w, n) = SetSucc(SetPred(w, b, a), a, b)
  BY <1>3 DEF unlinked
<1> HIDE DEF a, b, n
<1>6. /\ TakenOut(w, unlinked(w, n), a, n, b)
      /\ TakenOut(w, SetPred(SetSucc(unlinked(w, n), n, Null), n, Null), a, n, b)
  BY <1>1, <1>2, <1>4, <1>5, LinksPast
<1>7. /\ Represents(unlinked(w, n), [ss EXCEPT ![l] = RemoveAt(@, k)])
      /\ Represents(SetPred(SetSucc(unlinked(w, n), n, Null), n, Null),
                    [ss EXCEPT ![l] = RemoveAt(@, k)])
  BY <1>6, RemoveKeeps DEF a, b, n
<1> QED BY <1>3, <1>4, <1>7 DEF n

\* The first and the last address of a list, and where they lead in an empty one.
LEMMA HeaderLinks ==
    ASSUME NEW w, NEW ss, Represents(w, ss), NEW l \in Lists
    PROVE  /\ succ(w, HeadOf(l)) = w[HeadOf(l)] /\ pred(w, TailOf(l)) = w[TailPredOf(l)]
           /\ w[HeadOf(l)] = IF Len(ss[l]) = 0 THEN TailOf(l) ELSE ss[l][1]
           /\ w[TailPredOf(l)] = IF Len(ss[l]) = 0 THEN HeadOf(l) ELSE ss[l][Len(ss[l])]
           /\ succ(w, TailOf(l)) = Null /\ pred(w, HeadOf(l)) = Null
<1> DEFINE s == ss[l]
<1>1. s \in Seq(Nodes) /\ Len(s) \in Nat /\ Linked(w, l, s)
  BY DEF Represents
<1>2. succ(w, HeadOf(l)) = w[HeadOf(l)] /\ pred(w, TailOf(l)) = w[TailPredOf(l)]
  BY HeaderWords DEF succ, pred
<1>3. succ(w, TailOf(l)) = Null /\ pred(w, HeadOf(l)) = Null
  BY <1>1, HeaderWords DEF succ, pred, Linked
<1>4. /\ 0 \in 0..Len(s) /\ 0 + 1 = 1 /\ Len(s) \in 0..Len(s)
      /\ Place(l, s, 0) = HeadOf(l) /\ Place(l, s, Len(s) + 1) = TailOf(l)
  BY <1>1 DEF Place
<1>5. succ(w, HeadOf(l)) = Place(l, s, 1) /\ pred(w, TailOf(l)) = Place(l, s, Len(s))
  BY <1>1, <1>4 DEF Linked
<1>6. /\ Place(l, s, 1) = IF Len(s) = 0 THEN TailOf(l) ELSE s[1]
      /\ Place(l, s, Len(s)) = IF Len(s) = 0 THEN HeadOf(l) ELSE s[Len(s)]
  BY <1>1 DEF Place
<1> QED BY <1>2, <1>3, <1>5, <1>6

-----------------------------------------------------------------------------
(* The inductive invariant and the refinement.                              *)

\* A list that represents sequences is in the state that the invariant describes.
LEMMA InvIs ==
    ASSUME NEW w, NEW ss, Represents(w, ss)
    PROVE  [l \in Lists |-> Walk(w, l)] = ss
<1>1. ss = [l \in Lists |-> ss[l]]
  BY DEF Represents
<1>2. \A l \in Lists : Walk(w, l) = ss[l]
  BY WalkIs
<1> QED BY <1>1, <1>2

\* The new lists are empty.
LEMMA InitRepresents == ListsInit => Represents(word, [l \in Lists |-> <<>>])
<1> SUFFICES ASSUME ListsInit PROVE Represents(word, [l \in Lists |-> <<>>])
  OBVIOUS
<1> DEFINE ss == [l \in Lists |-> <<>>]
<1>1. word = [x \in Words |-> word[x]]
  BY DEF ListsInit
<1>2. \A l \in Lists : HeadOf(l) \in Words /\ TailOf(l) \in Words /\ TailPredOf(l) \in Words
  BY DEF Words
<1>3. ASSUME NEW l \in Lists
      PROVE  word[HeadOf(l)] = TailOf(l) /\ word[TailPredOf(l)] = HeadOf(l) /\ word[TailOf(l)] = Null
  <2>1. HeadOf(l)[1] = l /\ TailPredOf(l)[1] = l
    BY DEF HeadOf, TailPredOf
  <2>2. \A m \in Lists : /\ TailPredOf(l) # HeadOf(m) /\ TailOf(l) # HeadOf(m)
                         /\ TailOf(l) # TailPredOf(m)
    BY DEF HeadOf, TailOf, TailPredOf
  <2>3. word[HeadOf(l)] = TailOf(l)
    BY <1>2, <2>1 DEF ListsInit
  <2>4. word[TailPredOf(l)] = HeadOf(l)
    BY <1>2, <2>1, <2>2 DEF ListsInit
  <2>5. word[TailOf(l)] = Null
    BY <1>2, <2>2 DEF ListsInit
  <2> QED BY <2>3, <2>4, <2>5
<1>4. \A l \in Lists : ss[l] = <<>> /\ Len(ss[l]) = 0
  OBVIOUS
<1>5. ASSUME NEW l \in Lists
      PROVE  Linked(word, l, <<>>)
  <2>1. Place(l, <<>>, 0) = HeadOf(l) /\ Place(l, <<>>, 0 + 1) = TailOf(l)
    BY DEF Place
  <2>2. succ(word, HeadOf(l)) = TailOf(l) /\ pred(word, TailOf(l)) = HeadOf(l)
    BY <1>3, HeaderWords DEF succ, pred
  <2>3. \A i \in 0..Len(<<>>) : i = 0
    OBVIOUS
  <2> QED BY <1>3, <2>1, <2>2, <2>3 DEF Linked
<1>6. ss \in [Lists -> Seq(Nodes)]
  OBVIOUS
<1> HIDE DEF ss
<1>7. Represents(word, ss)
  BY <1>1, <1>4, <1>5, <1>6 DEF Represents
<1> QED BY <1>7 DEF ss

\* A node that a step puts in is in no list.
LEMMA FreeIs ==
    ASSUME NEW ss, Represents(word, ss), NEW n \in Nodes
    PROVE  ListFree(n) <=> Free(ss, n)
<1>1. \A l \in Lists : Walk(word, l) = ss[l]
  BY WalkIs
<1> QED BY <1>1 DEF ListFree, InList, Free, Contains

\* what a step does to the sequences
PutIn(w2, ss) ==
    \E l \in Lists, n \in Nodes : \E k \in 1..(Len(ss[l]) + 1) :
        Free(ss, n) /\ Represents(w2, [ss EXCEPT ![l] = InsertAt(@, k, n)])
TakeOut(w2, ss) ==
    \E l \in Lists : \E k \in 1..Len(ss[l]) : Represents(w2, [ss EXCEPT ![l] = RemoveAt(@, k)])

\* Node.remove() of a node of a list, and of the header of an empty list.
LEMMA RemoveNodeKeeps ==
    ASSUME NEW ss, Represents(word, ss), NEW l \in Lists, NEW x,
           \/ \E k \in 1..Len(ss[l]) : x = ss[l][k]
           \/ succ(word, x) = Null
           \/ pred(word, x) = Null,
           remove_node(x)
    PROVE  word' = word \/ TakeOut(word', ss)
<1>1. CASE succ(word, x) = Null \/ pred(word, x) = Null
  BY <1>1 DEF remove_node
<1>2. CASE ~(succ(word, x) = Null \/ pred(word, x) = Null)
  <2>1. PICK k \in 1..Len(ss[l]) : x = ss[l][k]
    BY <1>2
  <2>2. word' = SetPred(SetSucc(unlinked(word, x), x, Null), x, Null)
    BY <1>2 DEF remove_node
  <2>3. Represents(SetPred(SetSucc(unlinked(word, ss[l][k]), ss[l][k], Null), ss[l][k], Null),
                   [ss EXCEPT ![l] = RemoveAt(@, k)])
    BY OutKeeps
  <2>4. Represents(word', [ss EXCEPT ![l] = RemoveAt(@, k)])
    BY <2>1, <2>2, <2>3
  <2> QED BY <2>4 DEF TakeOut
<1> QED BY <1>1, <1>2

\* RemHead() and RemTail() take out the first and the last node, and leave an empty
\* list as it is.
LEMMA RemHeadTailKeeps ==
    ASSUME NEW ss, Represents(word, ss), NEW l \in Lists, NEW w2 \in {RemHead(word, l), RemTail(word, l)}
    PROVE  w2 = word \/ TakeOut(w2, ss)
<1> DEFINE s == ss[l]
           h == word[HeadOf(l)]
           tp == word[TailPredOf(l)]
<1>1. s \in Seq(Nodes) /\ Len(s) \in Nat
  BY DEF Represents
<1>2. /\ h = IF Len(s) = 0 THEN TailOf(l) ELSE s[1]
      /\ tp = IF Len(s) = 0 THEN HeadOf(l) ELSE s[Len(s)]
      /\ succ(word, TailOf(l)) = Null /\ pred(word, HeadOf(l)) = Null
  BY HeaderLinks
<1>3. /\ RemHead(word, l) = IF succ(word, h) = Null THEN word ELSE unlinked(word, h)
      /\ RemTail(word, l) = IF pred(word, tp) = Null THEN word ELSE unlinked(word, tp)
  BY DEF RemHead, RemTail
<1> HIDE DEF h, tp
<1>4. CASE Len(s) = 0
  BY <1>2, <1>3, <1>4
<1>5. CASE Len(s) # 0
  <2>1. 1 \in 1..Len(s) /\ Len(s) \in 1..Len(s) /\ h = s[1] /\ tp = s[Len(s)]
    BY <1>1, <1>2, <1>5
  <2>2. Represents(unlinked(word, h), [ss EXCEPT ![l] = RemoveAt(@, 1)])
    BY <2>1, OutKeeps
  <2>3. Represents(unlinked(word, tp), [ss EXCEPT ![l] = RemoveAt(@, Len(s))])
    BY <2>1, OutKeeps
  <2>4. TakeOut(unlinked(word, h), ss) /\ TakeOut(unlinked(word, tp), ss)
    BY <2>1, <2>2, <2>3 DEF TakeOut
  <2> QED BY <1>3, <2>4
<1> QED BY <1>4, <1>5

\* Every step puts one node in at one place, takes one out, or changes no word.
LEMMA StepKeeps ==
    ASSUME NEW ss, Represents(word, ss), ListsNext
    PROVE  word' = word \/ PutIn(word', ss) \/ TakeOut(word', ss)
<1>0. \A l \in Lists : ss[l] \in Seq(Nodes) /\ Len(ss[l]) \in Nat /\ Walk(word, l) = ss[l]
  BY WalkIs DEF Represents
<1>1. ASSUME NEW l \in Lists, NEW n \in Nodes, ListFree(n),
             \/ word' = add_head(word, l, n)
             \/ word' = add_tail(word, l, n)
             \/ word' = enqueue(word, l, n)
             \/ word' = AddTail(word, l, n)
             \/ word' = AddHead(word, l, n)
             \/ \E p \in Range(Walk(word, l)) : word' = insert(word, l, n, p)
      PROVE  PutIn(word', ss)
  <2>1. Free(ss, n)
    BY <1>1, FreeIs
  <2>2. 1 \in 1..(Len(ss[l]) + 1) /\ Len(ss[l]) + 1 \in 1..(Len(ss[l]) + 1)
    BY <1>0
  <2>3. CASE word' = add_head(word, l, n) \/ word' = AddHead(word, l, n)
    <3>1. Represents(word', [ss EXCEPT ![l] = InsertAt(@, 1, n)])
      BY <2>1, <2>3, HeadKeeps
    <3> QED BY <2>1, <2>2, <3>1 DEF PutIn
  <2>4. CASE word' = add_tail(word, l, n) \/ word' = AddTail(word, l, n)
    <3>1. Represents(word', [ss EXCEPT ![l] = InsertAt(@, Len(ss[l]) + 1, n)])
      BY <2>1, <2>4, TailKeeps
    <3> QED BY <2>1, <2>2, <3>1 DEF PutIn
  <2>5. CASE word' = enqueue(word, l, n)
    <3>1. PICK k \in 1..(Len(ss[l]) + 1) :
                Represents(enqueue(word, l, n), [ss EXCEPT ![l] = InsertAt(@, k, n)])
      BY <2>1, EnqueueKeeps
    <3>2. Represents(word', [ss EXCEPT ![l] = InsertAt(@, k, n)])
      BY <2>5, <3>1
    <3> QED BY <2>1, <3>2 DEF PutIn
  <2>6. CASE \E p \in Range(Walk(word, l)) : word' = insert(word, l, n, p)
    <3>1. PICK p \in Range(ss[l]) : word' = insert(word, l, n, p)
      BY <1>0, <2>6
    <3>2. PICK i \in 1..Len(ss[l]) : p = ss[l][i]
      BY <1>0 DEF Range
    <3>3. Represents(insert(word, l, n, ss[l][i]), [ss EXCEPT ![l] = InsertAt(@, i + 1, n)])
      BY <2>1, AfterKeeps
    <3>4. i + 1 \in 1..(Len(ss[l]) + 1)
      BY <1>0
    <3>5. Represents(word', [ss EXCEPT ![l] = InsertAt(@, i + 1, n)])
      BY <3>1, <3>2, <3>3
    <3> QED BY <2>1, <3>4, <3>5 DEF PutIn
  <2> QED BY <1>1, <2>3, <2>4, <2>5, <2>6
<1>2. ASSUME NEW n \in Nodes, ~ListFree(n)
      PROVE  \E l \in Lists : \E k \in 1..Len(ss[l]) : n = ss[l][k]
  BY <1>2, FreeIs DEF Free
<1>3. ASSUME NEW n \in Nodes, ~ListFree(n), word' = unlinked(word, n)
      PROVE  TakeOut(word', ss)
  <2>1. PICK l \in Lists : \E k \in 1..Len(ss[l]) : n = ss[l][k]
    BY <1>2, <1>3
  <2>2. PICK k \in 1..Len(ss[l]) : n = ss[l][k]
    BY <2>1
  <2>3. Represents(unlinked(word, ss[l][k]), [ss EXCEPT ![l] = RemoveAt(@, k)])
    BY OutKeeps
  <2> QED BY <1>3, <2>2, <2>3 DEF TakeOut
<1>4. ASSUME NEW n \in Nodes, ~ListFree(n), remove_node(n)
      PROVE  word' = word \/ TakeOut(word', ss)
  <2>1. PICK l \in Lists : \E k \in 1..Len(ss[l]) : n = ss[l][k]
    BY <1>2, <1>4
  <2> QED BY <1>4, <2>1, RemoveNodeKeeps
<1>5. ASSUME NEW l \in Lists, rem_head(l) \/ rem_tail(l)
      PROVE  word' = word \/ TakeOut(word', ss)
  <2>1. PICK x : /\ remove_node(x)
                 /\ x \in {succ(word, HeadOf(l)), pred(word, TailOf(l))}
    BY <1>5 DEF rem_head, rem_tail
  <2>2. CASE Len(ss[l]) = 0
    <3>1. succ(word, x) = Null \/ pred(word, x) = Null
      BY <2>1, <2>2, HeaderLinks
    <3> QED BY <2>1, <3>1, RemoveNodeKeeps
  <2>3. CASE Len(ss[l]) # 0
    <3>1. x = ss[l][1] \/ x = ss[l][Len(ss[l])]
      BY <2>1, <2>3, HeaderLinks
    <3>2. 1 \in 1..Len(ss[l]) /\ Len(ss[l]) \in 1..Len(ss[l])
      BY <1>0, <2>3
    <3>3. \E k \in 1..Len(ss[l]) : x = ss[l][k]
      BY <3>1, <3>2
    <3> QED BY <2>1, <3>3, RemoveNodeKeeps
  <2> QED BY <2>2, <2>3
<1>6. ASSUME NEW l \in Lists, word' \in {RemHead(word, l), RemTail(word, l)}
      PROVE  word' = word \/ TakeOut(word', ss)
  BY <1>6, RemHeadTailKeeps
<1> QED BY <1>1, <1>3, <1>4, <1>5, <1>6 DEF ListsNext

\* Words that stand for sequences of nodes are mapped to these.
LEMMA RepresentedIs ==
    ASSUME NEW ss, Represents(word, ss)
    PROVE  Represented = ss
<1>1. ss = [l \in Lists |-> ss[l]]
  BY DEF Represents
<1>2. \A l \in Lists : LinksAgree(l) /\ Walk(word, l) = ss[l]
  BY WalkIs DEF LinksAgree
<1> QED BY <1>1, <1>2 DEF Represented

\* The same of the words after a step.
LEMMA RepresentedNext ==
    ASSUME NEW ss, Represents(word', ss)
    PROVE  Represented' = ss /\ ListsInv'
<1>1. ss = [l \in Lists |-> ss[l]]
  BY DEF Represents
<1>2. \A l \in Lists : /\ Walk(word', l) = ss[l]
                       /\ WalkBack(word', l) = Reverse(ss[l])
                       /\ word'[TailOf(l)] = Null
  BY WalkIs
<1>3. \A l \in Lists : LinksAgree(l)'
  BY <1>2 DEF LinksAgree
<1>4. Represented' = [l \in Lists |-> ss[l]]
  BY <1>2, <1>3 DEF Represented
<1>5. [l \in Lists |-> Walk(word', l)] = ss
  BY InvIs
<1> QED BY <1>1, <1>4, <1>5 DEF ListsInv

\* The links implement sequences of nodes (ListBase, the list functions of
\* ExecLibrary): whatever mixture of library functions and list methods works on
\* them, every step puts one node in at one place of one list, or takes one out of
\* one, and no other list and no other node is disturbed.
THEOREM ListsImplementSequences == ListsSpec => ImplementsSequences
<1>1. ListsInit => Seqs!Init /\ ListsInv
  <2> SUFFICES ASSUME ListsInit PROVE Seqs!Init /\ ListsInv
    OBVIOUS
  <2>1. Represents(word, [l \in Lists |-> <<>>])
    BY InitRepresents
  <2>2. Represented = [l \in Lists |-> <<>>]
    BY <2>1, RepresentedIs
  <2>3. [l \in Lists |-> Walk(word, l)] = [l \in Lists |-> <<>>]
    BY <2>1, InvIs
  <2> QED BY <2>1, <2>2, <2>3 DEF Seqs!Init, ListsInv
<1>2. ListsInv /\ [ListsNext]_list_vars => [Seqs!Next]_Represented /\ ListsInv'
  <2> SUFFICES ASSUME ListsInv, [ListsNext]_list_vars
               PROVE  [Seqs!Next]_Represented /\ ListsInv'
    OBVIOUS
  <2> DEFINE ss == [l \in Lists |-> Walk(word, l)]
  <2>1. Represents(word, ss)
    BY DEF ListsInv
  <2> HIDE DEF ss
  <2>2. Represented = ss
    BY <2>1, RepresentedIs
  <2>3. \A l \in Lists : ss[l] \in Seq(Nodes) /\ DOMAIN ss[l] = 1..Len(ss[l])
    BY <2>1 DEF Represents
  <2>4. CASE word' = word
    BY <2>1, <2>2, <2>4, RepresentedNext
  <2>5. CASE PutIn(word', ss)
    <3>1. PICK l \in Lists, n \in Nodes : \E k \in 1..(Len(ss[l]) + 1) :
                Free(ss, n) /\ Represents(word', [ss EXCEPT ![l] = InsertAt(@, k, n)])
      BY <2>5 DEF PutIn
    <3>2. PICK k \in 1..(Len(ss[l]) + 1) :
                Free(ss, n) /\ Represents(word', [ss EXCEPT ![l] = InsertAt(@, k, n)])
      BY <3>1
    <3>3. Represented' = [ss EXCEPT ![l] = InsertAt(@, k, n)] /\ ListsInv'
      BY <3>2, RepresentedNext
    <3>4. n \in Nodes \ UNION {Range(ss[m]) : m \in Lists}
      BY <2>3, <3>2 DEF Free, Range
    <3>5. n \in Seqs!Unlinked
      BY <2>2, <3>4 DEF Seqs!Unlinked, Seqs!Range, Range
    <3>6. Represented' = [Represented EXCEPT ![l] = Seqs!InsertAt(@, k, n)]
      BY <2>2, <3>3 DEF Seqs!InsertAt, InsertAt
    <3>7. k \in 1..(Len(Represented[l]) + 1)
      BY <2>2, <3>2
    <3>8. Represented' # Represented => Seqs!Next
      BY <3>5, <3>6, <3>7 DEF Seqs!Next
    <3> QED BY <3>3, <3>8
  <2>6. CASE TakeOut(word', ss)
    <3>1. PICK l \in Lists : \E k \in 1..Len(ss[l]) :
                Represents(word', [ss EXCEPT ![l] = RemoveAt(@, k)])
      BY <2>6 DEF TakeOut
    <3>2. PICK k \in 1..Len(ss[l]) : Represents(word', [ss EXCEPT ![l] = RemoveAt(@, k)])
      BY <3>1
    <3>3. Represented' = [ss EXCEPT ![l] = RemoveAt(@, k)] /\ ListsInv'
      BY <3>2, RepresentedNext
    <3>4. Represented' = [Represented EXCEPT ![l] = Seqs!RemoveAt(@, k)]
      BY <2>2, <3>3 DEF Seqs!RemoveAt, RemoveAt
    <3>5. k \in DOMAIN Represented[l]
      BY <2>2, <2>3
    <3>6. Represented' # Represented => Seqs!Next
      BY <3>4, <3>5 DEF Seqs!Next
    <3> QED BY <3>3, <3>6
  <2>7. word' = word \/ PutIn(word', ss) \/ TakeOut(word', ss)
    BY <2>1, StepKeeps DEF list_vars
  <2> QED BY <2>4, <2>5, <2>6, <2>7
<1> QED BY <1>1, <1>2, PTL DEF ListsSpec, ImplementsSequences, Seqs!Spec

-----------------------------------------------------------------------------
(* List.enqueue() keeps the order of priorities.                            *)

\* r is q without its node n
Without(q, n, r) ==
    /\ r \in Seq(Nodes) /\ Len(r) = Len(q) - 1
    /\ \E m \in 1..Len(q) :
        /\ q[m] = n
        /\ \A i \in 1..(Len(q) - 1) : r[i] = IF i < m THEN q[i] ELSE q[i + 1]

\* Where a node is taken out of a sequence that has it once.
LEMMA TakenWhere ==
    ASSUME NEW q \in Seq(Nodes), NEW n, Contains(q, n), IsInjective(q)
    PROVE  Without(q, n, RemoveFirst(q, n))
BY RemoveOrder DEF Without

\* What is left when a node that is once in a sequence is taken out of it.
LEMMA WithoutNode ==
    ASSUME NEW q \in Seq(Nodes), NEW n \in Nodes, NEW k \in 1..Len(q), q[k] = n,
           NEW s \in Seq(Nodes), Len(s) = Len(q) - 1, IsInjective(q),
           \A i \in 1..Len(s) : s[i] = IF i < k THEN q[i] ELSE q[i + 1]
    PROVE  RemoveFirst(q, n) = s
<1> DEFINE r == RemoveFirst(q, n)
<1>0. DOMAIN q = 1..Len(q) /\ Len(q) \in Nat
  OBVIOUS
<1>1. Contains(q, n)
  BY <1>0 DEF Contains
<1>2. Without(q, n, r)
  BY <1>1, TakenWhere
<1> HIDE DEF r
<1>3. /\ r \in Seq(Nodes) /\ Len(r) = Len(q) - 1
      /\ \E m \in 1..Len(q) :
            /\ q[m] = n
            /\ \A i \in 1..(Len(q) - 1) : r[i] = IF i < m THEN q[i] ELSE q[i + 1]
  BY <1>2 DEF Without
<1>4. PICK m \in 1..Len(q) :
        /\ q[m] = n
        /\ \A i \in 1..(Len(q) - 1) : r[i] = IF i < m THEN q[i] ELSE q[i + 1]
  BY <1>3
<1>5. m = k
  BY <1>0, <1>4 DEF IsInjective
<1>6. r = s
  BY <1>0, <1>3, <1>4, <1>5
<1> QED BY <1>6 DEF r

\* A node put in before the first that has less priority.
LEMMA PutInOrder ==
    ASSUME NEW s \in Seq(Nodes), NEW n \in Nodes, NEW k \in 1..(Len(s) + 1),
           \A i \in 1..Len(s) : s[i] # n,
           \A i, j \in 1..Len(s) : s[i] = s[j] => i = j,
           Sorted(s),
           \A i \in 1..(k - 1) : ~(Priority[s[i]] < Priority[n]),
           k <= Len(s) => Priority[s[k]] < Priority[n]
    PROVE  /\ Sorted(InsertAt(s, k, n))
           /\ RemoveFirst(InsertAt(s, k, n), n) = s
           /\ \A i, j \in DOMAIN InsertAt(s, k, n) :
                (InsertAt(s, k, n)[i] = n /\ Priority[InsertAt(s, k, n)[j]] = Priority[n]) => j <= i
<1> DEFINE q == InsertAt(s, k, n)
           old(i) == IF i < k THEN i ELSE i - 1
<1>1. /\ q \in Seq(Nodes) /\ Len(q) = Len(s) + 1 /\ q[k] = n
      /\ \A i \in 1..(k - 1) : q[i] = s[i]
      /\ \A i \in (k + 1)..(Len(s) + 1) : q[i] = s[i - 1]
  <2>1. q \in Seq(Nodes) /\ Len(q) = Len(s) + 1 /\ q[k] = n
    BY InsertAtFacts
  <2>2. \A i \in 1..(k - 1) : q[i] = s[i]
    BY InsertAtFacts
  <2>3. \A i \in (k + 1)..(Len(s) + 1) : q[i] = s[i - 1]
    BY InsertAtFacts
  <2> QED BY <2>1, <2>2, <2>3
<1>2. Len(s) \in Nat /\ DOMAIN s = 1..Len(s)
  OBVIOUS
<1> HIDE DEF q
<1>3. DOMAIN q = 1..Len(q) /\ k \in 1..Len(q)
  BY <1>1, <1>2
<1>4. \A i \in 1..Len(q) : i # k => old(i) \in 1..Len(s) /\ q[i] = s[old(i)]
  <2> SUFFICES ASSUME NEW i \in 1..Len(q), i # k
               PROVE  old(i) \in 1..Len(s) /\ q[i] = s[old(i)]
    OBVIOUS
  <2>1. CASE i < k
    <3>1. i \in 1..(k - 1) /\ i \in 1..Len(s)
      BY <1>1, <1>2, <2>1
    <3> QED BY <1>1, <2>1, <3>1
  <2>2. CASE ~(i < k)
    <3>1. i \in (k + 1)..(Len(s) + 1) /\ i - 1 \in 1..Len(s)
      BY <1>1, <1>2, <2>2
    <3> QED BY <1>1, <2>2, <3>1
  <2> QED BY <2>1, <2>2
<1>5. \A i \in 1..Len(s) : Priority[s[i]] \in Int
  BY NodesAssumption
<1>6. Priority[n] \in Int
  BY NodesAssumption
<1>7. \A i, j \in 1..Len(s) : i <= j => Priority[s[i]] >= Priority[s[j]]
  <2> TAKE i, j \in 1..Len(s)
  <2>1. i < j => Priority[s[i]] >= Priority[s[j]]
    BY <1>2 DEF Sorted
  <2> QED BY <1>2, <1>5, <2>1
<1>8. \A j \in 1..Len(q) : j > k => Priority[q[j]] < Priority[n]
  <2> SUFFICES ASSUME NEW j \in 1..Len(q), j > k
               PROVE  Priority[q[j]] < Priority[n]
    OBVIOUS
  <2>1. /\ old(j) = j - 1 /\ old(j) \in 1..Len(s) /\ k <= old(j) /\ k \in 1..Len(s) /\ k <= Len(s)
        /\ q[j] = s[old(j)]
    BY <1>1, <1>2, <1>4
  <2>2. Priority[s[k]] >= Priority[s[old(j)]] /\ Priority[s[k]] < Priority[n]
    BY <1>7, <2>1
  <2>3. Priority[s[k]] \in Int /\ Priority[s[old(j)]] \in Int
    BY <1>5, <2>1
  <2> QED BY <1>6, <2>1, <2>2, <2>3
<1>9. Sorted(q)
  <2> SUFFICES ASSUME NEW i \in 1..Len(q), NEW j \in 1..Len(q), i < j
               PROVE  Priority[q[i]] >= Priority[q[j]]
    BY <1>3 DEF Sorted
  <2>1. CASE i = k
    <3>1. Priority[q[j]] < Priority[n] /\ q[i] = n /\ j # k /\ q[j] \in Nodes
      BY <1>1, <1>8, <2>1
    <3>2. Priority[q[j]] \in Int
      BY <3>1, NodesAssumption
    <3> QED BY <1>6, <3>1, <3>2
  <2>2. CASE j = k
    <3>1. i # k /\ old(i) = i /\ i \in 1..(k - 1) /\ i \in 1..Len(s) /\ q[i] = s[i] /\ q[j] = n
      BY <1>1, <1>2, <1>4, <2>2
    <3>2. ~(Priority[s[i]] < Priority[n]) /\ Priority[s[i]] \in Int
      BY <1>5, <3>1
    <3> QED BY <1>6, <3>1, <3>2
  <2>3. CASE i # k /\ j # k
    <3>1. /\ old(i) \in 1..Len(s) /\ q[i] = s[old(i)] /\ old(j) \in 1..Len(s) /\ q[j] = s[old(j)]
      BY <1>4, <2>3
    <3>2. old(i) <= old(j)
      BY <1>1, <1>2, <2>3
    <3> QED BY <1>7, <3>1, <3>2
  <2> QED BY <2>1, <2>2, <2>3
<1>10. \A i \in 1..Len(q) : q[i] = n => i = k
  BY <1>4
<1>11. \A i, j \in DOMAIN q : (q[i] = n /\ Priority[q[j]] = Priority[n]) => j <= i
  <2> SUFFICES ASSUME NEW i \in 1..Len(q), NEW j \in 1..Len(q), q[i] = n, Priority[q[j]] = Priority[n]
               PROVE  j <= i
    BY <1>3
  <2>1. i = k
    BY <1>10
  <2>2. ~(j > k)
    BY <1>6, <1>8
  <2> QED BY <2>1, <2>2
<1>12. IsInjective(q)
  <2> SUFFICES ASSUME NEW i \in 1..Len(q), NEW j \in 1..Len(q), q[i] = q[j]
               PROVE  i = j
    BY <1>3 DEF IsInjective
  <2>1. CASE i = k \/ j = k
    BY <1>1, <1>10, <2>1
  <2>2. CASE i # k /\ j # k
    <3>1. old(i) \in 1..Len(s) /\ old(j) \in 1..Len(s) /\ s[old(i)] = s[old(j)]
      BY <1>4, <2>2
    <3>2. old(i) = old(j)
      BY <3>1
    <3> QED BY <1>1, <1>2, <2>2, <3>2
  <2> QED BY <2>1, <2>2
<1>13. \A i \in 1..Len(s) : s[i] = IF i < k THEN q[i] ELSE q[i + 1]
  <2> TAKE i \in 1..Len(s)
  <2>1. CASE i < k
    BY <1>1, <1>2, <2>1
  <2>2. CASE ~(i < k)
    <3>1. i + 1 \in (k + 1)..(Len(s) + 1) /\ i + 1 - 1 = i
      BY <1>2, <2>2
    <3> QED BY <1>1, <2>2, <3>1
  <2> QED BY <2>1, <2>2
<1>14. RemoveFirst(q, n) = s
  <2>1. q \in Seq(Nodes) /\ Len(s) = Len(q) - 1 /\ q[k] = n
    BY <1>1, <1>2
  <2> QED BY <1>3, <1>12, <1>13, <2>1, WithoutNode
<1> QED BY <1>9, <1>11, <1>14 DEF q

\* A node that is enqueued is after all nodes of its priority, and the order of
\* priorities of its list stays (List.enqueue(), for any priorities and any lists).
THEOREM EnqueueIsStable == ListsSpec => EnqueueKeepsOrder
<1>1. ListsInit => ListsInv
  <2> SUFFICES ASSUME ListsInit PROVE ListsInv
    OBVIOUS
  <2>1. Represents(word, [l \in Lists |-> <<>>])
    BY InitRepresents
  <2>2. [l \in Lists |-> Walk(word, l)] = [l \in Lists |-> <<>>]
    BY <2>1, InvIs
  <2> QED BY <2>1, <2>2 DEF ListsInv
<1>2. ListsInv /\ [ListsNext]_list_vars => ListsInv'
  <2> SUFFICES ASSUME ListsInv, [ListsNext]_list_vars PROVE ListsInv'
    OBVIOUS
  <2> DEFINE ss == [l \in Lists |-> Walk(word, l)]
  <2>1. Represents(word, ss)
    BY DEF ListsInv
  <2> HIDE DEF ss
  <2>2. word' = word \/ PutIn(word', ss) \/ TakeOut(word', ss)
    BY <2>1, StepKeeps DEF list_vars
  <2>3. \E tt : Represents(word', tt)
    BY <2>1, <2>2 DEF PutIn, TakeOut
  <2> QED BY <2>3, RepresentedNext
<1> DEFINE Stable ==
        word' # word => \A l \in Lists, n \in Nodes :
            (ListFree(n) /\ word' = enqueue(word, l, n) /\ Sorted(Walk(word, l))) =>
                LET s == Walk(word', l)
                IN  /\ Sorted(s) /\ RemoveFirst(s, n) = Walk(word, l)
                    /\ \A i, j \in DOMAIN s :
                            (s[i] = n /\ Priority[s[j]] = Priority[n]) => j <= i
<1>3. ListsInv => Stable
  <2> SUFFICES ASSUME ListsInv, NEW l \in Lists, NEW n \in Nodes, ListFree(n),
                      word' = enqueue(word, l, n), Sorted(Walk(word, l))
               PROVE  LET s == Walk(word', l)
                      IN  /\ Sorted(s) /\ RemoveFirst(s, n) = Walk(word, l)
                          /\ \A i, j \in DOMAIN s :
                                (s[i] = n /\ Priority[s[j]] = Priority[n]) => j <= i
    OBVIOUS
  <2> DEFINE ss == [m \in Lists |-> Walk(word, m)]
             s == ss[l]
  <2>1. Represents(word, ss) /\ Walk(word, l) = s
    BY DEF ListsInv
  <2> HIDE DEF ss
  <2>2. Free(ss, n)
    BY <2>1, FreeIs
  <2>3. /\ s \in Seq(Nodes) /\ Len(s) \in Nat
        /\ \A i \in 1..Len(s) : s[i] # n
        /\ \A i, j \in 1..Len(s) : s[i] = s[j] => i = j
    BY <2>1, <2>2 DEF Free, Represents
  <2>4. PICK k \in 1..(Len(ss[l]) + 1) :
            /\ Represents(enqueue(word, l, n), [ss EXCEPT ![l] = InsertAt(@, k, n)])
            /\ \A i \in 1..(k - 1) : ~(Priority[ss[l][i]] < Priority[n])
            /\ k <= Len(ss[l]) => Priority[ss[l][k]] < Priority[n]
    BY <2>1, <2>2, EnqueueKeeps
  <2> DEFINE tt == [ss EXCEPT ![l] = InsertAt(@, k, n)]
  <2>5. Represents(word', tt)
    BY <2>4
  <2>6. tt[l] = InsertAt(s, k, n)
    BY <2>1 DEF Represents
  <2> HIDE DEF tt
  <2>7. Walk(word', l) = InsertAt(s, k, n)
    BY <2>5, <2>6, WalkIs
  <2> DEFINE q == InsertAt(s, k, n)
  <2>8. /\ Sorted(q) /\ RemoveFirst(q, n) = s
        /\ \A i, j \in DOMAIN q : (q[i] = n /\ Priority[q[j]] = Priority[n]) => j <= i
    BY <2>1, <2>3, <2>4, PutInOrder
  <2> HIDE DEF q
  <2>9. Walk(word', l) = q
    BY <2>7 DEF q
  <2> QED BY <2>1, <2>8, <2>9
<1> HIDE DEF Stable
<1>4. ListsSpec => [][Stable]_list_vars
  BY <1>1, <1>2, <1>3, PTL DEF ListsSpec
<1> QED BY <1>4 DEF EnqueueKeepsOrder, Stable
===============================================================================
