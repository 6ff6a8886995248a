----------------------------- MODULE ListLemmas ------------------------------
(***************************************************************************)
(* What the operations on Python lists that the models use do to           *)
(* membership and to the absence of duplicates, and induction over the     *)
(* natural numbers, for what is done to a list element by element.         *)
(***************************************************************************)
EXTENDS Integers, SequencesExt, SequenceTheorems, WellFoundedInduction, TLAPS

-----------------------------------------------------------------------------
\* A set of natural numbers that is not empty has a least element.
LEMMA NatLeast ==
    ASSUME NEW T, T \subseteq Nat, T # {}
    PROVE  \E n \in T : \A m \in T : n <= m
<1>1. \E x \in T : \A y \in T : ~ (<<y, x>> \in OpToRel(<, Nat))
  BY NatLessThanWellFounded, WFMin
<1>2. \A x, y \in Nat : (<<y, x>> \in OpToRel(<, Nat)) <=> y < x
  BY DEF OpToRel
<1>3. \E x \in T : \A y \in T : y \in Nat /\ x \in Nat /\ ~(y < x)
  BY <1>1, <1>2, Zenon
<1> QED BY <1>3

\* A set that holds 0, and n + 1 with every n, holds every natural number.
LEMMA NatInd ==
    ASSUME NEW T, 0 \in T, \A n \in Nat : n \in T => n + 1 \in T
    PROVE  Nat \subseteq T
<1> SUFFICES ASSUME Nat \ T # {} PROVE FALSE
  OBVIOUS
<1>1. PICK n \in Nat \ T : \A m \in Nat \ T : n <= m
  BY NatLeast
<1>2. n # 0 /\ n - 1 \in Nat
  BY <1>1
<1>3. n - 1 \in T
  BY <1>1, <1>2
<1> QED BY <1>1, <1>2, <1>3

-----------------------------------------------------------------------------

\* list.append()
LEMMA AppendFacts ==
    ASSUME NEW T, NEW s \in Seq(T), NEW e \in T
    PROVE  /\ Append(s, e) \in Seq(T)
           /\ \A x : Contains(Append(s, e), x) <=> Contains(s, x) \/ x = e
           /\ IsInjective(s) /\ ~Contains(s, e) => IsInjective(Append(s, e))
<1>1. /\ Append(s, e) \in Seq(T)
      /\ Len(Append(s, e)) = Len(s) + 1
      /\ \A i \in 1..Len(s) : Append(s, e)[i] = s[i]
      /\ Append(s, e)[Len(s) + 1] = e
  OBVIOUS
<1>2. \A x : Contains(Append(s, e), x) <=> Contains(s, x) \/ x = e
  BY <1>1 DEF Contains
<1>3. IsInjective(s) /\ ~Contains(s, e) => IsInjective(Append(s, e))
  BY <1>1 DEF Contains, IsInjective
<1> QED BY <1>1, <1>2, <1>3

\* list.pop(0)
LEMMA TailFacts ==
    ASSUME NEW T, NEW s \in Seq(T), s # <<>>
    PROVE  /\ Head(s) \in T /\ Contains(s, Head(s))
           /\ Tail(s) \in Seq(T)
           /\ IsInjective(s) =>
                /\ IsInjective(Tail(s))
                /\ \A x : Contains(Tail(s), x) <=> Contains(s, x) /\ x # Head(s)
<1>1. /\ Head(s) \in T /\ Head(s) = s[1] /\ Len(s) \in Nat \ {0}
      /\ Tail(s) \in Seq(T)
      /\ Len(Tail(s)) = Len(s) - 1
      /\ \A i \in 1..Len(Tail(s)) : Tail(s)[i] = s[i + 1]
  BY HeadTailProperties
<1>2. Contains(s, Head(s))
  BY <1>1 DEF Contains
<1>3. ASSUME IsInjective(s)
      PROVE  IsInjective(Tail(s))
  BY <1>1, <1>3 DEF IsInjective
<1>4. ASSUME IsInjective(s), NEW x
      PROVE  Contains(Tail(s), x) <=> Contains(s, x) /\ x # Head(s)
  <2>1. ASSUME NEW i \in 1..Len(Tail(s)), Tail(s)[i] = x
        PROVE  Contains(s, x) /\ x # Head(s)
    BY <1>1, <1>4, <2>1 DEF Contains, IsInjective
  <2>2. ASSUME NEW i \in 1..Len(s), s[i] = x, x # Head(s)
        PROVE  Contains(Tail(s), x)
    <3>1. i - 1 \in 1..Len(Tail(s)) /\ Tail(s)[i - 1] = x
      BY <1>1, <2>2
    <3> QED BY <3>1 DEF Contains
  <2> QED BY <2>1, <2>2 DEF Contains
<1> QED BY <1>1, <1>2, <1>3, <1>4

\* list.insert(0, e)
LEMMA ConsFacts ==
    ASSUME NEW T, NEW s \in Seq(T), NEW e \in T
    PROVE  /\ <<e>> \o s \in Seq(T)
           /\ \A x : Contains(<<e>> \o s, x) <=> Contains(s, x) \/ x = e
           /\ IsInjective(s) /\ ~Contains(s, e) => IsInjective(<<e>> \o s)
<1> DEFINE r == <<e>> \o s
<1>1. /\ r \in Seq(T)
      /\ Len(r) = Len(s) + 1 /\ Len(s) \in Nat
      /\ r[1] = e
      /\ \A i \in 2..Len(r) : r[i] = s[i - 1]
  OBVIOUS
<1>2. ASSUME NEW x
      PROVE  Contains(r, x) <=> Contains(s, x) \/ x = e
  <2>1. ASSUME NEW i \in 1..Len(s), s[i] = x
        PROVE  i + 1 \in 1..Len(r) /\ r[i + 1] = x
    BY <1>1, <2>1
  <2>2. ASSUME NEW i \in 1..Len(r), r[i] = x, x # e
        PROVE  i - 1 \in 1..Len(s) /\ s[i - 1] = x
    BY <1>1, <2>2
  <2>3. 1 \in 1..Len(r)
    BY <1>1
  <2> HIDE DEF r
  <2> QED BY <1>1, <2>1, <2>2, <2>3 DEF Contains
<1>3. ASSUME IsInjective(s), ~Contains(s, e)
      PROVE  IsInjective(r)
  <2> SUFFICES ASSUME NEW a \in DOMAIN r, NEW b \in DOMAIN r, r[a] = r[b]
               PROVE  a = b
    BY DEF IsInjective
  <2>1. a \in 1..Len(r) /\ b \in 1..Len(r)
    BY <1>1
  <2> HIDE DEF r
  <2>2. \A i \in 1..Len(s) : s[i] # e
    BY <1>3 DEF Contains
  <2>3. CASE a = 1 /\ b # 1
    BY <1>1, <2>1, <2>2, <2>3
  <2>4. CASE a # 1 /\ b = 1
    BY <1>1, <2>1, <2>2, <2>4
  <2>5. CASE a # 1 /\ b # 1
    <3>1. /\ a - 1 \in DOMAIN s /\ b - 1 \in DOMAIN s
          /\ s[a - 1] = s[b - 1]
      BY <1>1, <2>1, <2>5
    <3>2. a - 1 = b - 1
      BY <1>3, <3>1 DEF IsInjective
    <3> QED BY <1>1, <2>1, <3>2
  <2> QED BY <2>3, <2>4, <2>5
<1> QED BY <1>1, <1>2, <1>3

\* the chunk at position k is taken out of a list
LEMMA RemoveAtFacts ==
    ASSUME NEW T, NEW s \in Seq(T), NEW k \in 1..Len(s)
    PROVE  /\ RemoveAt(s, k) \in Seq(T)
           /\ Len(RemoveAt(s, k)) = Len(s) - 1
           /\ \A i \in 1..(Len(s) - 1) :
                RemoveAt(s, k)[i] = IF i < k THEN s[i] ELSE s[i + 1]
<1> DEFINE p == SubSeq(s, 1, k - 1)
           q == SubSeq(s, k + 1, Len(s))
           r == RemoveAt(s, k)
<1>0. Len(s) \in Nat /\ k \in Int /\ 1 <= k /\ k <= Len(s)
  OBVIOUS
<1>1. /\ p \in Seq(T) /\ Len(p) = k - 1
      /\ \A i \in 1..(k - 1) : p[i] = s[i]
  BY <1>0
<1>2. /\ q \in Seq(T) /\ Len(q) = Len(s) - k
      /\ \A i \in 1..(Len(s) - k) : q[i] = s[k + i]
  BY <1>0
<1>3. r = p \o q
  BY DEF RemoveAt
<1> HIDE DEF p, q, r
<1>4. r \in Seq(T) /\ Len(r) = Len(s) - 1
  BY <1>0, <1>1, <1>2, <1>3
<1>5. ASSUME NEW i \in 1..(Len(s) - 1)
      PROVE  r[i] = IF i < k THEN s[i] ELSE s[i + 1]
  <2>1. r[i] = IF i <= Len(p) THEN p[i] ELSE q[i - Len(p)]
    BY <1>0, <1>1, <1>2, <1>3
  <2>2. CASE i < k
    BY <1>0, <1>1, <2>1, <2>2
  <2>3. CASE ~(i < k)
    <3>1. i - Len(p) \in 1..(Len(s) - k) /\ k + (i - Len(p)) = i + 1
      BY <1>0, <1>1, <2>3
    <3> QED BY <1>0, <1>1, <1>2, <2>1, <2>3, <3>1
  <2> QED BY <2>2, <2>3
<1> QED BY <1>4, <1>5 DEF r

\* list.remove(e): the others keep their order
LEMMA RemoveOrder ==
    ASSUME NEW T, NEW s \in Seq(T), NEW e, Contains(s, e), IsInjective(s)
    PROVE  /\ RemoveFirst(s, e) \in Seq(T)
           /\ \E k \in 1..Len(s) :
                /\ s[k] = e
                /\ Len(RemoveFirst(s, e)) = Len(s) - 1
                /\ \A i \in 1..(Len(s) - 1) :
                        RemoveFirst(s, e)[i] = IF i < k THEN s[i] ELSE s[i + 1]
<1> DEFINE k == SelectInSeq(s, LAMBDA v : v = e)
<1>1. k \in 1..Len(s) /\ s[k] = e
  <2>1. PICK i \in 1..Len(s) : s[i] = e
    BY DEF Contains
  <2>2. {j \in 1..Len(s) : s[j] = e} = {i}
    BY <2>1 DEF IsInjective
  <2>3. Min({i}) = i
    BY DEF Min
  <2>4. k = i
    BY <2>2, <2>3 DEF SelectInSeq
  <2> QED BY <2>1, <2>4
<1>2. RemoveFirst(s, e) = RemoveAt(s, k)
  BY DEF RemoveFirst, Contains
<1> HIDE DEF k
<1> QED BY <1>1, <1>2, RemoveAtFacts

\* list.remove(e)
LEMMA RemoveFacts ==
    ASSUME NEW T, NEW s \in Seq(T), NEW e, Contains(s, e), IsInjective(s)
    PROVE  /\ RemoveFirst(s, e) \in Seq(T)
           /\ IsInjective(RemoveFirst(s, e))
           /\ \A x : Contains(RemoveFirst(s, e), x) <=> Contains(s, x) /\ x # e
<1> DEFINE r == RemoveFirst(s, e)
           P(k) == /\ s[k] = e
                   /\ Len(r) = Len(s) - 1
                   /\ \A i \in 1..(Len(s) - 1) : r[i] = IF i < k THEN s[i] ELSE s[i + 1]
<1>0. r \in Seq(T) /\ \E k \in 1..Len(s) : P(k)
  <2> HIDE DEF P
  <2> QED BY RemoveOrder DEF P
<1>1. PICK k \in 1..Len(s) : P(k)
  BY <1>0
<1>2. r \in Seq(T)
  BY <1>0
<1> HIDE DEF r
<1>3. /\ r \in Seq(T) /\ Len(r) = Len(s) - 1 /\ Len(s) \in Nat
      /\ \A i \in 1..(Len(s) - 1) : r[i] = IF i < k THEN s[i] ELSE s[i + 1]
  BY <1>1, <1>2
<1>4. IsInjective(r)
  <2>1. ASSUME NEW a \in 1..Len(r), NEW b \in 1..Len(r), r[a] = r[b]
        PROVE  a = b
    <3>1. DEFINE a1 == IF a < k THEN a ELSE a + 1
                 b1 == IF b < k THEN b ELSE b + 1
    <3>2. a1 \in 1..Len(s) /\ b1 \in 1..Len(s)
      BY <1>1, <1>3
    <3>3. s[a1] = r[a] /\ s[b1] = r[b]
      BY <1>1, <1>3
    <3>4. a1 = b1
      <4> HIDE DEF a1, b1
      <4> QED BY <2>1, <3>2, <3>3 DEF IsInjective
    <3> QED BY <1>1, <1>3, <3>4
  <2>2. DOMAIN r = 1..Len(r)
    BY <1>3
  <2> QED BY <2>1, <2>2 DEF IsInjective
<1>5. ASSUME NEW x
      PROVE  Contains(r, x) <=> Contains(s, x) /\ x # e
  <2>1. ASSUME NEW i \in 1..Len(r), r[i] = x
        PROVE  Contains(s, x) /\ x # e
    <3>1. CASE i < k
      <4>1. i \in 1..Len(s) /\ i # k /\ s[i] = x /\ DOMAIN s = 1..Len(s)
        BY <1>3, <2>1, <3>1
      <4> QED BY <1>1, <4>1 DEF Contains, IsInjective
    <3>2. CASE ~(i < k)
      <4>1. i + 1 \in 1..Len(s) /\ i + 1 # k /\ s[i + 1] = x /\ DOMAIN s = 1..Len(s)
        BY <1>3, <2>1, <3>2
      <4> QED BY <1>1, <4>1 DEF Contains, IsInjective
    <3> QED BY <3>1, <3>2
  <2>2. ASSUME NEW i \in 1..Len(s), s[i] = x, x # e
        PROVE  Contains(r, x)
    <3>1. CASE i < k
      BY <1>1, <1>3, <2>2, <3>1 DEF Contains
    <3>2. CASE i > k
      <4>1. i - 1 \in 1..Len(r) /\ r[i - 1] = x
        BY <1>1, <1>3, <2>2, <3>2
      <4> QED BY <4>1 DEF Contains
    <3> QED BY <1>1, <2>2, <3>1, <3>2
  <2> QED BY <2>1, <2>2 DEF Contains
<1> QED BY <1>2, <1>4, <1>5 DEF r

\* a list of one element, with nothing or another one before it
LEMMA SingleConcat ==
    ASSUME NEW a, NEW b
    PROVE  /\ <<a>> \o <<b>> = <<a, b>>
           /\ <<>> \o <<b>> = <<b>>
<1> DEFINE T == {a, b}
<1>1. <<a>> \o <<b>> = <<a, b>>
  <2>1. <<a>> \o <<b>> \in Seq(T) /\ <<a, b>> \in Seq(T)
    OBVIOUS
  <2>2. /\ Len(<<a>> \o <<b>>) = 2 /\ Len(<<a, b>>) = 2
        /\ (<<a>> \o <<b>>)[1] = a /\ (<<a>> \o <<b>>)[2] = b
    OBVIOUS
  <2>3. \A i \in 1..2 : (<<a>> \o <<b>>)[i] = <<a, b>>[i]
    BY <2>2
  <2> HIDE DEF T
  <2> QED BY <2>1, <2>2, <2>3, SeqEqual
<1>2. <<>> \o <<b>> = <<b>>
  OBVIOUS
<1> QED BY <1>1, <1>2

\* remove() of something that is not there leaves a sequence as it is
LEMMA RemoveAbsent ==
    ASSUME NEW s, NEW e, ~Contains(s, e) PROVE RemoveFirst(s, e) = s
BY DEF RemoveFirst, Contains

-----------------------------------------------------------------------------

\* a chunk is linked into a list before position k
LEMMA InsertAtFacts ==
    ASSUME NEW T, NEW s \in Seq(T), NEW e \in T, NEW k \in 1..(Len(s) + 1)
    PROVE  /\ InsertAt(s, k, e) \in Seq(T)
           /\ Len(InsertAt(s, k, e)) = Len(s) + 1
           /\ \A i \in 1..(k - 1) : InsertAt(s, k, e)[i] = s[i]
           /\ InsertAt(s, k, e)[k] = e
           /\ \A i \in (k + 1)..(Len(s) + 1) : InsertAt(s, k, e)[i] = s[i - 1]
<1> DEFINE p == SubSeq(s, 1, k - 1)
           q == SubSeq(s, k, Len(s))
           u == p \o <<e>>
           r == u \o q
<1>0. Len(s) \in Nat /\ k \in Int /\ 1 <= k /\ k <= Len(s) + 1
  OBVIOUS
<1>1. /\ p \in Seq(T) /\ Len(p) = k - 1
      /\ \A i \in 1..(k - 1) : p[i] = s[i]
  BY <1>0
<1>2. /\ q \in Seq(T) /\ Len(q) = Len(s) - k + 1
      /\ \A i \in 1..(Len(s) - k + 1) : q[i] = s[k + i - 1]
  BY <1>0
<1>3. InsertAt(s, k, e) = r
  BY DEF InsertAt
<1> HIDE DEF p, q
<1>4. /\ u \in Seq(T) /\ Len(u) = k
      /\ \A i \in 1..k : u[i] = IF i < k THEN s[i] ELSE e
  BY <1>0, <1>1
<1> HIDE DEF u
<1>5. r \in Seq(T) /\ Len(r) = Len(s) + 1
  BY <1>0, <1>2, <1>4
<1>6. ASSUME NEW i \in 1..(Len(s) + 1)
      PROVE  r[i] = IF i < k THEN s[i] ELSE IF i = k THEN e ELSE s[i - 1]
  <2>1. r[i] = IF i <= Len(u) THEN u[i] ELSE q[i - Len(u)]
    BY <1>0, <1>2, <1>4
  <2>2. CASE i <= k
    BY <1>0, <1>4, <2>1, <2>2
  <2>3. CASE i > k
    <3>1. i - Len(u) \in 1..(Len(s) - k + 1) /\ k + (i - Len(u)) - 1 = i - 1
      BY <1>0, <1>4, <2>3
    <3> QED BY <1>0, <1>2, <1>4, <2>1, <2>3, <3>1
  <2>4. i <= k \/ i > k
    BY <1>0
  <2> HIDE DEF r
  <2> QED BY <2>2, <2>3, <2>4
<1> HIDE DEF r
<1>7. /\ \A i \in 1..(k - 1) : r[i] = s[i]
      /\ r[k] = e
      /\ \A i \in (k + 1)..(Len(s) + 1) : r[i] = s[i - 1]
  BY <1>0, <1>6
<1> QED BY <1>3, <1>5, <1>7
==============================================================================
