-------------------------- MODULE MemoryAllocProofs --------------------------
(***************************************************************************)
(* Proofs about the memory allocator, for a pool of any size and any       *)
(* owners, none of which asks for zero bytes.                              *)
(***************************************************************************)
EXTENDS MemoryAlloc, ListLemmas

-----------------------------------------------------------------------------
(* Lists of chunks.                                                         *)

\* the chunks are long word aligned parts of the pool, in order of address
Sound(s) ==
    /\ s \in Seq(Memory)
    /\ \A i \in 1..Len(s) : /\ s[i].size > 0 /\ s[i].addr % 4 = 0
                            /\ Addr <= s[i].addr /\ End(s[i]) <= Addr + Size
    /\ \A i, j \in 1..Len(s) : i < j => End(s[i]) <= s[j].addr

\* no chunk has a byte of a..(b-1)
Avoids(s, a, b) == \A i \in 1..Len(s) : End(s[i]) <= a \/ b <= s[i].addr

\* only the chunks at the positions in K may touch the next one
Tight(s, K) == \A i \in 1..(Len(s) - 1) : i \notin K => End(s[i]) < s[i + 1].addr

\* The fields of a chunk or Memory object, and its end, are natural numbers.
LEMMA MemoryFields ==
    \A m \in Memory : m.addr \in Nat /\ m.size \in Nat /\ End(m) \in Nat
BY DEF Memory, End

\* alloc_mem() rounds a size up to the next multiple of four.
LEMMA AlignFacts ==
    ASSUME NEW n \in Nat
    PROVE  /\ Align(n) \in Nat /\ Align(n) % 4 = 0
           /\ n > 0 => Align(n) > 0
BY DEF Align

\* A block of whole long words that starts at a long word ends at one.
LEMMA AlignedSum ==
    ASSUME NEW a \in Nat, NEW b \in Nat, a % 4 = 0, b % 4 = 0
    PROVE  (a + b) % 4 = 0
OBVIOUS

\* the merged chunk takes the place of the two
LEMMA MergeElements ==
    ASSUME NEW s, Sound(s), NEW i \in Int, Adjacent(s, i)
    PROVE  LET r == merge_chunk(s, i)
               c == Chunk(s[i].addr, s[i].size + s[i + 1].size)
           IN /\ r \in Seq(Memory) /\ Len(r) = Len(s) - 1 /\ Len(s) \in Nat
              /\ i \in 1..(Len(s) - 1)
              /\ c \in Memory /\ c.addr = s[i].addr /\ End(c) = End(s[i + 1])
              /\ \A j \in 1..(Len(s) - 1) :
                    r[j] = IF j < i THEN s[j] ELSE IF j = i THEN c ELSE s[j + 1]
<1> DEFINE c == Chunk(s[i].addr, s[i].size + s[i + 1].size)
           u == RemoveAt(s, i + 1)
           r == merge_chunk(s, i)
<1>1. s \in Seq(Memory) /\ Len(s) \in Nat /\ i \in 1..(Len(s) - 1)
  BY DEF Sound, Adjacent
<1>2. s[i] \in Memory /\ s[i + 1] \in Memory
  BY <1>1
<1>3. c \in Memory /\ c.addr = s[i].addr /\ End(c) = End(s[i + 1])
  <2>1. s[i].addr \in Nat /\ s[i].size \in Nat /\ s[i + 1].addr \in Nat /\ s[i + 1].size \in Nat
    BY <1>2 DEF Memory
  <2>2. c.addr = s[i].addr /\ c.size = s[i].size + s[i + 1].size
    BY DEF Chunk
  <2>3. c \in Memory
    BY <2>1 DEF Chunk, Memory
  <2>4. s[i].addr + s[i].size = s[i + 1].addr
    BY DEF Adjacent, End
  <2> HIDE DEF c
  <2> QED BY <2>1, <2>2, <2>3, <2>4 DEF End
<1>4. /\ u \in Seq(Memory) /\ Len(u) = Len(s) - 1
      /\ \A j \in 1..(Len(s) - 1) : u[j] = IF j < i + 1 THEN s[j] ELSE s[j + 1]
  BY <1>1, RemoveAtFacts
<1>5. r = [u EXCEPT ![i] = c]
  BY DEF merge_chunk, ReplaceAt
<1> HIDE DEF c, u, r
<1>6. r \in Seq(Memory) /\ Len(r) = Len(s) - 1
  BY <1>1, <1>3, <1>4, <1>5
<1>7. \A j \in 1..(Len(s) - 1) :
        r[j] = IF j < i THEN s[j] ELSE IF j = i THEN c ELSE s[j + 1]
  BY <1>1, <1>4, <1>5
<1> QED BY <1>1, <1>3, <1>6, <1>7 DEF c, r

\* merging keeps a list sound and takes no byte from anyone
LEMMA MergeSound ==
    ASSUME NEW s, Sound(s), NEW i \in Int
    PROVE  /\ Sound(merge_chunk(s, i))
           /\ \A a, b \in Nat : a < b /\ Avoids(s, a, b) => Avoids(merge_chunk(s, i), a, b)
<1>1. CASE ~Adjacent(s, i)
  BY <1>1 DEF merge_chunk
<1>2. CASE Adjacent(s, i)
  <2> DEFINE c == Chunk(s[i].addr, s[i].size + s[i + 1].size)
             r == merge_chunk(s, i)
  <2>1. /\ r \in Seq(Memory) /\ Len(r) = Len(s) - 1 /\ Len(s) \in Nat
        /\ i \in 1..(Len(s) - 1)
        /\ c \in Memory /\ c.addr = s[i].addr /\ End(c) = End(s[i + 1])
        /\ \A j \in 1..(Len(s) - 1) :
              r[j] = IF j < i THEN s[j] ELSE IF j = i THEN c ELSE s[j + 1]
    BY <1>2, MergeElements
  <2>2. c.size = s[i].size + s[i + 1].size
    BY DEF Chunk
  <2>3. \A j \in 1..Len(s) : s[j].addr \in Nat /\ s[j].size \in Nat /\ End(s[j]) \in Nat
    <3>1. \A j \in 1..Len(s) : s[j] \in Memory
      BY DEF Sound
    <3> QED BY <3>1, MemoryFields
  <2>0. i \in 1..Len(s) /\ i + 1 \in 1..Len(s)
    BY <2>1
  <2> HIDE DEF c, r
  <2>4. ASSUME NEW j \in 1..Len(r)
        PROVE  /\ r[j].size > 0 /\ r[j].addr % 4 = 0
               /\ Addr <= r[j].addr /\ End(r[j]) <= Addr + Size
    <3>1. CASE j < i
      BY <2>1, <3>1 DEF Sound
    <3>2. CASE j = i
      BY <2>0, <2>1, <2>2, <2>3, <3>2, SMTT(30) DEF Sound
    <3>3. CASE j > i
      <4>1. j + 1 \in 1..Len(s) /\ r[j] = s[j + 1]
        BY <2>1, <3>3
      <4> QED BY <4>1 DEF Sound
    <3> QED BY <2>1, <3>1, <3>2, <3>3
  <2>5. ASSUME NEW j \in 1..Len(r), NEW k \in 1..Len(r), j < k
        PROVE  End(r[j]) <= r[k].addr
    <3>0. /\ r[j] = IF j < i THEN s[j] ELSE IF j = i THEN c ELSE s[j + 1]
          /\ r[k] = IF k < i THEN s[k] ELSE IF k = i THEN c ELSE s[k + 1]
      BY <2>1
    <3>1. /\ End(r[j]) = IF j < i THEN End(s[j]) ELSE End(s[j + 1])
          /\ r[k].addr = IF k <= i THEN s[k].addr ELSE s[k + 1].addr
      BY <2>1, <3>0
    <3>2. \A x, y \in 1..Len(s) : x < y => End(s[x]) <= s[y].addr
      BY DEF Sound
    <3> QED BY <2>1, <2>5, <3>1, <3>2, SMTT(30)
  <2>6. ASSUME NEW a \in Nat, NEW b \in Nat, a < b, Avoids(s, a, b)
        PROVE  Avoids(r, a, b)
    <3> SUFFICES ASSUME NEW j \in 1..Len(r)
                 PROVE  End(r[j]) <= a \/ b <= r[j].addr
      BY DEF Avoids
    <3>1. CASE j < i
      <4>1. j \in 1..Len(s) /\ r[j] = s[j]
        BY <2>1, <3>1
      <4> QED BY <2>6, <4>1 DEF Avoids
    <3>2. CASE j = i
      <4>1. End(s[i]) <= a \/ b <= s[i].addr
        BY <2>0, <2>6 DEF Avoids
      <4>2. End(s[i + 1]) <= a \/ b <= s[i + 1].addr
        BY <2>0, <2>6 DEF Avoids
      <4>3. End(s[i]) = s[i + 1].addr
        BY <1>2 DEF Adjacent
      <4> QED BY <2>0, <2>1, <2>3, <2>6, <3>2, <4>1, <4>2, <4>3
    <3>3. CASE j > i
      <4>1. j + 1 \in 1..Len(s) /\ r[j] = s[j + 1]
        BY <2>1, <3>3
      <4> QED BY <2>6, <4>1 DEF Avoids
    <3> QED BY <2>1, <3>1, <3>2, <3>3
  <2> QED BY <2>1, <2>4, <2>5, <2>6 DEF Sound, r
<1> QED BY <1>1, <1>2

\* two chunks that are not adjacent do not touch
LEMMA NotAdjacentTight ==
    ASSUME NEW s, Sound(s), NEW i \in Int, ~Adjacent(s, i), NEW K, Tight(s, K)
    PROVE  Tight(s, K \ {i})
<1> SUFFICES ASSUME NEW j \in 1..(Len(s) - 1), j = i
             PROVE  End(s[j]) < s[j + 1].addr
  BY DEF Tight
<1>1. /\ s \in Seq(Memory) /\ Len(s) \in Nat
      /\ j \in 1..Len(s) /\ j + 1 \in 1..Len(s)
  BY DEF Sound
<1>2. End(s[j]) \in Nat /\ s[j + 1].addr \in Nat
  BY <1>1, MemoryFields
<1>3. End(s[j]) # s[j + 1].addr
  BY <1>1 DEF Adjacent
<1>4. End(s[j]) <= s[j + 1].addr
  BY <1>1 DEF Sound
<1> QED BY <1>2, <1>3, <1>4

\* after a merge, what touched beyond the second chunk touches the merged one
LEMMA AdjacentTight ==
    ASSUME NEW s, Sound(s), NEW i \in Int, Adjacent(s, i),
           NEW K, K \subseteq {i, i + 1}, Tight(s, K)
    PROVE  Tight(merge_chunk(s, i), IF i + 1 \in K THEN {i} ELSE {})
<1> DEFINE c == Chunk(s[i].addr, s[i].size + s[i + 1].size)
           r == merge_chunk(s, i)
<1>1. /\ r \in Seq(Memory) /\ Len(r) = Len(s) - 1 /\ Len(s) \in Nat
      /\ i \in 1..(Len(s) - 1)
      /\ c \in Memory /\ c.addr = s[i].addr /\ End(c) = End(s[i + 1])
      /\ \A j \in 1..(Len(s) - 1) :
            r[j] = IF j < i THEN s[j] ELSE IF j = i THEN c ELSE s[j + 1]
  BY MergeElements
<1> HIDE DEF c, r
<1>2. ASSUME NEW j \in 1..(Len(r) - 1), j = i => i + 1 \notin K
      PROVE  End(r[j]) < r[j + 1].addr
  <2>1. /\ End(r[j]) = IF j < i THEN End(s[j]) ELSE End(s[j + 1])
        /\ r[j + 1].addr = IF j + 1 <= i THEN s[j + 1].addr ELSE s[j + 2].addr
    <3>1. j \in 1..(Len(s) - 1) /\ j + 1 \in 1..(Len(s) - 1) /\ (j + 1) + 1 = j + 2
      BY <1>1
    <3>2. /\ r[j] = IF j < i THEN s[j] ELSE IF j = i THEN c ELSE s[j + 1]
          /\ r[j + 1] = IF j + 1 < i THEN s[j + 1] ELSE IF j + 1 = i THEN c ELSE s[j + 2]
      BY <1>1, <3>1
    <3>3. CASE j + 1 < i
      <4>1. j < i /\ j + 1 <= i
        BY <1>1, <3>1, <3>3
      <4> QED BY <3>2, <3>3, <4>1
    <3>4. CASE j + 1 = i
      <4>1. j < i /\ j + 1 <= i /\ ~(j + 1 < i) /\ s[i].addr = s[j + 1].addr
        BY <1>1, <3>1, <3>4
      <4> QED BY <1>1, <3>2, <3>4, <4>1
    <3>5. CASE j = i
      <4>1. ~(j < i) /\ ~(j + 1 < i) /\ ~(j + 1 = i) /\ ~(j + 1 <= i)
        BY <1>1, <3>1, <3>5
      <4> QED BY <1>1, <3>2, <3>5, <4>1
    <3>6. CASE j > i
      <4>1. ~(j < i) /\ j # i /\ ~(j + 1 < i) /\ ~(j + 1 = i) /\ ~(j + 1 <= i)
        BY <1>1, <3>1, <3>6
      <4> QED BY <3>2, <4>1
    <3> QED BY <1>1, <3>1, <3>3, <3>4, <3>5, <3>6
  <2>2. CASE j < i
    BY <1>1, <2>1, <2>2 DEF Tight
  <2>3. CASE j >= i
    <3>1. j + 1 \in 1..(Len(s) - 1) /\ j + 1 \notin K /\ (j + 1) + 1 = j + 2
      BY <1>1, <1>2, <2>3
    <3> QED BY <1>1, <2>1, <2>3, <3>1 DEF Tight
  <2> QED BY <1>1, <2>2, <2>3
<1> QED BY <1>2 DEF Tight, r

\* a chunk put in its place among chunks that avoid it
LEMMA InsertSound ==
    ASSUME NEW s, Sound(s), NEW c \in Memory, Sound(<<c>>),
           Avoids(s, c.addr, End(c)), NEW i \in 1..(Len(s) + 1),
           \A j \in 1..(i - 1) : s[j].addr <= c.addr,
           i <= Len(s) => c.addr < s[i].addr
    PROVE  /\ Sound(InsertAt(s, i, c))
           /\ Tight(s, {}) => Tight(InsertAt(s, i, c), {i - 1, i})
           /\ \A a, b \in Nat : Avoids(s, a, b) /\ Avoids(<<c>>, a, b)
                                => Avoids(InsertAt(s, i, c), a, b)
<1> DEFINE r == InsertAt(s, i, c)
<1>1. s \in Seq(Memory) /\ Len(s) \in Nat /\ i \in Nat
  BY DEF Sound
<1>2. /\ r \in Seq(Memory) /\ Len(r) = Len(s) + 1
      /\ \A j \in 1..(Len(s) + 1) :
            r[j] = IF j < i THEN s[j] ELSE IF j = i THEN c ELSE s[j - 1]
  <2>1. /\ r \in Seq(Memory) /\ Len(r) = Len(s) + 1
        /\ \A j \in 1..(i - 1) : r[j] = s[j]
        /\ r[i] = c
        /\ \A j \in (i + 1)..(Len(s) + 1) : r[j] = s[j - 1]
    BY <1>1, InsertAtFacts
  <2> HIDE DEF r
  <2> QED BY <1>1, <2>1
<1>3. \A j \in 1..Len(s) : s[j].addr \in Nat /\ s[j].size \in Nat /\ End(s[j]) \in Nat
  <2>1. \A j \in 1..Len(s) : s[j] \in Memory
    BY DEF Sound
  <2> QED BY <2>1, MemoryFields
<1>4. /\ c.addr \in Nat /\ End(c) \in Nat /\ c.addr < End(c)
      /\ c.size > 0 /\ c.addr % 4 = 0 /\ Addr <= c.addr /\ End(c) <= Addr + Size
  <2>1. c = <<c>>[1] /\ 1 \in 1..Len(<<c>>)
    OBVIOUS
  <2>2. c.size > 0 /\ c.addr % 4 = 0 /\ Addr <= c.addr /\ End(c) <= Addr + Size
    BY <2>1 DEF Sound
  <2> QED BY <2>2, MemoryFields DEF End
<1> HIDE DEF r
<1>5. ASSUME NEW j \in 1..Len(r)
      PROVE  \/ j < i /\ j \in 1..Len(s) /\ r[j] = s[j]
             \/ j = i /\ r[j] = c
             \/ j > i /\ j - 1 \in 1..Len(s) /\ r[j] = s[j - 1]
  BY <1>1, <1>2
<1>6. \A x, y \in 1..Len(s) : x < y => End(s[x]) <= s[y].addr
  BY DEF Sound
<1>7. \A j \in 1..Len(s) : j < i => End(s[j]) <= c.addr
  <2> SUFFICES ASSUME NEW j \in 1..Len(s), j < i PROVE End(s[j]) <= c.addr
    OBVIOUS
  <2>1. j \in 1..(i - 1) /\ s[j].addr <= c.addr
    BY <1>1
  <2>2. End(s[j]) <= c.addr \/ End(c) <= s[j].addr
    BY DEF Avoids
  <2> QED BY <1>3, <1>4, <2>1, <2>2
<1>8. \A j \in 1..Len(s) : j >= i => End(c) <= s[j].addr
  <2> SUFFICES ASSUME NEW j \in 1..Len(s), j >= i PROVE End(c) <= s[j].addr
    OBVIOUS
  <2>0. i \in 1..Len(s) /\ c.addr < s[i].addr /\ s[i].addr <= End(s[i])
    BY <1>1, <1>3 DEF End
  <2>1. c.addr < s[j].addr
    <3>1. CASE j = i
      BY <2>0, <3>1
    <3>2. CASE j > i
      <4>1. End(s[i]) <= s[j].addr
        BY <1>6, <2>0, <3>2
      <4>2. c.addr \in Nat /\ s[i].addr \in Nat /\ End(s[i]) \in Nat /\ s[j].addr \in Nat
        BY <1>3, <1>4, <2>0
      <4> QED BY <2>0, <4>1, <4>2
    <3> QED BY <3>1, <3>2
  <2>2. s[j].addr <= End(s[j])
    BY <1>3 DEF End
  <2>3. End(s[j]) <= c.addr \/ End(c) <= s[j].addr
    BY DEF Avoids
  <2> QED BY <1>3, <1>4, <2>1, <2>2, <2>3
<1>9. ASSUME NEW j \in 1..Len(r)
      PROVE  /\ r[j].size > 0 /\ r[j].addr % 4 = 0
             /\ Addr <= r[j].addr /\ End(r[j]) <= Addr + Size
  BY <1>4, <1>5 DEF Sound
<1>10. ASSUME NEW j \in 1..Len(r), NEW k \in 1..Len(r), j < k
       PROVE  End(r[j]) <= r[k].addr
  <2>1. CASE k < i
    BY <1>1, <1>2, <1>5, <1>6, <1>10, <2>1
  <2>2. CASE k = i
    <3>1. j < i /\ j \in 1..Len(s) /\ r[j] = s[j] /\ r[k] = c
      BY <1>1, <1>2, <1>5, <1>10, <2>2
    <3> QED BY <1>7, <3>1
  <2>3. CASE k > i
    <3>1. k - 1 \in 1..Len(s) /\ k - 1 >= i /\ r[k] = s[k - 1]
      BY <1>1, <1>2, <1>5, <2>3
    <3>2. CASE j < i
      <4>1. j \in 1..Len(s) /\ r[j] = s[j] /\ j < k - 1
        BY <1>1, <1>2, <1>5, <3>1, <3>2
      <4> QED BY <1>6, <3>1, <4>1
    <3>3. CASE j = i
      <4>1. r[j] = c
        BY <1>5, <3>3
      <4> QED BY <1>8, <3>1, <4>1
    <3>4. CASE j > i
      <4>1. j - 1 \in 1..Len(s) /\ r[j] = s[j - 1] /\ j - 1 < k - 1
        BY <1>1, <1>2, <1>5, <1>10, <3>4
      <4> QED BY <1>6, <3>1, <4>1
    <3> QED BY <1>1, <3>2, <3>3, <3>4
  <2> QED BY <1>1, <2>1, <2>2, <2>3
<1>11. ASSUME Tight(s, {}), NEW j \in 1..(Len(r) - 1), j \notin {i - 1, i}
       PROVE  End(r[j]) < r[j + 1].addr
  <2>1. CASE j + 1 < i
    <3>1. j \in 1..(Len(s) - 1) /\ r[j] = s[j] /\ r[j + 1] = s[j + 1]
      BY <1>1, <1>2, <2>1
    <3> QED BY <1>11, <3>1 DEF Tight
  <2>2. CASE j > i
    <3>1. j - 1 \in 1..(Len(s) - 1) /\ r[j] = s[j - 1] /\ r[j + 1] = s[(j - 1) + 1]
      BY <1>1, <1>2, <2>2
    <3> QED BY <1>11, <3>1 DEF Tight
  <2>3. j + 1 < i \/ j > i
    BY <1>1, <1>2, <1>11
  <2> QED BY <2>1, <2>2, <2>3
<1>12. ASSUME NEW a \in Nat, NEW b \in Nat, Avoids(s, a, b), Avoids(<<c>>, a, b),
              NEW j \in 1..Len(r)
       PROVE  End(r[j]) <= a \/ b <= r[j].addr
  <2>1. c = <<c>>[1] /\ 1 \in 1..Len(<<c>>)
    OBVIOUS
  <2>2. End(c) <= a \/ b <= c.addr
    BY <1>12, <2>1 DEF Avoids
  <2>3. \A k \in 1..Len(s) : End(s[k]) <= a \/ b <= s[k].addr
    BY <1>12 DEF Avoids
  <2> QED BY <1>5, <2>2, <2>3
<1>13. Sound(r)
  BY <1>2, <1>9, <1>10 DEF Sound
<1>14. Tight(s, {}) => Tight(r, {i - 1, i})
  BY <1>11 DEF Tight
<1>15. \A a, b \in Nat : Avoids(s, a, b) /\ Avoids(<<c>>, a, b) => Avoids(r, a, b)
  BY <1>12 DEF Avoids
<1> QED BY <1>13, <1>14, <1>15 DEF r

\* free_mem() leaves a sound list without chunks that touch
LEMMA InsertAndMergeSound ==
    ASSUME NEW s, Sound(s), Tight(s, {}), NEW c \in Memory, Sound(<<c>>),
           Avoids(s, c.addr, End(c)), NEW i \in 1..(Len(s) + 1),
           \A j \in 1..(i - 1) : s[j].addr <= c.addr,
           i <= Len(s) => c.addr < s[i].addr
    PROVE  LET r == InsertAndMerge(s, i, c)
           IN /\ Sound(r) /\ Tight(r, {})
              /\ \A a, b \in Nat : a < b /\ Avoids(s, a, b) /\ Avoids(<<c>>, a, b)
                                    => Avoids(r, a, b)
<1> DEFINE u == InsertAt(s, i, c)
           j == IF Adjacent(u, i - 1) THEN i - 1 ELSE i
           v == merge_chunk(u, i - 1)
           r == merge_chunk(v, j)
<1>0. i \in Nat /\ i - 1 \in Int /\ (i - 1) + 1 = i
  BY DEF Sound
<1>1. /\ Sound(u) /\ Tight(u, {i - 1, i})
      /\ \A a, b \in Nat : Avoids(s, a, b) /\ Avoids(<<c>>, a, b) => Avoids(u, a, b)
  BY InsertSound
<1>2. InsertAndMerge(s, i, c) = r
  BY DEF InsertAndMerge
<1> HIDE DEF u
<1>3. /\ Sound(v)
      /\ \A a, b \in Nat : a < b /\ Avoids(u, a, b) => Avoids(v, a, b)
  BY <1>0, <1>1, MergeSound
<1>4. Tight(v, {j})
  <2>1. CASE Adjacent(u, i - 1)
    <3>1. Tight(v, IF (i - 1) + 1 \in {i - 1, i} THEN {i - 1} ELSE {})
      BY <1>0, <1>1, <2>1, AdjacentTight
    <3> QED BY <1>0, <2>1, <3>1
  <2>2. CASE ~Adjacent(u, i - 1)
    <3>1. Tight(u, {i - 1, i} \ {i - 1})
      BY <1>0, <1>1, <2>2, NotAdjacentTight
    <3>2. {i - 1, i} \ {i - 1} = {i} /\ j = i /\ v = u
      BY <1>0, <2>2 DEF merge_chunk
    <3> QED BY <3>1, <3>2
  <2> QED BY <2>1, <2>2
<1>5. j \in Int
  BY <1>0
<1> HIDE DEF v, j
<1>6. /\ Sound(r)
      /\ \A a, b \in Nat : a < b /\ Avoids(v, a, b) => Avoids(r, a, b)
  BY <1>3, <1>5, MergeSound
<1>7. Tight(r, {})
  <2>1. CASE Adjacent(v, j)
    <3>1. Tight(r, IF j + 1 \in {j} THEN {j} ELSE {})
      BY <1>3, <1>4, <1>5, <2>1, AdjacentTight
    <3>2. j + 1 \notin {j}
      BY <1>5
    <3> QED BY <3>1, <3>2
  <2>2. CASE ~Adjacent(v, j)
    <3>1. Tight(v, {j} \ {j})
      BY <1>3, <1>4, <1>5, <2>2, NotAdjacentTight
    <3>2. {j} \ {j} = {} /\ r = v
      BY <2>2 DEF merge_chunk
    <3> QED BY <3>1, <3>2
  <2> QED BY <2>1, <2>2
<1> HIDE DEF r
<1> QED BY <1>1, <1>2, <1>3, <1>6, <1>7

\* alloc_mem() takes the front of a chunk off the list
LEMMA TakeFromSound ==
    ASSUME NEW s, Sound(s), NEW i \in 1..Len(s), NEW n \in Nat, n > 0, n % 4 = 0,
           does_fit(s[i], n)
    PROVE  LET r == TakeFrom(s, i, n)
           IN /\ Sound(r)
              /\ Tight(s, {}) => Tight(r, {})
              /\ Avoids(r, s[i].addr, s[i].addr + n)
              /\ \A a, b \in Nat : Avoids(s, a, b) => Avoids(r, a, b)
<1> DEFINE r == TakeFrom(s, i, n)
<1>1. s \in Seq(Memory) /\ Len(s) \in Nat /\ i \in Nat
  BY DEF Sound
<1>2. \A j \in 1..Len(s) : /\ s[j].addr \in Nat /\ s[j].size \in Nat
                           /\ End(s[j]) \in Nat /\ End(s[j]) = s[j].addr + s[j].size
  <2>1. \A j \in 1..Len(s) : s[j] \in Memory
    BY DEF Sound
  <2> QED BY <2>1, MemoryFields DEF End
<1>3. \A x, y \in 1..Len(s) : x < y => End(s[x]) <= s[y].addr
  BY DEF Sound
<1>4. \A j \in 1..Len(s) : s[j].size > 0
  BY DEF Sound
<1>5. CASE s[i].size = n
  <2>1. /\ r \in Seq(Memory) /\ Len(r) = Len(s) - 1
        /\ \A j \in 1..(Len(s) - 1) : r[j] = IF j < i THEN s[j] ELSE s[j + 1]
    <3>1. r = RemoveAt(s, i)
      BY <1>5 DEF TakeFrom
    <3> HIDE DEF r
    <3> QED BY <1>1, <3>1, RemoveAtFacts
  <2> HIDE DEF r
  <2>2. ASSUME NEW j \in 1..Len(r)
        PROVE  \/ j < i /\ j \in 1..Len(s) /\ r[j] = s[j]
               \/ j >= i /\ j + 1 \in 1..Len(s) /\ r[j] = s[j + 1]
    BY <1>1, <2>1
  <2>3. Sound(r)
    <3>1. ASSUME NEW j \in 1..Len(r)
          PROVE  /\ r[j].size > 0 /\ r[j].addr % 4 = 0
                 /\ Addr <= r[j].addr /\ End(r[j]) <= Addr + Size
      BY <2>2 DEF Sound
    <3>2. ASSUME NEW j \in 1..Len(r), NEW k \in 1..Len(r), j < k
          PROVE  End(r[j]) <= r[k].addr
      BY <1>1, <1>3, <2>1, <2>2, <3>2, SMTT(30)
    <3> QED BY <2>1, <3>1, <3>2 DEF Sound
  <2>4. ASSUME Tight(s, {}) PROVE Tight(r, {})
    <3> SUFFICES ASSUME NEW j \in 1..(Len(r) - 1) PROVE End(r[j]) < r[j + 1].addr
      BY DEF Tight
    <3>0. \A k \in 1..(Len(s) - 1) : End(s[k]) < s[k + 1].addr
      BY <2>4 DEF Tight
    <3>1. CASE j + 1 < i
      BY <1>1, <2>1, <3>0, <3>1
    <3>2. CASE j + 1 = i
      <4>1. /\ j \in 1..(Len(s) - 1) /\ i + 1 \in 1..Len(s)
            /\ r[j] = s[j] /\ r[j + 1] = s[i + 1] /\ s[j + 1] = s[i]
        BY <1>1, <2>1, <3>2
      <4>2. End(s[j]) < s[i].addr
        BY <3>0, <4>1
      <4>3. End(s[i]) <= s[i + 1].addr
        BY <1>1, <1>3, <4>1
      <4>4. j \in 1..Len(s)
        BY <1>1, <4>1
      <4>5. End(s[j]) \in Nat /\ s[i + 1].addr \in Nat
        BY <1>2, <4>1, <4>4
      <4>6. s[i].addr \in Nat /\ s[i].size \in Nat /\ End(s[i]) = s[i].addr + s[i].size
        BY <1>2
      <4> QED BY <4>1, <4>2, <4>3, <4>5, <4>6, SMTT(30)
    <3>3. CASE j >= i
      <4>1. j + 1 \in 1..(Len(s) - 1) /\ r[j] = s[j + 1] /\ r[j + 1] = s[(j + 1) + 1]
        BY <1>1, <2>1, <3>3
      <4> QED BY <3>0, <4>1
    <3> QED BY <1>1, <3>1, <3>2, <3>3
  <2>5. Avoids(r, s[i].addr, s[i].addr + n)
    <3> SUFFICES ASSUME NEW j \in 1..Len(r)
                 PROVE  End(r[j]) <= s[i].addr \/ s[i].addr + n <= r[j].addr
      BY DEF Avoids
    <3>1. s[i].addr + n = End(s[i])
      BY <1>2, <1>5
    <3>2. CASE j < i
      BY <1>1, <1>3, <2>2, <3>2
    <3>3. CASE j >= i
      BY <1>1, <1>3, <2>2, <3>1, <3>3
    <3> QED BY <1>1, <3>2, <3>3
  <2>6. \A a, b \in Nat : Avoids(s, a, b) => Avoids(r, a, b)
    BY <2>2 DEF Avoids
  <2> QED BY <2>3, <2>4, <2>5, <2>6 DEF r
<1>6. CASE s[i].size # n
  <2> DEFINE c == Chunk(s[i].addr + n, s[i].size - n)
  <2>1. /\ c \in Memory /\ c.addr = s[i].addr + n /\ c.size = s[i].size - n
        /\ c.size > 0 /\ End(c) = End(s[i])
    <3>1. s[i].size > n
      BY <1>2, <1>6 DEF does_fit
    <3>2. c.addr = s[i].addr + n /\ c.size = s[i].size - n
      BY DEF Chunk
    <3>3. s[i].addr + n \in Nat /\ s[i].size - n \in Nat /\ s[i].size - n > 0
      BY <1>2, <3>1
    <3>4. c \in Memory
      BY <3>3 DEF Chunk, Memory
    <3> HIDE DEF c
    <3>5. End(c) = End(s[i])
      <4>1. s[i].addr \in Nat /\ s[i].size \in Nat /\ End(s[i]) = s[i].addr + s[i].size
        BY <1>2
      <4>2. End(c) = c.addr + c.size
        BY DEF End
      <4> QED BY <3>2, <4>1, <4>2
    <3> QED BY <3>2, <3>3, <3>4, <3>5
  <2>2. r = [s EXCEPT ![i] = c]
    BY <1>6 DEF TakeFrom, ReplaceAt
  <2> HIDE DEF c, r
  <2>3. /\ r \in Seq(Memory) /\ Len(r) = Len(s)
        /\ \A j \in 1..Len(s) : r[j] = IF j = i THEN c ELSE s[j]
    BY <1>1, <2>1, <2>2
  <2>4. \A j \in 1..Len(s) : /\ End(r[j]) = End(s[j])
                             /\ r[j].addr = IF j = i THEN s[i].addr + n ELSE s[j].addr
    BY <2>1, <2>3
  <2>5. Sound(r)
    <3>1. ASSUME NEW j \in 1..Len(r)
          PROVE  /\ r[j].size > 0 /\ r[j].addr % 4 = 0
                 /\ Addr <= r[j].addr /\ End(r[j]) <= Addr + Size
      <4>1. CASE j = i
        <5>1. r[j] = c /\ s[i].addr % 4 = 0 /\ Addr <= s[i].addr /\ End(s[i]) <= Addr + Size
          BY <2>3, <4>1 DEF Sound
        <5>2. (s[i].addr + n) % 4 = 0
          BY <1>2, <5>1, AlignedSum
        <5>3. s[i].addr \in Nat /\ Addr <= s[i].addr + n
          BY <1>2, <5>1, AddrAssumption
        <5> QED BY <2>1, <5>1, <5>2, <5>3
      <4>2. CASE j # i
        BY <2>3, <4>2 DEF Sound
      <4> QED BY <4>1, <4>2
    <3>2. ASSUME NEW j \in 1..Len(r), NEW k \in 1..Len(r), j < k
          PROVE  End(r[j]) <= r[k].addr
      BY <1>2, <1>3, <2>3, <2>4, <3>2, SMTT(30)
    <3> QED BY <2>3, <3>1, <3>2 DEF Sound
  <2>6. ASSUME Tight(s, {}) PROVE Tight(r, {})
    <3> SUFFICES ASSUME NEW j \in 1..(Len(r) - 1) PROVE End(r[j]) < r[j + 1].addr
      BY DEF Tight
    <3>1. j \in 1..Len(s) /\ j + 1 \in 1..Len(s) /\ End(s[j]) < s[j + 1].addr
      BY <1>1, <2>3, <2>6 DEF Tight
    <3>2. /\ s[j + 1].addr \in Nat /\ End(s[j]) \in Nat
          /\ End(r[j]) = End(s[j])
          /\ r[j + 1].addr = IF j + 1 = i THEN s[i].addr + n ELSE s[j + 1].addr
      BY <1>2, <2>4, <3>1
    <3> QED BY <3>1, <3>2
  <2>7. Avoids(r, s[i].addr, s[i].addr + n)
    <3> SUFFICES ASSUME NEW j \in 1..Len(s)
                 PROVE  End(r[j]) <= s[i].addr \/ s[i].addr + n <= r[j].addr
      BY <2>3 DEF Avoids
    <3>1. CASE j < i
      BY <1>3, <2>4, <3>1
    <3>2. CASE j = i
      BY <1>2, <2>4, <3>2
    <3>3. CASE j > i
      <4>1. End(s[i]) <= s[j].addr /\ n <= s[i].size
        BY <1>2, <1>3, <3>3 DEF does_fit
      <4>2. s[j].addr \in Nat
        BY <1>2
      <4>3. r[j].addr = s[j].addr
        BY <2>4, <3>3
      <4>4. s[i].addr \in Nat /\ s[i].size \in Nat /\ End(s[i]) = s[i].addr + s[i].size
        BY <1>2
      <4> QED BY <4>1, <4>2, <4>3, <4>4
    <3> QED BY <1>1, <3>1, <3>2, <3>3
  <2>8. ASSUME NEW a \in Nat, NEW b \in Nat, Avoids(s, a, b)
        PROVE  Avoids(r, a, b)
    <3> SUFFICES ASSUME NEW j \in 1..Len(s)
                 PROVE  End(r[j]) <= a \/ b <= r[j].addr
      BY <2>3 DEF Avoids
    <3>1. End(s[j]) <= a \/ b <= s[j].addr
      BY <2>8 DEF Avoids
    <3> QED BY <1>2, <2>4, <3>1, SMTT(30)
  <2> QED BY <2>5, <2>6, <2>7, <2>8 DEF r
<1> QED BY <1>5, <1>6

-----------------------------------------------------------------------------
(***************************************************************************)
(* The inductive invariant.  A block is in the maps under its own address  *)
(* and with its own size, lies in the pool, and shares no byte with a      *)
(* chunk of the free list or with another block.                           *)
(***************************************************************************)
BlockEnd(m) == m.addr + Align(m.size)

Placed(m) ==
    /\ m \in Memory /\ m.size > 0
    /\ m.addr % 4 = 0 /\ Addr <= m.addr /\ BlockEnd(m) <= Addr + Size

Recorded(m) ==
    /\ m.addr \in DOMAIN addrs /\ addrs[m.addr] = Align(m.size)
    /\ m.addr \in DOMAIN mem_objs /\ mem_objs[m.addr] = m

Disjoint(m, n) == BlockEnd(m) <= n.addr \/ BlockEnd(n) <= m.addr

BlocksRight ==
    \A o \in Owners : Holds(o) =>
        /\ Placed(own[o]) /\ Recorded(own[o])
        /\ Avoids(free, own[o].addr, BlockEnd(own[o]))

BlocksDisjoint ==
    \A o, p \in Owners : o # p /\ Holds(o) /\ Holds(p) => Disjoint(own[o], own[p])

MemInv ==
    /\ TypeOK
    /\ Sound(free) /\ Tight(free, {})
    /\ BlocksRight
    /\ BlocksDisjoint
    /\ FreeNeverFails

\* The new allocator, one chunk and no block, satisfies the invariant.
LEMMA InitMemInv == Init => MemInv
<1> SUFFICES ASSUME Init PROVE MemInv
  OBVIOUS
<1>1. free = <<Chunk(Addr, Size)>> /\ Chunk(Addr, Size) \in Memory
  BY AddrAssumption, SizeAssumption DEF Init, Chunk, Memory
<1>2. Len(free) = 1 /\ free[1].addr = Addr /\ free[1].size = Size
  BY DEF Init, Chunk
<1>3. Sound(free) /\ Tight(free, {})
  <2>1. End(free[1]) = Addr + Size
    BY <1>2 DEF End
  <2>2. free \in Seq(Memory)
    BY <1>1
  <2>3. \A i \in 1..Len(free) : i = 1
    BY <1>2
  <2> QED BY <1>2, <2>1, <2>2, <2>3, AddrAssumption, SizeAssumption DEF Sound, Tight
<1>4. \A o \in Owners : ~Holds(o)
  BY DEF Init, Holds
<1>5. TypeOK
  BY <1>3, AddrAssumption, SizeAssumption DEF Init, TypeOK, Sound
<1> QED BY <1>3, <1>4, <1>5 DEF MemInv, BlocksRight, BlocksDisjoint, FreeNeverFails, Init

\* what free_memory() and FreeVec() both do to a block that is in the maps
Freed(o) ==
    /\ Holds(o)
    /\ \E i \in 1..(Len(free) + 1) :
        LET c == Chunk(own[o].addr, Align(own[o].size))
        IN /\ IsInsertPos(i, own[o].addr)
           /\ free' = InsertAndMerge(free, i, c)
           /\ free_entries' = free_entries + 1 - Merges(free, i, c)
    /\ addrs' = Del(addrs, own[o].addr)
    /\ mem_objs' = Del(mem_objs, own[o].addr)
    /\ free_bytes' = free_bytes + Align(own[o].size)
    /\ own' = [own EXCEPT ![o] = NoMem]
    /\ UNCHANGED error

\* In a state of the invariant free_memory() and FreeVec() raise nothing: both give
\* back just the block the owner was given.
LEMMA FreesAreFreed ==
    ASSUME MemInv, NEW o \in Owners, free_memory(o) \/ FreeVec(o)
    PROVE  Freed(o)
<1>1. Holds(o) /\ error = "none"
  BY DEF free_memory, FreeVec, Holds
<1>2. Recorded(own[o])
  BY <1>1 DEF MemInv, BlocksRight
<1>3. free_mem(own[o].addr, own[o].size)
  BY <1>1, <1>2 DEF free_memory, FreeVec, Recorded
<1>4. own' = [own EXCEPT ![o] = NoMem]
  BY DEF free_memory, FreeVec
<1>5. /\ \E i \in 1..(Len(free) + 1) :
            /\ IsInsertPos(i, own[o].addr)
            /\ free' = InsertAndMerge(free, i, Chunk(own[o].addr, addrs[own[o].addr]))
            /\ free_entries' = free_entries + 1
                                - Merges(free, i, Chunk(own[o].addr, addrs[own[o].addr]))
      /\ addrs' = Del(addrs, own[o].addr)
      /\ free_bytes' = free_bytes + Align(own[o].size)
      /\ error' = error
  BY <1>2, <1>3 DEF free_mem, Recorded
<1>6. mem_objs' = Del(mem_objs, own[o].addr)
  BY <1>1, <1>2, <1>5 DEF free_memory, FreeVec, Recorded
<1> QED BY <1>1, <1>2, <1>4, <1>5, <1>6 DEF Freed, Recorded

\* the bounds of a block
LEMMA PlacedFacts ==
    ASSUME NEW m, Placed(m)
    PROVE  /\ m \in Memory /\ m.addr \in Nat /\ m.size \in Nat
           /\ Align(m.size) \in Nat /\ Align(m.size) > 0
           /\ BlockEnd(m) \in Nat /\ m.addr < BlockEnd(m)
<1>1. m \in Memory /\ m.addr \in Nat /\ m.size \in Nat /\ m.size > 0
  BY MemoryFields DEF Placed
<1>2. Align(m.size) \in Nat /\ Align(m.size) > 0
  BY <1>1, AlignFacts
<1>3. BlockEnd(m) = m.addr + Align(m.size)
  BY DEF BlockEnd
<1> QED BY <1>1, <1>2, <1>3

\* Giving a block back, insertion and both merges included, preserves the invariant.
LEMMA FreedInv ==
    ASSUME MemInv, NEW o \in Owners, Freed(o)
    PROVE  MemInv'
<1> DEFINE m == own[o]
           c == Chunk(m.addr, Align(m.size))
<1>1. Holds(o) /\ Placed(m) /\ Avoids(free, m.addr, BlockEnd(m))
  BY DEF Freed, MemInv, BlocksRight
<1>2. /\ m.addr \in Nat /\ m.size \in Nat /\ Align(m.size) \in Nat /\ Align(m.size) > 0
      /\ BlockEnd(m) \in Nat /\ m.addr < BlockEnd(m)
  BY <1>1, PlacedFacts
<1>3. /\ c \in Memory /\ c.addr = m.addr /\ c.size = Align(m.size) /\ End(c) = BlockEnd(m)
  BY <1>2 DEF Chunk, Memory, End, BlockEnd
<1>4. PICK i \in 1..(Len(free) + 1) :
        /\ IsInsertPos(i, m.addr)
        /\ free' = InsertAndMerge(free, i, c)
        /\ free_entries' = free_entries + 1 - Merges(free, i, c)
  BY DEF Freed
<1> HIDE DEF c
<1>5. Sound(<<c>>)
  <2>1. <<c>> \in Seq(Memory) /\ Len(<<c>>) = 1 /\ <<c>>[1] = c
    BY <1>3
  <2> QED BY <1>1, <1>2, <1>3, <2>1 DEF Sound, Placed
<1>6. /\ Sound(free') /\ Tight(free', {})
      /\ \A a, b \in Nat : a < b /\ Avoids(free, a, b) /\ Avoids(<<c>>, a, b)
                            => Avoids(free', a, b)
  <2>1. Sound(free) /\ Tight(free, {})
    BY DEF MemInv
  <2>2. /\ Avoids(free, c.addr, End(c))
        /\ \A j \in 1..(i - 1) : free[j].addr <= c.addr
        /\ i <= Len(free) => c.addr < free[i].addr
    BY <1>1, <1>3, <1>4 DEF IsInsertPos
  <2> QED BY <1>3, <1>4, <1>5, <2>1, <2>2, InsertAndMergeSound
<1>7. ASSUME NEW p \in Owners, Holds(p)'
      PROVE  /\ p # o /\ Holds(p) /\ own'[p] = own[p]
             /\ Placed(own[p]) /\ Recorded(own[p])
             /\ Avoids(free, own[p].addr, BlockEnd(own[p]))
             /\ Disjoint(m, own[p])
  <2>1. p # o /\ own'[p] = own[p] /\ Holds(p)
    BY <1>7 DEF Freed, MemInv, TypeOK, Holds
  <2> QED BY <1>1, <2>1 DEF MemInv, BlocksRight, BlocksDisjoint
<1>8. BlocksRight'
  <2> SUFFICES ASSUME NEW p \in Owners, Holds(p)'
               PROVE  /\ Placed(own[p])' /\ Recorded(own[p])'
                      /\ Avoids(free, own[p].addr, BlockEnd(own[p]))'
    BY DEF BlocksRight
  <2>1. /\ own'[p] = own[p] /\ Placed(own[p]) /\ Recorded(own[p]) /\ Disjoint(m, own[p])
        /\ Avoids(free, own[p].addr, BlockEnd(own[p]))
    BY <1>7
  <2>2. /\ own[p].addr \in Nat /\ BlockEnd(own[p]) \in Nat /\ own[p].addr < BlockEnd(own[p])
    BY <2>1, PlacedFacts
  <2>3. Placed(own[p])'
    BY <2>1 DEF Placed, BlockEnd
  <2>4. own[p].addr # m.addr
    BY <1>2, <2>1, <2>2 DEF Disjoint
  <2>5. Recorded(own[p])'
    BY <2>1, <2>4 DEF Recorded, Freed, Del
  <2>6. Avoids(<<c>>, own[p].addr, BlockEnd(own[p]))
    <3>1. Len(<<c>>) = 1 /\ <<c>>[1] = c
      OBVIOUS
    <3>2. End(c) <= own[p].addr \/ BlockEnd(own[p]) <= c.addr
      BY <1>3, <2>1 DEF Disjoint
    <3> QED BY <3>1, <3>2 DEF Avoids
  <2>7. Avoids(free', own[p].addr, BlockEnd(own[p]))
    BY <1>6, <2>1, <2>2, <2>6
  <2>8. Avoids(free, own[p].addr, BlockEnd(own[p]))'
    BY <2>1, <2>7 DEF BlockEnd, Avoids
  <2> QED BY <2>3, <2>5, <2>8
<1>9. BlocksDisjoint'
  <2> SUFFICES ASSUME NEW p \in Owners, NEW q \in Owners, p # q, Holds(p)', Holds(q)'
               PROVE  Disjoint(own[p], own[q])'
    BY DEF BlocksDisjoint
  <2>1. Holds(p) /\ Holds(q) /\ own'[p] = own[p] /\ own'[q] = own[q]
    BY <1>7
  <2> QED BY <2>1 DEF MemInv, BlocksDisjoint, Disjoint, BlockEnd
<1>10. TypeOK'
  <2>1. free' \in Seq(Memory)
    BY <1>6 DEF Sound
  <2>2. Merges(free, i, c) \in Int
    BY DEF Merges
  <2>3. free_bytes' \in Int /\ free_entries' \in Int
    BY <1>2, <1>4, <2>2, SMTT(30) DEF Freed, MemInv, TypeOK
  <2>4. /\ DOMAIN addrs' \subseteq Nat /\ \A a \in DOMAIN addrs' : addrs'[a] \in Nat
        /\ DOMAIN mem_objs' \subseteq Nat /\ \A a \in DOMAIN mem_objs' : mem_objs'[a] \in Memory
    BY DEF Freed, Del, MemInv, TypeOK
  <2>5. own' \in [Owners -> Memory \cup {NoMem}]
    BY DEF Freed, MemInv, TypeOK
  <2>6. error' \in {"none", "VamosInternalError", "AssertionError"}
    BY DEF Freed, MemInv, TypeOK
  <2> QED BY <2>1, <2>3, <2>4, <2>5, <2>6 DEF TypeOK, Memory
<1>11. FreeNeverFails'
  BY DEF Freed, MemInv, FreeNeverFails
<1> QED BY <1>6, <1>8, <1>9, <1>10, <1>11 DEF MemInv, Sound, Tight

\* what a successful allocation hands out
LEMMA AllocGives ==
    ASSUME MemInv, 0 \notin Sizes, NEW o \in Owners, NEW size \in Sizes, alloc_memory(o, size)
    PROVE  \E m : /\ own' = [own EXCEPT ![o] = m] /\ own[o] = NoMem
                  /\ m = Chunk(m.addr, size) /\ m.size = size /\ Placed(m)
                  /\ addrs' = Put(addrs, m.addr, Align(size))
                  /\ mem_objs' = Put(mem_objs, m.addr, m)
                  /\ Sound(free') /\ Tight(free', {}) /\ Avoids(free', m.addr, BlockEnd(m))
                  /\ \A a, b \in Nat : Avoids(free, a, b) => Avoids(free', a, b)
                  /\ \A p \in Owners : Holds(p) => Disjoint(m, own[p])
<1> DEFINE n == Align(size)
<1>1. PICK i \in 1..Len(free) :
        /\ IsBestChunk(i, n)
        /\ free' = TakeFrom(free, i, n)
        /\ addrs' = Put(addrs, free[i].addr, n)
        /\ mem_objs' = Put(mem_objs, free[i].addr, Chunk(free[i].addr, size))
        /\ own' = [own EXCEPT ![o] = Chunk(free[i].addr, size)]
  BY DEF alloc_memory
<1> DEFINE m == Chunk(free[i].addr, size)
<1>2. size \in Nat /\ size > 0 /\ n \in Nat /\ n > 0 /\ n % 4 = 0
  <2>1. size \in Nat /\ size # 0
    BY SizesAssumption
  <2>2. size > 0
    BY <2>1
  <2> QED BY <2>1, <2>2, AlignFacts
<1>3. /\ free[i] \in Memory /\ free[i].addr \in Nat /\ free[i].size \in Nat
      /\ End(free[i]) = free[i].addr + free[i].size /\ free[i].addr % 4 = 0
      /\ Addr <= free[i].addr /\ End(free[i]) <= Addr + Size
  BY MemoryFields DEF MemInv, Sound, End
<1>4. n <= free[i].size
  BY <1>1, <1>2, <1>3 DEF IsBestChunk, does_fit
<1>5. m.addr = free[i].addr /\ m.size = size /\ m \in Memory /\ m = Chunk(m.addr, size)
  BY <1>2, <1>3 DEF Chunk, Memory
<1>6. BlockEnd(m) = free[i].addr + n /\ BlockEnd(m) <= End(free[i])
  <2>1. BlockEnd(m) = m.addr + Align(m.size)
    BY DEF BlockEnd
  <2> QED BY <1>2, <1>3, <1>4, <1>5, <2>1
<1> HIDE DEF m, n
<1>7. Placed(m)
  <2>1. BlockEnd(m) <= Addr + Size
    <3>1. free[i].addr + n \in Int /\ free[i].addr + free[i].size \in Int
      BY <1>2, <1>3
    <3>2. Addr + Size \in Int
      BY AddrAssumption, SizeAssumption
    <3> QED BY <1>3, <1>6, <3>1, <3>2
  <2> QED BY <1>2, <1>3, <1>5, <2>1 DEF Placed
<1>8. /\ Sound(free') /\ Tight(free', {}) /\ Avoids(free', m.addr, BlockEnd(m))
      /\ \A a, b \in Nat : Avoids(free, a, b) => Avoids(free', a, b)
  <2>1. Sound(free) /\ Tight(free, {}) /\ does_fit(free[i], n)
    BY <1>1 DEF MemInv, IsBestChunk
  <2> QED BY <1>1, <1>2, <1>5, <1>6, <2>1, TakeFromSound
<1>9. ASSUME NEW p \in Owners, Holds(p)
      PROVE  Disjoint(m, own[p])
  <2>1. Placed(own[p]) /\ Avoids(free, own[p].addr, BlockEnd(own[p]))
    BY <1>9 DEF MemInv, BlocksRight
  <2>2. own[p].addr \in Nat /\ BlockEnd(own[p]) \in Nat
    BY <2>1, PlacedFacts
  <2>3. End(free[i]) <= own[p].addr \/ BlockEnd(own[p]) <= free[i].addr
    BY <2>1 DEF Avoids
  <2> QED BY <1>2, <1>3, <1>5, <1>6, <2>2, <2>3, SMTT(30) DEF Disjoint
<1>10. own[o] = NoMem
  BY DEF alloc_memory
<1> QED BY <1>1, <1>5, <1>7, <1>8, <1>9, <1>10 DEF m, n

\* alloc_memory() preserves the invariant.
LEMMA AllocInv ==
    ASSUME MemInv, 0 \notin Sizes, NEW o \in Owners, NEW size \in Sizes, alloc_memory(o, size)
    PROVE  MemInv'
<1>1. PICK m : /\ own' = [own EXCEPT ![o] = m] /\ own[o] = NoMem
               /\ m.size = size /\ Placed(m)
               /\ addrs' = Put(addrs, m.addr, Align(size))
               /\ mem_objs' = Put(mem_objs, m.addr, m)
               /\ Sound(free') /\ Tight(free', {}) /\ Avoids(free', m.addr, BlockEnd(m))
               /\ \A a, b \in Nat : Avoids(free, a, b) => Avoids(free', a, b)
               /\ \A p \in Owners : Holds(p) => Disjoint(m, own[p])
  BY AllocGives
<1>2. /\ m \in Memory /\ m.addr \in Nat /\ m.size \in Nat /\ Align(m.size) \in Nat
      /\ BlockEnd(m) \in Nat /\ m.addr < BlockEnd(m)
  BY <1>1, PlacedFacts
<1>3. own'[o] = m /\ \A p \in Owners \ {o} : own'[p] = own[p]
  BY <1>1 DEF MemInv, TypeOK
<1>4. ASSUME NEW p \in Owners, p # o, Holds(p)'
      PROVE  /\ Holds(p) /\ own'[p] = own[p] /\ Placed(own[p]) /\ Recorded(own[p])
             /\ Avoids(free, own[p].addr, BlockEnd(own[p])) /\ Disjoint(m, own[p])
  BY <1>1, <1>3, <1>4 DEF Holds, MemInv, BlocksRight
<1>5. BlocksRight'
  <2> SUFFICES ASSUME NEW p \in Owners, Holds(p)'
               PROVE  /\ Placed(own[p])' /\ Recorded(own[p])'
                      /\ Avoids(free, own[p].addr, BlockEnd(own[p]))'
    BY DEF BlocksRight
  <2>1. CASE p = o
    <3>1. Placed(own[p])' /\ Avoids(free, own[p].addr, BlockEnd(own[p]))'
      BY <1>1, <1>3, <2>1 DEF Placed, BlockEnd, Avoids
    <3>2. Recorded(own[p])'
      BY <1>1, <1>3, <2>1 DEF Recorded, Put
    <3> QED BY <3>1, <3>2
  <2>2. CASE p # o
    <3>1. /\ own'[p] = own[p] /\ Placed(own[p]) /\ Recorded(own[p]) /\ Disjoint(m, own[p])
          /\ Avoids(free, own[p].addr, BlockEnd(own[p]))
      BY <1>4, <2>2
    <3>2. own[p].addr \in Nat /\ BlockEnd(own[p]) \in Nat /\ own[p].addr < BlockEnd(own[p])
      BY <3>1, PlacedFacts
    <3>3. own[p].addr # m.addr
      BY <1>2, <3>1, <3>2 DEF Disjoint
    <3>4. Recorded(own[p])'
      BY <1>1, <3>1, <3>3 DEF Recorded, Put
    <3>5. Placed(own[p])' /\ Avoids(free', own[p].addr, BlockEnd(own[p]))
      BY <1>1, <3>1, <3>2 DEF Placed, BlockEnd
    <3>6. Avoids(free, own[p].addr, BlockEnd(own[p]))'
      BY <3>1, <3>5 DEF BlockEnd, Avoids
    <3> QED BY <3>4, <3>5, <3>6
  <2> QED BY <2>1, <2>2
<1>6. BlocksDisjoint'
  <2> SUFFICES ASSUME NEW p \in Owners, NEW q \in Owners, p # q, Holds(p)', Holds(q)'
               PROVE  Disjoint(own[p], own[q])'
    BY DEF BlocksDisjoint
  <2>1. CASE p = o
    BY <1>3, <1>4, <2>1 DEF Disjoint, BlockEnd
  <2>2. CASE q = o
    BY <1>3, <1>4, <2>2 DEF Disjoint, BlockEnd
  <2>3. CASE p # o /\ q # o
    <3>1. Holds(p) /\ Holds(q) /\ own'[p] = own[p] /\ own'[q] = own[q]
      BY <1>4, <2>3
    <3> QED BY <3>1 DEF MemInv, BlocksDisjoint, Disjoint, BlockEnd
  <2> QED BY <2>1, <2>2, <2>3
<1>7. TypeOK'
  <2>1. free' \in Seq(Memory)
    BY <1>1 DEF Sound
  <2>2. free_bytes' \in Int /\ free_entries' \in Int
    <3>1. Align(size) \in Nat
      BY <1>1, <1>2
    <3> QED BY <3>1 DEF alloc_memory, MemInv, TypeOK
  <2>3. /\ DOMAIN addrs' \subseteq Nat /\ \A a \in DOMAIN addrs' : addrs'[a] \in Nat
    BY <1>1, <1>2 DEF Put, MemInv, TypeOK
  <2>4. /\ DOMAIN mem_objs' \subseteq Nat /\ \A a \in DOMAIN mem_objs' : mem_objs'[a] \in Memory
    BY <1>1, <1>2 DEF Put, MemInv, TypeOK
  <2>5. own' \in [Owners -> Memory \cup {NoMem}]
    BY <1>1, <1>2 DEF MemInv, TypeOK
  <2>6. error' \in {"none", "VamosInternalError", "AssertionError"}
    BY DEF alloc_memory, MemInv, TypeOK
  <2> QED BY <2>1, <2>2, <2>3, <2>4, <2>5, <2>6 DEF TypeOK, Memory
<1>8. FreeNeverFails'
  BY DEF alloc_memory, MemInv, FreeNeverFails
<1> QED BY <1>1, <1>5, <1>6, <1>7, <1>8 DEF MemInv, Sound, Tight

-----------------------------------------------------------------------------

\* The invariant holds in every state of the allocator if no one asks for zero
\* bytes.
THEOREM MemoryInvariance ==
    ASSUME 0 \notin Sizes PROVE Spec => []MemInv
<1>1. Init => MemInv
  BY InitMemInv
<1>2. ASSUME MemInv, [Next]_vars PROVE MemInv'
  <2>1. ASSUME NEW o \in Owners, NEW size \in Sizes, alloc_memory(o, size) PROVE MemInv'
    BY <1>2, <2>1, AllocInv
  <2>2. ASSUME NEW o \in Owners, free_memory(o) \/ FreeVec(o) PROVE MemInv'
    BY <1>2, <2>2, FreesAreFreed, FreedInv
  <2>3. CASE UNCHANGED vars
    BY <1>2, <2>3 DEF vars, MemInv, TypeOK, Sound, Tight, BlocksRight, BlocksDisjoint,
       FreeNeverFails, Holds, Placed, Recorded, Avoids, Disjoint, BlockEnd
  <2> QED BY <1>2, <2>1, <2>2, <2>3 DEF Next
<1> QED BY <1>1, <1>2, PTL DEF Spec

\* Type correctness of the allocator's maps, lists and counters.
THEOREM MemoryTypeCorrect ==
    ASSUME 0 \notin Sizes PROVE Spec => []TypeOK
<1>1. MemInv => TypeOK
  BY DEF MemInv
<1> QED BY <1>1, MemoryInvariance, PTL

\* alloc_mem() never hands out a byte that someone holds, whatever the order of
\* allocations and frees, and only long word aligned parts of the pool.
THEOREM MemoryNoOverlap ==
    ASSUME 0 \notin Sizes PROVE Spec => []NoOverlap
<1>1. ASSUME MemInv PROVE NoOverlap
  <2> SUFFICES ASSUME NEW o \in Owners, Holds(o)
               PROVE  /\ Block(o) \subseteq Pool /\ own[o].addr % 4 = 0
                      /\ \A p \in Owners \ {o} : Holds(p) =>
                            Block(o) \cap Block(p) = {} /\ own[o].addr # own[p].addr
    BY DEF NoOverlap
  <2>1. Placed(own[o])
    BY <1>1 DEF MemInv, BlocksRight
  <2>2. own[o].addr \in Nat /\ BlockEnd(own[o]) \in Nat /\ own[o].addr < BlockEnd(own[o])
    BY <2>1, PlacedFacts
  <2>3. Block(o) = own[o].addr..(BlockEnd(own[o]) - 1)
    <3>1. own[o].addr \in Nat /\ Align(own[o].size) \in Nat
      BY <2>1, PlacedFacts
    <3> QED BY <3>1 DEF Block, BlockEnd
  <2>4. Block(o) \subseteq Pool /\ own[o].addr % 4 = 0
    BY <2>1, <2>2, <2>3, AddrAssumption, SizeAssumption DEF Pool, Placed
  <2>5. ASSUME NEW p \in Owners \ {o}, Holds(p)
        PROVE  Block(o) \cap Block(p) = {} /\ own[o].addr # own[p].addr
    <3>1. Placed(own[p]) /\ Disjoint(own[o], own[p])
      BY <1>1, <2>5 DEF MemInv, BlocksRight, BlocksDisjoint
    <3>2. own[p].addr \in Nat /\ BlockEnd(own[p]) \in Nat /\ own[p].addr < BlockEnd(own[p])
      BY <3>1, PlacedFacts
    <3>3. Block(p) = own[p].addr..(BlockEnd(own[p]) - 1)
      <4>1. own[p].addr \in Nat /\ Align(own[p].size) \in Nat
        BY <3>1, PlacedFacts
      <4> QED BY <4>1 DEF Block, BlockEnd
    <3> QED BY <2>2, <2>3, <3>1, <3>2, <3>3 DEF Disjoint
  <2> QED BY <2>4, <2>5
<1> QED BY <1>1, MemoryInvariance, PTL

\* free_mem() leaves no two chunks that touch: the free list stays coalesced.
THEOREM MemoryCoalesced ==
    ASSUME 0 \notin Sizes PROVE Spec => []FreeListCoalesced
<1>1. MemInv => FreeListCoalesced
  BY DEF MemInv, Tight, FreeListCoalesced
<1> QED BY <1>1, MemoryInvariance, PTL

\* A block can be given back at any time: neither check of free_mem() fails.
THEOREM MemoryFreeNeverFails ==
    ASSUME 0 \notin Sizes PROVE Spec => []FreeNeverFails
<1>1. MemInv => FreeNeverFails
  BY DEF MemInv
<1> QED BY <1>1, MemoryInvariance, PTL

\* What an owner has been given is its own until it gives it back, which it can do
\* at any time, and the free list stays sorted and joined: alloc_memory() and
\* free_memory() keep all of it together.
THEOREM MemoryBlocksSafe ==
    ASSUME 0 \notin Sizes PROVE Spec => []BlocksSafe
<1>1. TypeOK /\ NoOverlap /\ FreeListCoalesced /\ FreeNeverFails => BlocksSafe
  BY Zenon DEF BlocksSafe
<1> QED BY <1>1, MemoryTypeCorrect, MemoryNoOverlap, MemoryCoalesced, MemoryFreeNeverFails, PTL

\* The first-fit free list implements the abstract allocator.
THEOREM MemoryImplementsAllocator ==
    ASSUME 0 \notin Sizes PROVE Spec => ImplementsAllocator
<1>1. Init => Abstract!Init
  BY DEF Init, Abstract!Init
<1>2. ASSUME MemInv, [Next]_vars PROVE [Abstract!Next]_own
  <2>1. ASSUME NEW o \in Owners, NEW size \in Sizes, alloc_memory(o, size)
        PROVE  Abstract!Alloc(o, size)
    <3>1. PICK m : /\ own' = [own EXCEPT ![o] = m] /\ own[o] = NoMem
                   /\ m = Chunk(m.addr, size) /\ m.size = size /\ Placed(m)
                   /\ \A p \in Owners : Holds(p) => Disjoint(m, own[p])
      BY <1>2, <2>1, AllocGives
    <3>2. /\ m.addr \in Nat /\ BlockEnd(m) \in Nat /\ m.addr < BlockEnd(m)
          /\ BlockEnd(m) = m.addr + Abstract!Rounded(size)
      BY <3>1, PlacedFacts DEF BlockEnd, Align, Abstract!Rounded
    <3>3. /\ m.addr \in Addr..(Addr + Size - 1) /\ m.addr % 4 = 0
          /\ m.addr + Abstract!Rounded(size) <= Addr + Size
      BY <3>1, <3>2, AddrAssumption, SizeAssumption DEF Placed
    <3>4. ASSUME NEW p \in Owners
          PROVE  ~Abstract!Meets(m.addr, Abstract!Rounded(size), own[p])
      <4>1. CASE own[p] = NoMem
        BY <4>1 DEF Abstract!Meets
      <4>2. CASE own[p] # NoMem
        <5>1. Placed(own[p]) /\ Disjoint(m, own[p])
          BY <1>2, <3>1, <4>2 DEF MemInv, BlocksRight, Holds
        <5>2. /\ own[p].addr \in Nat /\ BlockEnd(own[p]) \in Nat
              /\ BlockEnd(own[p]) = own[p].addr + Abstract!Rounded(own[p].size)
          BY <5>1, PlacedFacts DEF BlockEnd, Align, Abstract!Rounded
        <5> QED BY <3>2, <5>1, <5>2 DEF Disjoint, Abstract!Meets
      <4> QED BY <4>1, <4>2
    <3>5. own' = [own EXCEPT ![o] = [addr |-> m.addr, size |-> size]]
      BY <3>1 DEF Chunk
    <3> QED BY <3>1, <3>3, <3>4, <3>5 DEF Abstract!Alloc
  <2>2. ASSUME NEW o \in Owners, free_memory(o) \/ FreeVec(o)
        PROVE  Abstract!Free(o)
    BY <2>2 DEF free_memory, FreeVec, Abstract!Free
  <2>3. CASE UNCHANGED vars
    BY <2>3 DEF vars
  <2> QED BY <1>2, <2>1, <2>2, <2>3 DEF Next, Abstract!Next
<1> QED BY <1>1, <1>2, MemoryInvariance, PTL DEF Spec, ImplementsAllocator, Abstract!Spec

-----------------------------------------------------------------------------
(* The bytes in the chunks of a list.                                       *)

\* the byte x is in a chunk
InChunk(s, x) == \E i \in 1..Len(s) : s[i].addr <= x /\ x < End(s[i])

InBlock(m, x) == m.addr <= x /\ x < BlockEnd(m)

\* _merge_chunk() loses no byte.
LEMMA MergeBytes ==
    ASSUME NEW s, Sound(s), NEW i \in Int, NEW x \in Nat, InChunk(s, x)
    PROVE  InChunk(merge_chunk(s, i), x)
<1>1. CASE ~Adjacent(s, i)
  BY <1>1 DEF merge_chunk
<1>2. CASE Adjacent(s, i)
  <2> DEFINE c == Chunk(s[i].addr, s[i].size + s[i + 1].size)
             r == merge_chunk(s, i)
  <2>1. /\ r \in Seq(Memory) /\ Len(r) = Len(s) - 1 /\ Len(s) \in Nat
        /\ i \in 1..(Len(s) - 1)
        /\ c \in Memory /\ c.addr = s[i].addr /\ End(c) = End(s[i + 1])
        /\ \A j \in 1..(Len(s) - 1) :
              r[j] = IF j < i THEN s[j] ELSE IF j = i THEN c ELSE s[j + 1]
    BY <1>2, MergeElements
  <2> HIDE DEF c, r
  <2>2. PICK k \in 1..Len(s) : s[k].addr <= x /\ x < End(s[k])
    BY DEF InChunk
  <2>3. \A j \in 1..Len(s) : s[j].addr \in Nat /\ End(s[j]) \in Nat
    <3>1. \A j \in 1..Len(s) : s[j] \in Memory
      BY DEF Sound
    <3> QED BY <3>1, MemoryFields
  <2>4. End(s[i]) <= s[i + 1].addr /\ End(s[i]) = s[i + 1].addr
    <3>1. End(s[i]) = s[i + 1].addr
      BY <1>2 DEF Adjacent
    <3>2. i + 1 \in 1..Len(s) /\ s[i + 1].addr \in Nat
      BY <2>1, <2>3
    <3> QED BY <3>1, <3>2
  <2>5. s[i].addr <= End(s[i]) /\ s[i + 1].addr <= End(s[i + 1])
    <3>1. s[i] \in Memory /\ s[i + 1] \in Memory
      BY <2>1 DEF Sound
    <3> QED BY <3>1 DEF Memory, End
  <2>6. \E j \in 1..Len(r) : r[j].addr <= x /\ x < End(r[j])
    <3>1. CASE k < i
      <4>1. k \in 1..Len(r) /\ r[k] = s[k]
        BY <2>1, <3>1
      <4> QED BY <2>2, <4>1
    <3>2. CASE k = i \/ k = i + 1
      <4>1. i \in 1..Len(r) /\ r[i] = c /\ i \in 1..Len(s) /\ i + 1 \in 1..Len(s)
        BY <2>1
      <4>2. c.addr <= x /\ x < End(c)
        BY <2>1, <2>2, <2>3, <2>4, <2>5, <3>2, <4>1
      <4> QED BY <4>1, <4>2
    <3>3. CASE k > i + 1
      <4>1. k - 1 \in 1..Len(r) /\ r[k - 1] = s[k]
        BY <2>1, <3>3
      <4> QED BY <2>2, <4>1
    <3> QED BY <2>1, <3>1, <3>2, <3>3
  <2> QED BY <2>6 DEF InChunk, r
<1> QED BY <1>1, <1>2

\* _insert_chunk() adds the bytes of the chunk and loses none.
LEMMA InsertBytes ==
    ASSUME NEW s \in Seq(Memory), NEW c \in Memory, NEW i \in 1..(Len(s) + 1), NEW x \in Nat,
           InChunk(s, x) \/ (c.addr <= x /\ x < End(c))
    PROVE  InChunk(InsertAt(s, i, c), x)
<1> DEFINE r == InsertAt(s, i, c)
<1>1. /\ Len(r) = Len(s) + 1 /\ Len(s) \in Nat
      /\ \A j \in 1..(i - 1) : r[j] = s[j]
      /\ r[i] = c
      /\ \A j \in (i + 1)..(Len(s) + 1) : r[j] = s[j - 1]
  BY InsertAtFacts
<1> HIDE DEF r
<1>2. CASE c.addr <= x /\ x < End(c)
  <2>1. i \in 1..Len(r)
    BY <1>1
  <2> QED BY <1>1, <1>2, <2>1 DEF InChunk, r
<1>3. CASE InChunk(s, x)
  <2>1. PICK k \in 1..Len(s) : s[k].addr <= x /\ x < End(s[k])
    BY <1>3 DEF InChunk
  <2>2. \E j \in 1..Len(r) : r[j] = s[k]
    <3>1. CASE k < i
      BY <1>1, <3>1
    <3>2. CASE k >= i
      <4>1. k + 1 \in (i + 1)..(Len(s) + 1) /\ k + 1 \in 1..Len(r) /\ (k + 1) - 1 = k
        BY <1>1, <3>2
      <4> QED BY <1>1, <4>1
    <3> QED BY <1>1, <3>1, <3>2
  <2> QED BY <2>1, <2>2 DEF InChunk, r
<1> QED BY <1>2, <1>3

\* What free_mem() gives back is in the list, with all that was there.
LEMMA InsertAndMergeBytes ==
    ASSUME NEW s, Sound(s), Tight(s, {}), NEW c \in Memory, Sound(<<c>>),
           Avoids(s, c.addr, End(c)), NEW i \in 1..(Len(s) + 1),
           \A j \in 1..(i - 1) : s[j].addr <= c.addr,
           i <= Len(s) => c.addr < s[i].addr,
           NEW x \in Nat, InChunk(s, x) \/ (c.addr <= x /\ x < End(c))
    PROVE  InChunk(InsertAndMerge(s, i, c), x)
<1> DEFINE u == InsertAt(s, i, c)
           j == IF Adjacent(u, i - 1) THEN i - 1 ELSE i
           v == merge_chunk(u, i - 1)
<1>0. i \in Nat /\ i - 1 \in Int /\ s \in Seq(Memory)
  BY DEF Sound
<1>1. Sound(u) /\ InChunk(u, x)
  BY <1>0, InsertSound, InsertBytes
<1>2. j \in Int
  BY <1>0
<1>3. InsertAndMerge(s, i, c) = merge_chunk(v, j)
  BY DEF InsertAndMerge
<1> HIDE DEF u, j
<1>4. Sound(v) /\ InChunk(v, x)
  BY <1>0, <1>1, MergeSound, MergeBytes
<1> HIDE DEF v
<1> QED BY <1>2, <1>3, <1>4, MergeBytes

\* alloc_mem() takes no other byte off the list than those of the block.
LEMMA TakeFromBytes ==
    ASSUME NEW s, Sound(s), NEW i \in 1..Len(s), NEW n \in Nat, does_fit(s[i], n),
           NEW x \in Nat, InChunk(s, x), ~(s[i].addr <= x /\ x < s[i].addr + n)
    PROVE  InChunk(TakeFrom(s, i, n), x)
<1> DEFINE r == TakeFrom(s, i, n)
<1>1. s \in Seq(Memory) /\ Len(s) \in Nat
  BY DEF Sound
<1>2. PICK k \in 1..Len(s) : s[k].addr <= x /\ x < End(s[k])
  BY DEF InChunk
<1>3. /\ s[i].addr \in Nat /\ s[i].size \in Nat /\ End(s[i]) = s[i].addr + s[i].size
      /\ n <= s[i].size
  <2>1. s[i] \in Memory
    BY <1>1
  <2> QED BY <2>1 DEF Memory, End, does_fit
<1>4. CASE s[i].size = n
  <2>1. k # i
    BY <1>2, <1>3, <1>4
  <2>2. /\ Len(r) = Len(s) - 1
        /\ \A j \in 1..(Len(s) - 1) : r[j] = IF j < i THEN s[j] ELSE s[j + 1]
    <3>1. r = RemoveAt(s, i)
      BY <1>4 DEF TakeFrom
    <3> HIDE DEF r
    <3> QED BY <1>1, <3>1, RemoveAtFacts
  <2> HIDE DEF r
  <2>3. \E j \in 1..Len(r) : r[j] = s[k]
    <3>1. CASE k < i
      <4>1. k \in 1..Len(r) /\ r[k] = s[k]
        BY <1>1, <2>2, <3>1
      <4> QED BY <4>1
    <3>2. CASE k > i
      <4>1. k - 1 \in 1..Len(r) /\ r[k - 1] = s[k]
        BY <1>1, <2>2, <3>2
      <4> QED BY <4>1
    <3> QED BY <1>1, <2>1, <3>1, <3>2
  <2> QED BY <1>2, <2>3 DEF InChunk, r
<1>5. CASE s[i].size # n
  <2> DEFINE c == Chunk(s[i].addr + n, s[i].size - n)
  <2>1. c.addr = s[i].addr + n /\ c.size = s[i].size - n
    BY DEF Chunk
  <2>2. r = [s EXCEPT ![i] = c]
    BY <1>5 DEF TakeFrom, ReplaceAt
  <2> HIDE DEF c, r
  <2>3. End(c) = End(s[i])
    BY <1>3, <2>1 DEF End
  <2>4. Len(r) = Len(s) /\ \A j \in 1..Len(s) : r[j] = IF j = i THEN c ELSE s[j]
    BY <1>1, <2>2
  <2>5. r[k].addr <= x /\ x < End(r[k])
    BY <1>2, <1>3, <2>1, <2>3, <2>4
  <2> QED BY <2>4, <2>5 DEF InChunk, r
<1> QED BY <1>4, <1>5

-----------------------------------------------------------------------------
(* How many bytes the chunks of a list have.                                *)

\* sum[n] is the number of bytes in the first n chunks
Sums(s, sum) ==
    /\ sum[0] = 0
    /\ \A n \in 1..Len(s) : sum[n] = sum[n - 1] + s[n].size
    /\ \A n \in 0..Len(s) : sum[n] \in Nat
    /\ Bytes(s) = sum[Len(s)]

\* available() adds up the chunks one after the other.
LEMMA BytesSums ==
    ASSUME NEW s \in Seq(Memory)
    PROVE  \E sum : Sums(s, sum)
<1> DEFINE N == Len(s)
           Upto(m, f) == f = [n \in 0..m |-> IF n = 0 THEN 0 ELSE f[n - 1] + s[n].size]
           T == {m \in Nat : m <= N => \E f : Upto(m, f) /\ \A n \in 0..m : f[n] \in Nat}
<1>0. N \in Nat /\ \A n \in 1..N : s[n].size \in Nat
  <2>1. \A n \in 1..N : s[n] \in Memory
    OBVIOUS
  <2> QED BY <2>1, MemoryFields
<1>1. 0 \in T
  <2> DEFINE f == [n \in 0..0 |-> 0]
  <2>1. Upto(0, f) /\ \A n \in 0..0 : f[n] \in Nat
    OBVIOUS
  <2> QED BY <2>1
<1>2. ASSUME NEW m \in Nat, m \in T
      PROVE  m + 1 \in T
  <2> SUFFICES ASSUME m + 1 <= N
               PROVE  \E f : Upto(m + 1, f) /\ \A n \in 0..(m + 1) : f[n] \in Nat
    OBVIOUS
  <2>1. PICK f : Upto(m, f) /\ \A n \in 0..m : f[n] \in Nat
    BY <1>0, <1>2
  <2> DEFINE g == [n \in 0..(m + 1) |-> IF n = m + 1 THEN f[m] + s[m + 1].size ELSE f[n]]
  <2>2. \A n \in 0..m : f[n] = IF n = 0 THEN 0 ELSE f[n - 1] + s[n].size
    BY <2>1
  <2>3. \A n \in 0..(m + 1) : g[n] = IF n = 0 THEN 0 ELSE g[n - 1] + s[n].size
    <3> SUFFICES ASSUME NEW n \in 0..(m + 1)
                 PROVE  g[n] = IF n = 0 THEN 0 ELSE g[n - 1] + s[n].size
      OBVIOUS
    <3>1. CASE n = m + 1
      <4>1. n # 0 /\ n - 1 = m /\ m \in 0..(m + 1) /\ m # m + 1
        BY <3>1
      <4> QED BY <3>1, <4>1
    <3>2. CASE n # m + 1 /\ n # 0
      <4>1. n \in 0..m /\ n - 1 \in 0..(m + 1) /\ n - 1 # m + 1
        BY <3>2
      <4> QED BY <2>2, <3>2, <4>1
    <3>3. CASE n = 0
      BY <2>2, <3>3
    <3> QED BY <3>1, <3>2, <3>3
  <2>4. Upto(m + 1, g)
    <3> HIDE DEF g
    <3>1. g = [n \in 0..(m + 1) |-> g[n]]
      BY DEF g
    <3> QED BY <2>3, <3>1
  <2>5. \A n \in 0..(m + 1) : g[n] \in Nat
    <3>1. f[m] \in Nat /\ s[m + 1].size \in Nat
      BY <1>0, <2>1
    <3> QED BY <2>1, <3>1
  <2> HIDE DEF g, Upto
  <2> QED BY <2>4, <2>5
<1>3. \E f : Upto(N, f) /\ \A n \in 0..N : f[n] \in Nat
  <2> HIDE DEF Upto, T
  <2>1. Nat \subseteq T
    BY <1>1, <1>2, NatInd
  <2>2. N \in T
    BY <1>0, <2>1
  <2> QED BY <1>0, <2>2 DEF T
<1> DEFINE a == CHOOSE f : Upto(N, f)
<1>4. Upto(N, a)
  <2> HIDE DEF Upto
  <2> QED BY <1>3
<1>5. Bytes(s) = a[N]
  BY DEF Bytes
<1>6. \A n \in 0..N : a[n] \in Nat
  <2>1. PICK f : Upto(N, f) /\ \A n \in 0..N : f[n] \in Nat
    BY <1>3
  <2> DEFINE U == {n \in Nat : n <= N => a[n] = f[n]}
  <2>2. \A n \in 0..N : a[n] = IF n = 0 THEN 0 ELSE a[n - 1] + s[n].size
    BY <1>4
  <2>3. \A n \in 0..N : f[n] = IF n = 0 THEN 0 ELSE f[n - 1] + s[n].size
    BY <2>1
  <2> HIDE DEF a, Upto
  <2>4. 0 \in U
    BY <1>0, <2>2, <2>3
  <2>5. ASSUME NEW n \in Nat, n \in U PROVE n + 1 \in U
    <3> SUFFICES ASSUME n + 1 <= N PROVE a[n + 1] = f[n + 1]
      OBVIOUS
    <3>1. n + 1 \in 0..N /\ (n + 1) - 1 = n /\ n + 1 # 0 /\ a[n] = f[n]
      BY <1>0, <2>5
    <3> QED BY <2>2, <2>3, <3>1
  <2>6. Nat \subseteq U
    <3> HIDE DEF U
    <3> QED BY <2>4, <2>5, NatInd
  <2> QED BY <1>0, <2>1, <2>6
<1> HIDE DEF a
<1>7. \A n \in 0..N : a[n] = IF n = 0 THEN 0 ELSE a[n - 1] + s[n].size
  BY <1>4
<1>8. Sums(s, a)
  BY <1>0, <1>5, <1>6, <1>7 DEF Sums
<1> QED BY <1>8

\* Two lists that agree on the first p chunks, and on those after the first p + u of the
\* one and the first p + v of the other, differ in bytes by what lies between.
Splice(s, r, p, u, v) ==
    /\ p + u <= Len(s) /\ Len(r) = Len(s) - u + v
    /\ \A n \in 1..p : s[n] = r[n]
    /\ \A n \in 1..(Len(s) - p - u) : s[p + u + n] = r[p + v + n]

Spliced(s, r, p, u, v, f, g) ==
    /\ Sums(s, f) /\ Sums(r, g)
    /\ f[p] = g[p]
    /\ Bytes(s) - f[p + u] = Bytes(r) - g[p + v]

\* Their sums differ by those of the parts that differ.
LEMMA SplicedSums ==
    ASSUME NEW s \in Seq(Memory), NEW r \in Seq(Memory),
           NEW p \in Nat, NEW u \in Nat, NEW v \in Nat, Splice(s, r, p, u, v)
    PROVE  \E f, g : Spliced(s, r, p, u, v, f, g)
<1>1. PICK f : Sums(s, f)
  BY BytesSums
<1>2. PICK g : Sums(r, g)
  BY BytesSums
<1>3. Len(s) \in Nat /\ Len(r) \in Nat /\ p + u <= Len(s) /\ p + v <= Len(r)
  BY DEF Splice
<1>4. f[p] = g[p]
  <2> DEFINE T == {n \in Nat : n <= p => f[n] = g[n]}
  <2>1. 0 \in T
    BY <1>1, <1>2 DEF Sums
  <2>2. ASSUME NEW n \in Nat, n \in T PROVE n + 1 \in T
    <3> SUFFICES ASSUME n + 1 <= p PROVE f[n + 1] = g[n + 1]
      OBVIOUS
    <3>1. n + 1 \in 1..Len(s) /\ n + 1 \in 1..Len(r) /\ n + 1 \in 1..p /\ (n + 1) - 1 = n
      BY <1>3
    <3>2. f[n] = g[n]
      BY <2>2
    <3>3. f[n + 1] = f[n] + s[n + 1].size /\ g[n + 1] = g[n] + r[n + 1].size
      BY <1>1, <1>2, <3>1 DEF Sums
    <3> QED BY <3>1, <3>2, <3>3 DEF Splice
  <2>3. Nat \subseteq T
    <3> HIDE DEF T
    <3> QED BY <2>1, <2>2, NatInd
  <2> QED BY <2>3
<1>5. Bytes(s) - f[p + u] = Bytes(r) - g[p + v]
  <2> DEFINE M == Len(s) - p - u
             T == {n \in Nat : n <= M => f[p + u + n] - f[p + u] = g[p + v + n] - g[p + v]}
  <2>0. M \in Nat /\ p + u + M = Len(s) /\ p + v + M = Len(r)
    BY <1>3 DEF Splice
  <2>1. 0 \in T
    <3>1. f[p + u] \in Nat /\ g[p + v] \in Nat
      BY <1>1, <1>2, <1>3 DEF Sums
    <3> QED BY <3>1
  <2>2. ASSUME NEW n \in Nat, n \in T PROVE n + 1 \in T
    <3> SUFFICES ASSUME n + 1 <= M
                 PROVE  f[p + u + (n + 1)] - f[p + u] = g[p + v + (n + 1)] - g[p + v]
      OBVIOUS
    <3> DEFINE i == p + u + (n + 1)
               k == p + v + (n + 1)
    <3>1. /\ i \in 1..Len(s) /\ i - 1 = p + u + n /\ i - 1 \in 0..Len(s) /\ p + u \in 0..Len(s)
          /\ k \in 1..Len(r) /\ k - 1 = p + v + n /\ k - 1 \in 0..Len(r) /\ p + v \in 0..Len(r)
          /\ n + 1 \in 1..M
      BY <1>3, <2>0
    <3>2. f[i - 1] - f[p + u] = g[k - 1] - g[p + v]
      BY <2>2, <3>1
    <3>3. s[i] = r[k]
      BY <3>1 DEF Splice
    <3>4. s[i].size \in Nat
      <4>1. s[i] \in Memory
        BY <3>1
      <4> QED BY <4>1, MemoryFields
    <3> HIDE DEF i, k
    <3>5. f[i] = f[i - 1] + s[i].size /\ g[k] = g[k - 1] + s[i].size
      BY <1>1, <1>2, <3>1, <3>3 DEF Sums
    <3>6. /\ f[i - 1] \in Nat /\ f[p + u] \in Nat
          /\ g[k - 1] \in Nat /\ g[p + v] \in Nat
      BY <1>1, <1>2, <3>1 DEF Sums
    <3>7. \A a, b, c, d, x \in Nat :
            f[i - 1] = a /\ f[p + u] = b /\ g[k - 1] = c /\ g[p + v] = d /\ s[i].size = x
            => f[i] - b = g[k] - d
      BY <3>2, <3>5
    <3>8. f[i] - f[p + u] = g[k] - g[p + v]
      BY <3>4, <3>6, <3>7, ZenonT(30)
    <3> QED BY <3>8 DEF i, k
  <2>3. Nat \subseteq T
    <3> HIDE DEF T
    <3> QED BY <2>1, <2>2, NatInd
  <2>4. f[p + u + M] - f[p + u] = g[p + v + M] - g[p + v]
    <3>1. M \in Nat /\ M <= M
      BY <2>0
    <3> HIDE DEF M
    <3> QED BY <2>3, <3>1
  <2>5. Bytes(s) = f[Len(s)] /\ Bytes(r) = g[Len(r)]
    BY <1>1, <1>2 DEF Sums
  <2> QED BY <2>0, <2>4, <2>5
<1> QED BY <1>1, <1>2, <1>4, <1>5 DEF Spliced

\* One chunk more adds its bytes.
LEMMA SumStep ==
    ASSUME NEW s, NEW f, Sums(s, f), NEW n \in 1..Len(s), NEW p \in Nat, p + 1 = n, Len(s) \in Nat
    PROVE  f[n] = f[p] + s[n].size /\ f[n] \in Nat /\ f[p] \in Nat /\ Bytes(s) \in Nat
<1>1. n - 1 = p /\ p \in 0..Len(s) /\ n \in 0..Len(s) /\ Len(s) \in 0..Len(s)
  OBVIOUS
<1> QED BY <1>1 DEF Sums

\* alloc_mem() takes n bytes off the list, and a whole chunk if it has no more.
LEMMA TakeFromTotal ==
    ASSUME NEW s \in Seq(Memory), NEW i \in 1..Len(s), NEW n \in Nat, does_fit(s[i], n)
    PROVE  LET r == TakeFrom(s, i, n)
           IN /\ Bytes(s) \in Int /\ Bytes(r) = Bytes(s) - n
              /\ Len(r) = Len(s) - (IF s[i].size = n THEN 1 ELSE 0)
<1> DEFINE r == TakeFrom(s, i, n)
           p == i - 1
<1>1. Len(s) \in Nat /\ i \in Nat /\ p \in Nat /\ p + 1 = i /\ p + 0 = p /\ i - 1 = p
  OBVIOUS
<1>2. s[i].addr \in Nat /\ s[i].size \in Nat /\ n <= s[i].size
  <2>1. s[i] \in Memory
    OBVIOUS
  <2> QED BY <2>1 DEF Memory, does_fit
<1>3. CASE s[i].size = n
  <2>1. /\ r \in Seq(Memory) /\ Len(r) = Len(s) - 1
        /\ \A j \in 1..(Len(s) - 1) : r[j] = IF j < i THEN s[j] ELSE s[j + 1]
    <3>1. r = RemoveAt(s, i)
      BY <1>3 DEF TakeFrom
    <3> HIDE DEF r
    <3> QED BY <1>1, <3>1, RemoveAtFacts
  <2> HIDE DEF r, p
  <2>2. Splice(s, r, p, 1, 0)
    <3>1. \A j \in 1..p : s[j] = r[j]
      <4> SUFFICES ASSUME NEW j \in 1..p PROVE s[j] = r[j]
        OBVIOUS
      <4>1. j \in 1..(Len(s) - 1) /\ j < i
        BY <1>1
      <4> QED BY <2>1, <4>1
    <3>2. \A j \in 1..(Len(s) - p - 1) : s[p + 1 + j] = r[p + 0 + j]
      <4> SUFFICES ASSUME NEW j \in 1..(Len(s) - p - 1) PROVE s[p + 1 + j] = r[p + 0 + j]
        OBVIOUS
      <4>1. /\ p + j \in 1..(Len(s) - 1) /\ ~(p + j < i) /\ (p + j) + 1 = p + 1 + j
            /\ p + 0 + j = p + j
        BY <1>1
      <4>2. r[p + j] = s[(p + j) + 1]
        BY <2>1, <4>1
      <4> QED BY <4>1, <4>2
    <3> QED BY <1>1, <2>1, <3>1, <3>2 DEF Splice
  <2>3. PICK f, g : Spliced(s, r, p, 1, 0, f, g)
    BY <1>1, <2>1, <2>2, SplicedSums
  <2>4. /\ f[i] = f[p] + s[i].size /\ f[p] \in Nat /\ f[i] \in Nat
        /\ Bytes(s) \in Nat /\ Bytes(r) \in Nat
        /\ f[p] = g[p] /\ Bytes(s) - f[i] = Bytes(r) - g[p]
    <3>1. /\ Sums(s, f) /\ Sums(r, g)
          /\ f[p] = g[p] /\ Bytes(s) - f[i] = Bytes(r) - g[p]
      BY <1>1, <2>3 DEF Spliced
    <3>2. Bytes(r) \in Nat
      BY <2>1, <3>1 DEF Sums
    <3> QED BY <1>1, <3>1, <3>2, SumStep, SMTT(30)
  <2>5. \A a, b, c, d \in Nat : f[i] = a /\ f[p] = b /\ Bytes(s) = c /\ Bytes(r) = d => d = c - n
    BY <1>3, <2>4
  <2> QED BY <1>3, <2>1, <2>4, <2>5, SMTT(30) DEF r
<1>4. CASE s[i].size # n
  <2> DEFINE c == Chunk(s[i].addr + n, s[i].size - n)
  <2>1. c \in Memory /\ c.size = s[i].size - n
    <3>1. s[i].addr + n \in Nat /\ s[i].size - n \in Nat
      BY <1>2
    <3> QED BY <3>1 DEF Chunk, Memory
  <2>2. r = [s EXCEPT ![i] = c]
    BY <1>4 DEF TakeFrom, ReplaceAt
  <2> HIDE DEF c, r, p
  <2>3. /\ r \in Seq(Memory) /\ Len(r) = Len(s)
        /\ \A j \in 1..Len(s) : r[j] = IF j = i THEN c ELSE s[j]
    BY <2>1, <2>2
  <2>4. Splice(s, r, p, 1, 1)
    BY <1>1, <2>3 DEF Splice
  <2>5. PICK f, g : Spliced(s, r, p, 1, 1, f, g)
    BY <1>1, <2>3, <2>4, SplicedSums
  <2>6. /\ f[i] = f[p] + s[i].size /\ g[i] = g[p] + c.size /\ f[p] \in Nat
        /\ Bytes(s) \in Nat /\ Bytes(r) \in Nat
        /\ f[p] = g[p] /\ Bytes(s) - f[i] = Bytes(r) - g[i]
    <3>1. /\ Sums(s, f) /\ Sums(r, g)
          /\ f[p] = g[p] /\ Bytes(s) - f[i] = Bytes(r) - g[i]
      BY <1>1, <2>5 DEF Spliced
    <3>2. i \in 1..Len(r) /\ r[i] = c /\ Len(r) \in Nat
      BY <1>1, <2>3
    <3> QED BY <1>1, <3>1, <3>2, SumStep, SMTT(30)
  <2>7. \A a, x, y, z \in Nat :
            f[p] = a /\ s[i].size = x /\ Bytes(s) = y /\ Bytes(r) = z => z = y - n
    <3> SUFFICES ASSUME NEW a \in Nat, NEW x \in Nat, NEW y \in Nat, NEW z \in Nat,
                        f[p] = a, s[i].size = x, Bytes(s) = y, Bytes(r) = z
                 PROVE  z = y - n
      OBVIOUS
    <3>1. f[i] = a + x /\ g[i] = a + (x - n) /\ y - f[i] = z - g[i]
      BY <2>1, <2>6
    <3>2. y - (a + x) = z - (a + (x - n))
      BY <3>1
    <3> QED BY <3>2
  <2>8. Bytes(r) = Bytes(s) - n
    BY <1>2, <2>6, <2>7
  <2> QED BY <1>4, <2>3, <2>6, <2>8 DEF r
<1> QED BY <1>3, <1>4

\* _insert_chunk() adds the bytes of the chunk.
LEMMA InsertTotal ==
    ASSUME NEW s \in Seq(Memory), NEW c \in Memory, NEW i \in 1..(Len(s) + 1)
    PROVE  /\ Bytes(s) \in Int /\ Bytes(InsertAt(s, i, c)) = Bytes(s) + c.size
           /\ Len(InsertAt(s, i, c)) = Len(s) + 1
<1> DEFINE r == InsertAt(s, i, c)
<1>0. Len(s) \in Nat /\ i \in Nat
  OBVIOUS
<1>2. /\ r \in Seq(Memory) /\ Len(r) = Len(s) + 1
      /\ \A j \in 1..(i - 1) : r[j] = s[j]
      /\ r[i] = c
      /\ \A j \in (i + 1)..(Len(s) + 1) : r[j] = s[j - 1]
  <2>1. /\ r \in Seq(Memory) /\ Len(r) = Len(s) + 1
        /\ \A j \in 1..(i - 1) : r[j] = s[j]
    BY InsertAtFacts
  <2>2. /\ r[i] = c
        /\ \A j \in (i + 1)..(Len(s) + 1) : r[j] = s[j - 1]
    BY InsertAtFacts
  <2> QED BY <2>1, <2>2
<1> DEFINE p == i - 1
<1>1. Len(s) \in Nat /\ i \in Nat /\ p \in Nat /\ p + 1 = i /\ p + 0 = p /\ i - 1 = p
  OBVIOUS
<1>3. c.size \in Nat
  BY MemoryFields
<1> HIDE DEF r, p
<1>4. Splice(s, r, p, 0, 1)
  <2>1. \A j \in 1..(Len(s) - p - 0) : s[p + 0 + j] = r[p + 1 + j]
    <3> SUFFICES ASSUME NEW j \in 1..(Len(s) - p - 0) PROVE s[p + 0 + j] = r[p + 1 + j]
      OBVIOUS
    <3>1. p + 1 + j \in (i + 1)..(Len(s) + 1) /\ (p + 1 + j) - 1 = p + 0 + j
      BY <1>1
    <3> QED BY <1>2, <3>1
  <2> QED BY <1>1, <1>2, <2>1 DEF Splice
<1>5. PICK f, g : Spliced(s, r, p, 0, 1, f, g)
  BY <1>1, <1>2, <1>4, SplicedSums
<1>6. /\ g[i] = g[p] + c.size /\ f[p] \in Nat
      /\ Bytes(s) \in Nat /\ Bytes(r) \in Nat
      /\ f[p] = g[p] /\ Bytes(s) - f[p] = Bytes(r) - g[i]
  <2>1. /\ Sums(s, f) /\ Sums(r, g)
        /\ f[p] = g[p] /\ Bytes(s) - f[p] = Bytes(r) - g[i]
    BY <1>1, <1>5 DEF Spliced
  <2>2. Bytes(s) \in Nat /\ i \in 1..Len(r) /\ Len(r) \in Nat
    BY <1>1, <1>2, <2>1 DEF Sums
  <2>3. g[i] = g[p] + r[i].size /\ g[p] \in Nat /\ Bytes(r) \in Nat
    BY <1>1, <2>1, <2>2, SumStep
  <2> QED BY <1>2, <2>1, <2>2, <2>3
<1>7. \A a, x, y, z \in Nat :
        f[p] = a /\ c.size = x /\ Bytes(s) = y /\ Bytes(r) = z => z = y + x
  BY <1>6
<1>8. Bytes(s) \in Int /\ Bytes(r) = Bytes(s) + c.size
  BY <1>3, <1>6, <1>7, SMTT(60)
<1> QED BY <1>2, <1>8 DEF r

\* _merge_chunk() keeps the bytes and makes one chunk of two.
LEMMA MergeTotal ==
    ASSUME NEW s, Sound(s), NEW i \in Int
    PROVE  /\ Bytes(merge_chunk(s, i)) = Bytes(s)
           /\ Len(merge_chunk(s, i)) = Len(s) - (IF Adjacent(s, i) THEN 1 ELSE 0)
<1>1. CASE ~Adjacent(s, i)
  <2>1. Len(s) \in Nat
    BY DEF Sound
  <2> QED BY <1>1, <2>1 DEF merge_chunk
<1>2. CASE Adjacent(s, i)
  <2> DEFINE c == Chunk(s[i].addr, s[i].size + s[i + 1].size)
             r == merge_chunk(s, i)
             p == i - 1
  <2>1. /\ r \in Seq(Memory) /\ Len(r) = Len(s) - 1 /\ Len(s) \in Nat
        /\ i \in 1..(Len(s) - 1)
        /\ \A j \in 1..(Len(s) - 1) :
              r[j] = IF j < i THEN s[j] ELSE IF j = i THEN c ELSE s[j + 1]
    BY <1>2, MergeElements
  <2>2. c.size = s[i].size + s[i + 1].size
    BY DEF Chunk
  <2>3. s[i].size \in Nat /\ s[i + 1].size \in Nat /\ s \in Seq(Memory)
    <3>1. s[i] \in Memory /\ s[i + 1] \in Memory /\ s \in Seq(Memory)
      BY <2>1 DEF Sound
    <3> QED BY <3>1, MemoryFields
  <2>4. p \in Nat /\ p + 1 = i /\ p + 2 = i + 1 /\ i - 1 = p /\ (i + 1) - 1 = i
    BY <2>1
  <2> HIDE DEF c, r, p
  <2>5. Splice(s, r, p, 2, 1)
    <3>1. \A j \in 1..(Len(s) - p - 2) : s[p + 2 + j] = r[p + 1 + j]
      <4> SUFFICES ASSUME NEW j \in 1..(Len(s) - p - 2) PROVE s[p + 2 + j] = r[p + 1 + j]
        OBVIOUS
      <4>1. /\ p + 1 + j \in 1..(Len(s) - 1) /\ (p + 1 + j) + 1 = p + 2 + j
            /\ ~(p + 1 + j < i) /\ p + 1 + j # i
        BY <2>1, <2>4
      <4> QED BY <2>1, <4>1
    <3>2. \A n \in 1..p : s[n] = r[n]
      <4> SUFFICES ASSUME NEW n \in 1..p PROVE s[n] = r[n]
        OBVIOUS
      <4>1. n \in 1..(Len(s) - 1) /\ n < i
        BY <2>1, <2>4
      <4> QED BY <2>1, <4>1
    <3>3. p + 2 <= Len(s) /\ Len(r) = Len(s) - 2 + 1
      BY <2>1, <2>4
    <3> QED BY <3>1, <3>2, <3>3 DEF Splice
  <2>6. PICK f, g : Spliced(s, r, p, 2, 1, f, g)
    BY <2>1, <2>3, <2>4, <2>5, SplicedSums
  <2>7. /\ f[i] = f[p] + s[i].size /\ f[i + 1] = f[i] + s[i + 1].size
        /\ g[i] = g[p] + c.size /\ f[p] \in Nat
        /\ Bytes(s) \in Nat /\ Bytes(r) \in Nat
        /\ f[p] = g[p] /\ Bytes(s) - f[i + 1] = Bytes(r) - g[i]
    <3>1. i \in 1..Len(s) /\ i + 1 \in 1..Len(s) /\ i \in 1..Len(r) /\ r[i] = c
      BY <2>1
    <3>2. /\ Sums(s, f) /\ Sums(r, g)
          /\ f[p] = g[p] /\ Bytes(s) - f[i + 1] = Bytes(r) - g[i]
      BY <2>4, <2>6 DEF Spliced
    <3>3. f[i + 1] = f[i] + s[i + 1].size
      <4>1. i \in Nat /\ Len(s) \in Nat /\ i + 1 \in 1..Len(s)
        BY <2>1
      <4> QED BY <3>2, <4>1, SumStep
    <3>4. f[i] = f[p] + s[i].size /\ f[p] \in Nat /\ Bytes(s) \in Nat
      <4>1. p \in Nat /\ p + 1 = i /\ Len(s) \in Nat /\ i \in 1..Len(s)
        BY <2>1, <2>4, <3>1
      <4> QED BY <3>2, <4>1, SumStep
    <3>5. g[i] = g[p] + c.size /\ Bytes(r) \in Nat
      <4>1. Len(r) \in Nat
        BY <2>1
      <4> QED BY <2>4, <3>1, <3>2, <4>1, SumStep
    <3> QED BY <3>2, <3>3, <3>4, <3>5
  <2>8. PICK a \in Nat, w \in Nat, x \in Nat, y \in Nat, z \in Nat :
            /\ f[p] = a /\ s[i].size = w /\ s[i + 1].size = x /\ Bytes(s) = y /\ Bytes(r) = z
    BY <2>3, <2>7
  <2>9. Bytes(r) = Bytes(s)
    <3>1. f[i + 1] = (a + w) + x /\ g[i] = a + (w + x) /\ y - f[i + 1] = z - g[i]
      BY <2>2, <2>7, <2>8
    <3>2. y - ((a + w) + x) = z - (a + (w + x))
      BY <3>1
    <3>3. y = z
      BY <3>2
    <3> QED BY <2>8, <3>3
  <2> QED BY <1>2, <2>1, <2>9 DEF r
<1> QED BY <1>1, <1>2

\* free_mem() adds the bytes it gives back, and counts its merges.
LEMMA InsertAndMergeTotal ==
    ASSUME NEW s, Sound(s), Tight(s, {}), NEW c \in Memory, Sound(<<c>>),
           Avoids(s, c.addr, End(c)), NEW i \in 1..(Len(s) + 1),
           \A j \in 1..(i - 1) : s[j].addr <= c.addr,
           i <= Len(s) => c.addr < s[i].addr
    PROVE  /\ Bytes(InsertAndMerge(s, i, c)) = Bytes(s) + c.size
           /\ Len(InsertAndMerge(s, i, c)) = Len(s) + 1 - Merges(s, i, c)
           /\ Bytes(s) \in Int
<1> DEFINE u == InsertAt(s, i, c)
           j == IF Adjacent(u, i - 1) THEN i - 1 ELSE i
           v == merge_chunk(u, i - 1)
<1>0. i \in Nat /\ i - 1 \in Int /\ (i - 1) + 1 = i /\ s \in Seq(Memory) /\ Len(s) \in Nat
  BY DEF Sound
<1>1. Sound(u)
  BY <1>0, InsertSound
<1>2. Bytes(u) = Bytes(s) + c.size /\ Len(u) = Len(s) + 1 /\ Bytes(s) \in Int
  BY <1>0, InsertTotal
<1>3. InsertAndMerge(s, i, c) = merge_chunk(v, j) /\ j \in Int
  BY <1>0 DEF InsertAndMerge
<1>4. Merges(s, i, c) = (IF Adjacent(u, i - 1) THEN 1 ELSE 0) + (IF Adjacent(u, i) THEN 1 ELSE 0)
  BY DEF Merges
<1> HIDE DEF u
<1>5. /\ Sound(v) /\ Bytes(v) = Bytes(u)
      /\ Len(v) = Len(u) - (IF Adjacent(u, i - 1) THEN 1 ELSE 0)
  BY <1>0, <1>1, MergeSound, MergeTotal
<1>6. Adjacent(v, j) <=> Adjacent(u, i)
  <2>1. CASE ~Adjacent(u, i - 1)
    BY <2>1 DEF merge_chunk
  <2>2. CASE Adjacent(u, i - 1)
    <3> DEFINE d == Chunk(u[i - 1].addr, u[i - 1].size + u[(i - 1) + 1].size)
    <3>1. /\ i - 1 \in 1..(Len(u) - 1) /\ Len(v) = Len(u) - 1 /\ Len(u) \in Nat
          /\ End(d) = End(u[i])
          /\ \A k \in 1..(Len(u) - 1) :
                v[k] = IF k < i - 1 THEN u[k] ELSE IF k = i - 1 THEN d ELSE u[k + 1]
      BY <1>0, <1>1, <2>2, MergeElements
    <3>2. j = i - 1
      BY <2>2
    <3> HIDE DEF d, v, j
    <3>3. v[i - 1] = d
      BY <1>0, <3>1
    <3>4. CASE i + 1 <= Len(u)
      <4>1. v[i] = u[i + 1]
        BY <1>0, <3>1, <3>4, SMTT(30)
      <4>2. (i - 1) + 1 = i /\ i - 1 >= 1 /\ i >= 1 /\ i <= Len(v)
        BY <1>0, <3>1, <3>4
      <4> QED BY <3>1, <3>2, <3>3, <3>4, <4>1, <4>2 DEF Adjacent
    <3>5. CASE ~(i + 1 <= Len(u))
      <4>1. ~(i <= Len(v)) /\ (i - 1) + 1 = i
        BY <1>0, <3>1, <3>5
      <4> QED BY <3>2, <3>5, <4>1 DEF Adjacent
    <3> QED BY <3>4, <3>5
  <2> QED BY <2>1, <2>2
<1> HIDE DEF v, j
<1>7. /\ Bytes(merge_chunk(v, j)) = Bytes(v)
      /\ Len(merge_chunk(v, j)) = Len(v) - (IF Adjacent(v, j) THEN 1 ELSE 0)
  BY <1>3, <1>5, MergeTotal
<1>8. Len(merge_chunk(v, j)) = Len(s) + 1 - Merges(s, i, c)
  BY <1>0, <1>2, <1>4, <1>5, <1>6, <1>7
<1> QED BY <1>2, <1>3, <1>5, <1>7, <1>8

-----------------------------------------------------------------------------
(***************************************************************************)
(* The books of the pool: with what MemInv says, every byte is in a chunk  *)
(* or in a block, and the counters are those of the list.                  *)
(***************************************************************************)
Covered(x) == InChunk(free, x) \/ \E o \in Owners : Holds(o) /\ InBlock(own[o], x)

BooksInv ==
    /\ \A x \in Pool : Covered(x)
    /\ free_bytes = Bytes(free) /\ free_entries = Len(free)

\* A byte of the pool is a natural number.
LEMMA PoolFacts == \A x \in Pool : x \in Nat /\ Addr <= x /\ x < Addr + Size
BY AddrAssumption, SizeAssumption DEF Pool

\* A list of one chunk has its bytes.
LEMMA BytesOne ==
    ASSUME NEW s \in Seq(Memory), Len(s) = 1 PROVE Bytes(s) = s[1].size
<1>1. 1 \in 1..Len(s) /\ 0 + 1 = 1
  OBVIOUS
<1>2. PICK f : Sums(s, f)
  BY BytesSums
<1>3. f[1] = f[0] + s[1].size
  BY <1>1, <1>2, SumStep
<1>4. Bytes(s) = f[1] /\ f[0] = 0
  BY <1>2 DEF Sums
<1>5. s[1].size \in Nat
  <2>1. s[1] \in Memory
    BY <1>1
  <2> QED BY <2>1, MemoryFields
<1> QED BY <1>3, <1>4, <1>5

\* The new allocator has the whole pool in one chunk.
LEMMA InitBooks == Init => BooksInv
<1> SUFFICES ASSUME Init PROVE BooksInv
  OBVIOUS
<1>1. /\ free = <<Chunk(Addr, Size)>> /\ Chunk(Addr, Size) \in Memory
      /\ free_bytes = Size /\ free_entries = 1
  BY AddrAssumption, SizeAssumption DEF Init, Chunk, Memory
<1>2. Len(free) = 1 /\ free[1].addr = Addr /\ free[1].size = Size /\ Chunk(Addr, Size).size = Size
  BY <1>1 DEF Chunk
<1>3. free_bytes = Bytes(free)
  <2>1. free \in Seq(Memory)
    BY <1>1
  <2> QED BY <1>1, <1>2, <2>1, BytesOne
<1>4. \A x \in Pool : InChunk(free, x)
  BY <1>2, PoolFacts DEF InChunk, End
<1> QED BY <1>1, <1>2, <1>3, <1>4 DEF BooksInv, Covered

\* alloc_memory() keeps the books.
LEMMA AllocBooks ==
    ASSUME MemInv, BooksInv, 0 \notin Sizes, NEW o \in Owners, NEW size \in Sizes,
           alloc_memory(o, size)
    PROVE  BooksInv'
<1> DEFINE n == Align(size)
<1>1. PICK i \in 1..Len(free) :
        /\ IsBestChunk(i, n)
        /\ free' = TakeFrom(free, i, n)
        /\ free_entries' = free_entries - (IF free[i].size = n THEN 1 ELSE 0)
        /\ free_bytes' = free_bytes - n
        /\ own' = [own EXCEPT ![o] = Chunk(free[i].addr, size)]
  BY DEF alloc_memory
<1>2. n \in Nat /\ does_fit(free[i], n) /\ Sound(free) /\ free \in Seq(Memory)
  BY <1>1, SizesAssumption, AlignFacts DEF IsBestChunk, MemInv, Sound
<1>3. /\ own'[o] = Chunk(free[i].addr, size) /\ own[o] = NoMem
      /\ \A p \in Owners \ {o} : own'[p] = own[p]
  BY <1>1 DEF MemInv, TypeOK, alloc_memory
<1>4. Holds(o)' /\ own'[o].addr = free[i].addr /\ own'[o].size = size
  <2>1. Chunk(free[i].addr, size) \in Memory
    <3>1. free[i] \in Memory
      BY <1>2
    <3>2. free[i].addr \in Nat /\ size \in Nat
      BY <3>1, MemoryFields, SizesAssumption
    <3> QED BY <3>2 DEF Chunk, Memory
  <2>2. Chunk(free[i].addr, size) # NoMem
    BY <2>1, NoMemAssumption DEF Memory
  <2> QED BY <1>3, <2>2 DEF Holds, Chunk
<1>5. ASSUME NEW x \in Pool
      PROVE  Covered(x)'
  <2>1. x \in Nat
    BY PoolFacts
  <2>2. CASE InChunk(free, x)
    <3>1. CASE free[i].addr <= x /\ x < free[i].addr + n
      BY <1>4, <3>1 DEF Covered, InBlock, BlockEnd
    <3>2. CASE ~(free[i].addr <= x /\ x < free[i].addr + n)
      <4>1. InChunk(free', x)
        BY <1>1, <1>2, <2>1, <2>2, <3>2, TakeFromBytes
      <4> QED BY <4>1 DEF Covered, InChunk
    <3> QED BY <3>1, <3>2
  <2>3. CASE ~InChunk(free, x)
    <3>1. PICK p \in Owners : Holds(p) /\ InBlock(own[p], x)
      BY <2>3 DEF BooksInv, Covered
    <3>2. p # o /\ own'[p] = own[p]
      BY <1>3, <3>1 DEF Holds
    <3> QED BY <3>1, <3>2 DEF Covered, Holds, InBlock, BlockEnd
  <2> QED BY <2>2, <2>3
<1>6. free_bytes' = Bytes(free') /\ free_entries' = Len(free')
  <2> HIDE DEF n
  <2>1. /\ Bytes(free') = Bytes(free) - n
        /\ Len(free') = Len(free) - (IF free[i].size = n THEN 1 ELSE 0)
    BY <1>1, <1>2, TakeFromTotal
  <2> QED BY <1>1, <2>1 DEF BooksInv
<1>7. Pool' = Pool /\ Bytes(free)' = Bytes(free')
  BY DEF Pool, Bytes
<1> QED BY <1>5, <1>6, <1>7 DEF BooksInv

\* Giving a block back keeps the books.
LEMMA FreedBooks ==
    ASSUME MemInv, BooksInv, NEW o \in Owners, Freed(o)
    PROVE  BooksInv'
<1> DEFINE m == own[o]
           c == Chunk(m.addr, Align(m.size))
<1>1. Holds(o) /\ Placed(m) /\ Avoids(free, m.addr, BlockEnd(m))
  BY DEF Freed, MemInv, BlocksRight
<1>2. /\ m.addr \in Nat /\ m.size \in Nat /\ Align(m.size) \in Nat /\ Align(m.size) > 0
      /\ BlockEnd(m) \in Nat /\ m.addr < BlockEnd(m)
  BY <1>1, PlacedFacts
<1>3. /\ c \in Memory /\ c.addr = m.addr /\ c.size = Align(m.size) /\ End(c) = BlockEnd(m)
  BY <1>2 DEF Chunk, Memory, End, BlockEnd
<1>4. PICK i \in 1..(Len(free) + 1) :
        /\ IsInsertPos(i, m.addr)
        /\ free' = InsertAndMerge(free, i, c)
        /\ free_entries' = free_entries + 1 - Merges(free, i, c)
  BY DEF Freed
<1> HIDE DEF c
<1>5. Sound(<<c>>)
  <2>1. <<c>> \in Seq(Memory) /\ Len(<<c>>) = 1 /\ <<c>>[1] = c
    BY <1>3
  <2> QED BY <1>1, <1>2, <1>3, <2>1 DEF Sound, Placed
<1>6. /\ Sound(free) /\ Tight(free, {})
      /\ Avoids(free, c.addr, End(c))
      /\ \A j \in 1..(i - 1) : free[j].addr <= c.addr
      /\ i <= Len(free) => c.addr < free[i].addr
  BY <1>1, <1>3, <1>4 DEF IsInsertPos, MemInv
<1>7. own'[o] = NoMem /\ \A p \in Owners \ {o} : own'[p] = own[p]
  BY DEF Freed, MemInv, TypeOK
<1>8. ASSUME NEW x \in Pool
      PROVE  Covered(x)'
  <2>1. x \in Nat
    BY PoolFacts
  <2>2. CASE InChunk(free, x) \/ InBlock(m, x)
    <3>1. InChunk(free, x) \/ (c.addr <= x /\ x < End(c))
      BY <1>3, <2>2 DEF InBlock
    <3>2. InChunk(free', x)
      BY <1>3, <1>4, <1>5, <1>6, <2>1, <3>1, InsertAndMergeBytes
    <3> QED BY <3>2 DEF Covered, InChunk
  <2>3. CASE ~InChunk(free, x) /\ ~InBlock(m, x)
    <3>1. PICK p \in Owners : Holds(p) /\ InBlock(own[p], x)
      BY <2>3 DEF BooksInv, Covered
    <3>2. p # o /\ own'[p] = own[p]
      BY <1>7, <2>3, <3>1
    <3> QED BY <3>1, <3>2 DEF Covered, Holds, InBlock, BlockEnd
  <2> QED BY <2>2, <2>3
<1>9. free_bytes' = Bytes(free') /\ free_entries' = Len(free')
  <2>1. /\ Bytes(free') = Bytes(free) + c.size
        /\ Len(free') = Len(free) + 1 - Merges(free, i, c)
    BY <1>3, <1>4, <1>5, <1>6, InsertAndMergeTotal
  <2>2. free_bytes' = free_bytes + c.size
    BY <1>3 DEF Freed
  <2> QED BY <1>4, <2>1, <2>2 DEF BooksInv
<1>10. Pool' = Pool /\ Bytes(free)' = Bytes(free')
  BY DEF Pool, Bytes
<1> QED BY <1>8, <1>9, <1>10 DEF BooksInv

\* Every byte of the pool is in a chunk or in a block, and the counters are right, in
\* every state of the allocator.
THEOREM MemoryBooks ==
    ASSUME 0 \notin Sizes PROVE Spec => []BooksInv
<1>1. Init => BooksInv
  BY InitBooks
<1>2. ASSUME MemInv, BooksInv, [Next]_vars PROVE BooksInv'
  <2>1. ASSUME NEW o \in Owners, NEW size \in Sizes, alloc_memory(o, size) PROVE BooksInv'
    BY <1>2, <2>1, AllocBooks
  <2>2. ASSUME NEW o \in Owners, free_memory(o) \/ FreeVec(o) PROVE BooksInv'
    BY <1>2, <2>2, FreesAreFreed, FreedBooks
  <2>3. CASE UNCHANGED vars
    BY <1>2, <2>3 DEF vars, BooksInv, Covered, InChunk, Holds, InBlock, BlockEnd, Pool, Bytes
  <2> QED BY <1>2, <2>1, <2>2, <2>3 DEF Next
<1> QED BY <1>1, <1>2, MemoryInvariance, PTL DEF Spec

\* The bytes of the chunks are those of the pool that are in no block.
LEMMA RestIsFree ==
    ASSUME MemInv, BooksInv PROVE FreeIsTheRest
<1> DEFINE Chunks == UNION {free[i].addr..(End(free[i]) - 1) : i \in 1..Len(free)}
           Blocks == UNION {Block(o) : o \in {p \in Owners : Holds(p)}}
<1>1. \A i \in 1..Len(free) : /\ free[i].addr \in Nat /\ End(free[i]) \in Nat
                              /\ Addr <= free[i].addr /\ End(free[i]) <= Addr + Size
  <2>1. \A i \in 1..Len(free) : free[i] \in Memory
    BY DEF MemInv, Sound
  <2> QED BY <2>1, MemoryFields DEF MemInv, Sound
<1>2. ASSUME NEW x PROVE x \in Chunks <=> x \in Int /\ InChunk(free, x)
  BY <1>1 DEF InChunk
<1>3. ASSUME NEW x PROVE x \in Blocks <=> x \in Int /\ \E o \in Owners : Holds(o) /\ InBlock(own[o], x)
  <2>1. \A o \in Owners : Holds(o) =>
            /\ own[o].addr \in Nat /\ BlockEnd(own[o]) \in Nat
            /\ Block(o) = own[o].addr..(BlockEnd(own[o]) - 1)
    BY PlacedFacts DEF MemInv, BlocksRight, Block, BlockEnd
  <2>2. \A o \in Owners : Holds(o) => (x \in Block(o) <=> x \in Int /\ InBlock(own[o], x))
    BY <2>1 DEF InBlock
  <2> QED BY <2>2
<1> HIDE DEF Chunks, Blocks
<1>4. ASSUME NEW x \in Int, InChunk(free, x)
      PROVE  x \in Pool /\ ~ \E o \in Owners : Holds(o) /\ InBlock(own[o], x)
  <2>1. PICK i \in 1..Len(free) : free[i].addr <= x /\ x < End(free[i])
    BY <1>4 DEF InChunk
  <2>2. x \in Pool
    BY <1>1, <2>1, AddrAssumption, SizeAssumption DEF Pool
  <2>3. ASSUME NEW o \in Owners, Holds(o), InBlock(own[o], x) PROVE FALSE
    <3>1. /\ own[o].addr \in Nat /\ BlockEnd(own[o]) \in Nat
          /\ Avoids(free, own[o].addr, BlockEnd(own[o]))
      BY <2>3, PlacedFacts DEF MemInv, BlocksRight
    <3>2. End(free[i]) <= own[o].addr \/ BlockEnd(own[o]) <= free[i].addr
      BY <3>1 DEF Avoids
    <3>3. own[o].addr <= x /\ x < BlockEnd(own[o])
      BY <2>3 DEF InBlock
    <3> QED BY <1>1, <2>1, <3>1, <3>2, <3>3
  <2> QED BY <2>2, <2>3
<1>5. \A x \in Pool : x \in Int /\ Covered(x)
  BY PoolFacts DEF BooksInv
<1>6. \A x : x \in Chunks <=> x \in Pool \ Blocks
  BY <1>2, <1>3, <1>4, <1>5 DEF Covered
<1>7. Chunks = Pool \ Blocks
  BY <1>6
<1> QED BY <1>7 DEF FreeIsTheRest, Chunks, Blocks

\* A gap of the blocks that is large enough lies in one chunk, since no chunks touch.
LEMMA GapInChunk ==
    ASSUME MemInv, BooksInv, NEW n \in Nat, n > 0, NEW a \in Pool, a + n <= Addr + Size,
           \A o \in Owners : Holds(o) => Block(o) \cap (a..(a + n - 1)) = {}
    PROVE  \E i \in 1..Len(free) : does_fit(free[i], n)
<1>0. Sound(free) /\ Tight(free, {}) /\ Len(free) \in Nat
  BY DEF MemInv, Sound
<1>1. \A i \in 1..Len(free) : /\ free[i].addr \in Nat /\ End(free[i]) \in Nat
                              /\ free[i].size \in Nat /\ free[i].size > 0
                              /\ End(free[i]) = free[i].addr + free[i].size
  <2>1. \A i \in 1..Len(free) : free[i] \in Memory /\ free[i].size > 0
    BY DEF MemInv, Sound
  <2> QED BY <2>1, MemoryFields DEF End
<1>2. a \in Nat /\ Addr <= a
  BY PoolFacts
<1>3. ASSUME NEW x \in a..(a + n - 1) PROVE InChunk(free, x)
  <2>1. x \in Pool /\ x \in Int
    BY <1>2, <1>3, AddrAssumption, SizeAssumption DEF Pool
  <2>2. ASSUME NEW o \in Owners, Holds(o), InBlock(own[o], x) PROVE FALSE
    <3>1. /\ own[o].addr \in Nat /\ BlockEnd(own[o]) \in Nat
          /\ Block(o) = own[o].addr..(BlockEnd(own[o]) - 1)
      BY <2>2, PlacedFacts DEF MemInv, BlocksRight, Block, BlockEnd
    <3>2. x \in Block(o)
      BY <2>1, <2>2, <3>1 DEF InBlock
    <3> QED BY <1>3, <2>2, <3>2
  <2> QED BY <2>1, <2>2 DEF BooksInv, Covered
<1>4. PICK i \in 1..Len(free) : free[i].addr <= a /\ a < End(free[i])
  <2>1. a \in a..(a + n - 1)
    BY <1>2
  <2> QED BY <1>3, <2>1 DEF InChunk
<1>5. ASSUME End(free[i]) < a + n PROVE FALSE
  <2> DEFINE e == End(free[i])
  <2>1. e \in a..(a + n - 1)
    BY <1>1, <1>2, <1>4, <1>5
  <2>2. PICK k \in 1..Len(free) : free[k].addr <= e /\ e < End(free[k])
    BY <1>3, <2>1 DEF InChunk
  <2>3. \A x, y \in 1..Len(free) : x < y => End(free[x]) <= free[y].addr
    BY <1>0 DEF Sound
  <2>4. CASE k < i
    <3>1. End(free[k]) <= free[i].addr
      BY <2>3, <2>4
    <3> QED BY <1>1, <2>2, <3>1
  <2>5. CASE k = i
    BY <1>1, <2>2, <2>5
  <2>6. CASE k > i
    <3>1. i \in 1..(Len(free) - 1) /\ i + 1 \in 1..Len(free) /\ i + 1 <= k
      BY <1>0, <2>6
    <3>2. e < free[i + 1].addr
      BY <1>0, <3>1 DEF Tight
    <3>3. free[i + 1].addr <= free[k].addr
      <4>1. CASE k = i + 1
        BY <1>1, <4>1
      <4>2. CASE k # i + 1
        <5>1. End(free[i + 1]) <= free[k].addr
          BY <2>3, <3>1, <4>2
        <5>2. /\ free[i + 1].addr \in Nat /\ free[i + 1].size \in Nat /\ free[k].addr \in Nat
              /\ End(free[i + 1]) = free[i + 1].addr + free[i + 1].size
          BY <1>1, <3>1
        <5>3. \A x, y, z \in Nat : x + y <= z => x <= z
          OBVIOUS
        <5> QED BY <5>1, <5>2, <5>3
      <4> QED BY <4>1, <4>2
    <3>4. free[i + 1].addr \in Nat /\ free[k].addr \in Nat /\ e \in Nat
      BY <1>1, <3>1
    <3> HIDE DEF e
    <3> QED BY <2>2, <3>2, <3>3, <3>4
  <2> QED BY <1>0, <2>4, <2>5, <2>6
<1>6. n <= free[i].size
  <2>1. End(free[i]) >= a + n
    BY <1>1, <1>2, <1>5
  <2> QED BY <1>1, <1>2, <1>4, <2>1
<1> QED BY <1>6 DEF does_fit

\* The first of the chunks that fit is the best one.
LEMMA FitIsFound ==
    ASSUME Len(free) \in Nat, NEW n, \E i \in 1..Len(free) : does_fit(free[i], n)
    PROVE  \E i \in 1..Len(free) : IsBestChunk(i, n)
<1> DEFINE F == {i \in 1..Len(free) : does_fit(free[i], n)}
<1>1. F \subseteq Nat /\ F # {}
  OBVIOUS
<1>2. PICK i \in F : \A j \in F : i <= j
  <2> HIDE DEF F
  <2> QED BY <1>1, NatLeast
<1>3. ASSUME NEW j \in 1..(i - 1), does_fit(free[j], n) PROVE FALSE
  <2>1. j \in F /\ j < i
    BY <1>3
  <2> QED BY <1>2, <2>1
<1> QED BY <1>2, <1>3 DEF IsBestChunk

\* The pool is accounted for: the free bytes are those no owner holds, free_bytes and
\* free_entries count them, and alloc_mem() fails only if no gap is large enough.
THEOREM MemoryPoolAccounted ==
    ASSUME 0 \notin Sizes PROVE Spec => []PoolAccounted
<1>1. ASSUME MemInv, BooksInv PROVE FailsOnlyWhenFull
  <2> SUFFICES ASSUME NEW size \in Sizes, AllocFails(size),
                      NEW a \in Pool, a + Align(size) <= Addr + Size,
                      \A o \in Owners : Holds(o) =>
                            Block(o) \cap (a..(a + Align(size) - 1)) = {}
               PROVE  FALSE
    BY DEF FailsOnlyWhenFull
  <2>1. Align(size) \in Nat /\ Align(size) > 0
    <3>1. size \in Nat /\ size > 0
      BY SizesAssumption
    <3> QED BY <3>1, AlignFacts
  <2>2. Len(free) \in Nat
    BY <1>1 DEF MemInv, Sound
  <2>3. \E i \in 1..Len(free) : IsBestChunk(i, Align(size))
    BY <1>1, <2>1, <2>2, GapInChunk, FitIsFound
  <2> QED BY <2>3 DEF AllocFails
<1>2. MemInv /\ BooksInv => CountsRight
  BY DEF BooksInv, CountsRight, available
<1>3. MemInv /\ BooksInv => PoolAccounted
  BY <1>1, <1>2, RestIsFree DEF PoolAccounted
<1> QED BY <1>3, MemoryInvariance, MemoryBooks, PTL
==============================================================================
