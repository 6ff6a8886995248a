---------------------------- MODULE UtilityTags ----------------------------
(***************************************************************************)
(* Tag lists (libtypes/tag.py) and the functions of utility.library on     *)
(* them.  Memory is a cell for each TagItem; control items skip others or  *)
(* go on in another array, and what a function removes becomes one.        *)
(* A structure that tags are packed into is a sequence of bytes.           *)
(***************************************************************************)
EXTENDS Integers, SequencesExt

CONSTANTS TagMems,     \* memories of tag items to start from
          TagArrays,   \* arrays of tags: sequences
          TagTables,   \* pack tables: sequences of entries [tag, off, mode, skip]
          CloneAt,     \* where AllocateTagItems() finds memory
          StructSize,  \* bytes of the structure
          ByteBits,    \* bits of a byte
          ListAt, List2At, UserTags

VARIABLES items,    \* the memory of tag items
          packed,   \* the bytes of the structure
          tag_op    \* the last call: what it was, its result and the memory before

tag_vars == <<items, packed, tag_op>>

TAG_DONE == 0
TAG_IGNORE == 1
TAG_MORE == 2
TAG_SKIP == 3
ControlTags == {TAG_DONE, TAG_IGNORE, TAG_MORE, TAG_SKIP}
None == 0

-----------------------------------------------------------------------------
(* TagItem and TagList: addresses of items, None at the end. *)

succ_tag(m, a) ==
  CASE m[a].tag = TAG_DONE -> None
    [] m[a].tag = TAG_MORE -> m[a].data
    [] m[a].tag = TAG_SKIP -> a + 1 + m[a].data
    [] OTHER -> a + 1
RECURSIVE next_real_tag(_, _)
next_real_tag(m, a) ==
  IF a = None THEN None ELSE IF m[a].tag \notin ControlTags THEN a ELSE next_real_tag(m, succ_tag(m, a))
succ_real_tag(m, a) == next_real_tag(m, succ_tag(m, a))
RECURSIVE find_from(_, _, _)
find_from(m, a, tag) ==
  IF a = None THEN None ELSE IF m[a].tag = tag THEN a ELSE find_from(m, succ_real_tag(m, a), tag)
find_tag(m, list, tag) == find_from(m, next_real_tag(m, list), tag)
remove(m, a) == [m EXCEPT ![a].tag = TAG_IGNORE]

\* A loop over a list: Body(s, item) changes the memory s.items and what the loop
\* counts.  The iterator has moved on before it hands out an item (TagListIter).
RECURSIVE ForTags(_, _, _)
ForTags(Body(_, _), s, a) ==
  IF a = None THEN s
  ELSE LET next == succ_real_tag(s.items, a) IN ForTags(Body, Body(s, a), next)
ForList(Body(_, _), m, list) == ForTags(Body, [items |-> m, valid |-> 0], next_real_tag(m, list))
RECURSIVE Addrs(_, _)
Addrs(m, a) == IF a = None THEN <<>> ELSE <<a>> \o Addrs(m, succ_real_tag(m, a))
list_len(m, list) == Len(Addrs(m, next_real_tag(m, list)))

-----------------------------------------------------------------------------
(* utility.library *)

FilterTagItems(array, logic, m) ==
  LET keeps(tag) == IF logic = "and" THEN tag \in ToSet(array) ELSE tag \notin ToSet(array)
  IN  ForList(LAMBDA s, a : IF keeps(s.items[a].tag) THEN [s EXCEPT !.valid = @ + 1]
                            ELSE [s EXCEPT !.items = remove(@, a)], m, ListAt)

MapTags(keep, m) ==
  ForList(LAMBDA s, a : LET map_tag == find_tag(s.items, List2At, s.items[a].tag)
                        IN  IF map_tag # None THEN [s EXCEPT !.items[a].tag = s.items[map_tag].data]
                            ELSE IF keep THEN s ELSE [s EXCEPT !.items = remove(@, a)], m, ListAt).items

FilterTagChanges(apply, m) ==
  ForList(LAMBDA s, a : LET orig == find_tag(s.items, List2At, s.items[a].tag)
                        IN  CASE orig = None -> s
                              [] orig # None /\ s.items[a].data = s.items[orig].data -> [s EXCEPT !.items = remove(@, a)]
                              [] OTHER -> IF apply THEN [s EXCEPT !.items[orig].data = s.items[a].data] ELSE s,
          m, ListAt).items

\* It is the tag that is changed, not its data.
ApplyTagChanges(m) ==
  ForList(LAMBDA s, a : LET change == find_tag(s.items, List2At, s.items[a].tag)
                        IN  IF change = None THEN s ELSE [s EXCEPT !.items[a].tag = s.items[change].data],
          m, ListAt).items

\* clone_to() copies real items one behind the other and adds no TAG_DONE.
clone_to(m, list, to) ==
  LET as == Addrs(m, next_real_tag(m, list))
  IN  [a \in DOMAIN m |-> IF a \in to..(to + Len(as) - 1) THEN m[as[a - to + 1]] ELSE m[a]]
CloneTagItems(m) == clone_to(m, ListAt, CloneAt)

\* GetTagData() and FindTagItem() of a tag of the user.
GetTagData(m, tag) == LET a == find_tag(m, ListAt, tag) IN IF a = None THEN -1 ELSE m[a].data

\* The items that a loop with NextTagItem() gets: the item at the pointer, a
\* control item too, as long as a real one comes at it or later.
RECURSIVE NextTagItems(_, _)
NextTagItems(m, a) ==
  IF a = None THEN <<>>
  ELSE IF next_real_tag(m, a) = None THEN <<>>
  ELSE <<a>> \o NextTagItems(m, succ_tag(m, a))

-----------------------------------------------------------------------------
(* PackStructureTags() and UnpackStructureTags(): longs are four bytes. *)

FieldBytes(mode) == CASE mode \in {"BYTE", "UBYTE"} -> 1 [] mode \in {"WORD", "UWORD"} -> 2 [] OTHER -> 4
Base == 2 ^ ByteBits
FieldOf(bytes, e) == FoldLeft(LAMBDA v, b : v * Base + b, 0, SubSeq(bytes, e.off + 1, e.off + FieldBytes(e.mode)))
PutField(bytes, e, v) ==
  [i \in 1..Len(bytes) |->
     LET k == e.off + FieldBytes(e.mode) - i
     IN  IF i > e.off /\ k >= 0 THEN (v \div Base ^ k) % Base ELSE bytes[i]]
PackStructureTags(m, bytes, table) ==
  FoldLeft(LAMBDA s, e : LET a == find_tag(m, ListAt, e.tag)
                         IN  IF e.skip \/ a = None THEN s
                             ELSE [bytes |-> PutField(s.bytes, e, m[a].data), count |-> s.count + 1],
           [bytes |-> bytes, count |-> 0], table)
Signed(v, bits) == IF v >= 2 ^ (bits - 1) THEN v - 2 ^ bits ELSE v
\* The value of a field, as an unsigned long.
Unpacked(bytes, e) ==
  LET v == FieldOf(bytes, e)
      bits == ByteBits * FieldBytes(e.mode)
  IN  IF e.mode \in {"BYTE", "WORD"} THEN Signed(v, bits) % 2 ^ (4 * ByteBits) ELSE v
\* It too leaves out the entries that are not to be packed.
UnpackStructureTags(m, bytes, table) ==
  FoldLeft(LAMBDA s, e : LET a == find_tag(s.items, ListAt, e.tag)
                         IN  IF e.skip \/ a = None THEN s
                             ELSE [items |-> [s.items EXCEPT ![a].data = Unpacked(bytes, e)], count |-> s.count + 1],
           [items |-> m, count |-> 0], table)

-----------------------------------------------------------------------------
Idle == [name |-> "none"]
Called(name, arg, result) == tag_op' = [name |-> name, arg |-> arg, result |-> result, before |-> items]
TagsInit ==
  /\ items \in TagMems /\ packed = [i \in 1..StructSize |-> 0] /\ tag_op = Idle
\* Bound: a behaviour is one call, but unpacking follows packing.
TagCall ==
  /\ tag_op = Idle
  /\ \/ \E array \in TagArrays, logic \in {"and", "not"} :
          /\ LET s == FilterTagItems(array, logic, items)
             IN  items' = s.items /\ Called("filter", [array |-> array, logic |-> logic], s.valid)
          /\ UNCHANGED packed
     \/ \E flag \in BOOLEAN :
          /\ \/ items' = MapTags(flag, items) /\ Called("map", flag, 0)
             \/ items' = FilterTagChanges(flag, items) /\ Called("changes", flag, 0)
          /\ UNCHANGED packed
     \/ items' = ApplyTagChanges(items) /\ Called("apply", 0, 0) /\ UNCHANGED packed
     \/ items' = CloneTagItems(items) /\ Called("clone", 0, list_len(items, ListAt)) /\ UNCHANGED packed
     \/ \E tag \in UserTags : Called("find", tag, GetTagData(items, tag)) /\ UNCHANGED <<items, packed>>
     \/ Called("next", 0, NextTagItems(items, ListAt)) /\ UNCHANGED <<items, packed>>
     \/ \E table \in TagTables :
          LET p == PackStructureTags(items, packed, table)
          IN  packed' = p.bytes /\ Called("pack", table, p.count) /\ UNCHANGED items
TagUnpack ==
  /\ tag_op.name = "pack"
  /\ LET u == UnpackStructureTags(items, packed, tag_op.arg)
     IN  items' = u.items /\ Called("unpack", tag_op.arg, u.count)
  /\ UNCHANGED packed
TagsNext == TagCall \/ TagUnpack

-----------------------------------------------------------------------------
\* The items of a list as AmigaOS defines it, read by item number: TAG_IGNORE
\* stands for nothing, TAG_SKIP for nothing and the items it skips, TAG_MORE
\* for the list it points to.
RECURSIVE Real(_, _)
Real(m, a) ==
  LET t == m[a].tag IN
  IF t = TAG_DONE \/ (t = TAG_MORE /\ m[a].data = None) THEN <<>>
  ELSE IF t = TAG_MORE THEN Real(m, m[a].data)
  ELSE IF t = TAG_SKIP THEN Real(m, a + m[a].data + 1)
  ELSE (IF t = TAG_IGNORE THEN <<>> ELSE <<m[a]>>) \o Real(m, a + 1)
Before == Real(tag_op.before, ListAt)
Before2 == Real(tag_op.before, List2At)
After == Real(items, ListAt)
Tags(list) == {list[i].tag : i \in 1..Len(list)}
First(list, tag) == list[Min({i \in 1..Len(list) : list[i].tag = tag})]

\* A search finds the first item with the tag, however the list is cut up and
\* what was removed from it (find_tag()).
FindsFirst ==
  tag_op.name = "find" =>
     tag_op.result = IF tag_op.arg \in Tags(Before) THEN First(Before, tag_op.arg).data ELSE -1

\* Filtering leaves in their order just the items whose tags are in the array, or
\* are not, and tells how many (FilterTagItems()).
FilterExact ==
  tag_op.name = "filter" =>
     /\ After = SelectSeq(Before, LAMBDA it : (it.tag \in ToSet(tag_op.arg.array)) = (tag_op.arg.logic = "and"))
     /\ tag_op.result = Len(After)

\* Mapping replaces each tag by what the map has for it and drops or keeps the
\* others (MapTags()).
MapExact ==
  tag_op.name = "map" =>
     After = [i \in 1..Len(SelectSeq(Before, LAMBDA it : tag_op.arg \/ it.tag \in Tags(Before2))) |->
                LET it == SelectSeq(Before, LAMBDA x : tag_op.arg \/ x.tag \in Tags(Before2))[i]
                IN  IF it.tag \in Tags(Before2) THEN [it EXCEPT !.tag = First(Before2, it.tag).data] ELSE it]

\* After FilterTagChanges() with a list that has each tag once the changes left
\* are those that change something, and applied they are what the other list has.
ChangesExact ==
  tag_op.name = "changes" /\ IsInjective([i \in 1..Len(Before) |-> Before[i].tag]) =>
     /\ After = SelectSeq(Before, LAMBDA it : it.tag \in Tags(Before2) => First(Before2, it.tag).data # it.data)
     /\ \A t \in Tags(Before) \cap Tags(Before2) :
           First(Real(items, List2At), t).data = First(IF tag_op.arg THEN Before ELSE Before2, t).data

\* What is packed into fields that do not overlap is there when it is unpacked:
\* cut to the width of the field, and with its sign where the field has one.
PackKeeps ==
  tag_op.name = "unpack" =>
     \A i \in 1..Len(tag_op.arg) :
        LET e == tag_op.arg[i]
            bits == ByteBits * FieldBytes(e.mode)
            mask == 2 ^ bits
            old == First(Before, e.tag).data
        IN  ~e.skip /\ e.tag \in Tags(Before) =>
              First(After, e.tag).data =
                 IF e.mode \in {"BYTE", "WORD"} /\ old % mask >= mask \div 2
                 THEN ((old % mask) - mask) + 2 ^ (4 * ByteBits) ELSE old % mask

\* A loop with NextTagItem() comes by each item of the list once and in order,
\* if it leaves out the control items that it also gets.
WalkComplete ==
  tag_op.name = "next" =>
     LET got == SelectSeq(tag_op.result, LAMBDA a : items[a].tag \notin ControlTags)
     IN  [i \in 1..Len(got) |-> items[got[i]]] = Before

\* A clone has the items of the list, in its order and none between, and the copy
\* writes only to the items that were allocated for it.
CloneFaithful ==
  tag_op.name = "clone" =>
     /\ [i \in 1..tag_op.result |-> items[CloneAt + i - 1]] = Before
     /\ \A a \in DOMAIN items \ (CloneAt..(CloneAt + tag_op.result - 1)) : items[a] = tag_op.before[a]

=============================================================================
