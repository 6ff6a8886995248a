------------------------------ MODULE ExecLists ------------------------------
(***************************************************************************)
(* Exec lists as they lie in Amiga memory: the List class (vamos/libtypes/ *)
(* list_.py, node.py) and the list functions of ExecLibrary, which work on *)
(* the same links.                                                         *)
(*                                                                         *)
(* A list header is three long words, lh_Head, lh_Tail (always 0) and      *)
(* lh_TailPred.  The address of lh_Head is used as the address of a node   *)
(* whose ln_Succ, ln_Pred are the first two words, and the address of      *)
(* lh_Tail as one whose ln_Succ, ln_Pred are the last two.                 *)
(***************************************************************************)
EXTENDS Integers, Sequences, SequencesExt, FiniteSets

CONSTANTS Lists, Nodes, Priority, Null

ASSUME NodesAssumption == IsFiniteSet(Nodes) /\ Priority \in [Nodes -> Int]

HeadOf(l) == <<l, "lh_Head">>
TailOf(l) == <<l, "lh_Tail">>
TailPredOf(l) == <<l, "lh_TailPred">>

\* no node lies in a header, and there is nothing at address 0
ASSUME AddressAssumption ==
    \A l \in Lists : HeadOf(l) \notin Nodes \cup {Null} /\ TailOf(l) \notin Nodes \cup {Null}
ASSUME NullAssumption == Null \notin Nodes

\* the long word that is the ln_Succ, ln_Pred of the node at an address
SuccWord(x) == IF x \in Nodes THEN <<x, "ln_Succ">> ELSE x
PredWord(x) ==
    IF x \in Nodes THEN <<x, "ln_Pred">>
    ELSE IF x[2] = "lh_Head" THEN TailOf(x[1]) ELSE TailPredOf(x[1])

Words == {SuccWord(n) : n \in Nodes} \cup {PredWord(n) : n \in Nodes}
         \cup UNION {{HeadOf(l), TailOf(l), TailPredOf(l)} : l \in Lists}

VARIABLES
    word,         \* the long words of all headers and nodes
    list_error    \* ValueError of Node.remove()

list_vars == <<word, list_error>>

succ(w, x) == w[SuccWord(x)]
pred(w, x) == w[PredWord(x)]

\* both links are set
SetSucc(w, x, y) == [w EXCEPT ![SuccWord(x)] = y]
SetPred(w, x, y) == [w EXCEPT ![PredWord(x)] = y]

\* new_list() of every list
ListsInit ==
    /\ word = [x \in Words |->
                IF \E l \in Lists : x = HeadOf(l) THEN TailOf(x[1])
                ELSE IF \E l \in Lists : x = TailPredOf(l) THEN HeadOf(x[1])
                ELSE Null]
    /\ list_error = FALSE

\* the addresses of nodes, the two of every header among them
Addresses == Nodes \cup {HeadOf(l) : l \in Lists} \cup {TailOf(l) : l \in Lists}

SuccOf(w) == [x \in Addresses |-> succ(w, x)]
PredOf(w) == [x \in Addresses |-> pred(w, x)]

\* the nodes after x, to the one that has no next
Followed(next, x) ==
    LET walked[k \in 0..Cardinality(Nodes)] ==
            IF k = 0 THEN <<>>
            ELSE LET s == walked[k - 1]
                     y == next[IF s = <<>> THEN x ELSE Last(s)]
                 IN  IF next[y] = Null THEN s ELSE Append(s, y)
    IN  walked[Cardinality(Nodes)]

\* ListIter: from lh_Head on
Walk(w, l) == Followed(SuccOf(w), HeadOf(l))

InList(w, n) == \E l \in Lists : Contains(Walk(w, l), n)

-----------------------------------------------------------------------------
(* libtypes: ListBase, List, NodeBase *)

add_head(w, l, n) ==
    LET h == succ(w, HeadOf(l))
        w1 == SetSucc(SetPred(w, n, HeadOf(l)), n, h)
    IN  SetPred(SetSucc(w1, HeadOf(l), n), h, n)

add_tail(w, l, n) ==
    LET tp == pred(w, TailOf(l))
        w1 == SetPred(SetSucc(w, n, TailOf(l)), TailOf(l), n)
    IN  SetSucc(SetPred(w1, n, tp), tp, n)

\* Mutant: the node is linked to the successor's successor
insert_past(w, l, n, p) ==
    LET s == IF succ(w, p) \in Nodes THEN succ(w, succ(w, p)) ELSE succ(w, p)
    IN  IF p \in {Null, HeadOf(l)} THEN add_head(w, l, n)
        ELSE SetSucc(SetPred(SetPred(SetSucc(w, n, s), n, p), s, n), p, n)

insert(w, l, n, p) ==
    IF p \in {Null, HeadOf(l)} THEN add_head(w, l, n)
    ELSE IF succ(w, p) = Null THEN add_tail(w, l, n)
    ELSE LET s == succ(w, p)
             w1 == SetPred(SetSucc(w, n, s), n, p)
         IN  SetSucc(SetPred(w1, s, n), p, n)

\* Mutant: a node goes in front of others of its priority
enqueue_before(w, l, n) ==
    LET s == Walk(w, l)
        lower == {i \in DOMAIN s : Priority[s[i]] <= Priority[n]}
        i == CHOOSE i \in lower : \A j \in lower : i <= j
    IN  IF lower = {} THEN add_tail(w, l, n)
        ELSE insert(w, l, n, IF i = 1 THEN Null ELSE s[i - 1])

enqueue(w, l, n) ==
    LET s == Walk(w, l)
        lower == {i \in DOMAIN s : Priority[s[i]] < Priority[n]}
        i == CHOOSE i \in lower : \A j \in lower : i <= j
    IN  IF lower = {} THEN add_tail(w, l, n)
        ELSE insert(w, l, n, IF i = 1 THEN Null ELSE s[i - 1])

unlinked(w, x) == SetSucc(SetPred(w, succ(w, x), pred(w, x)), pred(w, x), succ(w, x))

\* Node.remove(): the links of the node are cleared
remove_node(x) ==
    IF succ(word, x) = Null \/ pred(word, x) = Null
    THEN list_error' = TRUE /\ UNCHANGED word
    ELSE /\ word' = SetPred(SetSucc(unlinked(word, x), x, Null), x, Null)
         /\ UNCHANGED list_error

\* rem_head(), rem_tail() of an empty list take the header for a node
rem_head(l) == remove_node(succ(word, HeadOf(l)))
rem_tail(l) == remove_node(pred(word, TailOf(l)))

-----------------------------------------------------------------------------
(* ExecLibrary *)

AddTail(w, l, n) ==
    LET tp == w[TailPredOf(l)]
        w1 == SetPred(SetSucc(w, n, TailOf(l)), n, tp)
    IN  [SetSucc(w1, tp, n) EXCEPT ![TailPredOf(l)] = n]

AddHead(w, l, n) ==
    LET h == w[HeadOf(l)]
        w1 == SetSucc(SetPred(w, n, HeadOf(l)), n, h)
    IN  [SetPred(w1, h, n) EXCEPT ![HeadOf(l)] = n]

\* The node keeps its links.
RemHead(w, l) ==
    IF succ(w, w[HeadOf(l)]) = Null THEN w ELSE unlinked(w, w[HeadOf(l)])

RemTail(w, l) ==
    IF pred(w, w[TailPredOf(l)]) = Null THEN w ELSE unlinked(w, w[TailPredOf(l)])

ListFree(n) == ~InList(word, n)

ListsNext ==
    /\ ~list_error
    /\ \/ \E l \in Lists, n \in Nodes :
            /\ ListFree(n)
            /\ \/ word' = add_head(word, l, n)
               \/ word' = add_tail(word, l, n)
               \/ word' = enqueue(word, l, n)
               \/ word' = AddTail(word, l, n)
               \/ word' = AddHead(word, l, n)
               \/ \E p \in Range(Walk(word, l)) : word' = insert(word, l, n, p)
            /\ UNCHANGED list_error
       \/ \E n \in Nodes : ~ListFree(n) /\ word' = unlinked(word, n) /\ UNCHANGED list_error
       \/ \E n \in Nodes : ~ListFree(n) /\ remove_node(n)
       \/ \E l \in Lists : rem_head(l) \/ rem_tail(l)
       \/ \E l \in Lists : /\ word' \in {RemHead(word, l), RemTail(word, l)}
                           /\ UNCHANGED list_error

-----------------------------------------------------------------------------
WalkBack(w, l) == Followed(PredOf(w), TailOf(l))

\* Both directions of a list name the same nodes, and lh_Tail is 0.
LinksAgree(l) == WalkBack(word, l) = Reverse(Walk(word, l)) /\ word[TailOf(l)] = Null

Sorted(s) == \A i, j \in DOMAIN s : i < j => Priority[s[i]] >= Priority[s[j]]

\* A node that is enqueued leaves a list that was in the order of priorities in
\* that order, after all others of its own priority, wherever the list came
\* from (List.enqueue()).
EnqueueKeepsOrder ==
    [][word' # word => \A l \in Lists, n \in Nodes :
        (ListFree(n) /\ word' = enqueue(word, l, n) /\ Sorted(Walk(word, l))) =>
            LET s == Walk(word', l)
            IN  /\ Sorted(s) /\ RemoveFirst(s, n) = Walk(word, l)
                /\ \A i, j \in DOMAIN s :
                        (s[i] = n /\ Priority[s[j]] = Priority[n]) => j <= i]_list_vars

\* A list whose links do not agree stands for no sequence of nodes.
Represented == [l \in Lists |-> IF LinksAgree(l) THEN Walk(word, l) ELSE <<Null>>]

Seqs == INSTANCE NodeList WITH seqs <- Represented

\* The links implement sequences, whatever mixture of library functions and vamos' own
\* list methods works on them: every function puts its node in at one place or takes one
\* node out, disturbs no other list and no other node, and leaves both directions and the
\* overlapping header words consistent (ListBase, ExecLibrary.AddHead() to RemTail()).
ImplementsSequences == Seqs!Spec
==============================================================================
