------------------------------ MODULE NodeList -------------------------------
(***************************************************************************)
(* What the users of Exec lists rely on: each list is a sequence of nodes. *)
(***************************************************************************)
EXTENDS Integers, Sequences, SequencesExt

CONSTANTS Lists, Nodes

VARIABLE seqs

Init == seqs = [l \in Lists |-> <<>>]

Unlinked == Nodes \ UNION {Range(seqs[l]) : l \in Lists}

\* A node is put in at a place, or a node is taken out.
Next ==
    /\ seqs' # seqs
    /\ \E l \in Lists :
        \/ \E n \in Unlinked, i \in 1..(Len(seqs[l]) + 1) :
                seqs' = [seqs EXCEPT ![l] = InsertAt(@, i, n)]
        \/ \E i \in DOMAIN seqs[l] : seqs' = [seqs EXCEPT ![l] = RemoveAt(@, i)]

Spec == Init /\ [][Next]_seqs
==============================================================================
