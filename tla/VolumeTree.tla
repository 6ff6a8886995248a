----------------------------- MODULE VolumeTree -----------------------------
(***************************************************************************)
(* What the user of a disk image relies on, whatever the layout on disk: a *)
(* tree of named files and directories.  A command adds one node or        *)
(* removes one, and all others stay as they are, also when the image is    *)
(* closed and opened again.                                                *)
(***************************************************************************)
EXTENDS Naturals

CONSTANTS RootId, Names, Contents, DirContent

VARIABLE nodes      \* the nodes by their id: parent, name and content

Dirs == {RootId} \cup {i \in DOMAIN nodes : nodes[i].content = DirContent}
Children(d) == {i \in DOMAIN nodes : nodes[i].parent = d}

Init == nodes = [i \in {} |-> 0]

\* node i appears: a file, or an empty directory, in a directory and under a
\* name that the directory does not have yet
Create(i) ==
    LET new == nodes'[i]
    IN /\ new.parent \in Dirs /\ new.name \in Names
       /\ new.content \in Contents \cup {DirContent}
       /\ \A j \in Children(new.parent) : nodes[j].name # new.name
       /\ nodes' = [j \in DOMAIN nodes \cup {i} |-> IF j = i THEN new ELSE nodes[j]]

\* a file, or a directory with nothing in it
Remove(i) ==
    /\ Children(i) = {}
    /\ nodes' = [j \in DOMAIN nodes \ {i} |-> nodes[j]]

Next ==
    \/ \E i \in (DOMAIN nodes') \ (DOMAIN nodes) : Create(i)
    \/ \E i \in (DOMAIN nodes) \ (DOMAIN nodes') : Remove(i)

Spec == Init /\ [][Next]_nodes
=============================================================================
