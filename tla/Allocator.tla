------------------------------ MODULE Allocator ------------------------------
(***************************************************************************)
(* What the users of the memory allocator may rely on: an owner that asks  *)
(* for memory gets a long word aligned block of the pool of which no one   *)
(* else holds a byte, and keeps it until it gives it back.  How the free   *)
(* memory is kept is left open.                                            *)
(***************************************************************************)
EXTENDS Integers

CONSTANTS Addr, Size, Owners, NoMem, Sizes

VARIABLE own

Rounded(size) == ((size + 3) \div 4) * 4

Meets(a, n, b) ==
    b # NoMem /\ a < b.addr + Rounded(b.size) /\ b.addr < a + n

Init == own = [o \in Owners |-> NoMem]

Alloc(o, size) ==
    /\ own[o] = NoMem
    /\ \E a \in Addr..(Addr + Size - 1) :
        /\ a % 4 = 0 /\ a + Rounded(size) <= Addr + Size
        /\ \A p \in Owners : ~Meets(a, Rounded(size), own[p])
        /\ own' = [own EXCEPT ![o] = [addr |-> a, size |-> size]]

Free(o) == own[o] # NoMem /\ own' = [own EXCEPT ![o] = NoMem]

Next == \E o \in Owners : (\E size \in Sizes : Alloc(o, size)) \/ Free(o)

Spec == Init /\ [][Next]_own
==============================================================================
