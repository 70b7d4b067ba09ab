------------------------------ MODULE ListSpec ------------------------------
(***************************************************************************)
(* What the callers of include/list.h take its lists for: sequences of     *)
(* distinct nodes, changed at the place of a node or at the head.          *)
(***************************************************************************)
EXTENDS Naturals, Sequences, SequencesExt

CONSTANTS
    Nodes,      \* the structs with a link field
    Heads       \* the list heads

VARIABLE lists  \* the nodes on each list

Used == UNION {ToSet(lists[hd]) : hd \in Heads}

Init == lists = [hd \in Heads |-> <<>>]

(* n goes to position i + 1 of the list: behind its first i nodes.         *)
Insert(hd, i, n) ==
    /\ n \notin Used
    /\ lists' = [lists EXCEPT ![hd] = InsertAt(@, i + 1, n)]

Unlink(n) ==
    lists' = [hd \in Heads |-> RemoveFirst(lists[hd], n)]

Next ==
    \E n \in Nodes :
        \/ \E hd \in Heads : \E i \in 0 .. Len(lists[hd]) : Insert(hd, i, n)
        \/ Unlink(n)

Spec == Init /\ [][Next]_lists
=============================================================================
