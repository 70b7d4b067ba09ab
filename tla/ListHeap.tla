------------------------------ MODULE ListHeap ------------------------------
(***************************************************************************)
(* The functions of Links under every legal sequence of calls: a node is   *)
(* inserted when it is on no list, next to a node or a head of a list, and *)
(* removed at any time.  The other modules rest on what is shown here:     *)
(* where a kernel list is a sequence in them, its operations are those of  *)
(* ListSpec.                                                               *)
(***************************************************************************)
EXTENDS Links, FiniteSets

CONSTANTS Nodes, Heads

ASSUME ListHeapAssumption == IsFiniteSet(Nodes) /\ Nodes \cap Heads = {}

VARIABLE heap

Cells == Nodes \cup Heads
Bound == Cardinality(Nodes) + 1

(* The cells of the list with head hd, the head included.                  *)
Ring(hd) ==
    LET walk == Walk(heap, hd, Bound) IN {walk[n] : n \in DOMAIN walk} \cup {hd}

OnSomeList(n) == \E hd \in Heads : n \in Ring(hd)

(* link_init of every head and every node.                                 *)
ListsInit ==
    heap = [next |-> [c \in Cells |-> c], prev |-> [c \in Cells |-> c]]

CallInsertAfter ==
    \E n \in Nodes, hd \in Heads : \E c \in Ring(hd) :
        /\ ~OnSomeList(n)
        /\ heap' = list_insert_after(heap, n, c)

CallInsertBefore ==
    \E n \in Nodes, hd \in Heads : \E c \in Ring(hd) :
        /\ ~OnSomeList(n)
        /\ heap' = list_insert_before(heap, n, c)

(* Also of a node that is on no list.                                      *)
CallRemove ==
    \E n \in Nodes : heap' = list_remove(heap, n)

ListsNext == CallInsertAfter \/ CallInsertBefore \/ CallRemove

ListsSpec == ListsInit /\ [][ListsNext]_heap

(***************************************************************************)
(* Properties                                                              *)
(***************************************************************************)
Lists == INSTANCE ListSpec WITH lists <- [hd \in Heads |-> Walk(heap, hd, Bound)]

ImplementsLists == Lists!Spec
=============================================================================
