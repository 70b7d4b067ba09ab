------------------------------- MODULE Links -------------------------------
(***************************************************************************)
(* The doubly linked lists of include/list.h at the level of their         *)
(* pointers.  A heap is a record of two functions, the next and the prev   *)
(* word of every cell; a link_t* is the cell it points to.  The writes of  *)
(* each function are applied one after the other, as in the C code, so the *)
(* operators say what happens when the arguments alias or when one of them *)
(* is not a link at all.                                                   *)
(***************************************************************************)
EXTENDS Naturals, Sequences

SetNext(h, c, v) == [h EXCEPT !.next[c] = v]
SetPrev(h, c, v) == [h EXCEPT !.prev[c] = v]

link_init(h, l) == SetPrev(SetNext(h, l, l), l, l)

list_insert_after(h, new, list) ==
    LET next == h.next[list]
        h1   == SetNext(h, new, next)
        h2   == SetPrev(h1, next, new)
        h3   == SetNext(h2, list, new)
    IN  SetPrev(h3, new, list)

list_insert_before(h, new, list) ==
    LET prev == h.prev[list]
        h1   == SetNext(h, new, list)
        h2   == SetPrev(h1, list, new)
        h3   == SetPrev(h2, new, prev)
    IN  SetNext(h3, prev, new)

(* Wrong on purpose: prev->next = next is forgotten.                      *)
list_remove_one_way(h, link) ==
    link_init(SetPrev(h, h.next[link], h.prev[link]), link)

(* list_remove and list_remove_init are the same function.                 *)
list_remove(h, link) ==
    LET prev == h.prev[link]
        next == h.next[link]
        h1   == SetNext(h, prev, next)
        h2   == SetPrev(h1, next, prev)
    IN  link_init(h2, link)

list_empty(h, list) == h.prev[list] = list /\ h.next[list] = list

(* The links a walk from head meets before it is back at head: what        *)
(* list_foreach_struct visits.  size bounds the walk.                      *)
Walk(h, head, size) ==
    LET cell[n \in 0 .. size] == IF n = 0 THEN head ELSE h.next[cell[n - 1]]
        back == {n \in 1 .. size : cell[n] = head}
    IN  IF back = {} THEN <<>>
        ELSE [n \in 1 .. (CHOOSE m \in back : \A o \in back : m <= o) - 1 |-> cell[n]]
=============================================================================
