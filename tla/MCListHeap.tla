----------------------------- MODULE MCListHeap -----------------------------
(***************************************************************************)
(* Two lists and four nodes: every pair of lists with up to four nodes.    *)
(***************************************************************************)
EXTENDS ListHeap

CONSTANTS n1, n2, n3, n4, head1, head2

MCNodes == {n1, n2, n3, n4}
MCHeads == {head1, head2}
=============================================================================
