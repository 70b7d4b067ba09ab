----------------------------- MODULE MCKmalloc -----------------------------
(***************************************************************************)
(* Kmalloc with pages of 64 bytes for TLC.  The first area of a node of    *)
(* order 0 has 48 bytes.                                                   *)
(***************************************************************************)
EXTENDS Kmalloc

(* With the header: 12 bytes; 44, which leaves 4 bytes of a fresh node;    *)
(* 68, of order 0, which no node of order 0 can serve; and 72, which needs *)
(* a node of order 1.                                                      *)
MCSizes == {4, 36, 60, 64}
=============================================================================
