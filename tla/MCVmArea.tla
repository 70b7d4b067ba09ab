------------------------------ MODULE MCVmArea ------------------------------
(***************************************************************************)
(* VmArea with pages of four bytes and tables of three pages.              *)
(***************************************************************************)
EXTENDS VmArea, TLC

CONSTANTS p1, p2, p3, p4, p5, p6, p7

MCPages == {p1, p2, p3, p4, p5, p6, p7}
PageSymmetry == Permutations(MCPages)

(* Whole pages, as create_proc asks for: inside a table, across two tables *)
(* and of different sizes at one address.                                  *)
MCRequests == {<<4, 4>>, <<4, 8>>, <<0, 4>>, <<8, 8>>, <<12, 4>>}
=============================================================================
