----------------------------- MODULE PageArith -----------------------------
(***************************************************************************)
(* The index arithmetic of kernel/mm.c.  A block of 2^k pages is named by  *)
(* its order k and its number n at that order: the page index the C code   *)
(* carries is n * 2^k, so the pair says what (page_idx, mask) says there.  *)
(***************************************************************************)
EXTENDS Integers

(***************************************************************************)
(* 1UL << k for the orders of the allocator.  A table, because the proofs  *)
(* reason about each shift by cases.                                       *)
(***************************************************************************)
Pow2(k) == <<1, 2, 4, 8, 16, 32, 64, 128, 256, 512, 1024, 2048>>[k + 1]

(* p >> k: the number, at order k, of the block that holds page p.         *)
Shr(p, k) == p \div Pow2(k)

(* page_idx ^ -mask: the other half of the block one order up.             *)
BuddyOf(n) == IF n % 2 = 0 THEN n + 1 ELSE n - 1

(* page_idx & (mask << 1), and equally page_idx >> (1 + order): the block  *)
(* one order up, which is also the index of the pair's bit in the map.     *)
ParentOf(n) == n \div 2

(* ALIGN(x, 4) of nros/macro.h.                                            *)
LONG_ALIGN(x) == 4 * ((x + 3) \div 4)

(* The pages of block n of order k.                                        *)
PagesOf(k, n) == n * Pow2(k) .. (n + 1) * Pow2(k) - 1
=============================================================================
