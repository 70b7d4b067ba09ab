---------------------------- MODULE BuddyProofs ----------------------------
(***************************************************************************)
(* Proofs about Buddy for every memory size and every number of orders up  *)
(* to the eleven of the kernel; and, at the end, about the pointers under  *)
(* its lists: those of include/list.h implement the lists their callers    *)
(* take them for, for any number of nodes and heads.                       *)
(***************************************************************************)
EXTENDS Buddy, ListHeap, DataLemmas

(***************************************************************************)
(* Arithmetic of blocks                                                    *)
(***************************************************************************)

(* Shifting a page index gives a block number; one order up is one more    *)
(* shift by one.                                                           *)
LEMMA ShrFacts ==
    ASSUME NEW p \in Nat, NEW k \in 0 .. 10
    PROVE  /\ Shr(p, k) \in Nat
           /\ Shr(p, k + 1) = ParentOf(Shr(p, k))
<1>1. \/ k = 0 \/ k = 1 \/ k = 2 \/ k = 3 \/ k = 4 \/ k = 5 \/ k = 6
      \/ k = 7 \/ k = 8 \/ k = 9 \/ k = 10
  OBVIOUS
<1>2. CASE k = 0  BY <1>2 DEF Shr, Pow2, ParentOf
<1>3. CASE k = 1  BY <1>3 DEF Shr, Pow2, ParentOf
<1>4. CASE k = 2  BY <1>4 DEF Shr, Pow2, ParentOf
<1>5. CASE k = 3  BY <1>5 DEF Shr, Pow2, ParentOf
<1>6. CASE k = 4  BY <1>6 DEF Shr, Pow2, ParentOf
<1>7. CASE k = 5  BY <1>7 DEF Shr, Pow2, ParentOf
<1>8. CASE k = 6  BY <1>8 DEF Shr, Pow2, ParentOf
<1>9. CASE k = 7  BY <1>9 DEF Shr, Pow2, ParentOf
<1>10. CASE k = 8  BY <1>10 DEF Shr, Pow2, ParentOf
<1>11. CASE k = 9  BY <1>11 DEF Shr, Pow2, ParentOf
<1>12. CASE k = 10  BY <1>12 DEF Shr, Pow2, ParentOf
<1> QED
  BY <1>1, <1>2, <1>3, <1>4, <1>5, <1>6, <1>7, <1>8, <1>9, <1>10, <1>11, <1>12

(* Every block has a page, and of order 0 it is its own number.            *)
LEMMA BlockHasPage ==
    ASSUME NEW n \in Nat, NEW k \in 0 .. 10
    PROVE  /\ \E p \in Nat : Shr(p, k) = n
           /\ Shr(n, 0) = n
<1>1. \/ k = 0 \/ k = 1 \/ k = 2 \/ k = 3 \/ k = 4 \/ k = 5 \/ k = 6
      \/ k = 7 \/ k = 8 \/ k = 9 \/ k = 10
  OBVIOUS
<1>2. Pow2(k) \in Nat \ {0} /\ n * Pow2(k) \in Nat
  BY <1>1 DEF Pow2
<1>3. Shr(n * Pow2(k), k) = n
  BY <1>1 DEF Shr, Pow2
<1>4. Shr(n, 0) = n
  BY DEF Shr, Pow2
<1> QED
  BY <1>2, <1>3, <1>4

(* A pair has one parent, and the parent has no other halves.              *)
LEMMA Halves ==
    ASSUME NEW n \in Nat
    PROVE  /\ BuddyOf(n) \in Nat /\ BuddyOf(n) # n
           /\ ParentOf(n) \in Nat /\ ParentOf(BuddyOf(n)) = ParentOf(n)
           /\ \A m \in Nat : ParentOf(m) = ParentOf(n) <=> m = n \/ m = BuddyOf(n)
           /\ \A m \in Nat : m = BuddyOf(n) <=> BuddyOf(m) = n
           /\ {2 * ParentOf(n), 2 * ParentOf(n) + 1} = {n, BuddyOf(n)}
           /\ ParentOf(2 * n) = n /\ ParentOf(2 * n + 1) = n
           /\ BuddyOf(2 * n) = 2 * n + 1 /\ BuddyOf(2 * n + 1) = 2 * n
  BY DEF BuddyOf, ParentOf

(* Flipping a bit changes that bit of that map and no other.               *)
LEMMA ChangeBit ==
    ASSUME map \in [Orders -> SUBSET Nat], NEW k \in Orders, NEW b \in Nat
    PROVE  /\ change_bit(k, b) \in [Orders -> SUBSET Nat]
           /\ \A j \in Orders, c \in Nat :
                 c \in change_bit(k, b)[j] <=>
                    IF j = k /\ c = b THEN c \notin map[j] ELSE c \in map[j]
<1>1. CASE b \in map[k]
  BY <1>1 DEF change_bit
<1>2. CASE b \notin map[k]
  BY <1>2 DEF change_bit
<1> QED
  BY <1>1, <1>2

(* Orders are shifts the arithmetic above speaks of.                       *)
LEMMA OrderFacts ==
    /\ MAX_ORDER \in 1 .. 11
    /\ 0 \in Orders
    /\ Orders \subseteq 0 .. 10
    /\ \A k \in Orders : Pow2(k) \in Nat
    /\ \A p \in Nat, k \in Orders : Shr(p, k) \in Nat
    /\ \A p \in Nat, k \in Orders : Shr(p, k + 1) = ParentOf(Shr(p, k))
    /\ \A n \in Nat, k \in Orders : \E p \in Nat : Shr(p, k) = n
    /\ \A n \in Nat : Shr(n, 0) = n
<1>1. MAX_ORDER \in 1 .. 11 /\ 0 \in Orders /\ Orders \subseteq 0 .. 10
  BY BuddyAssumption DEF BuddyAssumption, Orders
<1>2. ASSUME NEW p \in Nat, NEW k \in Orders
      PROVE  Shr(p, k) \in Nat /\ Shr(p, k + 1) = ParentOf(Shr(p, k))
  BY <1>1, ShrFacts
<1>3. ASSUME NEW n \in Nat, NEW k \in Orders
      PROVE  (\E p \in Nat : Shr(p, k) = n) /\ Shr(n, 0) = n
  BY <1>1, BlockHasPage
<1>4. ASSUME NEW k \in Orders PROVE Pow2(k) \in Nat
  <2>1. \/ k = 0 \/ k = 1 \/ k = 2 \/ k = 3 \/ k = 4 \/ k = 5 \/ k = 6
        \/ k = 7 \/ k = 8 \/ k = 9 \/ k = 10
    BY <1>1
  <2> QED
    BY <2>1 DEF Pow2
<1> QED
  BY <1>1, <1>2, <1>3, <1>4

(***************************************************************************)
(* The inductive invariant.  NoOverlap, NoPageLost and BitmapExact lean on *)
(* each other: that the buddy found by the bit is really on the list needs *)
(* the bitmap, that merging two halves makes no overlap needs NoOverlap,   *)
(* and that the bits stay exact while blocks are split and merged needs    *)
(* both.  The parts range over all numbers and not only over the pages of  *)
(* the memory, so that a block beyond its end would violate them too.      *)
(***************************************************************************)
OneOrder ==
    \A p \in Nat : \A j, k \in Orders :
        Occupied(j, Shr(p, j)) /\ Occupied(k, Shr(p, k)) => j = k

OnePlace ==
    \A k \in Orders : \A n \in Nat :
        /\ ~(IsFree(k, n) /\ IsHeld(k, n))
        /\ ~(IsFree(k, n) /\ InFlight(k, n))
        /\ ~(IsHeld(k, n) /\ InFlight(k, n))

NoRepeat == \A k \in Orders : IsInjective(free_list[k])

Covered ==
    \A p \in Nat : (\E k \in Orders : Occupied(k, Shr(p, k))) <=> Managed(p)

BitsExact ==
    \A k \in Orders : k < MAX_ORDER - 1 =>
        \A n \in Nat :
            /\ ~(IsFree(k, n) /\ IsFree(k, BuddyOf(n)))
            /\ ParentOf(n) \in map[k] <=> IsFree(k, n) \/ IsFree(k, BuddyOf(n))

IInv ==
    /\ TypeOK
    /\ OneOrder
    /\ OnePlace
    /\ NoRepeat
    /\ Covered
    /\ BitsExact

(* With all lists empty no page lies in a block and no bit is set.         *)
LEMMA InitInv == Init => IInv
<1> SUFFICES ASSUME Init PROVE IInv
  OBVIOUS
<1>1. Range(<<>>) = {}
  BY DEF Range
<1>2. TypeOK
  BY BuddyAssumption DEF BuddyAssumption, Init, TypeOK, Orders
<1>3. \A k \in Orders : \A n \in Nat : ~Occupied(k, n) /\ ~IsFree(k, n)
  BY <1>1 DEF Init, Occupied, IsFree, IsHeld, InFlight
<1>4. OneOrder
  BY <1>3, OrderFacts DEF OneOrder
<1>5. Covered
  <2>1. \A p \in Nat : ~Managed(p)
    BY BuddyAssumption DEF BuddyAssumption, Managed, Init
  <2> QED
    BY <1>3, <2>1, OrderFacts DEF Covered
<1>6. OnePlace
  BY <1>3 DEF OnePlace, Occupied
<1>7. NoRepeat
  BY DEF Init, NoRepeat, IsInjective
<1>8. BitsExact
  BY <1>3, Halves DEF BitsExact, Init
<1> QED
  BY <1>2, <1>4, <1>5, <1>6, <1>7, <1>8 DEF IInv

(***************************************************************************)
(* One lemma per action.  Each first says how the action changes the       *)
(* blocks, and works with the blocks from there on.                        *)
(***************************************************************************)

(* The boot loop gives a page that no block covers yet.                    *)
LEMMA BootFreeInv == IInv /\ BootFree => IInv'
<1> SUFFICES ASSUME IInv, BootFree PROVE IInv'
  OBVIOUS
<1> USE DEF IInv
<1>1. boot_idx \in Nat /\ ~Managed(boot_idx)
  BY BuddyAssumption DEF BuddyAssumption, TypeOK, Managed
<1>2. TypeOK'
  <2>1. Pow2(0) = 1
    BY DEF Pow2
  <2> QED
    BY OrderFacts, <1>1, <2>1, BuddyAssumption
       DEF BuddyAssumption, TypeOK, BootFree, EnterFree
<1>3. \A k \in Orders : \A n \in Nat :
        /\ IsFree(k, n)' <=> IsFree(k, n)
        /\ IsHeld(k, n)' <=> IsHeld(k, n)
        /\ InFlight(k, n)' <=> k = 0 /\ n = boot_idx
        /\ ~InFlight(k, n)
  BY DEF BootFree, EnterFree, IsFree, IsHeld, InFlight
<1>4. \A k \in Orders : ~Occupied(k, Shr(boot_idx, k))
  BY <1>1 DEF Covered
<1>5. \A k \in Orders : \A n \in Nat :
        Occupied(k, n)' <=> Occupied(k, n) \/ (k = 0 /\ n = boot_idx)
  BY <1>3 DEF Occupied
<1>6. OneOrder'
  <2> SUFFICES ASSUME NEW p \in Nat, NEW j \in Orders, NEW k \in Orders,
                      Occupied(j, Shr(p, j))', Occupied(k, Shr(p, k))'
               PROVE  j = k
    BY DEF OneOrder
  <2>1. Shr(p, j) \in Nat /\ Shr(p, k) \in Nat /\ Shr(p, 0) = p
    BY OrderFacts
  <2>2. CASE p = boot_idx
    BY <1>4, <1>5, <2>1, <2>2
  <2>3. CASE p # boot_idx
    BY <1>5, <2>1, <2>3 DEF OneOrder
  <2> QED
    BY <2>2, <2>3
<1>7. OnePlace'
  BY <1>1, <1>3, <1>4, OrderFacts DEF OnePlace, Occupied
<1>8. NoRepeat'
  BY DEF NoRepeat, BootFree
<1>9. Covered'
  <2> SUFFICES ASSUME NEW p \in Nat
               PROVE (\E k \in Orders : Occupied(k, Shr(p, k))') <=> Managed(p)'
    BY DEF Covered
  <2>1. Managed(p)' <=> Managed(p) \/ p = boot_idx
    BY <1>1, BuddyAssumption DEF BuddyAssumption, TypeOK, Managed, BootFree
  <2>2. (\E k \in Orders : Occupied(k, Shr(p, k))')
          <=> (\E k \in Orders : Occupied(k, Shr(p, k))) \/ p = boot_idx
    BY <1>5, OrderFacts
  <2> QED
    BY <2>1, <2>2 DEF Covered
<1>10. BitsExact'
  BY <1>3, Halves DEF BitsExact, BootFree
<1> QED
  BY <1>2, <1>6, <1>7, <1>8, <1>9, <1>10

(* A step that leaves lists, maps and boot_idx alone and moves blocks only *)
(* between the callers and the current call.                               *)
LEMMA BlocksStay ==
    ASSUME IInv, TypeOK', OnePlace',
           UNCHANGED <<free_list, map, boot_idx>>,
           \A k \in Orders : \A n \in Nat : Occupied(k, n)' <=> Occupied(k, n)
    PROVE  IInv'
<1> USE DEF IInv
<1>1. \A k \in Orders : \A n \in Nat : IsFree(k, n)' <=> IsFree(k, n)
  BY DEF IsFree
<1>2. OneOrder'
  BY OrderFacts DEF OneOrder
<1>3. NoRepeat'
  BY DEF NoRepeat
<1>4. Covered'
  <2>1. \A p \in Nat : Managed(p)' <=> Managed(p)
    BY DEF Managed
  <2> QED
    BY <2>1, OrderFacts DEF Covered
<1>5. BitsExact'
  BY <1>1, Halves DEF BitsExact
<1> QED
  BY <1>2, <1>3, <1>4, <1>5

(* A caller's block goes into the hands of free_pages.                     *)
LEMMA FreeCallInv == IInv /\ FreeCall => IInv'
<1> SUFFICES ASSUME IInv, FreeCall PROVE IInv'
  OBVIOUS
<1> USE DEF IInv
<1>1. PICK b \in held : held' = held \ {b} /\ EnterFree(b[1], b[2])
  BY DEF FreeCall
<1>2. b = <<b[1], b[2]>> /\ b[1] \in Orders /\ b[2] \in Nat
  BY DEF TypeOK
<1>3. TypeOK'
  <2>1. b[1] \in 0 .. MAX_ORDER - 1 /\ MAX_ORDER \in Nat
    BY <1>2, OrderFacts DEF Orders
  <2>2. held' \subseteq Orders \X Nat
    BY <1>1 DEF TypeOK
  <2>3. free_page_count' \in Int
    BY OrderFacts, <1>1, <1>2 DEF TypeOK, EnterFree
  <2>4. order' \in 0 .. MAX_ORDER /\ order' # MAX_ORDER /\ blk' \in Nat /\ want' = 0
    BY <1>1, <1>2, <2>1 DEF TypeOK, FreeCall, EnterFree
  <2>5. want' \in 0 .. order'
    BY <2>1, <2>4
  <2> QED
    BY <1>1, <2>2, <2>3, <2>4, <2>5 DEF TypeOK, FreeCall, EnterFree
<1>4. \A k \in Orders : \A n \in Nat :
        /\ IsFree(k, n)' <=> IsFree(k, n)
        /\ IsHeld(k, n)' <=> IsHeld(k, n) /\ ~(k = b[1] /\ n = b[2])
        /\ InFlight(k, n)' <=> k = b[1] /\ n = b[2]
        /\ ~InFlight(k, n)
  BY <1>1, <1>2 DEF FreeCall, EnterFree, IsFree, IsHeld, InFlight
<1>5. IsHeld(b[1], b[2])
  BY <1>2 DEF IsHeld
<1>6. \A k \in Orders : \A n \in Nat : Occupied(k, n)' <=> Occupied(k, n)
  BY <1>2, <1>4, <1>5 DEF Occupied
<1>7. OnePlace'
  BY <1>4, <1>5 DEF OnePlace
<1>8. UNCHANGED <<free_list, map, boot_idx>>
  BY DEF FreeCall
<1> QED
  BY <1>3, <1>6, <1>7, <1>8, BlocksStay

(* The check of the order in alloc_pages moves no block.                   *)
LEMMA AllocCallInv == IInv /\ AllocCall => IInv'
<1> SUFFICES ASSUME IInv, AllocCall PROVE IInv'
  OBVIOUS
<1> USE DEF IInv
<1>1. TypeOK'
  <2>1. PICK k \in REQUESTS :
          \/ k > MAX_ORDER /\ pc' = "bug" /\ UNCHANGED <<order, want>>
          \/ k = MAX_ORDER /\ pc' = "wild" /\ UNCHANGED <<order, want>>
          \/ k < MAX_ORDER /\ pc' = "scan" /\ order' = k /\ want' = k
    BY DEF AllocCall
  <2>2. k \in Nat /\ MAX_ORDER \in Nat
    BY BuddyAssumption, OrderFacts DEF BuddyAssumption
  <2> QED
    BY <2>1, <2>2 DEF TypeOK, AllocCall
<1>2. \A k \in Orders : \A n \in Nat :
        /\ IsFree(k, n)' <=> IsFree(k, n)
        /\ IsHeld(k, n)' <=> IsHeld(k, n)
        /\ ~InFlight(k, n)' /\ ~InFlight(k, n)
  BY DEF AllocCall, IsFree, IsHeld, InFlight
<1>3. OnePlace' /\ \A k \in Orders : \A n \in Nat : Occupied(k, n)' <=> Occupied(k, n)
  BY <1>2 DEF OnePlace, Occupied
<1>4. UNCHANGED <<free_list, map, boot_idx>>
  BY DEF AllocCall
<1> QED
  BY <1>1, <1>3, <1>4, BlocksStay

(* Passing over an empty list moves no block.                              *)
LEMMA AllocScanInv == IInv /\ AllocScan => IInv'
<1> SUFFICES ASSUME IInv, AllocScan PROVE IInv'
  OBVIOUS
<1> USE DEF IInv
<1>1. TypeOK'
  BY OrderFacts DEF TypeOK, AllocScan
<1>2. \A k \in Orders : \A n \in Nat :
        /\ IsFree(k, n)' <=> IsFree(k, n)
        /\ IsHeld(k, n)' <=> IsHeld(k, n)
        /\ ~InFlight(k, n)' /\ ~InFlight(k, n)
  BY DEF AllocScan, IsFree, IsHeld, InFlight
<1>3. OnePlace' /\ \A k \in Orders : \A n \in Nat : Occupied(k, n)' <=> Occupied(k, n)
  BY <1>2 DEF OnePlace, Occupied
<1>4. UNCHANGED <<free_list, map, boot_idx>>
  BY DEF AllocScan
<1> QED
  BY <1>1, <1>3, <1>4, BlocksStay

(* The block in flight becomes the caller's.                               *)
LEMMA AllocReturnInv == IInv /\ AllocReturn => IInv'
<1> SUFFICES ASSUME IInv, AllocReturn PROVE IInv'
  OBVIOUS
<1> USE DEF IInv
<1>1. order \in Orders /\ blk \in Nat
  BY OrderFacts DEF TypeOK, AllocReturn, Orders
<1>2. TypeOK'
  <2>1. held' \subseteq Orders \X Nat
    BY <1>1 DEF TypeOK, AllocReturn
  <2>2. 0 \in 0 .. MAX_ORDER /\ 0 # MAX_ORDER /\ 0 \in 0 .. 0
    BY OrderFacts
  <2> QED
    BY <2>1, <2>2 DEF TypeOK, AllocReturn
<1>3. \A k \in Orders : \A n \in Nat :
        /\ IsFree(k, n)' <=> IsFree(k, n)
        /\ IsHeld(k, n)' <=> IsHeld(k, n) \/ (k = order /\ n = blk)
        /\ InFlight(k, n) <=> k = order /\ n = blk
        /\ ~InFlight(k, n)'
  BY DEF AllocReturn, IsFree, IsHeld, InFlight
<1>4. \A k \in Orders : \A n \in Nat : Occupied(k, n)' <=> Occupied(k, n)
  BY <1>3 DEF Occupied
<1>5. OnePlace'
  BY <1>3 DEF OnePlace
<1>6. UNCHANGED <<free_list, map, boot_idx>>
  BY DEF AllocReturn
<1> QED
  BY <1>2, <1>4, <1>5, <1>6, BlocksStay

(* free_pages ends: the block goes on the list of its order.               *)
LEMMA FreeInsertInv == IInv /\ FreeInsert => IInv'
<1> SUFFICES ASSUME IInv, FreeInsert PROVE IInv'
  OBVIOUS
<1> USE DEF IInv
<1>1. order \in Orders /\ blk \in Nat /\ order \in Nat
  BY OrderFacts DEF TypeOK, FreeInsert, Orders
<1>2. InFlight(order, blk) /\ ~IsFree(order, blk) /\ ~IsHeld(order, blk)
  BY <1>1 DEF FreeInsert, InFlight, OnePlace
<1>3. /\ Cons(blk, free_list[order]) \in Seq(Nat)
      /\ IsInjective(Cons(blk, free_list[order]))
      /\ Range(Cons(blk, free_list[order])) = Range(free_list[order]) \cup {blk}
  BY <1>1, <1>2, ConsElements DEF TypeOK, NoRepeat, IsFree
<1>4. free_list' = [free_list EXCEPT ![order] = Cons(blk, free_list[order])]
  BY DEF FreeInsert, InsertAfter
<1>5. \A k \in Orders : \A n \in Nat :
        /\ IsFree(k, n)' <=> IsFree(k, n) \/ (k = order /\ n = blk)
        /\ IsHeld(k, n)' <=> IsHeld(k, n)
        /\ InFlight(k, n) <=> k = order /\ n = blk
        /\ ~InFlight(k, n)'
  BY <1>1, <1>3, <1>4 DEF FreeInsert, IsFree, IsHeld, InFlight, TypeOK
<1>6. \A k \in Orders : \A n \in Nat : Occupied(k, n)' <=> Occupied(k, n)
  BY <1>5 DEF Occupied
<1>7. /\ map' \in [Orders -> SUBSET Nat]
      /\ \A k \in Orders : \A b \in Nat : k < MAX_ORDER - 1 =>
            (b \in map'[k] <=> b \in map[k] \/ (k = order /\ b = ParentOf(blk)))
      /\ order < MAX_ORDER - 1 => ParentOf(blk) \notin map[order]
  <2>1. map \in [Orders -> SUBSET Nat] /\ ParentOf(blk) \in Nat
    BY <1>1, Halves DEF TypeOK
  <2>2. CASE order < MAX_ORDER - 1
    <3>1. /\ map' = change_bit(order, ParentOf(blk))
          /\ ParentOf(blk) \notin map[order]
      BY <1>1, <2>2, OrderFacts DEF FreeInsert, change_and_test_bit
    <3>2. /\ change_bit(order, ParentOf(blk)) \in [Orders -> SUBSET Nat]
          /\ \A j \in Orders, c \in Nat :
                c \in change_bit(order, ParentOf(blk))[j] <=>
                   IF j = order /\ c = ParentOf(blk)
                   THEN c \notin map[j] ELSE c \in map[j]
      BY <1>1, <2>1, ChangeBit
    <3> QED
      BY <3>1, <3>2
  <2>3. CASE ~(order < MAX_ORDER - 1)
    BY <1>1, <2>1, <2>3, OrderFacts DEF FreeInsert
  <2> QED
    BY <2>2, <2>3
<1>8. TypeOK'
  <2>1. free_list' \in [Orders -> Seq(Nat)]
    BY <1>1, <1>3, <1>4 DEF TypeOK
  <2>2. 0 \in 0 .. MAX_ORDER /\ 0 # MAX_ORDER /\ 0 \in 0 .. 0
    BY OrderFacts
  <2> QED
    BY <1>7, <2>1, <2>2 DEF TypeOK, FreeInsert
<1>9. OneOrder'
  BY <1>6, OrderFacts DEF OneOrder
<1>10. OnePlace'
  BY <1>2, <1>5 DEF OnePlace
<1>11. NoRepeat'
  BY <1>1, <1>3, <1>4 DEF NoRepeat, TypeOK
<1>12. Covered'
  <2>1. \A p \in Nat : Managed(p)' <=> Managed(p)
    BY DEF Managed, FreeInsert
  <2> QED
    BY <1>6, <2>1, OrderFacts DEF Covered
<1>13. BitsExact'
  <2> SUFFICES ASSUME NEW k \in Orders, k < MAX_ORDER - 1, NEW n \in Nat
               PROVE  /\ ~(IsFree(k, n)' /\ IsFree(k, BuddyOf(n))')
                      /\ ParentOf(n) \in map'[k] <=>
                            IsFree(k, n)' \/ IsFree(k, BuddyOf(n))'
    BY DEF BitsExact
  <2>1. /\ BuddyOf(n) \in Nat /\ BuddyOf(n) # n
        /\ ParentOf(n) \in Nat
        /\ ParentOf(n) = ParentOf(blk) <=> n = blk \/ BuddyOf(n) = blk
    BY <1>1, Halves
  <2>2. /\ ~(IsFree(k, n) /\ IsFree(k, BuddyOf(n)))
        /\ ParentOf(n) \in map[k] <=> IsFree(k, n) \/ IsFree(k, BuddyOf(n))
    BY DEF BitsExact
  <2> QED
    BY <1>5, <1>7, <2>1, <2>2
<1> QED
  BY <1>8, <1>9, <1>10, <1>11, <1>12, <1>13

(* free_pages goes one order up: the bit says that the buddy is free, so    *)
(* the two halves leave their places and their parent is in flight.         *)
LEMMA FreeMergeInv == IInv /\ FreeMerge => IInv'
<1> SUFFICES ASSUME IInv, FreeMerge PROVE IInv'
  OBVIOUS
<1> USE DEF IInv
<1> DEFINE up == order + 1
           bud == BuddyOf(blk)
           par == ParentOf(blk)
<1>1. /\ order \in Orders /\ up \in Orders /\ up # order /\ order < MAX_ORDER - 1
      /\ order \in Nat
  BY OrderFacts DEF TypeOK, FreeMerge, Orders
<1>2. /\ blk \in Nat /\ bud \in Nat /\ par \in Nat /\ bud # blk
      /\ \A m \in Nat : ParentOf(m) = par <=> m = blk \/ m = bud
  BY Halves DEF TypeOK
<1>3. InFlight(order, blk) /\ ~IsFree(order, blk) /\ ~IsHeld(order, blk)
  BY <1>1, <1>2 DEF FreeMerge, InFlight, OnePlace
<1>4. IsFree(order, bud) /\ ~IsHeld(order, bud)
  <2>1. par \in map[order]
    BY DEF FreeMerge, change_and_test_bit
  <2> QED
    BY <1>1, <1>2, <1>3, <2>1 DEF BitsExact, OnePlace
<1>5. /\ RemoveFirst(free_list[order], bud) \in Seq(Nat)
      /\ IsInjective(RemoveFirst(free_list[order], bud))
      /\ Range(RemoveFirst(free_list[order], bud)) = Range(free_list[order]) \ {bud}
  BY <1>1, <1>4, RemoveElements DEF TypeOK, NoRepeat, IsFree
<1>6. free_list' = [free_list EXCEPT ![order] = RemoveFirst(free_list[order], bud)]
  BY DEF FreeMerge, ListRemove
<1>7. \A k \in Orders : \A n \in Nat :
        /\ IsFree(k, n)' <=> IsFree(k, n) /\ ~(k = order /\ n = bud)
        /\ IsHeld(k, n)' <=> IsHeld(k, n)
        /\ InFlight(k, n) <=> k = order /\ n = blk
        /\ InFlight(k, n)' <=> k = up /\ n = par
  BY <1>1, <1>5, <1>6 DEF FreeMerge, IsFree, IsHeld, InFlight, TypeOK
<1>8. \A k \in Orders : \A n \in Nat :
        Occupied(k, n)' <=>
            \/ k = up /\ n = par
            \/ Occupied(k, n) /\ ~(k = order /\ (n = blk \/ n = bud))
  BY <1>3, <1>4, <1>7 DEF Occupied
<1>9. Occupied(order, blk) /\ Occupied(order, bud)
  BY <1>3, <1>4 DEF Occupied
<1>10. \A p \in Nat : Shr(p, up) = par <=> Shr(p, order) = blk \/ Shr(p, order) = bud
  BY <1>1, <1>2, OrderFacts
<1>11. \A k \in Orders : \A p \in Nat :
         Shr(p, up) = par /\ Occupied(k, Shr(p, k)) => k = order
  BY <1>1, <1>9, <1>10 DEF OneOrder
<1>12. /\ map' \in [Orders -> SUBSET Nat]
       /\ \A k \in Orders : \A b \in Nat :
             b \in map'[k] <=> b \in map[k] /\ ~(k = order /\ b = par)
  <2>1. map' = change_bit(order, par) /\ par \in map[order]
    BY DEF FreeMerge, change_and_test_bit
  <2>2. /\ change_bit(order, par) \in [Orders -> SUBSET Nat]
        /\ \A j \in Orders, c \in Nat :
              c \in change_bit(order, par)[j] <=>
                 IF j = order /\ c = par THEN c \notin map[j] ELSE c \in map[j]
    BY <1>1, <1>2, ChangeBit DEF TypeOK
  <2> QED
    BY <2>1, <2>2
<1> HIDE DEF up, bud, par
<1>13. TypeOK'
  <2>1. free_list' \in [Orders -> Seq(Nat)]
    BY <1>1, <1>5, <1>6 DEF TypeOK
  <2>2. order' \in 0 .. MAX_ORDER /\ order' # MAX_ORDER
    BY <1>1, OrderFacts DEF FreeMerge
  <2>3. want' = 0 /\ 0 \in 0 .. order' /\ blk' \in Nat
    BY <1>1, <1>2 DEF FreeMerge, TypeOK, par
  <2> QED
    BY <1>12, <2>1, <2>2, <2>3 DEF TypeOK, FreeMerge
<1>14. OneOrder'
  <2> SUFFICES ASSUME NEW p \in Nat, NEW j \in Orders, NEW k \in Orders,
                      Occupied(j, Shr(p, j))', Occupied(k, Shr(p, k))'
               PROVE  j = k
    BY DEF OneOrder
  <2>1. Shr(p, j) \in Nat /\ Shr(p, k) \in Nat
    BY OrderFacts
  <2>2. CASE Shr(p, up) = par
    BY <1>8, <1>10, <1>11, <2>1, <2>2
  <2>3. CASE Shr(p, up) # par
    BY <1>8, <2>1, <2>3 DEF OneOrder
  <2> QED
    BY <2>2, <2>3
<1>15. OnePlace'
  <2>1. PICK p \in Nat : Shr(p, order) = blk
    BY <1>1, <1>2, OrderFacts
  <2>2. ~Occupied(up, par)
    BY <1>1, <1>10, <1>11, <2>1
  <2> QED
    BY <1>7, <2>2 DEF OnePlace, Occupied
<1>16. NoRepeat'
  BY <1>1, <1>5, <1>6 DEF NoRepeat, TypeOK
<1>17. Covered'
  <2> SUFFICES ASSUME NEW p \in Nat
               PROVE  (\E k \in Orders : Occupied(k, Shr(p, k))')
                        <=> (\E k \in Orders : Occupied(k, Shr(p, k)))
    BY DEF Covered, Managed, FreeMerge
  <2>1. \A k \in Orders : Shr(p, k) \in Nat
    BY OrderFacts
  <2>2. CASE Shr(p, up) = par
    BY <1>1, <1>8, <1>9, <1>10, <2>1, <2>2
  <2>3. CASE Shr(p, up) # par
    BY <1>8, <1>10, <2>1, <2>3
  <2> QED
    BY <2>2, <2>3
<1>18. BitsExact'
  <2> SUFFICES ASSUME NEW k \in Orders, k < MAX_ORDER - 1, NEW n \in Nat
               PROVE  /\ ~(IsFree(k, n)' /\ IsFree(k, BuddyOf(n))')
                      /\ ParentOf(n) \in map'[k] <=>
                            IsFree(k, n)' \/ IsFree(k, BuddyOf(n))'
    BY DEF BitsExact
  <2>1. /\ BuddyOf(n) \in Nat /\ BuddyOf(n) # n
        /\ ParentOf(n) \in Nat
        /\ ParentOf(n) = par <=> n = blk \/ n = bud
        /\ n = bud <=> BuddyOf(n) = blk
        /\ n = blk <=> BuddyOf(n) = bud
    BY <1>2, Halves DEF bud, par
  <2>2. /\ ~(IsFree(k, n) /\ IsFree(k, BuddyOf(n)))
        /\ ParentOf(n) \in map[k] <=> IsFree(k, n) \/ IsFree(k, BuddyOf(n))
    BY DEF BitsExact
  <2> QED
    BY <1>3, <1>7, <1>12, <2>1, <2>2
<1> QED
  BY <1>13, <1>14, <1>15, <1>16, <1>17, <1>18

(* The head of the first list that is not empty goes in flight.            *)
LEMMA AllocTakeInv == IInv /\ AllocTake => IInv'
<1> SUFFICES ASSUME IInv, AllocTake PROVE IInv'
  OBVIOUS
<1> USE DEF IInv
<1> DEFINE h == Head(free_list[order])
<1>1. order \in Orders /\ order \in Nat /\ free_list[order] # <<>>
  BY OrderFacts DEF TypeOK, AllocTake, Orders
<1>2. free_list[order] \in Seq(Nat) /\ IsInjective(free_list[order])
  BY <1>1 DEF TypeOK, NoRepeat
<1>3. /\ h \in Nat /\ h \in Range(free_list[order])
      /\ Tail(free_list[order]) \in Seq(Nat)
      /\ IsInjective(Tail(free_list[order]))
      /\ Range(Tail(free_list[order])) = Range(free_list[order]) \ {h}
  BY <1>1, <1>2, TailElements
<1>4. /\ free_list' = [free_list EXCEPT ![order] = Tail(free_list[order])]
      /\ blk' = h
  BY DEF AllocTake
<1>5. IsFree(order, h) /\ ~IsHeld(order, h)
  BY <1>1, <1>3 DEF IsFree, OnePlace
<1>6. \A k \in Orders : \A n \in Nat :
        /\ IsFree(k, n)' <=> IsFree(k, n) /\ ~(k = order /\ n = h)
        /\ IsHeld(k, n)' <=> IsHeld(k, n)
        /\ ~InFlight(k, n)
        /\ InFlight(k, n)' <=> k = order /\ n = h
  BY <1>1, <1>3, <1>4 DEF AllocTake, IsFree, IsHeld, InFlight, TypeOK
<1>7. /\ map' \in [Orders -> SUBSET Nat]
      /\ \A k \in Orders : \A b \in Nat : k < MAX_ORDER - 1 =>
            (b \in map'[k] <=>
               IF k = order /\ b = ParentOf(h) THEN b \notin map[k] ELSE b \in map[k])
  <2>1. map \in [Orders -> SUBSET Nat] /\ ParentOf(h) \in Nat
    BY <1>3, Halves DEF TypeOK
  <2>2. CASE order # MAX_ORDER - 1
    <3>1. map' = change_bit(order, ParentOf(h))
      BY <2>2 DEF AllocTake
    <3>2. /\ change_bit(order, ParentOf(h)) \in [Orders -> SUBSET Nat]
          /\ \A j \in Orders, c \in Nat :
                c \in change_bit(order, ParentOf(h))[j] <=>
                   IF j = order /\ c = ParentOf(h) THEN c \notin map[j] ELSE c \in map[j]
      BY <1>1, <2>1, ChangeBit
    <3> QED
      BY <3>1, <3>2
  <2>3. CASE order = MAX_ORDER - 1
    <3>1. map' = map
      BY <2>3 DEF AllocTake
    <3>2. \A k \in Orders : k < MAX_ORDER - 1 => k # order
      BY <1>1, <2>3
    <3> QED
      BY <2>1, <3>1, <3>2
  <2> QED
    BY <2>2, <2>3
<1> HIDE DEF h
<1>8. \A k \in Orders : \A n \in Nat : Occupied(k, n)' <=> Occupied(k, n)
  BY <1>5, <1>6 DEF Occupied
<1>9. TypeOK'
  <2>1. free_list' \in [Orders -> Seq(Nat)]
    BY <1>1, <1>3, <1>4 DEF TypeOK
  <2>2. free_page_count' \in Int
    <3>1. want \in Orders
      BY <1>1, OrderFacts DEF TypeOK, Orders
    <3> QED
      BY <3>1, OrderFacts DEF TypeOK, AllocTake
  <2> QED
    BY <1>1, <1>3, <1>4, <1>7, <2>1, <2>2, OrderFacts DEF TypeOK, AllocTake, Orders
<1>10. OneOrder'
  BY <1>8, OrderFacts DEF OneOrder
<1>11. OnePlace'
  BY <1>5, <1>6 DEF OnePlace
<1>12. NoRepeat'
  BY <1>1, <1>3, <1>4 DEF NoRepeat, TypeOK
<1>13. Covered'
  <2>1. \A p \in Nat : Managed(p)' <=> Managed(p)
    BY DEF Managed, AllocTake
  <2> QED
    BY <1>8, <2>1, OrderFacts DEF Covered
<1>14. BitsExact'
  <2> SUFFICES ASSUME NEW k \in Orders, k < MAX_ORDER - 1, NEW n \in Nat
               PROVE  /\ ~(IsFree(k, n)' /\ IsFree(k, BuddyOf(n))')
                      /\ ParentOf(n) \in map'[k] <=>
                            IsFree(k, n)' \/ IsFree(k, BuddyOf(n))'
    BY DEF BitsExact
  <2>1. /\ BuddyOf(n) \in Nat /\ BuddyOf(n) # n
        /\ ParentOf(n) \in Nat
        /\ ParentOf(n) = ParentOf(h) <=> n = h \/ BuddyOf(n) = h
    BY <1>3, Halves
  <2>2. /\ ~(IsFree(k, n) /\ IsFree(k, BuddyOf(n)))
        /\ ParentOf(n) \in map[k] <=> IsFree(k, n) \/ IsFree(k, BuddyOf(n))
    BY DEF BitsExact
  <2> QED
    BY <1>5, <1>6, <1>7, <2>1, <2>2
<1> QED
  BY <1>9, <1>10, <1>11, <1>12, <1>13, <1>14

(* One turn of expand: the block in flight is split, the lower half is on   *)
(* its list and the upper half is in flight.                                *)
LEMMA ExpandInv == IInv /\ Expand => IInv'
<1> SUFFICES ASSUME IInv, Expand PROVE IInv'
  OBVIOUS
<1> USE DEF IInv
<1> DEFINE down == order - 1
           lo == 2 * blk
           hi == 2 * blk + 1
<1>1. /\ order \in Orders /\ down \in Orders /\ down # order /\ down < MAX_ORDER - 1
      /\ order \in Nat /\ down + 1 = order
  BY OrderFacts DEF TypeOK, Expand, Orders
<1>2. /\ blk \in Nat /\ lo \in Nat /\ hi \in Nat /\ lo # hi
      /\ ParentOf(lo) = blk /\ BuddyOf(lo) = hi /\ BuddyOf(hi) = lo
      /\ \A m \in Nat : ParentOf(m) = blk <=> m = lo \/ m = hi
  <2>1. blk \in Nat /\ lo \in Nat /\ hi \in Nat /\ lo # hi
    BY DEF TypeOK
  <2>2. ParentOf(lo) = blk /\ BuddyOf(lo) = hi /\ BuddyOf(hi) = lo
    BY <2>1, Halves
  <2>3. \A m \in Nat : ParentOf(m) = ParentOf(lo) <=> m = lo \/ m = BuddyOf(lo)
    BY <2>1, Halves
  <2> QED
    BY <2>1, <2>2, <2>3
<1>3. Occupied(order, blk)
  BY DEF Expand, Occupied, InFlight
<1> HIDE DEF down, lo, hi
<1>4. \A p \in Nat : Shr(p, order) = blk <=> Shr(p, down) = lo \/ Shr(p, down) = hi
  <2> SUFFICES ASSUME NEW p \in Nat
               PROVE  Shr(p, order) = blk <=> Shr(p, down) = lo \/ Shr(p, down) = hi
    OBVIOUS
  <2>1. Shr(p, down) \in Nat /\ Shr(p, down + 1) = ParentOf(Shr(p, down))
    BY <1>1, OrderFacts
  <2> QED
    BY <1>1, <1>2, <2>1
<1>5. \A k \in Orders : \A p \in Nat :
         Shr(p, order) = blk /\ Occupied(k, Shr(p, k)) => k = order
  BY <1>1, <1>3 DEF OneOrder
<1>6. ~Occupied(down, lo) /\ ~Occupied(down, hi)
  <2>1. PICK p \in Nat : Shr(p, down) = lo
    BY <1>1, <1>2, OrderFacts
  <2>2. PICK q \in Nat : Shr(q, down) = hi
    BY <1>1, <1>2, OrderFacts
  <2> QED
    BY <1>1, <1>4, <1>5, <2>1, <2>2
<1>7. /\ Cons(lo, free_list[down]) \in Seq(Nat)
      /\ IsInjective(Cons(lo, free_list[down]))
      /\ Range(Cons(lo, free_list[down])) = Range(free_list[down]) \cup {lo}
  BY <1>1, <1>2, <1>6, ConsElements DEF TypeOK, NoRepeat, IsFree, Occupied
<1>8. free_list' = [free_list EXCEPT ![down] = Cons(lo, free_list[down])]
  BY DEF Expand, InsertAfter, down, lo
<1>9. \A k \in Orders : \A n \in Nat :
        /\ IsFree(k, n)' <=> IsFree(k, n) \/ (k = down /\ n = lo)
        /\ IsHeld(k, n)' <=> IsHeld(k, n)
        /\ InFlight(k, n) <=> k = order /\ n = blk
        /\ InFlight(k, n)' <=> k = down /\ n = hi
  <2>1. order' = down /\ blk' = hi /\ pc = "expand" /\ pc' = "expand" /\ held' = held
    BY DEF Expand, down, hi
  <2> QED
    BY <1>1, <1>2, <1>7, <1>8, <2>1 DEF IsFree, IsHeld, InFlight, TypeOK
<1>10. ~IsFree(order, blk) /\ ~IsHeld(order, blk)
  BY <1>1, <1>2, <1>9 DEF OnePlace
<1>11. \A k \in Orders : \A n \in Nat :
        Occupied(k, n)' <=>
            \/ k = down /\ (n = lo \/ n = hi)
            \/ Occupied(k, n) /\ ~(k = order /\ n = blk)
  BY <1>9, <1>10 DEF Occupied
<1>12. /\ map' \in [Orders -> SUBSET Nat]
       /\ \A k \in Orders : \A b \in Nat :
             b \in map'[k] <=>
                IF k = down /\ b = blk THEN b \notin map[k] ELSE b \in map[k]
  <2>1. map' = change_bit(down, blk)
    BY DEF Expand, down
  <2>2. /\ change_bit(down, blk) \in [Orders -> SUBSET Nat]
        /\ \A j \in Orders, c \in Nat :
              c \in change_bit(down, blk)[j] <=>
                 IF j = down /\ c = blk THEN c \notin map[j] ELSE c \in map[j]
    BY <1>1, <1>2, ChangeBit DEF TypeOK
  <2> QED
    BY <2>1, <2>2
<1>13. TypeOK'
  <2>1. free_list' \in [Orders -> Seq(Nat)]
    BY <1>1, <1>7, <1>8 DEF TypeOK
  <2>2. /\ order' \in 0 .. MAX_ORDER /\ order' # MAX_ORDER
        /\ want' \in 0 .. order' /\ blk' \in Nat
    BY <1>2, OrderFacts DEF TypeOK, Expand, hi, down
  <2> QED
    BY <1>12, <2>1, <2>2 DEF TypeOK, Expand
<1>14. OneOrder'
  <2> SUFFICES ASSUME NEW p \in Nat, NEW j \in Orders, NEW k \in Orders,
                      Occupied(j, Shr(p, j))', Occupied(k, Shr(p, k))'
               PROVE  j = k
    BY DEF OneOrder
  <2>1. Shr(p, j) \in Nat /\ Shr(p, k) \in Nat
    BY OrderFacts
  <2>2. CASE Shr(p, order) = blk
    BY <1>5, <1>11, <2>1, <2>2
  <2>3. CASE Shr(p, order) # blk
    BY <1>4, <1>11, <2>1, <2>3 DEF OneOrder
  <2> QED
    BY <2>2, <2>3
<1>15. OnePlace'
  BY <1>2, <1>6, <1>9 DEF OnePlace, Occupied
<1>16. NoRepeat'
  BY <1>1, <1>7, <1>8 DEF NoRepeat, TypeOK
<1>17. Covered'
  <2> SUFFICES ASSUME NEW p \in Nat
               PROVE  (\E k \in Orders : Occupied(k, Shr(p, k))')
                        <=> (\E k \in Orders : Occupied(k, Shr(p, k)))
    BY DEF Covered, Managed, Expand
  <2>1. \A k \in Orders : Shr(p, k) \in Nat
    BY OrderFacts
  <2>2. CASE Shr(p, order) = blk
    BY <1>1, <1>3, <1>4, <1>11, <2>1, <2>2
  <2>3. CASE Shr(p, order) # blk
    BY <1>4, <1>11, <2>1, <2>3
  <2> QED
    BY <2>2, <2>3
<1>18. BitsExact'
  <2> SUFFICES ASSUME NEW k \in Orders, k < MAX_ORDER - 1, NEW n \in Nat
               PROVE  /\ ~(IsFree(k, n)' /\ IsFree(k, BuddyOf(n))')
                      /\ ParentOf(n) \in map'[k] <=>
                            IsFree(k, n)' \/ IsFree(k, BuddyOf(n))'
    BY DEF BitsExact
  <2>1. /\ BuddyOf(n) \in Nat /\ BuddyOf(n) # n
        /\ ParentOf(n) \in Nat
        /\ ParentOf(n) = blk <=> n = lo \/ n = hi
        /\ n = lo <=> BuddyOf(n) = hi
        /\ n = hi <=> BuddyOf(n) = lo
    BY <1>2, Halves
  <2>2. /\ ~(IsFree(k, n) /\ IsFree(k, BuddyOf(n)))
        /\ ParentOf(n) \in map[k] <=> IsFree(k, n) \/ IsFree(k, BuddyOf(n))
    BY DEF BitsExact
  <2> QED
    BY <1>2, <1>6, <1>9, <1>12, <2>1, <2>2 DEF Occupied
<1> QED
  BY <1>13, <1>14, <1>15, <1>16, <1>17, <1>18

(* Steps that change nothing, the loop of BUG() among them.                *)
LEMMA StutterInv == IInv /\ UNCHANGED vars => IInv'
<1> SUFFICES ASSUME IInv, UNCHANGED vars PROVE IInv'
  OBVIOUS
<1> USE DEF IInv, vars
<1>1. TypeOK'
  BY DEF TypeOK
<1>2. \A k \in Orders : \A n \in Nat :
        /\ IsFree(k, n)' <=> IsFree(k, n)
        /\ IsHeld(k, n)' <=> IsHeld(k, n)
        /\ InFlight(k, n)' <=> InFlight(k, n)
  BY DEF IsFree, IsHeld, InFlight
<1>3. OnePlace' /\ \A k \in Orders : \A n \in Nat : Occupied(k, n)' <=> Occupied(k, n)
  BY <1>2 DEF OnePlace, Occupied
<1> QED
  BY <1>1, <1>3, BlocksStay

(* IInv holds in every state of the allocator.                             *)
THEOREM Invariance == Spec => []IInv
<1>1. Init => IInv
  BY InitInv
<1>2. IInv /\ [Next]_vars => IInv'
  <2> SUFFICES ASSUME IInv, [Next]_vars PROVE IInv'
    OBVIOUS
  <2>1. CASE BootFree
    BY <2>1, BootFreeInv
  <2>2. CASE FreeCall
    BY <2>2, FreeCallInv
  <2>3. CASE AllocCall
    BY <2>3, AllocCallInv
  <2>4. CASE FreeMerge
    BY <2>4, FreeMergeInv
  <2>5. CASE FreeInsert
    BY <2>5, FreeInsertInv
  <2>6. CASE AllocScan
    BY <2>6, AllocScanInv
  <2>7. CASE AllocTake
    BY <2>7, AllocTakeInv
  <2>8. CASE Expand
    BY <2>8, ExpandInv
  <2>9. CASE AllocReturn
    BY <2>9, AllocReturnInv
  <2>10. CASE UNCHANGED vars
    BY <2>10, StutterInv
  <2> QED
    BY <2>1, <2>2, <2>3, <2>4, <2>5, <2>6, <2>7, <2>8, <2>9, <2>10
       DEF Next, Step, BugLoop
<1> QED
  BY <1>1, <1>2, PTL DEF Spec

(***************************************************************************)
(* What the clients of the allocator and the reader of mm.c rely on.       *)
(***************************************************************************)

(* Every access to free_area[] and every local of the calls stays in its   *)
(* domain, whatever sequence of calls the kernel makes.                    *)
THEOREM TypeCorrect == Spec => []TypeOK
<1>1. IInv => TypeOK
  BY DEF IInv
<1> QED
  BY <1>1, Invariance, PTL

(* alloc_pages never hands out a page that is free, held or in the hands    *)
(* of a call: no two owners of a page, for every memory size.              *)
THEOREM Exclusion == Spec => []NoOverlap
<1>1. IInv => NoOverlap
  <2>1. Pages \subseteq Nat
    BY BuddyAssumption DEF BuddyAssumption, Pages
  <2> QED
    BY <2>1 DEF IInv, OneOrder, OnePlace, NoRepeat, NoOverlap
<1> QED
  BY <1>1, Invariance, PTL

(* The pages of a block are those whose index shifts to its number.        *)
LEMMA PagesShift ==
    ASSUME NEW k \in 0 .. 10, NEW n \in Nat, NEW p \in PagesOf(k, n)
    PROVE  p \in Nat /\ Shr(p, k) = n
<1>1. \/ k = 0 \/ k = 1 \/ k = 2 \/ k = 3 \/ k = 4 \/ k = 5 \/ k = 6
      \/ k = 7 \/ k = 8 \/ k = 9 \/ k = 10
  OBVIOUS
<1> QED
  BY <1>1 DEF PagesOf, Shr, Pow2

(* Splitting, merging, allocating and freeing neither lose a page of the   *)
(* memory behind the kernel nor invent one.                                *)
THEOREM Conservation == Spec => []NoPageLost
<1>1. IInv => NoPageLost
  <2> SUFFICES ASSUME IInv PROVE NoPageLost
    OBVIOUS
  <2>1. \A p \in Pages : (\E k \in Orders : Occupied(k, Shr(p, k))) <=> Managed(p)
    BY BuddyAssumption DEF BuddyAssumption, Pages, IInv, Covered
  <2>2. ASSUME NEW k \in Orders, NEW n \in Range(free_list[k]) \cup {b[2] : b \in held},
               Occupied(k, n), NEW p \in PagesOf(k, n)
        PROVE  Managed(p)
    <3>1. n \in Nat
      <4>1. free_list[k] \in Seq(Nat)
        BY DEF IInv, TypeOK
      <4>2. Range(free_list[k]) \subseteq Nat
        BY <4>1, RangeOfSeq
      <4>3. {b[2] : b \in held} \subseteq Nat
        BY DEF IInv, TypeOK
      <4> QED
        BY <4>2, <4>3
    <3>2. p \in Nat /\ Shr(p, k) = n
      BY <3>1, OrderFacts, PagesShift
    <3> QED
      BY <2>2, <3>2 DEF IInv, Covered
  <2> QED
    BY <2>1, <2>2 DEF NoPageLost
<1> QED
  BY <1>1, Invariance, PTL

(* The bitmaps of free_area[] say exactly which pairs have one free half,   *)
(* and no pair has two: the merging in free_pages is complete.             *)
THEOREM BitmapAgrees == Spec => []BitmapExact
<1>1. IInv => BitmapExact
  <2> SUFFICES ASSUME IInv, NEW k \in Orders, k < MAX_ORDER - 1, NEW b \in Pages
               PROVE  /\ ~(IsFree(k, 2 * b) /\ IsFree(k, 2 * b + 1))
                      /\ b \in map[k] <=> IsFree(k, 2 * b) \/ IsFree(k, 2 * b + 1)
    BY DEF BitmapExact
  <2>1. b \in Nat /\ 2 * b \in Nat
    BY BuddyAssumption DEF BuddyAssumption, Pages
  <2>2. ParentOf(2 * b) = b /\ BuddyOf(2 * b) = 2 * b + 1
    BY <2>1, Halves
  <2> QED
    BY <2>1, <2>2 DEF IInv, BitsExact
<1> QED
  BY <1>1, Invariance, PTL

(* LONG_ALIGN rounds up.                                                   *)
LEMMA LongAlignUp ==
    ASSUME NEW x \in Nat
    PROVE  LONG_ALIGN(x) >= x
  BY DEF LONG_ALIGN

(* A block inside the memory has its bit inside the bytes of its map.      *)
LEMMA BitIndexBound ==
    ASSUME NEW k \in 0 .. 10, NEW p \in Nat, NEW c \in Nat, p <= c
    PROVE  ParentOf(Shr(p, k)) \div 8 <= (c \div Pow2(k)) \div 16
<1>1. \/ k = 0 \/ k = 1 \/ k = 2 \/ k = 3 \/ k = 4 \/ k = 5 \/ k = 6
      \/ k = 7 \/ k = 8 \/ k = 9 \/ k = 10
  OBVIOUS
<1>2. Shr(p, k) \in Nat /\ Shr(c, k) \in Nat /\ Shr(p, k) <= Shr(c, k)
  BY <1>1 DEF Shr, Pow2
<1>3. \A x, y \in Nat : x <= y => (x \div 2) \div 8 <= y \div 16
  OBVIOUS
<1> QED
  BY <1>2, <1>3 DEF ParentOf, Shr

(* The top order has no buddies: its map is never touched.                 *)
TopMapClear == \A b \in Nat : b \notin map[MAX_ORDER - 1]

(* The top map stays clear in every call.                                  *)
LEMMA TopMapInvariance == Spec => []TopMapClear
<1>1. Init => TopMapClear
  BY OrderFacts DEF Init, TopMapClear, Orders
<1>2. IInv /\ TopMapClear /\ [Next]_vars => TopMapClear'
  <2> SUFFICES ASSUME IInv, TopMapClear, [Next]_vars PROVE TopMapClear'
    OBVIOUS
  <2>1. MAX_ORDER - 1 \in Orders /\ map \in [Orders -> SUBSET Nat]
    BY OrderFacts DEF Orders, IInv, TypeOK
  <2>2. ASSUME NEW k \in Orders, k # MAX_ORDER - 1, NEW b, map' = change_bit(k, b)
        PROVE  TopMapClear'
    BY <2>1, <2>2 DEF change_bit, TopMapClear
  <2>3. ASSUME UNCHANGED map PROVE TopMapClear'
    BY <2>3 DEF TopMapClear
  <2>4. CASE FreeMerge
    <3>1. order \in Orders /\ order # MAX_ORDER - 1
      BY <2>4, OrderFacts DEF FreeMerge, IInv, TypeOK, Orders
    <3> QED
      BY <2>2, <2>4, <3>1 DEF FreeMerge
  <2>5. CASE FreeInsert
    <3>1. order < MAX_ORDER - 1 => order \in Orders /\ order # MAX_ORDER - 1
      BY OrderFacts DEF IInv, TypeOK, Orders
    <3> QED
      BY <2>2, <2>3, <2>5, <3>1 DEF FreeInsert
  <2>6. CASE AllocTake
    <3>1. order \in Orders
      BY <2>6, OrderFacts DEF AllocTake, IInv, TypeOK, Orders
    <3> QED
      BY <2>2, <2>3, <2>6, <3>1 DEF AllocTake
  <2>7. CASE Expand
    <3>1. order - 1 \in Orders /\ order - 1 # MAX_ORDER - 1
      BY <2>7, OrderFacts DEF Expand, IInv, TypeOK, Orders
    <3> QED
      BY <2>2, <2>7, <3>1 DEF Expand
  <2>8. CASE ~(FreeMerge \/ FreeInsert \/ AllocTake \/ Expand)
    <3>1. UNCHANGED map
      BY <2>8 DEF Next, Step, BootFree, FreeCall, AllocCall, AllocScan, AllocReturn,
                  BugLoop, vars
    <3> QED
      BY <2>3, <3>1
  <2> QED
    BY <2>4, <2>5, <2>6, <2>7, <2>8
<1> QED
  BY <1>1, <1>2, Invariance, PTL DEF Spec

(* The size buddy_system_init computes for each bitmap is enough for every *)
(* bit free_pages and alloc_pages ever set, for every memory size: no map  *)
(* runs into the next one or into mem_map behind the last.                 *)
THEOREM BitmapSizeEnough == Spec => []BitmapInBounds
<1>1. IInv /\ TopMapClear => BitmapInBounds
  <2> SUFFICES ASSUME IInv, TopMapClear, NEW k \in Orders, NEW b \in map[k]
               PROVE  b \div 8 < bitmap_size(k)
    BY DEF BitmapInBounds
  <2>1. b \in Nat /\ 2 * b \in Nat /\ 2 * b + 1 \in Nat
    BY DEF IInv, TypeOK
  <2>2. k \in 0 .. 10 /\ k < MAX_ORDER - 1
    <3>1. k # MAX_ORDER - 1
      BY <2>1 DEF TopMapClear
    <3>2. MAX_ORDER \in 1 .. 11 /\ k \in 0 .. MAX_ORDER - 1
      BY OrderFacts DEF Orders
    <3> QED
      BY <3>1, <3>2
  <2>3. ParentOf(2 * b) = b /\ ParentOf(2 * b + 1) = b /\ BuddyOf(2 * b) = 2 * b + 1
    BY <2>1, Halves
  <2>4. PICK n \in Nat : IsFree(k, n) /\ ParentOf(n) = b
    BY <2>1, <2>2, <2>3 DEF IInv, BitsExact
  <2>5. PICK p \in Nat : Shr(p, k) = n
    BY OrderFacts
  <2>6. Managed(p)
    BY <2>4, <2>5 DEF IInv, Covered, Occupied
  <2>7. PAGE_CNT - 1 \in Nat /\ p <= PAGE_CNT - 1
    BY <2>6, BuddyAssumption DEF BuddyAssumption, Managed, IInv, TypeOK
  <2>8. b \div 8 <= ((PAGE_CNT - 1) \div Pow2(k)) \div 16
    BY <2>2, <2>4, <2>5, <2>7, BitIndexBound
  <2>9. ((PAGE_CNT - 1) \div Pow2(k)) \div 16 \in Nat
    <3>1. (PAGE_CNT - 1) \div Pow2(k) \in Nat
      BY <2>2, <2>7, ShrFacts DEF Shr
    <3> QED
      BY <3>1
  <2>10. LONG_ALIGN(((PAGE_CNT - 1) \div Pow2(k)) \div 16 + 1)
           >= ((PAGE_CNT - 1) \div Pow2(k)) \div 16 + 1
    BY <2>9, LongAlignUp
  <2>11. LONG_ALIGN(((PAGE_CNT - 1) \div Pow2(k)) \div 16 + 1) \in Int /\ b \div 8 \in Int
    BY <2>1, <2>9 DEF LONG_ALIGN
  <2> QED
    BY <2>8, <2>9, <2>10, <2>11 DEF bitmap_size
<1> QED
  BY <1>1, Invariance, TopMapInvariance, PTL

(***************************************************************************)
(* What the loop over the orders in alloc_pages has seen, and the count of *)
(* the free pages.                                                         *)
(***************************************************************************)
Searched == pc = "scan" \/ (pc = "bug" /\ order = MAX_ORDER)

(* A call of alloc_pages is for an order that exists, comes after the boot *)
(* loop, and has passed over empty lists only.                             *)
ScanInv ==
    /\ Searched \/ pc = "expand" => boot_idx = PAGE_CNT /\ want \in Orders
    /\ Searched => \A k \in Orders : want <= k /\ k < order => free_list[k] = <<>>

(* The pages that are counted but on no list, or on a list but no longer   *)
(* counted, while a call is under way.                                     *)
InHand ==
    IF pc = "free" THEN Pow2(order)
    ELSE IF pc = "expand" THEN Pow2(order) - Pow2(want)
    ELSE 0

CountInv == free_page_count = SumFunction(ListedPages) + InHand

(* No call searches before boot, and none forgets a list that is not empty. *)
LEMMA ScanInvariance == Spec => []ScanInv
<1>1. Init => ScanInv
  BY DEF Init, ScanInv, Searched
<1>2. IInv /\ ScanInv /\ [Next]_vars => ScanInv'
  <2> SUFFICES ASSUME IInv, ScanInv, [Next]_vars PROVE ScanInv'
    OBVIOUS
  <2> USE DEF ScanInv, Searched
  <2>1. /\ MAX_ORDER \in 1 .. 11 /\ order \in 0 .. MAX_ORDER
        /\ order = MAX_ORDER => pc = "bug"
    BY OrderFacts DEF IInv, TypeOK
  <2>2. CASE AllocCall
    <3>1. PICK k \in REQUESTS :
            \/ k > MAX_ORDER /\ pc' = "bug" /\ UNCHANGED <<order, want>>
            \/ k = MAX_ORDER /\ pc' = "wild" /\ UNCHANGED <<order, want>>
            \/ k < MAX_ORDER /\ pc' = "scan" /\ order' = k /\ want' = k
      BY <2>2 DEF AllocCall
    <3>2. k \in Nat
      BY BuddyAssumption DEF BuddyAssumption
    <3> QED
      BY <2>1, <2>2, <3>1, <3>2 DEF AllocCall, Orders
  <2>3. CASE AllocScan
    BY <2>1, <2>3 DEF AllocScan, Orders
  <2>4. CASE AllocTake
    BY <2>4 DEF AllocTake
  <2>5. CASE Expand
    BY <2>5 DEF Expand
  <2>6. CASE BootFree \/ FreeCall \/ FreeMerge \/ FreeInsert \/ AllocReturn
    BY <2>6 DEF BootFree, FreeCall, EnterFree, FreeMerge, FreeInsert, AllocReturn
  <2>7. CASE UNCHANGED vars
    BY <2>7 DEF vars
  <2> QED
    BY <2>2, <2>3, <2>4, <2>5, <2>6, <2>7 DEF Next, Step, BugLoop
<1> QED
  BY <1>1, <1>2, Invariance, PTL DEF Spec

(* A list that gains or loses one block changes the sum by that block.     *)
LEMMA SumStep ==
    ASSUME IInv, NEW k \in Orders, NEW l \in Seq(Nat),
           free_list' = [free_list EXCEPT ![k] = l]
    PROVE  /\ SumFunction(ListedPages) \in Int
           /\ Len(l) = Len(free_list[k]) + 1 =>
                SumFunction(ListedPages)' = SumFunction(ListedPages) + Pow2(k)
           /\ Len(l) = Len(free_list[k]) - 1 =>
                SumFunction(ListedPages)' = SumFunction(ListedPages) - Pow2(k)
<1> DEFINE v == ListedPages
           w == ListedPages'
<1>1. /\ free_list \in [Orders -> Seq(Nat)]
      /\ free_list'[k] = l
      /\ \A j \in Orders : j # k => free_list'[j] = free_list[j]
  BY DEF IInv, TypeOK
<1>2. /\ \A s \in Seq(Nat) : Len(s) \in Nat
      /\ \A j \in Orders : Pow2(j) \in Nat
      /\ \A j \in Orders : free_list[j] \in Seq(Nat) /\ free_list'[j] \in Seq(Nat)
      /\ \A x, y \in Nat : x * y \in Int
  <2>1. \A s \in Seq(Nat) : Len(s) \in Nat
    BY LenProperties
  <2>2. \A x, y \in Nat : x * y \in Int
    OBVIOUS
  <2>3. \A j \in Orders : free_list[j] \in Seq(Nat) /\ free_list'[j] \in Seq(Nat)
    BY <1>1
  <2> QED
    BY <2>1, <2>2, <2>3, OrderFacts
<1>3. /\ v = [j \in Orders |-> Pow2(j) * Len(free_list[j])]
      /\ w = [j \in Orders |-> Pow2(j) * Len(free_list'[j])]
  BY DEF ListedPages
<1> HIDE DEF v, w
<1>4. v \in [Orders -> Int] /\ w \in [Orders -> Int]
  BY <1>2, <1>3
<1>5. \A j \in Orders : j # k => w[j] = v[j]
  BY <1>1, <1>3
<1>6. Orders \in SUBSET (0 .. 10)
  BY OrderFacts
<1>7. SumFunction(v) \in Int /\ SumFunction(w) = SumFunction(v) - v[k] + w[k]
  BY <1>4, <1>5, <1>6, SumFacts
<1>8. v[k] = Pow2(k) * Len(free_list[k]) /\ w[k] = Pow2(k) * Len(l)
  BY <1>1, <1>3
<1>9. Pow2(k) \in Nat /\ Len(free_list[k]) \in Nat /\ Len(l) \in Nat
  BY <1>1, <1>2
<1>10. \A p, n \in Int : p * (n + 1) = p * n + p /\ p * (n - 1) = p * n - p
  OBVIOUS
<1>11. /\ Len(l) = Len(free_list[k]) + 1 => w[k] = v[k] + Pow2(k)
       /\ Len(l) = Len(free_list[k]) - 1 => w[k] = v[k] - Pow2(k)
  <2>1. CASE Len(l) = Len(free_list[k]) + 1
    <3>1. Pow2(k) * (Len(free_list[k]) + 1) = Pow2(k) * Len(free_list[k]) + Pow2(k)
      BY <1>9, <1>10
    <3>2. Len(l) # Len(free_list[k]) - 1
      BY <1>9, <2>1
    <3> QED
      BY <1>8, <2>1, <3>1, <3>2
  <2>2. CASE Len(l) = Len(free_list[k]) - 1
    <3>1. Pow2(k) * (Len(free_list[k]) - 1) = Pow2(k) * Len(free_list[k]) - Pow2(k)
      BY <1>9, <1>10
    <3>2. Len(l) # Len(free_list[k]) + 1
      BY <1>9, <2>2
    <3> QED
      BY <1>8, <2>2, <3>1, <3>2
  <2> QED
    BY <2>1, <2>2
<1>12. v[k] \in Int /\ w[k] \in Int
  BY <1>4
<1> QED
  BY <1>7, <1>9, <1>11, <1>12 DEF v, w

(* Every order's blocks are twice as large as those of the order below.    *)
LEMMA Doubling == \A k \in Orders : k + 1 \in Orders => Pow2(k + 1) = 2 * Pow2(k)
<1> SUFFICES ASSUME NEW k \in Orders, k + 1 \in Orders
             PROVE  Pow2(k + 1) = 2 * Pow2(k)
  OBVIOUS
<1>1. \/ k = 0 \/ k = 1 \/ k = 2 \/ k = 3 \/ k = 4 \/ k = 5 \/ k = 6
      \/ k = 7 \/ k = 8 \/ k = 9 \/ k = 10
  BY OrderFacts
<1> QED
  BY <1>1 DEF Pow2

(* The count follows the lists, turn by turn.                              *)
LEMMA CountInvariance == Spec => []CountInv
<1>1. Init => CountInv
  <2> SUFFICES ASSUME Init PROVE CountInv
    OBVIOUS
  <2>1. \A k \in Orders : Pow2(k) \in Nat /\ Len(free_list[k]) = 0
    BY OrderFacts DEF Init
  <2>2. ListedPages \in [Orders -> Int] /\ \A k \in Orders : ListedPages[k] = 0
    BY <2>1 DEF ListedPages
  <2>3. Orders \in SUBSET (0 .. 10)
    BY OrderFacts
  <2>4. SumFunction(ListedPages) = 0
    BY <2>2, <2>3, SumFacts
  <2> QED
    BY <2>4 DEF Init, CountInv, InHand
<1>2. IInv /\ CountInv /\ [Next]_vars => CountInv'
  <2> SUFFICES ASSUME IInv, CountInv, [Next]_vars PROVE CountInv'
    OBVIOUS
  <2>1. /\ MAX_ORDER \in 1 .. 11 /\ order \in 0 .. MAX_ORDER
        /\ free_page_count \in Int
        /\ free_list \in [Orders -> Seq(Nat)]
        /\ blk \in Nat /\ want \in 0 .. order
        /\ order = MAX_ORDER => pc = "bug"
    BY OrderFacts DEF IInv, TypeOK
  <2>2. \A k \in 0 .. MAX_ORDER - 1 : k \in Orders /\ Pow2(k) \in Nat
    BY OrderFacts DEF Orders
  <2>3. SumFunction(ListedPages) \in Int
    <3>1. 0 \in Orders
      BY OrderFacts
    <3>2. \A k \in Orders : Pow2(k) \in Nat /\ Len(free_list[k]) \in Nat
      BY <2>1, OrderFacts, LenProperties
    <3>3. ListedPages \in [Orders -> Int]
      BY <3>2 DEF ListedPages
    <3> QED
      BY <3>3, OrderFacts, SumFacts
  <2>4. UNCHANGED free_list => SumFunction(ListedPages)' = SumFunction(ListedPages)
    BY DEF ListedPages
  <2>5. CASE BootFree \/ FreeCall
    <3>1. PICK k \in Orders, n \in Nat : EnterFree(k, n)
      <4>1. held \subseteq Orders \X Nat /\ boot_idx \in Nat
        BY BuddyAssumption DEF BuddyAssumption, IInv, TypeOK
      <4> QED
        BY <2>5, <4>1, OrderFacts DEF BootFree, FreeCall
    <3>2. Pow2(k) \in Nat
      BY OrderFacts
    <3>3. free_page_count = SumFunction(ListedPages) /\ UNCHANGED free_list
      BY <2>3, <2>5 DEF BootFree, FreeCall, CountInv, InHand
    <3>4. pc' = "free" /\ order' = k /\ free_page_count' = free_page_count + Pow2(k)
      BY <3>1 DEF EnterFree
    <3> QED
      BY <2>3, <2>4, <3>2, <3>3, <3>4 DEF CountInv, InHand
  <2>6. CASE FreeMerge
    <3>1. order \in Orders /\ order + 1 \in Orders
      BY <2>1, <2>6 DEF FreeMerge, Orders
    <3>2. IsFree(order, BuddyOf(blk))
      <4>1. ParentOf(blk) \in map[order] /\ InFlight(order, blk)
        BY <2>6 DEF FreeMerge, change_and_test_bit, InFlight
      <4>2. order < MAX_ORDER - 1
        BY <2>6 DEF FreeMerge
      <4> QED
        BY <2>1, <3>1, <4>1, <4>2 DEF IInv, BitsExact, OnePlace
    <3> DEFINE l == RemoveFirst(free_list[order], BuddyOf(blk))
    <3>3. l \in Seq(Nat) /\ Len(l) = Len(free_list[order]) - 1
      BY <2>1, <3>1, <3>2, RemoveElements DEF IInv, NoRepeat, IsFree
    <3>4. free_list' = [free_list EXCEPT ![order] = l]
      BY <2>6 DEF FreeMerge, ListRemove
    <3> HIDE DEF l
    <3>5. SumFunction(ListedPages)' = SumFunction(ListedPages) - Pow2(order)
      BY <3>1, <3>3, <3>4, SumStep
    <3>6. Pow2(order + 1) = 2 * Pow2(order) /\ Pow2(order) \in Nat
      BY <3>1, Doubling, OrderFacts
    <3>7. /\ pc = "free" /\ pc' = "free" /\ order' = order + 1
          /\ free_page_count' = free_page_count
      BY <2>6 DEF FreeMerge
    <3> QED
      BY <2>3, <3>5, <3>6, <3>7 DEF CountInv, InHand
  <2>7. CASE FreeInsert
    <3>1. order \in Orders
      BY <2>1, <2>7 DEF FreeInsert, Orders
    <3>2. ~IsFree(order, blk)
      BY <2>1, <2>7, <3>1 DEF IInv, OnePlace, InFlight, FreeInsert
    <3>3. /\ Cons(blk, free_list[order]) \in Seq(Nat)
          /\ Len(Cons(blk, free_list[order])) = Len(free_list[order]) + 1
      BY <2>1, <3>1, <3>2, ConsElements DEF IInv, NoRepeat, IsFree
    <3>4. free_list' = [free_list EXCEPT ![order] = Cons(blk, free_list[order])]
      BY <2>7 DEF FreeInsert, InsertAfter
    <3>5. SumFunction(ListedPages)' = SumFunction(ListedPages) + Pow2(order)
      BY <3>1, <3>3, <3>4, SumStep
    <3>6. pc = "free" /\ pc' = "ready" /\ free_page_count' = free_page_count
      BY <2>7 DEF FreeInsert
    <3> QED
      BY <2>2, <2>3, <3>1, <3>5, <3>6 DEF CountInv, InHand, Orders
  <2>8. CASE AllocCall \/ AllocScan
    BY <2>3, <2>4, <2>8 DEF AllocCall, AllocScan, CountInv, InHand
  <2>9. CASE AllocTake
    <3>1. order \in Orders /\ want \in Orders
      BY <2>1, <2>9 DEF AllocTake, Orders
    <3>2. /\ Tail(free_list[order]) \in Seq(Nat)
          /\ Len(Tail(free_list[order])) = Len(free_list[order]) - 1
      BY <2>1, <2>9, <3>1, TailElements DEF AllocTake, IInv, NoRepeat
    <3>3. free_list' = [free_list EXCEPT ![order] = Tail(free_list[order])]
      BY <2>9 DEF AllocTake
    <3>4. SumFunction(ListedPages)' = SumFunction(ListedPages) - Pow2(order)
      BY <3>1, <3>2, <3>3, SumStep
    <3>5. /\ pc = "scan" /\ pc' = "expand" /\ order' = order /\ want' = want
          /\ free_page_count' = free_page_count - Pow2(want)
      BY <2>9 DEF AllocTake
    <3>6. Pow2(order) \in Nat /\ Pow2(want) \in Nat
      BY <3>1, OrderFacts
    <3> QED
      BY <2>3, <3>4, <3>5, <3>6 DEF CountInv, InHand
  <2>10. CASE Expand
    <3>1. order \in Orders /\ order - 1 \in Orders /\ (order - 1) + 1 = order
          /\ want \in Orders
      BY <2>1, <2>10 DEF Expand, Orders
    <3>2. ~IsFree(order - 1, 2 * blk)
      <4>1. PICK p \in Nat : Shr(p, order - 1) = 2 * blk
        <5>1. 2 * blk \in Nat
          BY <2>1
        <5> QED
          BY <3>1, <5>1, OrderFacts
      <4>2. Shr(p, order) = blk
        <5>1. Shr(p, order) = ParentOf(2 * blk)
          BY <3>1, <4>1, OrderFacts
        <5> QED
          BY <2>1, <5>1, Halves
      <4>3. Occupied(order, Shr(p, order))
        BY <2>10, <4>2 DEF Occupied, InFlight, Expand
      <4> QED
        BY <2>1, <3>1, <4>1, <4>3 DEF IInv, OneOrder, Occupied
    <3>3. /\ Cons(2 * blk, free_list[order - 1]) \in Seq(Nat)
          /\ Len(Cons(2 * blk, free_list[order - 1])) = Len(free_list[order - 1]) + 1
      <4>1. 2 * blk \in Nat
        BY <2>1
      <4> QED
        BY <2>1, <3>1, <3>2, <4>1, ConsElements DEF IInv, NoRepeat, IsFree
    <3>4. free_list'
            = [free_list EXCEPT ![order - 1] = Cons(2 * blk, free_list[order - 1])]
      BY <2>10 DEF Expand, InsertAfter
    <3>5. SumFunction(ListedPages)' = SumFunction(ListedPages) + Pow2(order - 1)
      BY <3>1, <3>3, <3>4, SumStep
    <3>6. /\ Pow2(order) = 2 * Pow2(order - 1) /\ Pow2(order - 1) \in Nat
          /\ Pow2(want) \in Nat
      BY <3>1, Doubling, OrderFacts
    <3>7. /\ pc = "expand" /\ pc' = "expand" /\ order' = order - 1 /\ want' = want
          /\ free_page_count' = free_page_count
      BY <2>10 DEF Expand
    <3> QED
      BY <2>3, <3>5, <3>6, <3>7 DEF CountInv, InHand
  <2>11. CASE AllocReturn
    <3>1. /\ pc = "expand" /\ pc' = "ready" /\ order = want
          /\ free_page_count' = free_page_count /\ UNCHANGED free_list
      BY <2>11 DEF AllocReturn
    <3>2. Pow2(order) \in Nat
      BY <2>1, <2>2, <3>1
    <3> QED
      BY <2>3, <2>4, <3>1, <3>2 DEF CountInv, InHand
  <2>12. CASE UNCHANGED vars
    BY <2>4, <2>12 DEF vars, CountInv, InHand
  <2> QED
    BY <2>5, <2>6, <2>7, <2>8, <2>9, <2>10, <2>11, <2>12 DEF Next, Step, BugLoop
<1> QED
  BY <1>1, <1>2, Invariance, PTL DEF Spec

(* Whatever was allocated and freed, and however far blocks were split and *)
(* merged on the way, free_page_count is the number of pages on the lists  *)
(* when a call ends.                                                       *)
THEOREM CountCorrect == Spec => []CountExact
<1>1. IInv /\ CountInv => CountExact
  <2> SUFFICES ASSUME IInv, CountInv, pc = "ready"
               PROVE  free_page_count = SumFunction(ListedPages)
    BY DEF CountExact
  <2>1. \A k \in Orders : Pow2(k) \in Nat /\ Len(free_list[k]) \in Nat
    BY OrderFacts, LenProperties DEF IInv, TypeOK
  <2>2. ListedPages \in [Orders -> Int]
    BY <2>1 DEF ListedPages
  <2>3. SumFunction(ListedPages) \in Int
    BY <2>2, OrderFacts, SumFacts
  <2> QED
    BY <2>3 DEF CountInv, InHand
<1> QED
  BY <1>1, Invariance, CountInvariance, PTL

(***************************************************************************)
(* The search of alloc_pages fails only when it must.                      *)
(***************************************************************************)

(* The pages of a block are exactly those whose index shifts to its number, *)
(* and its first page is one of them.                                      *)
LEMMA BlockPages ==
    ASSUME NEW k \in 0 .. 10, NEW n \in Nat
    PROVE  /\ \A p \in Nat : p \in PagesOf(k, n) <=> Shr(p, k) = n
           /\ PagesOf(k, n) \subseteq Nat
           /\ \E p \in PagesOf(k, n) : n <= p
<1>1. \/ k = 0 \/ k = 1 \/ k = 2 \/ k = 3 \/ k = 4 \/ k = 5 \/ k = 6
      \/ k = 7 \/ k = 8 \/ k = 9 \/ k = 10
  OBVIOUS
<1>2. ASSUME NEW p \in Nat PROVE p \in PagesOf(k, n) <=> Shr(p, k) = n
  <2>1. Pow2(k) \in Nat \ {0}
    BY <1>1 DEF Pow2
  <2>2. \A d \in Nat \ {0} : p \in n * d .. (n + 1) * d - 1 <=> p \div d = n
    OBVIOUS
  <2> QED
    BY <2>1, <2>2 DEF PagesOf, Shr
<1>3. PagesOf(k, n) \subseteq Nat
  BY PagesShift
<1>4. n * Pow2(k) \in PagesOf(k, n) /\ n <= n * Pow2(k)
  BY <1>1 DEF PagesOf, Pow2
<1> QED
  BY <1>2, <1>3, <1>4

(* Two pages in one block are in one block of every larger order.          *)
LEMMA StayTogether ==
    ASSUME NEW p \in Nat, NEW q \in Nat, NEW i \in Orders, NEW j \in Orders,
           i <= j, Shr(p, i) = Shr(q, i)
    PROVE  Shr(p, j) = Shr(q, j)
<1> SUFFICES ASSUME Shr(p, j) # Shr(q, j) PROVE FALSE
  OBVIOUS
<1> DEFINE apart == {k \in Orders : i <= k /\ Shr(p, k) # Shr(q, k)}
<1>1. Orders \subseteq Nat /\ j \in apart
  BY DEF Orders
<1>2. PICK m \in apart : \A k \in apart : m <= k
  <2> HIDE DEF apart
  <2>1. apart \in SUBSET Nat
    BY <1>1 DEF apart
  <2> QED
    BY <1>1, <2>1, NatMin
<1>3. m \in Orders /\ m # i /\ i <= m /\ Shr(p, m) # Shr(q, m)
  OBVIOUS
<1>4. m - 1 \in Orders /\ m - 1 \notin apart /\ i <= m - 1 /\ (m - 1) + 1 = m
  BY <1>2, <1>3, OrderFacts DEF Orders
<1>5. Shr(p, m - 1) = Shr(q, m - 1)
  BY <1>4
<1>6. Shr(p, m) = ParentOf(Shr(p, m - 1)) /\ Shr(q, m) = ParentOf(Shr(q, m - 1))
  BY <1>4, OrderFacts
<1> QED
  BY <1>3, <1>5, <1>6

(* With no block of order j or larger on a list, no block of order j is     *)
(* free in smaller pieces: of the smallest piece in it, the buddy would be  *)
(* free too, and the two would have been merged.                           *)
LEMMA NothingFits ==
    ASSUME IInv, NEW j \in Orders, NEW n \in Nat,
           \A k \in Orders : j <= k => free_list[k] = <<>>
    PROVE  \E p \in PagesOf(j, n) : \A k \in Orders : ~IsFree(k, Shr(p, k))
<1> SUFFICES ASSUME \A p \in PagesOf(j, n) : \E k \in Orders : IsFree(k, Shr(p, k))
             PROVE  FALSE
  OBVIOUS
<1> DEFINE sizes == {k \in Orders : \E p \in PagesOf(j, n) : IsFree(k, Shr(p, k))}
<1>1. Orders \subseteq 0 .. 10 /\ Orders \subseteq Nat
  BY OrderFacts DEF Orders
<1>2. PICK i \in sizes : \A k \in sizes : i <= k
  <2>1. sizes # {}
    BY <1>1, BlockPages
  <2>2. sizes \in SUBSET Nat
    BY <1>1
  <2> HIDE DEF sizes
  <2> QED
    BY <2>1, <2>2, NatMin
<1>3. PICK p \in PagesOf(j, n) : IsFree(i, Shr(p, i))
  OBVIOUS
<1>4. p \in Nat /\ Shr(p, j) = n
  BY <1>1, BlockPages
<1>5. i \in Orders /\ i < j
  <2>1. i \in Orders
    OBVIOUS
  <2>2. free_list[i] # <<>>
    BY <1>3 DEF IsFree, Range
  <2> QED
    BY <1>1, <2>1, <2>2
<1>6. i < MAX_ORDER - 1 /\ i + 1 \in Orders /\ i + 1 <= j
  BY <1>5, OrderFacts DEF Orders
<1>7. Shr(p, i) \in Nat /\ BuddyOf(Shr(p, i)) \in Nat
      /\ ParentOf(BuddyOf(Shr(p, i))) = ParentOf(Shr(p, i))
  <2>1. Shr(p, i) \in Nat
    BY <1>4, <1>5, OrderFacts
  <2> QED
    BY <2>1, Halves
<1>8. PICK q \in Nat : Shr(q, i) = BuddyOf(Shr(p, i))
  BY <1>5, <1>7, OrderFacts
<1>9. Shr(q, i + 1) = Shr(p, i + 1)
  BY <1>4, <1>5, <1>7, <1>8, OrderFacts
<1>10. q \in PagesOf(j, n)
  <2>1. Shr(q, j) = Shr(p, j)
    BY <1>4, <1>6, <1>9, StayTogether
  <2>2. \A r \in Nat : r \in PagesOf(j, n) <=> Shr(r, j) = n
    BY <1>1, BlockPages
  <2> QED
    BY <1>4, <2>1, <2>2
<1>11. PICK k \in Orders : IsFree(k, Shr(q, k))
  BY <1>10
<1>12. k \in sizes
  BY <1>10, <1>11
<1>13. i <= k
  BY <1>2, <1>12
<1>14. CASE k = i
  <2>1. IsFree(i, BuddyOf(Shr(p, i)))
    BY <1>8, <1>11, <1>14
  <2> QED
    BY <1>3, <1>5, <1>6, <1>7, <2>1 DEF IInv, BitsExact
<1>15. CASE i < k
  <2>1. i + 1 <= k
    BY <1>1, <1>5, <1>15
  <2>2. Shr(p, k) = Shr(q, k)
    BY <1>4, <1>6, <1>9, <2>1, StayTogether
  <2>3. Occupied(k, Shr(p, k)) /\ Occupied(i, Shr(p, i))
    BY <1>3, <1>11, <2>2 DEF Occupied
  <2>4. k = i
    BY <1>4, <1>5, <2>3 DEF IInv, OneOrder
  <2> QED
    BY <1>1, <1>5, <1>15, <2>4
<1>16. k = i \/ i < k
  <2>1. k \in Nat /\ i \in Nat
    BY <1>1, <1>5
  <2> QED
    BY <2>1, <1>13
<1> QED
  BY <1>14, <1>15, <1>16

(* "memory alloc failed" is the truth: when the kernel stops in alloc_pages *)
(* no aligned block of the order asked for was free, not even in pieces.   *)
THEOREM StopsOnlyWhenFull == Spec => []BugOnlyWhenFull
<1>1. IInv /\ ScanInv => BugOnlyWhenFull
  <2> SUFFICES ASSUME IInv, ScanInv, pc = "bug", order = MAX_ORDER, NEW n \in Pages
               PROVE  \E p \in PagesOf(want, n) :
                         \A k \in Orders : ~IsFree(k, Shr(p, k))
    BY DEF BugOnlyWhenFull
  <2>1. n \in Nat
    BY BuddyAssumption DEF BuddyAssumption, Pages
  <2>2. want \in Orders /\ \A k \in Orders : want <= k => free_list[k] = <<>>
    BY OrderFacts DEF ScanInv, Searched, Orders
  <2> QED
    BY <2>1, <2>2, NothingFits
<1> QED
  BY <1>1, Invariance, ScanInvariance, PTL

(***************************************************************************)
(* Buddy implements PageAllocator.  The abstract set of free pages changes *)
(* only with the callers' blocks and in the boot loop, so every turn of a  *)
(* loop is a stutter of the abstract allocator.                            *)
(***************************************************************************)

FreeAreManaged ==
    \A p \in Pages :
        p \in FreePages <=> Managed(p) /\ \A k \in Orders : ~IsHeld(k, Shr(p, k))

(* The free pages are the managed pages no caller holds.                   *)
LEMMA FreeOrHeld == IInv => FreeAreManaged
<1> SUFFICES ASSUME IInv, NEW p \in Pages
             PROVE  p \in FreePages <=>
                       Managed(p) /\ \A k \in Orders : ~IsHeld(k, Shr(p, k))
  BY DEF FreeAreManaged
<1>1. p \in Nat
  BY BuddyAssumption DEF BuddyAssumption, Pages
<1>2. \A k \in Orders : Shr(p, k) \in Nat
  BY <1>1, OrderFacts
<1>3. p \in FreePages <=> \E k \in Orders : IsFree(k, Shr(p, k)) \/ InFlight(k, Shr(p, k))
  BY DEF FreePages
<1>4. Managed(p) <=> \E k \in Orders : Occupied(k, Shr(p, k))
  BY <1>1 DEF IInv, Covered
<1>5. ASSUME NEW j \in Orders, IsFree(j, Shr(p, j)) \/ InFlight(j, Shr(p, j)),
             NEW k \in Orders, IsHeld(k, Shr(p, k))
      PROVE  FALSE
  <2>1. j = k
    BY <1>1, <1>5 DEF IInv, OneOrder, Occupied
  <2> QED
    BY <1>2, <1>5, <2>1 DEF IInv, OnePlace
<1> QED
  BY <1>3, <1>4, <1>5 DEF Occupied

(* A block that is on a list, held or in hand lies in the managed memory.  *)
LEMMA BlockManaged ==
    ASSUME IInv, NEW k \in Orders, NEW n \in Nat, Occupied(k, n)
    PROVE  /\ n \in 0 .. PAGE_CNT - 1
           /\ \A p \in PagesOf(k, n) : p \in Pages /\ Shr(p, k) = n /\ Managed(p)
<1>1. ASSUME NEW p \in PagesOf(k, n) PROVE p \in Pages /\ Shr(p, k) = n /\ Managed(p)
  <2>1. p \in Nat /\ Shr(p, k) = n
    BY OrderFacts, PagesShift
  <2>2. Managed(p)
    BY <2>1 DEF IInv, Covered
  <2> QED
    BY <2>1, <2>2, BuddyAssumption
       DEF BuddyAssumption, Managed, IInv, TypeOK, Pages
<1>2. PICK p \in PagesOf(k, n) : n <= p
  BY OrderFacts, BlockPages
<1>3. p \in 0 .. PAGE_CNT - 1
  BY <1>1 DEF Pages
<1>4. n \in 0 .. PAGE_CNT - 1
  BY <1>2, <1>3, BuddyAssumption DEF BuddyAssumption
<1> QED
  BY <1>1, <1>4

(* The abstract allocator means the same pages by a block.                 *)
LEMMA SamePages == \A k, n : Abstract!PagesOf(k, n) = PagesOf(k, n)
  BY DEF PagesOf, Pow2, Abstract!PagesOf, Abstract!Pow2

(* The boot loop gives a page to the abstract allocator.                   *)
LEMMA BootFreeAbstract ==
    IInv /\ FreeAreManaged /\ FreeAreManaged' /\ BootFree => Abstract!BootFree
<1> SUFFICES ASSUME IInv, FreeAreManaged, FreeAreManaged', BootFree
             PROVE  Abstract!BootFree
  OBVIOUS
<1>1. boot_idx \in Pages /\ boot_idx \in Nat
  BY BuddyAssumption DEF BuddyAssumption, IInv, TypeOK, BootFree, Pages
<1>2. \A k \in Orders : ~IsHeld(k, Shr(boot_idx, k))
  <2>1. ~Managed(boot_idx)
    BY <1>1 DEF Managed
  <2> QED
    BY <1>1, <2>1 DEF IInv, Covered, Occupied
<1>3. ASSUME NEW p \in Pages PROVE p \in FreePages' <=> p \in FreePages \/ p = boot_idx
  <2>1. p \in Nat
    BY BuddyAssumption DEF BuddyAssumption, Pages
  <2>2. Managed(p)' <=> Managed(p) \/ p = boot_idx
    BY <1>1, <2>1, BuddyAssumption DEF BuddyAssumption, Managed, BootFree, IInv, TypeOK
  <2>3. \A k \in Orders : IsHeld(k, Shr(p, k))' <=> IsHeld(k, Shr(p, k))
    BY DEF IsHeld, BootFree
  <2> QED
    BY <1>2, <2>2, <2>3 DEF FreeAreManaged
<1>4. FreePages' = FreePages \cup {boot_idx}
  <2>1. FreePages \subseteq Pages /\ FreePages' \subseteq Pages
    BY DEF FreePages
  <2> QED
    BY <1>1, <1>3, <2>1
<1> QED
  BY <1>4 DEF BootFree, EnterFree, Abstract!BootFree

(* free_pages takes a block from a caller: all its pages are free at once.  *)
LEMMA FreeCallAbstract ==
    IInv /\ FreeAreManaged /\ FreeAreManaged' /\ FreeCall => Abstract!Next
<1> SUFFICES ASSUME IInv, FreeAreManaged, FreeAreManaged', FreeCall
             PROVE  Abstract!Next
  OBVIOUS
<1>1. PICK b \in held : held' = held \ {b} /\ EnterFree(b[1], b[2])
  BY DEF FreeCall
<1>2. b = <<b[1], b[2]>> /\ b[1] \in Orders /\ b[2] \in Nat
  BY DEF IInv, TypeOK
<1> DEFINE k == b[1]
           n == b[2]
<1>3. IsHeld(k, n) /\ Occupied(k, n)
  BY <1>1, <1>2 DEF IsHeld, Occupied
<1>4. /\ n \in 0 .. PAGE_CNT - 1
      /\ \A p \in PagesOf(k, n) : p \in Pages /\ Shr(p, k) = n /\ Managed(p)
  BY <1>2, <1>3, BlockManaged
<1>5. \A j \in Orders, m \in Nat : IsHeld(j, m)' <=> IsHeld(j, m) /\ ~(j = k /\ m = n)
  BY <1>1, <1>2 DEF IsHeld
<1> HIDE DEF k, n
<1>6. ASSUME NEW p \in Pages
      PROVE  p \in FreePages' <=> p \in FreePages \/ p \in PagesOf(k, n)
  <2>1. p \in Nat /\ \A j \in Orders : Shr(p, j) \in Nat
    BY OrderFacts, BuddyAssumption DEF BuddyAssumption, Pages
  <2>2. Managed(p)' <=> Managed(p)
    BY DEF Managed, FreeCall
  <2>3. p \in PagesOf(k, n) <=> Shr(p, k) = n
    BY <1>2, <2>1, OrderFacts, BlockPages DEF k, n
  <2>4. CASE Shr(p, k) = n
    <3>1. \A j \in Orders : IsHeld(j, Shr(p, j)) => j = k
      BY <1>2, <1>3, <2>1, <2>4 DEF IInv, OneOrder, Occupied, k
    <3>2. \A j \in Orders : ~IsHeld(j, Shr(p, j))'
      BY <1>5, <2>1, <2>4, <3>1
    <3> QED
      BY <1>4, <2>2, <2>3, <2>4, <3>2 DEF FreeAreManaged
  <2>5. CASE Shr(p, k) # n
    <3>1. \A j \in Orders : IsHeld(j, Shr(p, j))' <=> IsHeld(j, Shr(p, j))
      BY <1>5, <2>1, <2>5
    <3> QED
      BY <2>2, <2>3, <2>5, <3>1 DEF FreeAreManaged
  <2> QED
    BY <2>4, <2>5
<1>7. FreePages' = FreePages \cup PagesOf(k, n)
  <2>1. FreePages \subseteq Pages /\ FreePages' \subseteq Pages
    BY DEF FreePages
  <2> QED
    BY <1>4, <1>6, <2>1
<1>8. Abstract!Free(k, n)
  <2>1. held' = held \ {<<k, n>>} /\ <<k, n>> \in held
    BY <1>1, <1>2 DEF k, n
  <2> QED
    BY <1>1, <1>7, <2>1, SamePages DEF FreeCall, EnterFree, Abstract!Free
<1>9. k \in Abstract!Orders
  BY <1>2 DEF Orders, Abstract!Orders, k
<1> QED
  BY <1>4, <1>8, <1>9 DEF Abstract!Next

(* alloc_pages returns: the block was free in the abstract allocator and    *)
(* becomes the caller's.                                                   *)
LEMMA AllocReturnAbstract ==
    IInv /\ ScanInv /\ FreeAreManaged /\ FreeAreManaged' /\ AllocReturn => Abstract!Next
<1> SUFFICES ASSUME IInv, ScanInv, FreeAreManaged, FreeAreManaged', AllocReturn
             PROVE  Abstract!Next
  OBVIOUS
<1>1. order \in Orders /\ blk \in Nat
  BY OrderFacts DEF IInv, TypeOK, AllocReturn, Orders
<1>2. InFlight(order, blk) /\ Occupied(order, blk)
  BY DEF AllocReturn, InFlight, Occupied
<1>3. /\ blk \in 0 .. PAGE_CNT - 1
      /\ \A p \in PagesOf(order, blk) : p \in Pages /\ Shr(p, order) = blk /\ Managed(p)
  BY <1>1, <1>2, BlockManaged
<1>4. \A j \in Orders, m \in Nat :
         IsHeld(j, m)' <=> IsHeld(j, m) \/ (j = order /\ m = blk)
  BY <1>1 DEF IsHeld, AllocReturn
<1>5. ASSUME NEW p \in Pages
      PROVE  p \in FreePages' <=> p \in FreePages /\ p \notin PagesOf(order, blk)
  <2>1. p \in Nat /\ \A j \in Orders : Shr(p, j) \in Nat
    BY OrderFacts, BuddyAssumption DEF BuddyAssumption, Pages
  <2>2. Managed(p)' <=> Managed(p)
    BY DEF Managed, AllocReturn
  <2>3. p \in PagesOf(order, blk) <=> Shr(p, order) = blk
    BY <1>1, <2>1, OrderFacts, BlockPages
  <2>4. (\A j \in Orders : ~IsHeld(j, Shr(p, j))')
          <=> (\A j \in Orders : ~IsHeld(j, Shr(p, j))) /\ Shr(p, order) # blk
    BY <1>1, <1>4, <2>1
  <2> QED
    BY <2>2, <2>3, <2>4 DEF FreeAreManaged
<1>6. FreePages' = FreePages \ PagesOf(order, blk)
  <2>1. FreePages \subseteq Pages /\ FreePages' \subseteq Pages
    BY DEF FreePages
  <2> QED
    BY <1>5, <2>1
<1>7. PagesOf(order, blk) \subseteq FreePages
  BY <1>1, <1>2, <1>3 DEF FreePages
<1>8. order \in Abstract!Orders
  BY <1>1 DEF Orders, Abstract!Orders
<1>9. Abstract!Alloc(order, blk)
  BY <1>6, <1>7, <1>8, SamePages
     DEF AllocReturn, ScanInv, Abstract!Alloc, Abstract!Available
<1> QED
  BY <1>3, <1>8, <1>9 DEF Abstract!Next

(* Steps that change no caller's block leave the free pages as they are.   *)
LEMMA FreePagesStay ==
    ASSUME FreeAreManaged, FreeAreManaged', UNCHANGED <<held, boot_idx>>
    PROVE  FreePages' = FreePages
<1>1. ASSUME NEW p \in Pages PROVE p \in FreePages' <=> p \in FreePages
  <2>1. \A k \in Orders : IsHeld(k, Shr(p, k))' <=> IsHeld(k, Shr(p, k))
    BY DEF IsHeld
  <2>2. Managed(p)' <=> Managed(p)
    BY DEF Managed
  <2> QED
    BY <2>1, <2>2 DEF FreeAreManaged
<1>2. FreePages \subseteq Pages /\ FreePages' \subseteq Pages
  BY DEF FreePages
<1> QED
  BY <1>1, <1>2

(* The last list was empty too: nothing fits, and the kernel may stop.      *)
LEMMA AllocScanAbstract ==
    IInv /\ ScanInv /\ FreeAreManaged /\ FreeAreManaged' /\ AllocScan
        => [Abstract!Next]_Abstract!vars
<1> SUFFICES ASSUME IInv, ScanInv, FreeAreManaged, FreeAreManaged', AllocScan
             PROVE  [Abstract!Next]_Abstract!vars
  OBVIOUS
<1>1. FreePages' = FreePages /\ UNCHANGED <<held, boot_idx>> /\ pc = "scan"
  BY FreePagesStay DEF AllocScan
<1>2. CASE order + 1 <= MAX_ORDER - 1
  BY <1>1, <1>2 DEF AllocScan, Abstract!vars
<1>3. CASE ~(order + 1 <= MAX_ORDER - 1)
  <2>1. want \in Orders /\ \A k \in Orders : want <= k => free_list[k] = <<>>
    <3>1. \A k \in Orders : k < order \/ k = order
      BY <1>1, <1>3, OrderFacts DEF IInv, TypeOK, Orders
    <3>2. want \in Orders /\ \A k \in Orders : want <= k /\ k < order => free_list[k] = <<>>
      BY <1>1 DEF ScanInv, Searched
    <3>3. free_list[order] = <<>>
      BY DEF AllocScan
    <3> QED
      BY <3>1, <3>2, <3>3
  <2>2. ASSUME NEW n \in 0 .. PAGE_CNT - 1 PROVE ~Abstract!Available(want, n)
    <3>1. PICK p \in PagesOf(want, n) : \A k \in Orders : ~IsFree(k, Shr(p, k))
      <4>1. n \in Nat
        BY BuddyAssumption DEF BuddyAssumption
      <4> QED
        BY <2>1, <4>1, NothingFits
    <3>2. p \notin FreePages
      BY <1>1, <3>1 DEF FreePages, InFlight
    <3> QED
      BY <3>1, <3>2, SamePages DEF Abstract!Available
  <2>3. ~Abstract!SomeAvailable(want)
    BY <2>2 DEF Abstract!SomeAvailable
  <2>4. pc' = "bug"
    BY <1>3 DEF AllocScan
  <2>5. Abstract!Halt(want)
    BY <1>1, <2>3, <2>4 DEF Abstract!Halt
  <2>6. want \in 0 .. MAX_ORDER + 1
    BY <2>1, OrderFacts DEF Orders
  <2> QED
    BY <2>5, <2>6 DEF Abstract!Next
<1> QED
  BY <1>2, <1>3

(* An order above MAX_ORDER stops the kernel, and the abstract one may stop *)
(* on an order that does not exist.                                        *)
LEMMA AllocCallAbstract ==
    IInv /\ FreeAreManaged /\ FreeAreManaged' /\ AllocCall
        => [Abstract!Next]_Abstract!vars
<1> SUFFICES ASSUME IInv, FreeAreManaged, FreeAreManaged', AllocCall
             PROVE  [Abstract!Next]_Abstract!vars
  OBVIOUS
<1>1. FreePages' = FreePages /\ UNCHANGED <<held, boot_idx>> /\ pc = "ready"
  BY FreePagesStay DEF AllocCall
<1>2. CASE pc' # "bug"
  BY <1>1, <1>2 DEF Abstract!vars
<1>3. CASE pc' = "bug"
  <2>1. MAX_ORDER + 1 \notin Abstract!Orders /\ MAX_ORDER + 1 \in 0 .. MAX_ORDER + 1
    BY OrderFacts DEF Abstract!Orders
  <2>2. Abstract!Halt(MAX_ORDER + 1)
    BY <1>1, <1>3, <2>1 DEF Abstract!Halt
  <2> QED
    BY <2>1, <2>2 DEF Abstract!Next
<1> QED
  BY <1>2, <1>3

(* The buddy allocator is an allocator: whatever its callers see of it,    *)
(* they could see of the abstract one.                                     *)
THEOREM ImplementsAllocator == Spec => Implements
<1>1. Init => Abstract!Init
  <2> SUFFICES ASSUME Init PROVE Abstract!Init
    OBVIOUS
  <2>1. Range(<<>>) = {}
    BY DEF Range
  <2>2. FreePages = {}
    BY <2>1 DEF Init, FreePages, IsFree, InFlight
  <2> QED
    BY <2>2 DEF Init, Abstract!Init
<1>2. IInv /\ ScanInv /\ FreeAreManaged /\ FreeAreManaged' /\ [Next]_vars
        => [Abstract!Next]_Abstract!vars
  <2> SUFFICES ASSUME IInv, ScanInv, FreeAreManaged, FreeAreManaged', [Next]_vars
               PROVE  [Abstract!Next]_Abstract!vars
    OBVIOUS
  <2>1. CASE BootFree
    BY <2>1, BootFreeAbstract DEF Abstract!Next
  <2>2. CASE FreeCall
    BY <2>2, FreeCallAbstract
  <2>3. CASE AllocCall
    BY <2>3, AllocCallAbstract
  <2>4. CASE AllocScan
    BY <2>4, AllocScanAbstract
  <2>5. CASE AllocReturn
    BY <2>5, AllocReturnAbstract
  <2>6. CASE FreeMerge \/ FreeInsert \/ AllocTake \/ Expand \/ UNCHANGED vars
    <3>1. UNCHANGED <<held, boot_idx>> /\ (pc = "bug" <=> pc' = "bug")
      BY <2>6 DEF FreeMerge, FreeInsert, AllocTake, Expand, vars
    <3>2. FreePages' = FreePages
      BY <3>1, FreePagesStay
    <3> QED
      BY <3>1, <3>2 DEF Abstract!vars
  <2> QED
    BY <2>1, <2>2, <2>3, <2>4, <2>5, <2>6 DEF Next, Step, BugLoop
<1> QED
  BY <1>1, <1>2, FreeOrHeld, Invariance, ScanInvariance, PTL
     DEF Spec, Implements, Abstract!Spec

(***************************************************************************)
(* ls are the lists of the heap h: each is a ring through its head, no     *)
(* node is on two of them or twice on one, and a node on none is linked to *)
(* itself.                                                                 *)
(***************************************************************************)
ListsOf(h, ls) ==
    /\ h \in Heaps(Cells, Cells)
    /\ ls \in [Heads -> Seq(Nodes)]
    /\ \A a \in Heads : IsInjective(ls[a]) /\ IsRing(h, a, ls[a])
    /\ \A a, b \in Heads : a # b => Range(ls[a]) \cap Range(ls[b]) = {}
    /\ \A n \in Nodes :
          (\A a \in Heads : n \notin Range(ls[a])) => h.next[n] = n /\ h.prev[n] = n

(* A walk finds each of them within its bound.                             *)
LEMMA WalksFind ==
    ASSUME NEW h, NEW ls, ListsOf(h, ls)
    PROVE  ls = [a \in Heads |-> Walk(h, a, Bound)]
<1>1. ASSUME NEW a \in Heads PROVE Walk(h, a, Bound) = ls[a]
  <2>1. /\ ls[a] \in Seq(Nodes) /\ IsInjective(ls[a]) /\ IsRing(h, a, ls[a])
        /\ a \notin Nodes
    BY ListHeapAssumption DEF ListsOf
  <2>2. Len(ls[a]) <= Cardinality(Nodes) /\ Cardinality(Nodes) \in Nat /\ Len(ls[a]) \in Nat
    BY <2>1, ListIsShort, ListHeapAssumption
  <2>3. Bound \in Nat /\ Len(ls[a]) + 1 <= Bound
    BY <2>2 DEF Bound
  <2> QED
    BY <2>1, <2>3, WalkOfRing
<1>2. ls = [a \in Heads |-> ls[a]]
  BY DEF ListsOf
<1> QED
  BY <1>1, <1>2

(* The cells of different lists are different.                             *)
LEMMA RingsApart ==
    ASSUME NEW h, NEW ls, ListsOf(h, ls), NEW a \in Heads, NEW b \in Heads, a # b,
           NEW j \in 0 .. Len(ls[b]) + 1
    PROVE  /\ RingCell(b, ls[b], j) \notin {a} \cup Range(ls[a])
           /\ RingCell(b, ls[b], j) \in Cells
           /\ RingCell(b, ls[b], j) \in {b} \cup Range(ls[b])
<1>1. /\ ls[a] \in Seq(Nodes) /\ ls[b] \in Seq(Nodes)
      /\ Range(ls[a]) \cap Range(ls[b]) = {}
  BY DEF ListsOf
<1>2. Range(ls[a]) \subseteq Nodes /\ Range(ls[b]) \subseteq Nodes
  BY <1>1, RangeEquality, ElementOfSeq
<1>3. RingCell(b, ls[b], j) \in {b} \cup Range(ls[b])
  BY <1>1, RingCells
<1> QED
  BY <1>1, <1>2, <1>3, ListHeapAssumption DEF Cells

(* list_insert_after(n, c), n on no list and c the k-th cell of a list.    *)
LEMMA InsertedAfter ==
    ASSUME NEW h, NEW ls, ListsOf(h, ls), NEW a \in Heads, NEW n \in Nodes,
           \A b \in Heads : n \notin Range(ls[b]), NEW k \in 0 .. Len(ls[a])
    PROVE  ListsOf(list_insert_after(h, n, RingCell(a, ls[a], k)),
                   [ls EXCEPT ![a] = InsertAt(@, k + 1, n)])
<1> DEFINE s == ls[a]
           c == RingCell(a, s, k)
           d == h.next[c]
           g == list_insert_after(h, n, c)
           t == InsertAt(s, k + 1, n)
           ms == [ls EXCEPT ![a] = t]
<1>1. /\ s \in Seq(Nodes) /\ IsInjective(s) /\ IsRing(h, a, s) /\ a \notin Nodes
      /\ h \in Heaps(Cells, Cells) /\ n \in Cells /\ a \in Cells /\ n \notin Range(s)
      /\ n # a
  BY ListHeapAssumption DEF ListsOf, Cells
<1>2. /\ Len(s) \in Nat /\ Range(s) = {s[i] : i \in 1 .. Len(s)} /\ Range(s) \subseteq Nodes
  BY <1>1, LenProperties, RangeEquality, ElementOfSeq
<1>3. /\ c \in {a} \cup Range(s) /\ d \in {a} \cup Range(s) /\ d = RingCell(a, s, k + 1)
  <2>1. d = RingCell(a, s, k + 1)
    BY <1>1 DEF IsRing
  <2>2. k \in 0 .. Len(s) + 1 /\ k + 1 \in 0 .. Len(s) + 1
    BY <1>2
  <2> QED
    BY <1>1, <2>1, <2>2, RingCells
<1>4. c \in Cells /\ d \in Cells /\ c # n /\ d # n
  BY <1>1, <1>2, <1>3 DEF Cells
<1> HIDE DEF c, d, g, s, t
<1>5. /\ g \in Heaps(Cells, Cells)
      /\ \A x \in Cells : g.next[x] = IF x = c THEN n ELSE IF x = n THEN d ELSE h.next[x]
      /\ \A x \in Cells : g.prev[x] = IF x = n THEN c ELSE IF x = d THEN n ELSE h.prev[x]
  <2>1. h.next[c] = d
    BY DEF d
  <2>2. /\ list_insert_after(h, n, c) \in Heaps(Cells, Cells)
        /\ \A x \in Cells : list_insert_after(h, n, c).next[x] =
                       IF x = c THEN n ELSE IF x = n THEN h.next[c] ELSE h.next[x]
        /\ \A x \in Cells : list_insert_after(h, n, c).prev[x] =
                       IF x = n THEN c ELSE IF x = h.next[c] THEN n ELSE h.prev[x]
    BY <1>1, <1>4, <2>1, AfterInsert
  <2> QED
    BY <2>1, <2>2 DEF g
<1>6. \A j \in 0 .. Len(s) :
         RingCell(a, s, j) \in Cells /\ RingCell(a, s, j) # n
  <2> SUFFICES ASSUME NEW j \in 0 .. Len(s)
               PROVE  RingCell(a, s, j) \in Cells /\ RingCell(a, s, j) # n
    OBVIOUS
  <2>1. j \in 0 .. Len(s) + 1
    BY <1>2
  <2>2. RingCell(a, s, j) \in {a} \cup Range(s)
    BY <1>1, <2>1, RingCells
  <2> QED
    BY <1>1, <1>2, <2>2 DEF Cells
<1>7. IsRing(g, a, t)
  <2>1. k \in 0 .. Len(s) /\ c = RingCell(a, s, k) /\ h.next[c] = d
    BY DEF c, d, s
  <2>2. g.next[n] = d /\ g.prev[n] = c /\ g.next[c] = n /\ g.prev[d] = n
    BY <1>1, <1>4, <1>5
  <2>3. \A j \in 0 .. Len(s) :
              /\ RingCell(a, s, j) # c =>
                    g.next[RingCell(a, s, j)] = h.next[RingCell(a, s, j)]
              /\ RingCell(a, s, j) # d =>
                    g.prev[RingCell(a, s, j)] = h.prev[RingCell(a, s, j)]
    BY <1>5, <1>6
  <2> QED
    BY <1>1, <2>1, <2>2, <2>3, RingInsert DEF t
<1>8. t \in Seq(Nodes) /\ IsInjective(t) /\ Range(t) = Range(s) \cup {n}
  <2>1. PICK p \in 1 .. Len(s) + 1 : p = k + 1
    BY <1>2 DEF s
  <2>2. InsertAt(s, p, n) \in Seq(Nodes)
    BY <1>1, InsertElements
  <2>5. Range(InsertAt(s, p, n)) = Range(s) \cup {n}
    BY <1>1, InsertElements
  <2>3. t = InsertAt(s, p, n)
    BY <2>1 DEF t
  <2>4. IsInjective(t)
    BY <1>1, <2>3, InsertInjective
  <2> QED
    BY <2>2, <2>3, <2>4, <2>5
<1>9. ms \in [Heads -> Seq(Nodes)] /\ ms[a] = t /\ \A b \in Heads : b # a => ms[b] = ls[b]
  BY <1>8 DEF ListsOf
<1>10. ASSUME NEW b \in Heads, b # a
       PROVE  IsInjective(ls[b]) /\ IsRing(g, b, ls[b])
  <2>1. IsInjective(ls[b]) /\ IsRing(h, b, ls[b]) /\ ls[b] \in Seq(Nodes)
    BY DEF ListsOf
  <2>2. Len(ls[b]) \in Nat
    BY <2>1, LenProperties
  <2>3. ASSUME NEW j \in 0 .. Len(ls[b])
        PROVE  /\ g.next[RingCell(b, ls[b], j)] = h.next[RingCell(b, ls[b], j)]
               /\ g.prev[RingCell(b, ls[b], j)] = h.prev[RingCell(b, ls[b], j)]
    <3>1. j \in 0 .. Len(ls[b]) + 1
      BY <2>2
    <3>2. /\ RingCell(b, ls[b], j) \notin {a} \cup Range(s) /\ RingCell(b, ls[b], j) \in Cells
          /\ RingCell(b, ls[b], j) \in {b} \cup Range(ls[b])
      BY <1>10, <3>1, RingsApart DEF s
    <3>3. RingCell(b, ls[b], j) # n
      BY <3>2, ListHeapAssumption
    <3> QED
      BY <1>3, <1>5, <3>2, <3>3
  <2> QED
    BY <2>1, <2>2, <2>3, RingKept
<1> HIDE DEF ms
<1>11. \A b \in Heads : IsInjective(ms[b]) /\ IsRing(g, b, ms[b])
  BY <1>7, <1>8, <1>9, <1>10
<1>12. \A b \in Heads : b # a => Range(ls[b]) \cap Range(s) = {} /\ n \notin Range(ls[b])
  BY DEF ListsOf, s
<1>13. \A b, e \in Heads : b # e => Range(ms[b]) \cap Range(ms[e]) = {}
  <2>1. \A b, e \in Heads : b # e => Range(ls[b]) \cap Range(ls[e]) = {}
    BY DEF ListsOf
  <2>2. ASSUME NEW b \in Heads, b # a PROVE Range(ms[b]) \cap Range(ms[a]) = {}
    BY <2>2, <1>8, <1>9, <1>12
  <2>3. ASSUME NEW b \in Heads, NEW e \in Heads, b # e, b # a, e # a
        PROVE  Range(ms[b]) \cap Range(ms[e]) = {}
    BY <2>1, <2>3, <1>9
  <2> QED
    BY <2>2, <2>3
<1>14. ASSUME NEW m \in Nodes, \A b \in Heads : m \notin Range(ms[b])
       PROVE  g.next[m] = m /\ g.prev[m] = m
  <2>1. m # n /\ m \notin Range(s)
    BY <1>8, <1>9, <1>14
  <2>2. \A b \in Heads : m \notin Range(ls[b])
    BY <1>9, <1>14, <2>1 DEF s
  <2>3. h.next[m] = m /\ h.prev[m] = m
    BY <2>2 DEF ListsOf
  <2>4. m # c /\ m # d /\ m \in Cells
    BY <1>3, <2>1, ListHeapAssumption DEF Cells
  <2> QED
    BY <1>5, <2>1, <2>3, <2>4
<1>15. ListsOf(g, ms)
  BY <1>5, <1>9, <1>11, <1>13, <1>14 DEF ListsOf
<1> QED
  BY <1>15 DEF g, ms, t, c, s

(* list_insert_before(n, c) is list_insert_after the cell in front of c.   *)
LEMMA InsertedBefore ==
    ASSUME NEW h, NEW ls, ListsOf(h, ls), NEW a \in Heads, NEW n \in Nodes,
           \A b \in Heads : n \notin Range(ls[b]), NEW c \in {a} \cup Range(ls[a])
    PROVE  \E k \in 0 .. Len(ls[a]) :
              ListsOf(list_insert_before(h, n, c), [ls EXCEPT ![a] = InsertAt(@, k + 1, n)])
<1> DEFINE s == ls[a]
<1>1. /\ s \in Seq(Nodes) /\ IsRing(h, a, s) /\ h \in Heaps(Cells, Cells)
      /\ n \in Cells /\ n \notin Range(s) /\ n # a
  BY ListHeapAssumption DEF ListsOf, Cells
<1>2. Len(s) \in Nat /\ Range(s) \subseteq Nodes
  BY <1>1, LenProperties, RangeEquality, ElementOfSeq
<1>3. PICK k \in 0 .. Len(s) : RingCell(a, s, k + 1) = c
  <2>1. PICK i \in 0 .. Len(s) : c = RingCell(a, s, i)
    BY <1>1, RingPlaces, ZenonT(30)
  <2>2. CASE i = 0
    <3>1. Len(s) \in 0 .. Len(s) /\ RingCell(a, s, Len(s) + 1) = RingCell(a, s, 0)
      BY <1>2 DEF RingCell
    <3> QED
      BY <2>1, <2>2, <3>1
  <2>3. CASE i # 0
    <3>1. i - 1 \in 0 .. Len(s) /\ (i - 1) + 1 = i
      BY <2>3, <1>2
    <3> QED
      BY <2>1, <3>1
  <2> QED
    BY <2>2, <2>3
<1>4. h.prev[c] = RingCell(a, s, k) /\ h.next[RingCell(a, s, k)] = c
  BY <1>1, <1>3 DEF IsRing
<1>5. RingCell(a, s, k) \in Cells /\ c \in Cells /\ n # c
  <2>1. k \in 0 .. Len(s) + 1
    BY <1>2
  <2>2. RingCell(a, s, k) \in {a} \cup Range(s)
    BY <1>1, <2>1, RingCells
  <2> QED
    BY <1>1, <1>2, <2>2 DEF Cells
<1>6. list_insert_before(h, n, c) = list_insert_after(h, n, RingCell(a, s, k))
  BY <1>1, <1>4, <1>5, BeforeIsAfter
<1>7. ListsOf(list_insert_after(h, n, RingCell(a, s, k)),
              [ls EXCEPT ![a] = InsertAt(@, k + 1, n)])
  BY InsertedAfter
<1> QED
  BY <1>6, <1>7

(* list_remove(n) of a node on a list or on none.                          *)
LEMMA Removed ==
    ASSUME NEW h, NEW ls, ListsOf(h, ls), NEW n \in Nodes
    PROVE  ListsOf(list_remove(h, n), [a \in Heads |-> RemoveFirst(ls[a], n)])
<1> DEFINE g == list_remove(h, n)
           d == h.next[n]
           p == h.prev[n]
           ms == [a \in Heads |-> RemoveFirst(ls[a], n)]
<1>1. /\ h \in Heaps(Cells, Cells) /\ n \in Cells
      /\ ls \in [Heads -> Seq(Nodes)]
      /\ \A a \in Heads : IsInjective(ls[a]) /\ IsRing(h, a, ls[a])
      /\ \A a, b \in Heads : a # b => Range(ls[a]) \cap Range(ls[b]) = {}
      /\ \A m \in Nodes :
            (\A a \in Heads : m \notin Range(ls[a])) => h.next[m] = m /\ h.prev[m] = m
  BY DEF ListsOf, Cells
<1>2. d \in Cells /\ p \in Cells
  BY <1>1 DEF Heaps
<1>3. /\ g \in Heaps(Cells, Cells)
      /\ \A x \in Cells : g.next[x] = IF x = n THEN n ELSE IF x = p THEN d ELSE h.next[x]
      /\ \A x \in Cells : g.prev[x] = IF x = n THEN n ELSE IF x = d THEN p ELSE h.prev[x]
  <2>1. h.next[n] \in Cells /\ h.prev[n] \in Cells
    BY <1>2
  <2> QED
    BY <1>1, <2>1, AfterRemove
<1> HIDE DEF g
<1>4. ASSUME NEW b \in Heads, n \notin Range(ls[b])
      PROVE  RemoveFirst(ls[b], n) = ls[b]
  <2>1. ls[b] \in Seq(Nodes)
    BY <1>1
  <2>2. Range(ls[b]) = {ls[b][i] : i \in 1 .. Len(ls[b])}
    BY <2>1, RangeEquality
  <2>3. ~ \E i \in 1 .. Len(ls[b]) : ls[b][i] = n
    BY <1>4, <2>2
  <2> QED
    BY <2>3 DEF RemoveFirst
<1>5. \A b \in Heads : Range(ls[b]) \subseteq Nodes /\ b \notin Nodes /\ b \in Cells
  BY <1>1, RangeEquality, ElementOfSeq, ListHeapAssumption DEF Cells
<1>6. CASE \A b \in Heads : n \notin Range(ls[b])
  <2>1. d = n /\ p = n
    BY <1>1, <1>6
  <2>2. \A x \in Cells : g.next[x] = h.next[x] /\ g.prev[x] = h.prev[x]
    BY <1>3, <2>1
  <2>3. g = h
    BY <1>1, <1>3, <2>2 DEF Heaps
  <2>4. ms = ls
    BY <1>1, <1>4, <1>6
  <2> QED
    BY <2>3, <2>4 DEF g
<1>7. CASE \E b \in Heads : n \in Range(ls[b])
  <2>1. PICK a \in Heads : n \in Range(ls[a])
    BY <1>7
  <2> DEFINE s == ls[a]
             t == RemoveFirst(s, n)
  <2>2. s \in Seq(Nodes) /\ IsInjective(s) /\ IsRing(h, a, s) /\ a \notin Nodes
    BY <1>1, <1>5
  <2>3. /\ Len(s) \in Nat /\ Range(s) = {s[i] : i \in 1 .. Len(s)}
    BY <2>2, LenProperties, RangeEquality
  <2>4. d \in {a} \cup Range(s) /\ p \in {a} \cup Range(s)
    <3>1. PICK k \in 1 .. Len(s) : n = s[k]
      BY <2>1, <2>3
    <3>2. k \in 0 .. Len(s) /\ k - 1 \in 0 .. Len(s) /\ (k - 1) + 1 = k /\ k # 0
      BY <2>3
    <3>3. RingCell(a, s, k) = n
      BY <3>1 DEF RingCell
    <3>4. d = RingCell(a, s, k + 1) /\ p = RingCell(a, s, k - 1)
      BY <2>2, <3>2, <3>3 DEF IsRing
    <3>5. k + 1 \in 0 .. Len(s) + 1 /\ k - 1 \in 0 .. Len(s) + 1
      BY <2>3
    <3> QED
      BY <2>2, <3>4, <3>5, RingCells
  <2>5. IsInjective(t) /\ t \in Seq(Nodes) /\ Range(t) = Range(s) \ {n}
    BY <2>1, <2>2, RemoveElements
  <2>6. IsRing(g, a, t)
    <3>1. n # d => g.prev[d] = p
      BY <1>2, <1>3
    <3>2. n # p => g.next[p] = d
      BY <1>2, <1>3
    <3>3. n = d => p = n
      <4>1. SUFFICES ASSUME n = d PROVE p = n
        OBVIOUS
      <4>2. PICK k \in 1 .. Len(s) : n = s[k]
        BY <2>1, <2>3
      <4>3. k \in 0 .. Len(s) /\ RingCell(a, s, k) = n
        BY <2>3, <4>2 DEF RingCell
      <4>4. RingCell(a, s, k + 1) = n
        BY <2>2, <4>1, <4>3 DEF IsRing
      <4>5. h.prev[RingCell(a, s, k + 1)] = RingCell(a, s, k)
        BY <2>2, <4>3 DEF IsRing
      <4> QED
        BY <4>3, <4>4, <4>5
    <3>4. n = p => d = n
      <4>1. SUFFICES ASSUME n = p PROVE d = n
        OBVIOUS
      <4>2. PICK k \in 1 .. Len(s) : n = s[k]
        BY <2>1, <2>3
      <4>3. k - 1 \in 0 .. Len(s) /\ RingCell(a, s, (k - 1) + 1) = n
        BY <2>3, <4>2 DEF RingCell
      <4>4. RingCell(a, s, k - 1) = n
        BY <2>2, <4>1, <4>3 DEF IsRing
      <4>5. h.next[RingCell(a, s, k - 1)] = RingCell(a, s, (k - 1) + 1)
        BY <2>2, <4>3 DEF IsRing
      <4> QED
        BY <4>3, <4>4, <4>5
    <3>5. g.next[p] = d /\ g.prev[d] = p
      BY <1>2, <1>3, <3>1, <3>2, <3>3, <3>4
    <3>6. \A j \in 0 .. Len(s) : RingCell(a, s, j) \in Cells
      <4>1. \A j \in 0 .. Len(s) : j \in 0 .. Len(s) + 1
        BY <2>3
      <4>2. \A j \in 0 .. Len(s) : RingCell(a, s, j) \in {a} \cup Range(s)
        BY <2>2, <4>1, RingCells
      <4> QED
        BY <1>5, <4>2 DEF Cells
    <3>7. \A j \in 0 .. Len(s) :
              /\ RingCell(a, s, j) \notin {n, p} =>
                    g.next[RingCell(a, s, j)] = h.next[RingCell(a, s, j)]
              /\ RingCell(a, s, j) \notin {n, d} =>
                    g.prev[RingCell(a, s, j)] = h.prev[RingCell(a, s, j)]
      BY <1>3, <3>6
    <3> QED
      BY <2>1, <2>2, <3>5, <3>7, RingRemove
  <2> HIDE DEF t, s, d, p
  <2>7. ms[a] = t /\ \A b \in Heads : b # a => ms[b] = ls[b]
    <3>1. \A b \in Heads : b # a => n \notin Range(ls[b])
      BY <1>1, <2>1
    <3> QED
      BY <1>4, <3>1 DEF t, s
  <2>8. ms \in [Heads -> Seq(Nodes)]
    <3>1. \A b \in Heads : ms[b] \in Seq(Nodes)
      BY <1>1, <2>5, <2>7
    <3>2. ms = [b \in Heads |-> ms[b]]
      OBVIOUS
    <3> HIDE DEF ms
    <3> QED
      BY <3>1, <3>2
  <2> HIDE DEF ms
  <2>9. ASSUME NEW b \in Heads, b # a
        PROVE  IsInjective(ls[b]) /\ IsRing(g, b, ls[b])
    <3>1. IsInjective(ls[b]) /\ IsRing(h, b, ls[b]) /\ ls[b] \in Seq(Nodes)
      BY <1>1
    <3>2. Len(ls[b]) \in Nat
      BY <3>1, LenProperties
    <3>3. ASSUME NEW j \in 0 .. Len(ls[b])
          PROVE  /\ g.next[RingCell(b, ls[b], j)] = h.next[RingCell(b, ls[b], j)]
                 /\ g.prev[RingCell(b, ls[b], j)] = h.prev[RingCell(b, ls[b], j)]
      <4>1. j \in 0 .. Len(ls[b]) + 1
        BY <3>2
      <4>2. RingCell(b, ls[b], j) \notin {a} \cup Range(s) /\ RingCell(b, ls[b], j) \in Cells
        BY <2>9, <4>1, RingsApart DEF s
      <4>3. n \in Range(s)
        BY <2>1 DEF s
      <4> QED
        BY <1>3, <2>4, <4>2, <4>3
    <3> QED
      BY <3>1, <3>2, <3>3, RingKept
  <2>10. \A b \in Heads : IsInjective(ms[b]) /\ IsRing(g, b, ms[b])
    BY <2>5, <2>6, <2>7, <2>9
  <2>11. \A b \in Heads : Range(ms[b]) \subseteq Range(ls[b])
    BY <2>5, <2>7 DEF s
  <2>12. \A b, e \in Heads : b # e => Range(ms[b]) \cap Range(ms[e]) = {}
    <3> SUFFICES ASSUME NEW b \in Heads, NEW e \in Heads, b # e
                 PROVE  Range(ms[b]) \cap Range(ms[e]) = {}
      OBVIOUS
    <3>1. Range(ls[b]) \cap Range(ls[e]) = {}
      BY <1>1
    <3>2. Range(ms[b]) \subseteq Range(ls[b]) /\ Range(ms[e]) \subseteq Range(ls[e])
      BY <2>11
    <3> QED
      BY <3>1, <3>2
  <2>13. ASSUME NEW m \in Nodes, \A b \in Heads : m \notin Range(ms[b])
         PROVE  g.next[m] = m /\ g.prev[m] = m
    <3>1. CASE m = n
      BY <1>1, <1>3, <3>1
    <3>2. CASE m # n
      <4>1. m \notin Range(s)
        BY <2>5, <2>7, <2>13, <3>2
      <4>2. \A b \in Heads : m \notin Range(ls[b])
        BY <2>7, <2>13, <4>1 DEF s
      <4>3. h.next[m] = m /\ h.prev[m] = m
        BY <1>1, <4>2
      <4>4. m # p /\ m # d /\ m \in Cells
        BY <1>5, <2>4, <4>1 DEF Cells
      <4> QED
        BY <1>3, <3>2, <4>3, <4>4
    <3> QED
      BY <3>1, <3>2
  <2>14. ListsOf(g, ms)
    BY <1>3, <2>8, <2>10, <2>12, <2>13 DEF ListsOf
  <2> QED
    BY <2>14 DEF g, ms
<1> QED
  BY <1>6, <1>7

(***************************************************************************)
(* The walks the callers see, as an invariant and as the abstract lists.   *)
(***************************************************************************)
Walks == [hd \in Heads |-> Walk(heap, hd, Bound)]

HeapInv == ListsOf(heap, Walks)

(* Ring of ListHeap.                                                       *)
LEMMA RingIsList ==
    ASSUME HeapInv, NEW a \in Heads
    PROVE  Ring(a) = {a} \cup Range(Walks[a])
<1>1. Walks[a] \in Seq(Nodes) /\ Walks[a] = Walk(heap, a, Bound)
  BY DEF HeapInv, ListsOf, Walks
<1> QED
  BY <1>1 DEF Ring, Range

(* CallInsertAfter puts the node on one of the walks.                      *)
LEMMA StepInsertAfter ==
    ASSUME HeapInv, CallInsertAfter
    PROVE  \E n \in Nodes, a \in Heads : \E k \in 0 .. Len(Walks[a]) :
              /\ \A b \in Heads : n \notin Range(Walks[b])
              /\ ListsOf(heap', [Walks EXCEPT ![a] = InsertAt(@, k + 1, n)])
<1>1. PICK n \in Nodes, a \in Heads : \E c \in Ring(a) :
         ~OnSomeList(n) /\ heap' = list_insert_after(heap, n, c)
  BY DEF CallInsertAfter
<1>2. PICK c \in Ring(a) : ~OnSomeList(n) /\ heap' = list_insert_after(heap, n, c)
  BY <1>1
<1>3. \A b \in Heads : n \notin Range(Walks[b])
  BY <1>2, RingIsList DEF OnSomeList
<1>4. Walks[a] \in Seq(Nodes)
  BY DEF HeapInv, ListsOf
<1>5. c \in {a} \cup Range(Walks[a])
  BY <1>2, RingIsList
<1>6. PICK k \in 0 .. Len(Walks[a]) : c = RingCell(a, Walks[a], k)
  BY <1>4, <1>5, RingPlaces, ZenonT(30)
<1>7. ListsOf(heap, Walks)
  BY DEF HeapInv
<1> HIDE DEF Walks
<1>8. ListsOf(list_insert_after(heap, n, RingCell(a, Walks[a], k)),
              [Walks EXCEPT ![a] = InsertAt(@, k + 1, n)])
  BY <1>3, <1>7, InsertedAfter
<1> QED
  BY <1>2, <1>3, <1>6, <1>8

(* CallInsertBefore does so as well, in front of the cell.                 *)
LEMMA StepInsertBefore ==
    ASSUME HeapInv, CallInsertBefore
    PROVE  \E n \in Nodes, a \in Heads : \E k \in 0 .. Len(Walks[a]) :
              /\ \A b \in Heads : n \notin Range(Walks[b])
              /\ ListsOf(heap', [Walks EXCEPT ![a] = InsertAt(@, k + 1, n)])
<1>1. PICK n \in Nodes, a \in Heads : \E c \in Ring(a) :
         ~OnSomeList(n) /\ heap' = list_insert_before(heap, n, c)
  BY DEF CallInsertBefore
<1>2. PICK c \in Ring(a) : ~OnSomeList(n) /\ heap' = list_insert_before(heap, n, c)
  BY <1>1
<1>3. \A b \in Heads : n \notin Range(Walks[b])
  BY <1>2, RingIsList DEF OnSomeList
<1>4. c \in {a} \cup Range(Walks[a])
  BY <1>2, RingIsList
<1>5. ListsOf(heap, Walks)
  BY DEF HeapInv
<1> HIDE DEF Walks
<1>6. \E k \in 0 .. Len(Walks[a]) :
         ListsOf(list_insert_before(heap, n, c), [Walks EXCEPT ![a] = InsertAt(@, k + 1, n)])
  BY <1>3, <1>4, <1>5, InsertedBefore
<1> QED
  BY <1>2, <1>3, <1>6

(* The lists of the next heap are what its walks find.                     *)
LEMMA NextWalks ==
    ASSUME NEW ls, ListsOf(heap', ls)
    PROVE  Walks' = ls /\ HeapInv'
<1>1. ls = [a \in Heads |-> Walk(heap', a, Bound)]
  BY WalksFind
<1>2. Walks' = [a \in Heads |-> Walk(heap', a, Bound)]
  BY DEF Walks, Bound
<1>3. Walks' = ls
  BY <1>1, <1>2
<1>4. ListsOf(heap', Walks') => HeapInv'
  BY DEF HeapInv
<1> QED
  BY <1>3, <1>4

(* At the start every list is empty.                                       *)
LEMMA StartsEmpty ==
    ASSUME ListsInit
    PROVE  HeapInv /\ Walks = [a \in Heads |-> << >>]
<1> DEFINE ls == [a \in Heads |-> << >>]
<1>1. heap \in Heaps(Cells, Cells)
  BY DEF ListsInit, Heaps
<1>2. /\ ls \in [Heads -> Seq(Nodes)]
      /\ \A a \in Heads : ls[a] = << >>
  OBVIOUS
<1>3. IsInjective(<< >>) /\ Range(<< >>) = {} /\ Len(<< >>) = 0
  BY DEF IsInjective, Range
<1>4. \A a \in Heads : IsRing(heap, a, << >>)
  <2>1. \A a \in Heads : heap.next[a] = a /\ heap.prev[a] = a
    BY DEF ListsInit, Cells
  <2>2. \A a \in Heads, j \in 0 .. 1 : RingCell(a, << >>, j) = a
    BY <1>3 DEF RingCell
  <2>3. \A j \in 0 .. Len(<< >>) : j = 0 /\ j + 1 = 1 /\ 0 \in 0 .. 1 /\ 1 \in 0 .. 1
    BY <1>3
  <2> QED
    BY <2>1, <2>2, <2>3 DEF IsRing
<1>5. \A n \in Nodes : heap.next[n] = n /\ heap.prev[n] = n
  BY DEF ListsInit, Cells
<1> HIDE DEF ls
<1>6. ListsOf(heap, ls)
  BY <1>1, <1>2, <1>3, <1>4, <1>5 DEF ListsOf
<1>7. ls = Walks
  BY <1>6, WalksFind DEF Walks
<1> QED
  BY <1>6, <1>7 DEF HeapInv, ls

(* The rings of all lists are sound at every time: forward and backward    *)
(* pointers agree, no node is on two lists, and a node on none is linked   *)
(* to itself, so that list_remove of it does no harm.                      *)
THEOREM RingsStaySound == ListsSpec => []HeapInv
<1>1. ListsInit => HeapInv
  BY StartsEmpty
<1>2. HeapInv /\ [ListsNext]_heap => HeapInv'
  <2> SUFFICES ASSUME HeapInv, [ListsNext]_heap PROVE HeapInv'
    OBVIOUS
  <2>1. CASE CallInsertAfter
    BY <2>1, StepInsertAfter, NextWalks
  <2>2. CASE CallInsertBefore
    BY <2>2, StepInsertBefore, NextWalks
  <2>3. CASE CallRemove
    <3>1. PICK n \in Nodes : heap' = list_remove(heap, n)
      BY <2>3 DEF CallRemove
    <3>2. ListsOf(heap', [a \in Heads |-> RemoveFirst(Walks[a], n)])
      BY <3>1, Removed DEF HeapInv
    <3> QED
      BY <3>2, NextWalks
  <2>4. CASE UNCHANGED heap
    BY <2>4 DEF HeapInv, Walks, Bound, ListsOf, Cells
  <2> QED
    BY <2>1, <2>2, <2>3, <2>4 DEF ListsNext
<1> QED
  BY <1>1, <1>2, PTL DEF ListsSpec

(* The operators on sequences are the same in ListSpec.                    *)
LEMMA AbstractOperators ==
    ASSUME NEW s, NEW k, NEW n
    PROVE  /\ Lists!InsertAt(s, k, n) = InsertAt(s, k, n)
           /\ Lists!RemoveFirst(s, n) = RemoveFirst(s, n)
           /\ Lists!ToSet(s) = Range(s)
<1>1. Lists!InsertAt(s, k, n) = InsertAt(s, k, n)
  BY DEF Lists!InsertAt, InsertAt
<1>2. Lists!RemoveFirst(s, n) = RemoveFirst(s, n)
  <2> DEFINE I == {i \in 1 .. Len(s) : s[i] = n}
  <2>1. /\ Lists!RemoveFirst(s, n) =
              IF \E i \in 1 .. Len(s) : s[i] = n
              THEN Lists!RemoveAt(s, IF I # {} THEN Lists!Min(I) ELSE 0) ELSE s
        /\ RemoveFirst(s, n) =
              IF \E i \in 1 .. Len(s) : s[i] = n
              THEN RemoveAt(s, IF I # {} THEN Min(I) ELSE 0) ELSE s
    BY DEF Lists!RemoveFirst, RemoveFirst, Lists!SelectInSeq, SelectInSeq
  <2>2. Lists!Min(I) = Min(I)
    BY DEF Lists!Min, Min
  <2> HIDE DEF I
  <2>3. \A j : Lists!RemoveAt(s, j) = RemoveAt(s, j)
    BY DEF Lists!RemoveAt, RemoveAt
  <2> QED
    BY <2>1, <2>2, <2>3
<1>3. Lists!ToSet(s) = Range(s)
  BY DEF Lists!ToSet, Range
<1> QED
  BY <1>1, <1>2, <1>3

(* Every behaviour of the pointers is one of the lists: the next and prev  *)
(* words written by list_insert_after, list_insert_before and list_remove  *)
(* always are the insertion or the removal their names promise.            *)
THEOREM PointersImplementLists == ListsSpec => ImplementsLists
<1>1. ListsInit => Lists!Init
  BY StartsEmpty DEF Lists!Init, Walks
<1>2. HeapInv /\ HeapInv' /\ [ListsNext]_heap => [Lists!Next]_Walks
  <2> SUFFICES ASSUME HeapInv, [ListsNext]_heap PROVE [Lists!Next]_Walks
    OBVIOUS
  <2>1. CASE CallInsertAfter \/ CallInsertBefore
    <3>1. PICK n \in Nodes, a \in Heads : \E k \in 0 .. Len(Walks[a]) :
              /\ \A b \in Heads : n \notin Range(Walks[b])
              /\ ListsOf(heap', [Walks EXCEPT ![a] = InsertAt(@, k + 1, n)])
      BY <2>1, StepInsertAfter, StepInsertBefore
    <3>2. PICK k \in 0 .. Len(Walks[a]) :
              /\ \A b \in Heads : n \notin Range(Walks[b])
              /\ ListsOf(heap', [Walks EXCEPT ![a] = InsertAt(@, k + 1, n)])
      BY <3>1
    <3>3. Walks' = [Walks EXCEPT ![a] = InsertAt(@, k + 1, n)]
      BY <3>2, NextWalks
    <3>4. n \notin Lists!Used
      BY <3>2, AbstractOperators DEF Lists!Used, Walks
    <3>5. Lists!Insert(a, k, n)
      BY <3>3, <3>4, AbstractOperators, ZenonT(30) DEF Lists!Insert, Walks
    <3> QED
      BY <3>5 DEF Lists!Next, Walks
  <2>2. CASE CallRemove
    <3>1. PICK n \in Nodes : heap' = list_remove(heap, n)
      BY <2>2 DEF CallRemove
    <3>2. ListsOf(heap', [a \in Heads |-> RemoveFirst(Walks[a], n)])
      BY <3>1, Removed DEF HeapInv
    <3>3. Walks' = [a \in Heads |-> RemoveFirst(Walks[a], n)]
      BY <3>2, NextWalks
    <3>4. Lists!Unlink(n)
      BY <3>3, AbstractOperators DEF Lists!Unlink, Walks
    <3> QED
      BY <3>4 DEF Lists!Next
  <2>3. CASE UNCHANGED heap
    BY <2>3 DEF Walks, Bound
  <2> QED
    BY <2>1, <2>2, <2>3 DEF ListsNext
<1> QED
  BY <1>1, <1>2, RingsStaySound, PTL DEF ListsSpec, ImplementsLists, Lists!Spec, Walks
=============================================================================
