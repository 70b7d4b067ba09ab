------------------------------- MODULE Buddy -------------------------------
(***************************************************************************)
(* The buddy page allocator of kernel/mm.c: free_pages, alloc_pages and    *)
(* the part of buddy_system_init that fills it.  The calls are broken into *)
(* the turns of their loops, so that an invariant speaks of every state    *)
(* the lists and the bitmaps go through and not only of the ends of calls. *)
(* The page allocator is never entered twice at a time: its callers run at *)
(* boot or in a system call, behind an interrupt gate.                     *)
(***************************************************************************)
EXTENDS PageArith, Sequences, SequencesExt, FiniteSetsExt

CONSTANTS
    MAX_ORDER,      \* orders 0 .. MAX_ORDER - 1 exist
    PAGE_CNT,       \* page_cnt: number of physical pages
    FIRST_PAGE,     \* idx at the start of the boot loop
    REQUESTS        \* orders the callers ask for

ASSUME BuddyAssumption ==
    /\ MAX_ORDER \in 1 .. 11
    /\ PAGE_CNT \in Nat
    /\ FIRST_PAGE \in 0 .. PAGE_CNT
    /\ REQUESTS \subseteq Nat

VARIABLES
    free_list,        \* per order, the block numbers on free_area[k].free_list
    map,              \* per order, the indices of the bits set in free_area[k].map
    free_page_count,
    held,             \* the blocks the callers hold
    boot_idx,         \* idx of the boot loop
    pc,               \* where the current call is
    order,            \* order, respectively curr_order and high, of the call
    blk,              \* page_idx >> order of the block in flight
    want              \* the order alloc_pages was asked for

vars == <<free_list, map, free_page_count, held, boot_idx, pc, order, blk, want>>

Orders == 0 .. MAX_ORDER - 1
Pages == 0 .. PAGE_CNT - 1

(***************************************************************************)
(* Helpers on the lists and the maps.                                      *)
(***************************************************************************)
InsertAfter(k, n) == [free_list EXCEPT ![k] = Cons(n, @)]

(* list_remove unlinks the element wherever it is on its list.             *)
ListRemove(k, n) == [free_list EXCEPT ![k] = RemoveFirst(@, n)]

(* change_and_test_bit is true when the bit was clear.                     *)
change_and_test_bit(k, b) == b \notin map[k]

(* change_bit: flips bit b of the map of order k.                          *)
change_bit(k, b) ==
    [map EXCEPT ![k] = IF b \in @ THEN @ \ {b} ELSE @ \cup {b}]

(* Wrong on purpose: no byte for the last bits.                           *)
bitmap_size_short(k) == LONG_ALIGN(((PAGE_CNT - 1) \div Pow2(k)) \div 16)

(* Bytes of the map of order k.                                            *)
bitmap_size(k) == LONG_ALIGN(((PAGE_CNT - 1) \div Pow2(k)) \div 16 + 1)

(***************************************************************************)
(* The state after buddy_system_init has cleared the maps and emptied the  *)
(* lists, at its last loop.                                                *)
(***************************************************************************)
Init ==
    /\ free_list = [k \in Orders |-> <<>>]
    /\ map = [k \in Orders |-> {}]
    /\ free_page_count = 0
    /\ held = {}
    /\ boot_idx = FIRST_PAGE
    /\ pc = "ready"
    /\ order = 0
    /\ blk = 0
    /\ want = 0

(***************************************************************************)
(* free_pages                                                              *)
(***************************************************************************)
EnterFree(k, n) ==
    /\ pc' = "free"
    /\ order' = k
    /\ blk' = n
    /\ free_page_count' = free_page_count + Pow2(k)

(* The boot loop: free_pages(page++, 0).                                   *)
BootFree ==
    /\ pc = "ready"
    /\ boot_idx < PAGE_CNT
    /\ EnterFree(0, boot_idx)
    /\ boot_idx' = boot_idx + 1
    /\ UNCHANGED <<free_list, map, held, want>>

(* A caller gives back a block it was given.                               *)
FreeCall ==
    /\ pc = "ready"
    /\ \E b \in held :
          /\ held' = held \ {b}
          /\ EnterFree(b[1], b[2])
    /\ UNCHANGED <<free_list, map, boot_idx, want>>

(* The buddy is free: unlink it and go on with the block of the next order. *)
FreeMerge ==
    /\ pc = "free"
    /\ order < MAX_ORDER - 1
    /\ ~change_and_test_bit(order, ParentOf(blk))
    /\ map' = change_bit(order, ParentOf(blk))
    /\ free_list' = ListRemove(order, BuddyOf(blk))
    /\ order' = order + 1
    /\ blk' = ParentOf(blk)
    /\ UNCHANGED <<free_page_count, held, boot_idx, pc, want>>

(* The end of the loop: by the break, with the bit flipped, or at the top   *)
(* order, which has no bit.                                                 *)
FreeInsert ==
    /\ pc = "free"
    /\ \/ /\ order < MAX_ORDER - 1
          /\ change_and_test_bit(order, ParentOf(blk))
          /\ map' = change_bit(order, ParentOf(blk))
       \/ /\ order = MAX_ORDER - 1
          /\ map' = map
    /\ free_list' = InsertAfter(order, blk)
    /\ pc' = "ready"
    /\ order' = 0
    /\ blk' = 0
    /\ UNCHANGED <<free_page_count, held, boot_idx, want>>

(***************************************************************************)
(* alloc_pages                                                             *)
(***************************************************************************)

(* The check refuses only orders above MAX_ORDER.  Order MAX_ORDER itself   *)
(* goes on to free_area[MAX_ORDER], which does not exist: what the call     *)
(* does then depends on the memory behind the array, and the model stops.   *)
AllocCall ==
    /\ pc = "ready"
    /\ boot_idx = PAGE_CNT
    /\ \E k \in REQUESTS :
          \/ /\ k > MAX_ORDER
             /\ pc' = "bug"
             /\ UNCHANGED <<order, want>>
          \/ /\ k = MAX_ORDER
             /\ pc' = "wild"
             /\ UNCHANGED <<order, want>>
          \/ /\ k < MAX_ORDER
             /\ pc' = "scan"
             /\ order' = k
             /\ want' = k
    /\ UNCHANGED <<free_list, map, free_page_count, held, boot_idx, blk>>

(* Wrong on purpose: one order too many is tried.                         *)
AllocScan_past_top ==
    /\ pc = "scan"
    /\ free_list[order] = <<>>
    /\ order' = order + 1
    /\ pc' = IF order + 1 <= MAX_ORDER THEN "scan" ELSE "bug"
    /\ UNCHANGED <<free_list, map, free_page_count, held, boot_idx, blk, want>>

(* Wrong on purpose: the top order is not tried.                          *)
AllocScan_below_top ==
    /\ pc = "scan"
    /\ free_list[order] = <<>>
    /\ order' = IF order + 1 < MAX_ORDER - 1 THEN order + 1 ELSE MAX_ORDER
    /\ pc' = IF order + 1 < MAX_ORDER - 1 THEN "scan" ELSE "bug"
    /\ UNCHANGED <<free_list, map, free_page_count, held, boot_idx, blk, want>>

(* Wrong on purpose: curr_order++ is forgotten.                           *)
AllocScan_same_order ==
    /\ pc = "scan"
    /\ free_list[order] = <<>>
    /\ UNCHANGED vars

(* An empty list: try the next order; none left is BUG_MSG.                 *)
AllocScan ==
    /\ pc = "scan"
    /\ free_list[order] = <<>>
    /\ order' = order + 1
    /\ pc' = IF order + 1 <= MAX_ORDER - 1 THEN "scan" ELSE "bug"
    /\ UNCHANGED <<free_list, map, free_page_count, held, boot_idx, blk, want>>

(* Wrong on purpose: mark_used is forgotten.                              *)
AllocTake_unmarked ==
    /\ pc = "scan"
    /\ free_list[order] # <<>>
    /\ blk' = Head(free_list[order])
    /\ free_list' = [free_list EXCEPT ![order] = Tail(@)]
    /\ free_page_count' = free_page_count - Pow2(want)
    /\ pc' = "expand"
    /\ UNCHANGED <<map, held, boot_idx, order, want>>

(* Wrong on purpose: the count drops by the block that is taken and not   *)
(* by the one that is returned.                                           *)
AllocTake_counts_all ==
    /\ pc = "scan"
    /\ free_list[order] # <<>>
    /\ blk' = Head(free_list[order])
    /\ free_list' = [free_list EXCEPT ![order] = Tail(@)]
    /\ map' = IF order # MAX_ORDER - 1
              THEN change_bit(order, ParentOf(Head(free_list[order])))
              ELSE map
    /\ free_page_count' = free_page_count - Pow2(order)
    /\ pc' = "expand"
    /\ UNCHANGED <<held, boot_idx, order, want>>

(* Wrong on purpose: list_remove is forgotten.                            *)
AllocTake_stays_listed ==
    /\ pc = "scan"
    /\ free_list[order] # <<>>
    /\ blk' = Head(free_list[order])
    /\ map' = IF order # MAX_ORDER - 1
              THEN change_bit(order, ParentOf(Head(free_list[order])))
              ELSE map
    /\ free_page_count' = free_page_count - Pow2(want)
    /\ pc' = "expand"
    /\ UNCHANGED <<free_list, held, boot_idx, order, want>>

(* Take the head of the list, flip its bit unless it is of the top order.   *)
AllocTake ==
    /\ pc = "scan"
    /\ free_list[order] # <<>>
    /\ blk' = Head(free_list[order])
    /\ free_list' = [free_list EXCEPT ![order] = Tail(@)]
    /\ map' = IF order # MAX_ORDER - 1
              THEN change_bit(order, ParentOf(Head(free_list[order])))
              ELSE map
    /\ free_page_count' = free_page_count - Pow2(want)
    /\ pc' = "expand"
    /\ UNCHANGED <<held, boot_idx, order, want>>

(* Wrong on purpose: page += size is forgotten.                           *)
Expand_lower_half ==
    /\ pc = "expand"
    /\ order > want
    /\ free_list' = InsertAfter(order - 1, 2 * blk)
    /\ map' = change_bit(order - 1, blk)
    /\ order' = order - 1
    /\ blk' = 2 * blk
    /\ UNCHANGED <<free_page_count, held, boot_idx, pc, want>>

(* Wrong on purpose: the lower half goes on no list.                      *)
Expand_drops_half ==
    /\ pc = "expand"
    /\ order > want
    /\ map' = change_bit(order - 1, blk)
    /\ order' = order - 1
    /\ blk' = 2 * blk + 1
    /\ UNCHANGED <<free_list, free_page_count, held, boot_idx, pc, want>>

(* One turn of expand: the lower half goes to the list of the order below,  *)
(* the upper half is split further.                                         *)
Expand ==
    /\ pc = "expand"
    /\ order > want
    /\ free_list' = InsertAfter(order - 1, 2 * blk)
    /\ map' = change_bit(order - 1, blk)
    /\ order' = order - 1
    /\ blk' = 2 * blk + 1
    /\ UNCHANGED <<free_page_count, held, boot_idx, pc, want>>

AllocReturn ==
    /\ pc = "expand"
    /\ order = want
    /\ held' = held \cup {<<order, blk>>}
    /\ pc' = "ready"
    /\ order' = 0
    /\ blk' = 0
    /\ want' = 0
    /\ UNCHANGED <<free_list, map, free_page_count, boot_idx>>

(* BUG(): while(1).                                                         *)
BugLoop ==
    /\ pc = "bug"
    /\ UNCHANGED vars

(* The steps of a call in progress.                                         *)
Step ==
    \/ FreeMerge
    \/ FreeInsert
    \/ AllocScan
    \/ AllocTake
    \/ Expand
    \/ AllocReturn

Next ==
    \/ BootFree
    \/ FreeCall
    \/ AllocCall
    \/ Step
    \/ BugLoop

Spec == Init /\ [][Next]_vars

(* The processor goes on with the call it is in.                            *)
FairSpec == Spec /\ WF_vars(Step)

(***************************************************************************)
(* Blocks                                                                  *)
(***************************************************************************)
IsFree(k, n) == n \in Range(free_list[k])
IsHeld(k, n) == <<k, n>> \in held
InFlight(k, n) == pc \in {"free", "expand"} /\ order = k /\ blk = n
Occupied(k, n) == IsFree(k, n) \/ IsHeld(k, n) \/ InFlight(k, n)

(* Per order, the pages in the blocks on its list.                          *)
ListedPages == [k \in Orders |-> Pow2(k) * Len(free_list[k])]

(* The pages given to the allocator so far.                                 *)
Managed(p) == FIRST_PAGE <= p /\ p < boot_idx

(***************************************************************************)
(* Properties                                                              *)
(***************************************************************************)

(* The variables stay in their domains: in particular every list and map   *)
(* that is touched belongs to an order that exists.                        *)
TypeOK ==
    /\ free_list \in [Orders -> Seq(Nat)]
    /\ map \in [Orders -> SUBSET Nat]
    /\ free_page_count \in Int
    /\ held \subseteq Orders \X Nat
    /\ boot_idx \in FIRST_PAGE .. PAGE_CNT
    /\ pc \in {"ready", "free", "scan", "expand", "bug", "wild"}
    /\ order \in 0 .. MAX_ORDER
    /\ order = MAX_ORDER => pc = "bug"
    /\ blk \in Nat
    /\ want \in 0 .. order
    /\ pc \in {"ready", "free"} => want = 0

(* No page lies in two blocks: at most one order's block around a page is  *)
(* on a list, with a caller or in the hands of the current call, and it is *)
(* in only one of the three places and only once on its list.  Two callers *)
(* of alloc_pages never share a page.                                      *)
NoOverlap ==
    /\ \A p \in Pages : \A j, k \in Orders :
          Occupied(j, Shr(p, j)) /\ Occupied(k, Shr(p, k)) => j = k
    /\ \A k \in Orders : \A n \in Pages :
          /\ ~(IsFree(k, n) /\ IsHeld(k, n))
          /\ ~(IsFree(k, n) /\ InFlight(k, n))
          /\ ~(IsHeld(k, n) /\ InFlight(k, n))
    /\ \A k \in Orders : IsInjective(free_list[k])

(* No page is lost and none is invented: the pages in the blocks are those *)
(* the boot loop has given, in every state of every call, and no block     *)
(* reaches below the kernel's own pages or beyond the end of memory.       *)
NoPageLost ==
    /\ \A p \in Pages : (\E k \in Orders : Occupied(k, Shr(p, k))) <=> Managed(p)
    /\ \A k \in Orders : \A n \in Range(free_list[k]) \cup {b[2] : b \in held} :
          Occupied(k, n) => \A p \in PagesOf(k, n) : Managed(p)

(* The bit of a pair is set exactly when one of the two is free; both are  *)
(* never free at once, so merging always went as far as it could.          *)
BitmapExact ==
    \A k \in Orders : k < MAX_ORDER - 1 =>
        \A b \in Pages :
            /\ ~(IsFree(k, 2 * b) /\ IsFree(k, 2 * b + 1))
            /\ b \in map[k] <=> IsFree(k, 2 * b) \/ IsFree(k, 2 * b + 1)

(* Every bit set lies in the bytes buddy_system_init gave to its map, so   *)
(* no map runs into the next one or into mem_map.                          *)
BitmapInBounds ==
    \A k \in Orders : \A b \in map[k] : b \div 8 < bitmap_size(k)

(* Between calls free_page_count is the number of pages on the lists.      *)
CountExact == pc = "ready" => free_page_count = SumFunction(ListedPages)

(* The kernel stops with "memory alloc failed" only when no aligned block  *)
(* of the order asked for is free, however the frees and allocations       *)
(* before have cut the memory up.                                          *)
BugOnlyWhenFull ==
    pc = "bug" /\ order = MAX_ORDER =>
        \A n \in Pages :
            \E p \in PagesOf(want, n) :
                \A k \in Orders : ~IsFree(k, Shr(p, k))

(* Every call of the allocator returns or ends in BUG().                   *)
CallEnds == pc \in {"free", "scan", "expand"} ~> pc \in {"ready", "bug"}

(***************************************************************************)
(* The abstract allocator: pages in flight count as free until they are    *)
(* returned.                                                               *)
(***************************************************************************)
FreePages ==
    {p \in Pages :
        \E k \in Orders : IsFree(k, Shr(p, k)) \/ InFlight(k, Shr(p, k))}

Abstract == INSTANCE PageAllocator WITH
    free_pages <- FreePages,
    halted <- (pc = "bug")

Implements == Abstract!Spec
=============================================================================
