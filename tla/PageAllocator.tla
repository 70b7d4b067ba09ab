--------------------------- MODULE PageAllocator ---------------------------
(***************************************************************************)
(* What kernel/mm.c promises to the rest of the kernel: pages are handed   *)
(* out in aligned blocks of a power of two, no page is handed out twice,   *)
(* a freed block can be handed out again in any shape, and the kernel      *)
(* stops for lack of memory only when no free aligned block of the order   *)
(* exists.  Nothing is said of free lists or bitmaps: Buddy implements     *)
(* this module, and the clients of the page allocator are modelled on it.  *)
(***************************************************************************)
EXTENDS PageArith

CONSTANTS
    MAX_ORDER,      \* number of block orders
    PAGE_CNT,       \* number of physical pages
    FIRST_PAGE      \* first page behind the kernel image and the page structs

VARIABLES
    free_pages,     \* pages no caller holds
    held,           \* blocks <<order, number>> the callers hold
    boot_idx,       \* next page the boot loop gives to the allocator
    halted          \* the kernel is in the endless loop of BUG()

vars == <<free_pages, held, boot_idx, halted>>

Orders == 0 .. MAX_ORDER - 1

(* Every page of block n of order k is free.                               *)
Available(k, n) == PagesOf(k, n) \subseteq free_pages

SomeAvailable(k) ==
    \E n \in 0 .. PAGE_CNT - 1 : Available(k, n)

Init ==
    /\ free_pages = {}
    /\ held = {}
    /\ boot_idx = FIRST_PAGE
    /\ halted = FALSE

(* The loop at the end of buddy_system_init frees one page per turn.       *)
BootFree ==
    /\ ~halted
    /\ boot_idx < PAGE_CNT
    /\ free_pages' = free_pages \cup {boot_idx}
    /\ boot_idx' = boot_idx + 1
    /\ UNCHANGED <<held, halted>>

Alloc(k, n) ==
    /\ ~halted
    /\ boot_idx = PAGE_CNT
    /\ k \in Orders
    /\ Available(k, n)
    /\ free_pages' = free_pages \ PagesOf(k, n)
    /\ held' = held \cup {<<k, n>>}
    /\ UNCHANGED <<boot_idx, halted>>

Free(k, n) ==
    /\ ~halted
    /\ <<k, n>> \in held
    /\ held' = held \ {<<k, n>>}
    /\ free_pages' = free_pages \cup PagesOf(k, n)
    /\ UNCHANGED <<boot_idx, halted>>

(* BUG_MSG: allowed only when the request cannot be served.                *)
Halt(k) ==
    /\ ~halted
    /\ k \in Orders => ~SomeAvailable(k)
    /\ halted' = TRUE
    /\ UNCHANGED <<free_pages, held, boot_idx>>

Next ==
    \/ BootFree
    \/ \E k \in Orders, n \in 0 .. PAGE_CNT - 1 : Alloc(k, n) \/ Free(k, n)
    \/ \E k \in 0 .. MAX_ORDER + 1 : Halt(k)

Spec == Init /\ [][Next]_vars
=============================================================================
