------------------------------ MODULE Kmalloc ------------------------------
(***************************************************************************)
(* kmalloc and kfree of kernel/mm_alloc.c on top of the page allocator's   *)
(* promise.  A malloc node is a block of pages with a header, a list of    *)
(* free areas and a list of used areas; both lists live in the block.      *)
(* Offsets and sizes are bytes, as in the code; only PAGE_SIZE is small.   *)
(***************************************************************************)
EXTENDS PageArith, Sequences, SequencesExt, FiniteSetsExt

CONSTANTS
    MAX_ORDER, PAGE_CNT, FIRST_PAGE,    \* the page allocator's
    PAGE_SIZE,
    SIZES,          \* sizes the callers ask for
    MAX_LIVE,       \* bound: allocations the callers hold at a time
    LOW_MAPPED      \* address 4 can be written (before the first process runs)

SIZEOF_MALLOC_NODE == 16
SIZEOF_MAREA == 8

(* A page has room for a node and an area.                                 *)
ASSUME KmallocAssumption ==
    /\ PAGE_SIZE \in Nat /\ PAGE_SIZE >= SIZEOF_MALLOC_NODE + SIZEOF_MAREA
    /\ MAX_ORDER \in 1 .. 11
    /\ {PAGE_CNT, FIRST_PAGE} \subseteq Nat
    /\ SIZES \subseteq Nat
    /\ LOW_MAPPED \in BOOLEAN

VARIABLES
    free_pages, held, boot_idx, halted, \* the page allocator
    malloc_list,    \* the nodes, head first
    live,           \* what the callers hold: address and size asked for
    pc,             \* "init", "ready", "kmalloc", or stopped: "bug", "panic"
    size            \* the size of the kmalloc call in progress

page_vars == <<free_pages, held, boot_idx, halted>>
vars == <<page_vars, malloc_list, live, pc, size>>

Pages == INSTANCE PageAllocator

(***************************************************************************)
(* Nodes and areas                                                         *)
(***************************************************************************)
NodeBytes(nd) == PAGE_SIZE * Pow2(nd.order)
NodeAddr(nd) == nd.blk * NodeBytes(nd)

(* The address kmalloc returns for area ma of node nd.                     *)
Pointer(nd, ma) == NodeAddr(nd) + ma.at + SIZEOF_MAREA

End(ma) == ma.at + ma.size

NewNode(k, n) ==
    [order |-> k,
     blk   |-> n,
     free  |-> <<[at   |-> SIZEOF_MALLOC_NODE,
                  size |-> PAGE_SIZE * Pow2(k) - SIZEOF_MALLOC_NODE]>>,
     used  |-> <<>>]

(***************************************************************************)
(* kmalloc                                                                 *)
(***************************************************************************)
order_of(s) == s \div PAGE_SIZE
real_size(s) == LONG_ALIGN(s + SIZEOF_MAREA)

(* Wrong on purpose: the header of the area is not counted.               *)
Fitting_without_header(nd, s) == {j \in DOMAIN nd.free : nd.free[j].size >= s}

(* The free areas of a node, and the nodes, that serve a request.          *)
Fitting(nd, s) == {j \in DOMAIN nd.free : nd.free[j].size >= real_size(s)}
Serving(s) ==
    {i \in DOMAIN malloc_list :
        malloc_list[i].order >= order_of(s) /\ Fitting(malloc_list[i], s) # {}}

(* Wrong on purpose: any rest becomes an area.                            *)
Take_any_rest(nd, j, s) ==
    LET ma == nd.free[j]
        nma == [at |-> ma.at + real_size(s), size |-> ma.size - real_size(s) - 8]
    IN  [nd EXCEPT
           !.used = Cons([at |-> ma.at, size |-> real_size(s)], @),
           !.free = [@ EXCEPT ![j] = nma]]

(* Area j of nd becomes used.  A rest too small for an area ends the list  *)
(* of free areas there: what was behind it is forgotten.                   *)
Take(nd, j, s) ==
    LET ma   == nd.free[j]
        rest == ma.size - real_size(s)
        nma  == [at |-> ma.at + real_size(s), size |-> rest]
    IN  [nd EXCEPT
           !.used = Cons([at |-> ma.at, size |-> real_size(s)], @),
           !.free = IF rest > SIZEOF_MAREA
                    THEN [@ EXCEPT ![j] = nma]
                    ELSE SubSeq(@, 1, j - 1)]

Init ==
    /\ free_pages = FIRST_PAGE .. PAGE_CNT - 1
    /\ held = {}
    /\ boot_idx = PAGE_CNT
    /\ halted = FALSE
    /\ malloc_list = <<>>
    /\ live = {}
    /\ pc = "init"
    /\ size = 0

kmalloc_init ==
    /\ pc = "init"
    /\ \E n \in 0 .. PAGE_CNT - 1 :
          /\ Pages!Alloc(0, n)
          /\ malloc_list' = <<NewNode(0, n)>>
    /\ pc' = "ready"
    /\ UNCHANGED <<live, size>>

KmallocCall ==
    /\ pc = "ready"
    /\ Cardinality(live) < MAX_LIVE
    /\ size' \in SIZES
    /\ pc' = IF malloc_list = <<>> THEN "bug" ELSE "kmalloc"
    /\ UNCHANGED <<page_vars, malloc_list, live>>

(* The first fitting area of the first node that has one.                  *)
KmallocTake ==
    /\ pc = "kmalloc"
    /\ Serving(size) # {}
    /\ LET i == Min(Serving(size))
           j == Min(Fitting(malloc_list[i], size))
       IN  /\ malloc_list' = [malloc_list EXCEPT ![i] = Take(@, j, size)]
           /\ live' = live \cup
                 {[p |-> Pointer(malloc_list[i], malloc_list[i].free[j]), size |-> size]}
    /\ pc' = "ready"
    /\ size' = 0
    /\ UNCHANGED page_vars

(* Wrong on purpose: the new node replaces the list.                      *)
KmallocGrow_drops_list ==
    /\ pc = "kmalloc"
    /\ Serving(size) = {}
    /\ \/ /\ \E n \in 0 .. PAGE_CNT - 1 :
                /\ Pages!Alloc(order_of(size), n)
                /\ malloc_list' = <<NewNode(order_of(size), n)>>
          /\ UNCHANGED pc
       \/ /\ Pages!Halt(order_of(size))
          /\ pc' = "bug"
          /\ UNCHANGED malloc_list
    /\ UNCHANGED <<live, size>>

(* Wrong on purpose: without pages the call goes on retrying.             *)
KmallocGrow_retries ==
    /\ pc = "kmalloc"
    /\ Serving(size) = {}
    /\ \/ \E n \in 0 .. PAGE_CNT - 1 :
             /\ Pages!Alloc(order_of(size), n)
             /\ malloc_list' = Cons(NewNode(order_of(size), n), malloc_list)
       \/ /\ ~Pages!SomeAvailable(order_of(size))
          /\ UNCHANGED <<page_vars, malloc_list>>
    /\ UNCHANGED <<pc, live, size>>

(* No node serves the request: add one in front and retry.                 *)
KmallocGrow ==
    /\ pc = "kmalloc"
    /\ Serving(size) = {}
    /\ \/ /\ \E n \in 0 .. PAGE_CNT - 1 :
                /\ Pages!Alloc(order_of(size), n)
                /\ malloc_list' = Cons(NewNode(order_of(size), n), malloc_list)
          /\ UNCHANGED pc
       \/ /\ Pages!Halt(order_of(size))
          /\ pc' = "bug"
          /\ UNCHANGED malloc_list
    /\ UNCHANGED <<live, size>>

(***************************************************************************)
(* kfree                                                                   *)
(***************************************************************************)

(* Where the search in the free list of nd stops for ma: the first area    *)
(* behind it, or NULL, which counts as one more.                           *)
Stop(nd, ma) ==
    Min({j \in 1 .. Len(nd.free) + 1 : j <= Len(nd.free) => nd.free[j].at > ma.at})

TouchesLast(nd, ma) ==
    Stop(nd, ma) > 1 /\ End(nd.free[Stop(nd, ma) - 1]) = ma.at
TouchesNext(nd, ma) ==
    Stop(nd, ma) <= Len(nd.free) /\ End(ma) = nd.free[Stop(nd, ma)].at

(* Wrong on purpose: no area is merged with its neighbours.               *)
FreeList_unmerged(nd, ma) ==
    LET j == Stop(nd, ma)
    IN  SubSeq(nd.free, 1, j - 1) \o <<ma>> \o SubSeq(nd.free, j, Len(nd.free))

(* ma, merged with the area in front of it and with the one behind it      *)
(* where they touch                                                        *)
Merged(nd, ma) ==
    LET j      == Stop(nd, ma)
        front  == IF TouchesLast(nd, ma) THEN nd.free[j - 1].size ELSE 0
        behind == IF TouchesNext(nd, ma) THEN nd.free[j].size ELSE 0
    IN  [at   |-> IF TouchesLast(nd, ma) THEN nd.free[j - 1].at ELSE ma.at,
         size |-> front + ma.size + behind]

(* The free list when ma is freed.  An area with areas in front of it that *)
(* touches neither neighbour is put on no list.                            *)
FreeList(nd, ma) ==
    LET j     == Stop(nd, ma)
        front == IF TouchesLast(nd, ma) THEN j - 2 ELSE j - 1
        rest  == IF TouchesNext(nd, ma) THEN j + 1 ELSE j
    IN  IF j = 1 \/ TouchesLast(nd, ma) \/ TouchesNext(nd, ma)
        THEN SubSeq(nd.free, 1, front) \o <<Merged(nd, ma)>>
                \o SubSeq(nd.free, rest, Len(nd.free))
        ELSE nd.free

(* mb_last->next = ma with mb_last == NULL: a write to address 4.          *)
WritesNull(nd, ma) == Stop(nd, ma) = 1 /\ TouchesNext(nd, ma)

FreeArea(nd, j) ==
    [nd EXCEPT !.used = RemoveAt(@, j), !.free = FreeList(nd, nd.used[j])]

(* Wrong on purpose: the node is given back when it starts with a free    *)
(* area.                                                                  *)
Recyclable_if_starts_free(i, nd) ==
    i > 1 /\ Head(nd.free).at = SIZEOF_MALLOC_NODE

(* A node other than the first whose first free area is all of it.         *)
Recyclable(i, nd) ==
    i > 1 /\ Head(nd.free).size + SIZEOF_MALLOC_NODE = NodeBytes(nd)

kfree(p) ==
    /\ pc = "ready"
    /\ \E i \in DOMAIN malloc_list : \E j \in DOMAIN malloc_list[i].used :
          LET nd == FreeArea(malloc_list[i], j)
          IN  /\ Pointer(malloc_list[i], malloc_list[i].used[j]) = p
              /\ IF WritesNull(malloc_list[i], malloc_list[i].used[j]) /\ ~LOW_MAPPED
                 THEN /\ pc' = "panic"
                      /\ malloc_list' = [malloc_list EXCEPT ![i] = nd]
                      /\ UNCHANGED page_vars
                 ELSE /\ UNCHANGED pc
                      /\ IF Recyclable(i, nd)
                         THEN /\ malloc_list' = RemoveAt(malloc_list, i)
                              /\ Pages!Free(nd.order, nd.blk)
                         ELSE /\ malloc_list' = [malloc_list EXCEPT ![i] = nd]
                              /\ UNCHANGED page_vars
    /\ live' = {a \in live : a.p # p}
    /\ UNCHANGED size

Kfree == \E a \in live : kfree(a.p)

(* An address no used area has, such as that of a static array.            *)
KfreeIllegal ==
    /\ pc = "ready"
    /\ pc' = "bug"
    /\ UNCHANGED <<page_vars, malloc_list, live, size>>

(* BUG() and panic() loop for ever.                                        *)
Stopped ==
    /\ pc \in {"bug", "panic"}
    /\ UNCHANGED vars

Next ==
    \/ kmalloc_init
    \/ KmallocCall
    \/ KmallocTake
    \/ KmallocGrow
    \/ Kfree
    \/ KfreeIllegal
    \/ Stopped

Spec == Init /\ [][Next]_vars

(* The processor goes on with the kmalloc it is in.                        *)
FairSpec == Spec /\ WF_vars(KmallocTake \/ KmallocGrow)

(***************************************************************************)
(* Properties                                                              *)
(***************************************************************************)
Nodes == Range(malloc_list)
Areas(nd) == Range(nd.free) \cup Range(nd.used)

Area == [at : Nat, size : Nat]

TypeOK ==
    /\ malloc_list \in Seq([order : Nat, blk : Nat, free : Seq(Area), used : Seq(Area)])
    /\ live \subseteq [p : Nat, size : SIZES]
    /\ pc \in {"init", "ready", "kmalloc", "bug", "panic"}
    /\ size \in SIZES \cup {0}

(* The areas of a node, free and used, lie behind its header, inside its   *)
(* pages, each has room for its own header, and no two overlap, whatever    *)
(* was split, merged and forgotten before.                                 *)
AreasDisjoint ==
    \A nd \in Nodes :
        /\ \A ma \in Areas(nd) :
              /\ ma.at >= SIZEOF_MALLOC_NODE
              /\ ma.size >= SIZEOF_MAREA
              /\ End(ma) <= NodeBytes(nd)
        /\ \A ma, mb \in Areas(nd) : ma # mb => End(ma) <= mb.at \/ End(mb) <= ma.at
        /\ Len(nd.free) + Len(nd.used) = Cardinality(Areas(nd))

(* What a caller holds stays a used area of a node, with room for the size *)
(* it asked for, in pages the page allocator has given to kmalloc: neither *)
(* a later kmalloc nor the recycling of pages in kfree takes it away.  And *)
(* it is the caller's alone: no two callers hold a byte together.          *)
LiveKept ==
    /\ \A a \in live : \E nd \in Nodes :
          /\ <<nd.order, nd.blk>> \in held
          /\ \E ma \in Range(nd.used) :
                Pointer(nd, ma) = a.p /\ ma.size >= a.size + SIZEOF_MAREA
    /\ \A a, b \in live : a # b => a.p + a.size <= b.p \/ b.p + b.size <= a.p

(* The pages kmalloc was given and those of its nodes are the same: every  *)
(* block is recycled when its node goes and no node uses a recycled block. *)
NodesOwnBlocks ==
    /\ held = {<<nd.order, nd.blk>> : nd \in Nodes}
    /\ Cardinality(held) = Len(malloc_list)

(* The search of kfree stops at the first free area behind the one it      *)
(* frees: it relies on the list being in the order of addresses, and on    *)
(* neighbours having been merged.                                          *)
FreeListOrdered ==
    \A nd \in Nodes : \A i \in 1 .. Len(nd.free) - 1 :
        End(nd.free[i]) < nd.free[i + 1].at

(* A call of kmalloc ends: its retries find an area or use up the pages.   *)
KmallocEnds == pc = "kmalloc" ~> pc \in {"ready", "bug"}

(* "move it to the free_area_list": the bytes of a freed area are in a     *)
(* free area afterwards, or its node is gone.                              *)
FreedAreaIsFree ==
    [][\A nd \in Nodes, nd2 \in Range(malloc_list') :
          nd.blk = nd2.blk /\ nd.order = nd2.order =>
            \A ma \in Range(nd.used) \ Range(nd2.used) :
                \E mb \in Range(nd2.free) : mb.at <= ma.at /\ End(ma) <= End(mb)
      ]_vars

(* "if it is adjacent to the previous node or the next, merge them": the   *)
(* merging does not write through a null pointer.                          *)
MergeDoesNotFault == pc # "panic"
=============================================================================
