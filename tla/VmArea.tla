------------------------------- MODULE VmArea -------------------------------
(***************************************************************************)
(* The address space of a process, kernel/mm_vm.c: the list of vm areas    *)
(* and the page directory and page tables behind it.  do_vm_alloc places   *)
(* an area and maps it page by page; vm_free_area unmaps an area and gives *)
(* back a page table that has become empty.  The entry of the directory is *)
(* never cleared.  Physical pages are interchangeable: of the allocator it *)
(* matters only that a page it returns is not in use.                      *)
(***************************************************************************)
EXTENDS Integers, Sequences, SequencesExt, FiniteSets, FiniteSetsExt

CONSTANTS
    PAGES,          \* physical pages
    NONE,
    PAGE_SIZE,      \* 4096: more than one byte
    TABLE_ENTRIES,  \* PAGE_TABLE_ENTRY_CNT
    DIR_ENTRIES,    \* bound: entries of the page directory that are used
    REQUESTS,       \* <<start, size>> of the calls of do_vm_alloc
    MAX_AREAS,      \* bound: areas at a time
    BITS_BEHIND     \* present bits found in the memory behind a page table

ASSUME VmAssumption ==
    /\ PAGE_SIZE \in Nat \ {0, 1} /\ TABLE_ENTRIES \in Nat \ {0} /\ DIR_ENTRIES \in Nat
    /\ NONE \notin PAGES
    \* An area of one byte may turn no loop, or all to the end of memory.
    /\ REQUESTS \subseteq Nat \X (Nat \ {0, 1})
    /\ BITS_BEHIND \subseteq BOOLEAN

VARIABLES
    vm_area_list,   \* the areas in list order
    page_dir,       \* per entry the page of its table, or NONE
    stale,          \* entries whose table has been given back
    entries,        \* per page that is a table, its entries
    allocated,      \* pages taken from the allocator and not given back
    pc,             \* "idle", "map", "unmap", "unmap_table", or stopped:
                    \* "bug", "corrupt", "gone"
    vma,            \* the area being mapped or unmapped
    pd_idx, pt_idx

vars == <<vm_area_list, page_dir, stale, entries, allocated, pc, vma, pd_idx, pt_idx>>

Empty == [i \in 0 .. TABLE_ENTRIES - 1 |-> NONE]
NoArea == [start |-> 0, end |-> 0]

Init ==
    /\ vm_area_list = <<>>
    /\ page_dir = [d \in 0 .. DIR_ENTRIES - 1 |-> NONE]
    /\ stale = {}
    /\ entries = [p \in PAGES |-> Empty]
    /\ allocated = {}
    /\ pc = "idle"
    /\ vma = NoArea
    /\ pd_idx = 0
    /\ pt_idx = 0

(***************************************************************************)
(* Placing an area.  The area goes where it was asked for if it touches no *)
(* other there, otherwise into the first gap from address 0 on.            *)
(***************************************************************************)
(* Wrong on purpose: the end of the area is not compared.                 *)
Fits_start_only(l, ustart, uend) ==
    {i \in 1 .. Len(l) + 1 :
        /\ i > 1 => ustart > l[i - 1].end
        /\ i <= Len(l) => ustart < l[i].start}

Fits(l, ustart, uend) ==
    {i \in 1 .. Len(l) + 1 :
        /\ i > 1 => ustart > l[i - 1].end
        /\ i <= Len(l) => uend < l[i].start}

EndBefore(l, i) == IF i = 1 THEN -1 ELSE l[i - 1].end

insert_free_vma(l, size) ==
    LET wide == {i \in 1 .. Len(l) : l[i].start - EndBefore(l, i) > size}
        i    == IF wide = {} THEN Len(l) + 1 ELSE Min(wide)
    IN  InsertAt(l, i, [start |-> EndBefore(l, i) + 1, end |-> EndBefore(l, i) + size])

Place(l, start, size) ==
    LET uend == start + size - 1
        fits == Fits(l, start, uend)
    IN  IF fits # {}
        THEN InsertAt(l, Min(fits), [start |-> start, end |-> uend])
        ELSE insert_free_vma(l, size)

(***************************************************************************)
(* The indices of map_vm_area and unmap_vm_area.  The last byte counts     *)
(* only up to the page boundary at or below it when it is the first byte   *)
(* of a page.                                                              *)
(***************************************************************************)
PageOf(a) == a \div PAGE_SIZE
LastPage(a) == PageOf(a.end + PAGE_SIZE - 1) - 1
pd_idx_end(a) == LastPage(a) \div TABLE_ENTRIES
pt_idx_end(a) ==
    (LastPage(a) % TABLE_ENTRIES)
      + (pd_idx_end(a) - PageOf(a.start) \div TABLE_ENTRIES) * TABLE_ENTRIES

StartAt(a) ==
    /\ vma' = a
    /\ pd_idx' = PageOf(a.start) \div TABLE_ENTRIES
    /\ pt_idx' = PageOf(a.start) % TABLE_ENTRIES

Finish ==
    /\ pc' = "idle"
    /\ vma' = NoArea
    /\ pd_idx' = 0
    /\ pt_idx' = 0

(* Wrong on purpose: one page too few.                                    *)
Continues_short ==
    (pt_idx + 1) % TABLE_ENTRIES # 0 /\ pt_idx + 1 < pt_idx_end(vma)

(* Wrong on purpose: the end of the area does not stop the loop.          *)
Continues_to_table_end == (pt_idx + 1) % TABLE_ENTRIES # 0

(* Whether the inner loop goes on after index pt_idx.                      *)
Continues ==
    (pt_idx + 1) % TABLE_ENTRIES # 0 /\ pt_idx + 1 <= pt_idx_end(vma)

(***************************************************************************)
(* do_vm_alloc                                                             *)
(***************************************************************************)
do_vm_alloc ==
    /\ pc = "idle"
    /\ Len(vm_area_list) < MAX_AREAS
    /\ \E r \in REQUESTS :
          LET l == Place(vm_area_list, r[1], r[2])
              a == CHOOSE b \in ToSet(l) : b \notin ToSet(vm_area_list)
          IN  /\ PageOf(a.end) < DIR_ENTRIES * TABLE_ENTRIES
              /\ vm_area_list' = l
              /\ pc' = "map"
              /\ StartAt(a)
    /\ UNCHANGED <<page_dir, stale, entries, allocated>>

(* alloc_page_zero                                                         *)
Take(p) ==
    /\ p \notin allocated
    /\ allocated' = allocated \cup {p}

MapTable ==
    /\ pc = "map"
    /\ page_dir[pd_idx] = NONE
    /\ \E p \in PAGES :
          /\ Take(p)
          /\ page_dir' = [page_dir EXCEPT ![pd_idx] = p]
          /\ entries' = [entries EXCEPT ![p] = Empty]
    /\ UNCHANGED <<vm_area_list, stale, pc, vma, pd_idx, pt_idx>>

(* The entry that is tested is not the one that is set: from the second    *)
(* table on it lies behind the table, in whatever page comes next.         *)
Present(t) ==
    IF pt_idx < TABLE_ENTRIES THEN {entries[t][pt_idx] # NONE} ELSE BITS_BEHIND

MapPage ==
    /\ pc = "map"
    /\ page_dir[pd_idx] # NONE
    /\ pd_idx \notin stale
    /\ LET t == page_dir[pd_idx]
       IN  \E present \in Present(t) :
             \/ /\ present
                /\ UNCHANGED <<entries, allocated>>
             \/ /\ ~present
                /\ \E p \in PAGES :
                      /\ Take(p)
                      /\ entries' = [entries EXCEPT ![t][pt_idx % TABLE_ENTRIES] = p]
    /\ IF Continues
       THEN pt_idx' = pt_idx + 1 /\ UNCHANGED <<pc, vma, pd_idx>>
       ELSE IF pd_idx + 1 <= pd_idx_end(vma)
       THEN pt_idx' = pt_idx + 1 /\ pd_idx' = pd_idx + 1 /\ UNCHANGED <<pc, vma>>
       ELSE Finish
    /\ UNCHANGED <<vm_area_list, page_dir, stale>>

(* alloc_pages has none left: BUG.                                         *)
OutOfPages ==
    /\ pc = "map"
    /\ allocated = PAGES
    /\ \/ page_dir[pd_idx] = NONE
       \/ /\ page_dir[pd_idx] # NONE /\ pd_idx \notin stale
          /\ FALSE \in Present(page_dir[pd_idx])
    /\ pc' = "bug"
    /\ UNCHANGED <<vm_area_list, page_dir, stale, entries, allocated, vma, pd_idx, pt_idx>>

(***************************************************************************)
(* vm_free_area; an address where no area starts is ignored.               *)
(***************************************************************************)
vm_free_area ==
    /\ pc = "idle"
    /\ \E a \in ToSet(vm_area_list) : StartAt(a)
    /\ pc' = "unmap"
    /\ UNCHANGED <<vm_area_list, page_dir, stale, entries, allocated>>

(* An empty entry stands for page 0: the kernel's own first page is given  *)
(* back, and the model stops.                                              *)
UnmapPage ==
    /\ pc = "unmap"
    /\ pd_idx \notin stale
    /\ LET t == page_dir[pd_idx]
           i == pt_idx % TABLE_ENTRIES
       IN  IF t = NONE \/ entries[t][i] = NONE
           THEN /\ pc' = "corrupt"
                /\ UNCHANGED <<entries, allocated, pt_idx>>
           ELSE /\ entries' = [entries EXCEPT ![t][i] = NONE]
                /\ allocated' = allocated \ {entries[t][i]}
                /\ pt_idx' = pt_idx + 1
                /\ pc' = IF Continues THEN "unmap" ELSE "unmap_table"
    /\ UNCHANGED <<vm_area_list, page_dir, stale, vma, pd_idx>>

(* Wrong on purpose: the table is given back although pages are mapped.   *)
UnusedTable_any(t) == TRUE

UnusedTable(t) == entries[t] = Empty

UnmapTable ==
    /\ pc = "unmap_table"
    /\ IF UnusedTable(page_dir[pd_idx])
       THEN /\ allocated' = allocated \ {page_dir[pd_idx]}
            /\ stale' = stale \cup {pd_idx}
       ELSE UNCHANGED <<allocated, stale>>
    /\ IF pd_idx + 1 <= pd_idx_end(vma)
       THEN /\ pd_idx' = pd_idx + 1
            /\ pc' = "unmap"
            /\ UNCHANGED <<vm_area_list, vma, pt_idx>>
       ELSE /\ vm_area_list' = RemoveFirst(vm_area_list, vma)
            /\ Finish
    /\ UNCHANGED <<page_dir, entries>>

(* A table that has been given back belongs to somebody else: what is read *)
(* from it cannot be followed.                                             *)
StaleTable ==
    /\ pc \in {"map", "unmap"}
    /\ pd_idx \in stale
    /\ pc' = "corrupt"
    /\ UNCHANGED <<vm_area_list, page_dir, stale, entries, allocated, vma, pd_idx, pt_idx>>

(* do_vm_free empties the list first and then finds nothing to free; the   *)
(* process ends.                                                           *)
do_vm_free ==
    /\ pc = "idle"
    /\ vm_area_list' = <<>>
    /\ pc' = "gone"
    /\ UNCHANGED <<page_dir, stale, entries, allocated, vma, pd_idx, pt_idx>>

Stopped ==
    /\ pc \in {"bug", "corrupt", "gone"}
    /\ UNCHANGED vars

Next ==
    \/ do_vm_alloc
    \/ MapTable
    \/ MapPage
    \/ OutOfPages
    \/ vm_free_area
    \/ UnmapPage
    \/ UnmapTable
    \/ StaleTable
    \/ do_vm_free
    \/ Stopped

Spec == Init /\ [][Next]_vars

(***************************************************************************)
(* Properties                                                              *)
(***************************************************************************)
Tables == {page_dir[d] : d \in DOMAIN page_dir \ stale} \ {NONE}
Slots == {s \in Tables \X (0 .. TABLE_ENTRIES - 1) : entries[s[1]][s[2]] # NONE}

(* The page of the process numbered n is mapped.                           *)
Mapped(n) ==
    LET d == n \div TABLE_ENTRIES
    IN  /\ page_dir[d] # NONE /\ d \notin stale
        /\ entries[page_dir[d]][n % TABLE_ENTRIES] # NONE

AreaPages(a) == PageOf(a.start) .. PageOf(a.end)
UserPages == 0 .. DIR_ENTRIES * TABLE_ENTRIES - 1

TypeOK ==
    /\ vm_area_list \in Seq([start : Nat, end : Nat])
    /\ page_dir \in [0 .. DIR_ENTRIES - 1 -> PAGES \cup {NONE}]
    /\ stale \subseteq DOMAIN page_dir
    /\ entries \in [PAGES -> [0 .. TABLE_ENTRIES - 1 -> PAGES \cup {NONE}]]
    /\ allocated \subseteq PAGES
    /\ pc \in {"idle", "map", "unmap", "unmap_table", "bug", "corrupt", "gone"}
    /\ pc \in {"map", "unmap"} => pd_idx \in 0 .. pd_idx_end(vma)
    /\ pc \in {"map", "unmap"} => pt_idx \in 0 .. pt_idx_end(vma)

(* The areas are in the order of their addresses and share no byte, where  *)
(* a caller's address was taken as well as where a gap was searched.       *)
AreasSorted ==
    \A i \in DOMAIN vm_area_list :
        /\ vm_area_list[i].start <= vm_area_list[i].end
        /\ i > 1 => vm_area_list[i - 1].end < vm_area_list[i].start

(* Between calls exactly the pages of the areas are mapped.                *)
MappedExact ==
    pc = "idle" =>
        \A n \in UserPages :
            Mapped(n) <=> \E a \in ToSet(vm_area_list) : n \in AreaPages(a)

(* Every page taken from the allocator is one table or mapped once, and    *)
(* every page in the tables is still the process's: none is lost, shared   *)
(* or used after it was given back.                                        *)
PagesAccounted ==
    /\ allocated = Tables \cup {entries[s[1]][s[2]] : s \in Slots}
    /\ Cardinality(allocated) =
          Cardinality({d \in DOMAIN page_dir \ stale : page_dir[d] # NONE})
            + Cardinality(Slots)
=============================================================================
