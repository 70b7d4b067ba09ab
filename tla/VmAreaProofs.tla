---------------------------- MODULE VmAreaProofs ----------------------------
(***************************************************************************)
(* Theorems about the address space of a process.  The areas never         *)
(* overlap, whatever is asked for.  When whole pages are asked for, every  *)
(* page taken from the allocator is in use at one place of the tables; and *)
(* when no present bit lies behind a page table, exactly the pages of the  *)
(* areas are mapped between calls.                                         *)
(***************************************************************************)
EXTENDS VmArea, DataLemmas

(* What the arithmetic of pages and tables rests on.                       *)
LEMMA Sizes == PAGE_SIZE \in Nat \ {0} /\ TABLE_ENTRIES \in Nat \ {0}
  BY VmAssumption

(***************************************************************************)
(* The inductive invariant                                                 *)
(***************************************************************************)
Running == pc \in {"map", "unmap", "unmap_table"}

(* The number of the next page of the loop, counted from address 0.        *)
Base(a) == (PageOf(a.start) \div TABLE_ENTRIES) * TABLE_ENTRIES
Cur == Base(vma) + pt_idx
InRange(a) == PageOf(a.end) < DIR_ENTRIES * TABLE_ENTRIES

Areas == [start : Nat, end : Nat]
Sorted(l) == \A i, j \in 1 .. Len(l) : i < j => l[i].end < l[j].start

ListOK ==
    /\ vm_area_list \in Seq(Areas)
    /\ Sorted(vm_area_list)
    /\ \A a \in Range(vm_area_list) : a.start < a.end /\ InRange(a)

LoopOK ==
    /\ pc \in {"idle", "map", "unmap", "unmap_table", "bug", "corrupt", "gone"}
    /\ Running =>
          /\ vma \in Range(vm_area_list)
          /\ pt_idx \in Nat
          /\ PageOf(vma.start) <= Cur
    /\ pc \in {"map", "unmap"} => Cur <= LastPage(vma) /\ pd_idx = Cur \div TABLE_ENTRIES
    /\ pc = "unmap_table" =>
          /\ PageOf(vma.start) < Cur
          /\ Cur <= LastPage(vma) + 1
          /\ pd_idx = (Cur - 1) \div TABLE_ENTRIES
          /\ Cur % TABLE_ENTRIES = 0 \/ Cur = LastPage(vma) + 1

ListInv == ListOK /\ LoopOK

(***************************************************************************)
(* The page tables.                                                        *)
(***************************************************************************)
Live == {d \in DOMAIN page_dir \ stale : page_dir[d] # NONE}

TablesType ==
    /\ page_dir \in [0 .. DIR_ENTRIES - 1 -> PAGES \cup {NONE}]
    /\ stale \subseteq {d \in 0 .. DIR_ENTRIES - 1 : page_dir[d] # NONE}
    /\ entries \in [PAGES -> [0 .. TABLE_ENTRIES - 1 -> PAGES \cup {NONE}]]
    /\ allocated \subseteq PAGES
    /\ IsFiniteSet(allocated)

(* No page is used at two places.                                          *)
UsedOnce ==
    /\ \A d, e \in Live : page_dir[d] = page_dir[e] => d = e
    /\ \A s \in Slots : entries[s[1]][s[2]] \notin Tables
    /\ \A s, u \in Slots : entries[s[1]][s[2]] = entries[u[1]][u[2]] => s = u

TablesOK == TablesType /\ UsedOnce /\ PagesAccounted

(* Entry i of the table of directory entry d holds a page.                 *)
MappedAt(d, i) == d \in Live /\ entries[page_dir[d]][i] # NONE

(* The table that becomes empty is there.                                  *)
TableThere == pc = "unmap_table" => pd_idx \in Live

(* What is mapped is a page of an area, as far as the loop has come.       *)
Whole(a) == a.start % PAGE_SIZE = 0 /\ (a.end + 1) % PAGE_SIZE = 0
AllWhole == \A a \in Range(vm_area_list) : Whole(a)

Reached(a, n) ==
    /\ n \in AreaPages(a)
    /\ a = vma => /\ pc = "map" => n < Cur
                  /\ pc \in {"unmap", "unmap_table"} => Cur <= n
Due(n) == \E a \in Range(vm_area_list) : Reached(a, n)

Stepping == pc \in {"idle", "map", "unmap", "unmap_table"}
OnlyDue == Stepping => \A n \in UserPages : Mapped(n) => Due(n)
AllDue == Stepping => \A n \in UserPages : Due(n) => Mapped(n)

TablesInv == TablesOK /\ TableThere /\ AllWhole /\ OnlyDue

(* create_proc asks for whole pages only, proc.c:82 and proc.c:85.         *)
WholePages == \A r \in REQUESTS : r[1] % PAGE_SIZE = 0 /\ r[2] % PAGE_SIZE = 0
(* The memory behind a page table holds no present bit.                    *)
NothingBehind == BITS_BEHIND \subseteq {FALSE}

(***************************************************************************)
(* The pages of one area                                                   *)
(***************************************************************************)
(* The loop over an area begins at the page of its first byte and ends in   *)
(* a page of the area; its last index is the last page, counted from the    *)
(* first page of the table it begins in.                                    *)
LEMMA AreaFacts ==
    ASSUME NEW a \in Areas, a.start < a.end
    PROVE  /\ PageOf(a.start) \in Nat /\ LastPage(a) \in Nat /\ Base(a) \in Nat
           /\ PageOf(a.end) \in Nat
           /\ PageOf(a.start) <= LastPage(a) /\ LastPage(a) <= PageOf(a.end)
           /\ Base(a) + (PageOf(a.start) % TABLE_ENTRIES) = PageOf(a.start)
           /\ PageOf(a.start) % TABLE_ENTRIES \in 0 .. TABLE_ENTRIES - 1
           /\ PageOf(a.start) \div TABLE_ENTRIES \in Nat
           /\ pd_idx_end(a) = LastPage(a) \div TABLE_ENTRIES
           /\ pt_idx_end(a) = LastPage(a) - Base(a)
<1> DEFINE f == PageOf(a.start)
           g == PageOf(a.end)
           z == PageOf(a.end + PAGE_SIZE - 1)
           n == LastPage(a)
<1>1. /\ a.start \in Nat /\ a.end \in Nat /\ a.end + PAGE_SIZE - 1 \in Nat
      /\ PAGE_SIZE \in Nat \ {0} /\ TABLE_ENTRIES \in Nat \ {0}
  BY Sizes DEF Areas
<1>2. f \in Nat /\ g \in Nat /\ z \in Nat
  BY <1>1, DivNat DEF PageOf
<1>3. f + 1 <= z /\ z <= g + 1
  BY <1>1, DivSpan DEF PageOf
<1> HIDE DEF f, g, z
<1>4. n = z - 1
  BY DEF LastPage, z
<1> HIDE DEF n
<1>5. n \in Nat /\ f <= n /\ n <= g
  BY <1>2, <1>3, <1>4
<1>6. /\ Base(a) = (f \div TABLE_ENTRIES) * TABLE_ENTRIES
      /\ pd_idx_end(a) = n \div TABLE_ENTRIES
      /\ pt_idx_end(a)
           = (n % TABLE_ENTRIES)
               + ((n \div TABLE_ENTRIES) - (f \div TABLE_ENTRIES)) * TABLE_ENTRIES
  BY DEF Base, pd_idx_end, pt_idx_end, n, f
<1> DEFINE q == f \div TABLE_ENTRIES
<1>7. q \in Nat /\ q * TABLE_ENTRIES \in Nat
  BY <1>1, <1>2, DivNat
<1>8. /\ f % TABLE_ENTRIES = f - q * TABLE_ENTRIES
      /\ f % TABLE_ENTRIES \in 0 .. TABLE_ENTRIES - 1
  <2>1. f \in Int
    BY <1>2
  <2> QED
    BY <1>1, <2>1, DivBounds
<1>9. (n % TABLE_ENTRIES) + ((n \div TABLE_ENTRIES) - q) * TABLE_ENTRIES
        = n - q * TABLE_ENTRIES
  <2>1. n \in Int /\ q \in Int
    BY <1>5, <1>7
  <2> HIDE DEF q
  <2> QED
    BY <1>1, <2>1, DivFrom
<1> DEFINE b == q * TABLE_ENTRIES
<1>10. /\ b \in Nat
       /\ Base(a) = b
       /\ pt_idx_end(a) = n - b
       /\ b + (f % TABLE_ENTRIES) = f
  <2>1. b \in Nat /\ Base(a) = b /\ pt_idx_end(a) = n - b
    BY <1>6, <1>7, <1>9
  <2>2. f % TABLE_ENTRIES = f - b
    BY <1>8
  <2> HIDE DEF b, q
  <2> QED
    BY <1>2, <2>1, <2>2
<1> HIDE DEF b
<1> QED
  BY <1>2, <1>5, <1>6, <1>7, <1>8, <1>10 DEF f, g, n

(* The index in a table is that of the page.                                *)
LEMMA IndexFacts ==
    ASSUME NEW a \in Areas, a.start < a.end, NEW n \in Int
    PROVE  (Base(a) + n) % TABLE_ENTRIES = n % TABLE_ENTRIES
<1>1. TABLE_ENTRIES \in Nat \ {0} /\ PageOf(a.start) \div TABLE_ENTRIES \in Int
  BY AreaFacts, Sizes
<1> QED
  BY <1>1, DivShift DEF Base

(***************************************************************************)
(* The order of the areas                                                  *)
(***************************************************************************)
(* An area is placed behind the area before its place and in front of the  *)
(* area that was at its place; asked for whole pages, it is whole.         *)
Placed(l, m, e) ==
    /\ e.start < e.end
    /\ m > 1 => l[m - 1].end < e.start
    /\ m <= Len(l) => e.end < l[m].start

LEMMA PlaceFacts ==
    ASSUME NEW l \in Seq(Areas), NEW start \in Nat, NEW size \in Nat \ {0, 1}
    PROVE  \E m \in 1 .. Len(l) + 1, e \in Areas :
              /\ Place(l, start, size) = InsertAt(l, m, e)
              /\ Placed(l, m, e)
              /\ (start % PAGE_SIZE = 0 /\ size % PAGE_SIZE = 0 /\ \A a \in Range(l) : Whole(a))
                    => Whole(e)
<1>1. /\ Len(l) \in Nat /\ DOMAIN l = 1 .. Len(l)
      /\ \A i \in 1 .. Len(l) : /\ l[i] \in Areas /\ l[i] \in Range(l)
                                /\ l[i].start \in Nat /\ l[i].end \in Nat
  <2>1. /\ Len(l) \in Nat /\ DOMAIN l = 1 .. Len(l)
        /\ \A i \in 1 .. Len(l) : l[i] \in Areas
    BY LenProperties, ElementOfSeq
  <2> QED
    BY <2>1 DEF Range, Areas
<1> DEFINE uend == start + size - 1
           fits == Fits(l, start, uend)
<1>2. CASE fits # {}
  <2> DEFINE m == Min(fits)
             e == [start |-> start, end |-> uend]
  <2>1. fits \in SUBSET Nat
    BY DEF Fits
  <2>2. m \in fits
    <3> HIDE DEF fits
    <3> QED
      BY <1>2, <2>1, MinElement
  <2>3. /\ m \in 1 .. Len(l) + 1
        /\ m > 1 => start > l[m - 1].end
        /\ m <= Len(l) => uend < l[m].start
    BY <2>2 DEF Fits
  <2>4. Place(l, start, size) = InsertAt(l, m, e)
    BY <1>2 DEF Place
  <2>5. e \in Areas /\ e.start = start /\ e.end = uend
    BY DEF Areas
  <2>6. ASSUME start % PAGE_SIZE = 0, size % PAGE_SIZE = 0
        PROVE  Whole(e)
    <3>1. (start + size) % PAGE_SIZE = 0
      <4>1. start \in Int /\ size \in Int /\ PAGE_SIZE \in Nat \ {0}
        BY Sizes
      <4> QED
        BY <2>6, <4>1, ModSum
    <3>2. uend + 1 = start + size
      OBVIOUS
    <3> QED
      BY <2>5, <2>6, <3>1, <3>2 DEF Whole
  <2> HIDE DEF m, e
  <2>7. Placed(l, m, e)
    BY <1>1, <2>3, <2>5 DEF Placed
  <2> QED
    BY <2>3, <2>4, <2>5, <2>6, <2>7
<1>3. CASE fits = {}
  <2> DEFINE wide == {i \in 1 .. Len(l) : l[i].start - EndBefore(l, i) > size}
             m == IF wide = {} THEN Len(l) + 1 ELSE Min(wide)
             b == EndBefore(l, m)
             e == [start |-> b + 1, end |-> b + size]
  <2>1. m \in 1 .. Len(l) + 1 /\ (m <= Len(l) => l[m].start - b > size)
    <3>1. CASE wide = {}
      BY <1>1, <3>1
    <3>2. CASE wide # {}
      <4>1. wide \in SUBSET Nat
        OBVIOUS
      <4>2. Min(wide) \in wide
        <5> HIDE DEF wide
        <5> QED
          BY <3>2, <4>1, MinElement
      <4> QED
        BY <1>1, <3>2, <4>2
    <3> QED
      BY <3>1, <3>2
  <2>2. Place(l, start, size) = InsertAt(l, m, e)
    BY <1>3 DEF Place, insert_free_vma
  <2> HIDE DEF m, wide
  <2>3. /\ m = 1 => b = -1
        /\ m > 1 => b = l[m - 1].end /\ l[m - 1] \in Range(l) /\ b \in Nat
    <3>1. m > 1 => m - 1 \in 1 .. Len(l)
      BY <1>1, <2>1
    <3> QED
      BY <1>1, <2>1, <3>1 DEF EndBefore
  <2>4. b \in Int /\ b + 1 \in Nat
    BY <2>1, <2>3
  <2> HIDE DEF b
  <2>5. e \in Areas /\ e.start = b + 1 /\ e.end = b + size
    BY <2>4 DEF Areas
  <2> HIDE DEF e
  <2>6. Placed(l, m, e)
    BY <1>1, <2>1, <2>3, <2>4, <2>5 DEF Placed
  <2>7. ASSUME size % PAGE_SIZE = 0, \A a \in Range(l) : Whole(a)
        PROVE  Whole(e)
    <3>1. (b + 1) % PAGE_SIZE = 0
      <4>1. CASE m = 1
        <5>1. 0 % PAGE_SIZE = 0
          BY Sizes
        <5> QED
          BY <2>3, <4>1, <5>1
      <4>2. CASE m > 1
        BY <2>3, <2>7, <4>2 DEF Whole
      <4> QED
        BY <2>1, <4>1, <4>2
    <3>2. ((b + 1) + size) % PAGE_SIZE = 0
      <4>1. b + 1 \in Int /\ size \in Int /\ PAGE_SIZE \in Nat \ {0}
        BY <2>4, Sizes
      <4> QED
        BY <2>7, <3>1, <4>1, ModSum, ZenonT(30)
    <3>3. e.end + 1 = (b + 1) + size
      BY <2>4, <2>5
    <3> QED
      BY <2>5, <3>1, <3>2, <3>3 DEF Whole
  <2> QED
    BY <2>1, <2>2, <2>5, <2>6, <2>7
<1> QED
  BY <1>2, <1>3

(* The list stays in order, and the new area was not on it.                *)
LEMMA InsertSorted ==
    ASSUME NEW l \in Seq(Areas), Sorted(l), \A a \in Range(l) : a.start < a.end,
           NEW m \in 1 .. Len(l) + 1, NEW e \in Areas, Placed(l, m, e)
    PROVE  /\ InsertAt(l, m, e) \in Seq(Areas)
           /\ Sorted(InsertAt(l, m, e))
           /\ Range(InsertAt(l, m, e)) = Range(l) \cup {e}
           /\ e \notin Range(l)
<1> DEFINE t == InsertAt(l, m, e)
<1>1. /\ t \in Seq(Areas)
      /\ Len(t) = Len(l) + 1
      /\ Range(t) = Range(l) \cup {e}
      /\ \A i \in 1 .. Len(l) + 1 :
            t[i] = IF i < m THEN l[i] ELSE IF i = m THEN e ELSE l[i - 1]
  <2>1. l \in Seq(Areas) /\ m \in 1 .. Len(l) + 1 /\ e \in Areas
    OBVIOUS
  <2> HIDE DEF Areas
  <2> QED
    BY ONLY <2>1, InsertElements DEF t
<1> HIDE DEF t
<1>2. /\ Len(l) \in Nat /\ Range(l) = {l[i] : i \in 1 .. Len(l)}
      /\ e.start \in Nat /\ e.end \in Nat /\ e.start < e.end
      /\ \A i \in 1 .. Len(l) : /\ l[i].start \in Nat /\ l[i].end \in Nat
                                /\ l[i].start < l[i].end
  <2>1. /\ Len(l) \in Nat /\ Range(l) = {l[i] : i \in 1 .. Len(l)}
        /\ \A i \in 1 .. Len(l) : l[i] \in Areas
    BY LenProperties, RangeEquality, ElementOfSeq
  <2> QED
    BY <2>1 DEF Areas, Placed
<1>3. \A i, j \in 1 .. Len(l) : i < j => l[i].end < l[j].start
  BY DEF Sorted
<1>4. ASSUME NEW i \in 1 .. Len(l), i < m PROVE l[i].end < e.start
  <2>1. m > 1 /\ m - 1 \in 1 .. Len(l) /\ (i = m - 1 \/ i < m - 1)
    BY <1>2, <1>4
  <2>2. l[m - 1].end < e.start
    BY <2>1 DEF Placed
  <2> QED
    BY <1>2, <1>3, <2>1, <2>2
<1>5. ASSUME NEW i \in 1 .. Len(l), ~(i < m) PROVE e.end < l[i].start
  <2>1. m <= Len(l) /\ m \in 1 .. Len(l) /\ (i = m \/ m < i)
    BY <1>2, <1>5
  <2>2. e.end < l[m].start
    BY <2>1 DEF Placed
  <2> QED
    BY <1>2, <1>3, <2>1, <2>2
<1>6. ASSUME NEW i \in 1 .. Len(t), NEW j \in 1 .. Len(t), i < j
      PROVE  t[i].end < t[j].start
  <2>1. CASE i < m /\ j < m
    BY <1>1, <1>2, <1>3, <1>6, <2>1
  <2>2. CASE i < m /\ j = m
    BY <1>1, <1>2, <1>4, <1>6, <2>2
  <2>3. CASE i < m /\ j > m
    <3>1. i \in 1 .. Len(l) /\ j - 1 \in 1 .. Len(l) /\ i < j - 1
      BY <1>1, <1>2, <2>3
    <3>2. t[i] = l[i] /\ t[j] = l[j - 1]
      BY <1>1, <1>2, <2>3
    <3> QED
      BY <1>3, <3>1, <3>2
  <2>4. CASE i = m
    <3>1. j - 1 \in 1 .. Len(l) /\ ~(j - 1 < m)
      BY <1>1, <1>2, <1>6, <2>4
    <3>2. t[i] = e /\ t[j] = l[j - 1]
      BY <1>1, <1>2, <1>6, <2>4
    <3> QED
      BY <1>5, <3>1, <3>2
  <2>5. CASE i > m
    <3>1. i - 1 \in 1 .. Len(l) /\ j - 1 \in 1 .. Len(l) /\ i - 1 < j - 1
      BY <1>1, <1>2, <1>6, <2>5
    <3>2. t[i] = l[i - 1] /\ t[j] = l[j - 1]
      BY <1>1, <1>2, <1>6, <2>5
    <3> QED
      BY <1>3, <3>1, <3>2
  <2> QED
    BY <1>1, <1>2, <2>1, <2>2, <2>3, <2>4, <2>5
<1>7. e \notin Range(l)
  BY <1>2, <1>4, <1>5
<1> QED
  BY <1>1, <1>6, <1>7 DEF t, Sorted

(* Taking an area off the list leaves it in order.                         *)
LEMMA RemoveSorted ==
    ASSUME NEW l \in Seq(Areas), Sorted(l), \A a \in Range(l) : a.start < a.end,
           NEW e \in Range(l)
    PROVE  /\ RemoveFirst(l, e) \in Seq(Areas)
           /\ Sorted(RemoveFirst(l, e))
           /\ Range(RemoveFirst(l, e)) = Range(l) \ {e}
<1>1. /\ Len(l) \in Nat /\ DOMAIN l = 1 .. Len(l) /\ Range(l) = {l[i] : i \in 1 .. Len(l)}
      /\ \A i \in 1 .. Len(l) : /\ l[i].start \in Nat /\ l[i].end \in Nat
                                /\ l[i].start < l[i].end
  <2>1. /\ Len(l) \in Nat /\ DOMAIN l = 1 .. Len(l)
        /\ Range(l) = {l[i] : i \in 1 .. Len(l)}
        /\ \A i \in 1 .. Len(l) : l[i] \in Areas
    BY LenProperties, RangeEquality, ElementOfSeq
  <2> QED
    BY <2>1 DEF Areas
<1>2. \A i, j \in 1 .. Len(l) : i < j => l[i].end < l[j].start
  BY DEF Sorted
<1>3. IsInjective(l)
  <2>1. ASSUME NEW i \in 1 .. Len(l), NEW j \in 1 .. Len(l), l[i] = l[j], i # j
        PROVE  FALSE
    <3>1. CASE i < j
      BY <1>1, <1>2, <2>1, <3>1
    <3>2. CASE j < i
      BY <1>1, <1>2, <2>1, <3>2
    <3> QED
      BY <2>1, <3>1, <3>2
  <2> QED
    BY <1>1, <2>1 DEF IsInjective
<1> DEFINE t == RemoveFirst(l, e)
<1>4. /\ t \in Seq(Areas)
      /\ Len(t) = Len(l) - 1
      /\ Range(t) = Range(l) \ {e}
      /\ \E m \in 1 .. Len(l) :
            \A i \in 1 .. Len(l) - 1 : t[i] = IF i < m THEN l[i] ELSE l[i + 1]
  BY <1>3, RemoveElements
<1> HIDE DEF t
<1>5. PICK m \in 1 .. Len(l) :
         \A i \in 1 .. Len(l) - 1 : t[i] = IF i < m THEN l[i] ELSE l[i + 1]
  BY <1>4
<1>6. ASSUME NEW i \in 1 .. Len(t), NEW j \in 1 .. Len(t), i < j
      PROVE  t[i].end < t[j].start
  <2>1. CASE j < m
    <3>1. i \in 1 .. Len(l) /\ j \in 1 .. Len(l)
      BY <1>1, <1>4
    <3>2. t[i] = l[i] /\ t[j] = l[j]
      BY <1>4, <1>5, <1>6, <2>1
    <3> QED
      BY <1>2, <1>6, <3>1, <3>2
  <2>2. CASE i < m /\ ~(j < m)
    <3>1. i \in 1 .. Len(l) /\ j + 1 \in 1 .. Len(l) /\ i < j + 1
      BY <1>1, <1>4, <1>6
    <3> QED
      BY <1>2, <1>4, <1>5, <2>2, <3>1
  <2>3. CASE ~(i < m)
    <3>1. i + 1 \in 1 .. Len(l) /\ j + 1 \in 1 .. Len(l) /\ i + 1 < j + 1 /\ ~(j < m)
      BY <1>1, <1>4, <1>6, <2>3
    <3> QED
      BY <1>2, <1>4, <1>5, <2>3, <3>1
  <2> QED
    BY <2>1, <2>2, <2>3
<1> QED
  BY <1>4, <1>6 DEF t, Sorted

(***************************************************************************)
(* The loops of map_vm_area and unmap_vm_area                              *)
(***************************************************************************)
GoesOn(a, n) == (n + 1) % TABLE_ENTRIES # 0 /\ n + 1 <= pt_idx_end(a)

(* After index n of the area a, the page c: the inner loop goes on in the   *)
(* same table, the outer one with the first page of the next, and both end  *)
(* after the last page.                                                     *)
LEMMA LoopNext ==
    ASSUME NEW a \in Areas, a.start < a.end, NEW n \in Nat, NEW c,
           c = Base(a) + n, c <= LastPage(a), NEW d, d = c \div TABLE_ENTRIES
    PROVE  /\ GoesOn(a, n) => c + 1 <= LastPage(a) /\ (c + 1) \div TABLE_ENTRIES = d
           /\ ~GoesOn(a, n) => (c + 1) % TABLE_ENTRIES = 0 \/ c = LastPage(a)
           /\ ~GoesOn(a, n) /\ d + 1 <= pd_idx_end(a)
                 => c + 1 <= LastPage(a) /\ (c + 1) \div TABLE_ENTRIES = d + 1
           /\ ~GoesOn(a, n) /\ ~(d + 1 <= pd_idx_end(a)) => c = LastPage(a)
<1> DEFINE z == LastPage(a)
           e == (c + 1) \div TABLE_ENTRIES
           y == z \div TABLE_ENTRIES
<1>1. /\ z \in Nat /\ Base(a) \in Nat /\ TABLE_ENTRIES \in Nat \ {0}
      /\ pd_idx_end(a) = y /\ pt_idx_end(a) = z - Base(a)
  BY AreaFacts, Sizes
<1>2. c \in Nat /\ c \in Int /\ z \in Int /\ c + 1 \in Int /\ c + 1 = Base(a) + (n + 1)
  BY <1>1
<1>3. (c + 1) % TABLE_ENTRIES = (n + 1) % TABLE_ENTRIES
  <2>1. n + 1 \in Int
    OBVIOUS
  <2> QED
    BY <1>2, <2>1, IndexFacts
<1>4. GoesOn(a, n) <=> (c + 1) % TABLE_ENTRIES # 0 /\ c + 1 <= z
  <2> HIDE DEF z, y
  <2> QED
    BY <1>1, <1>2, <1>3 DEF GoesOn
<1>5. d \in Int /\ y \in Int
  BY <1>1, <1>2, DivBounds
<1>6. e = IF (c + 1) % TABLE_ENTRIES = 0 THEN d + 1 ELSE d
  BY <1>1, <1>2, DivStep
<1>7. c + 1 <= z => e <= y
  BY <1>1, <1>2, DivMono
<1>8. c = z => d = y
  OBVIOUS
<1>9. c <= z
  OBVIOUS
<1> DEFINE turn == (c + 1) % TABLE_ENTRIES = 0
           on == GoesOn(a, n)
<1> HIDE DEF z, e, y, turn, on
<1>10. /\ on <=> ~turn /\ c + 1 <= z
       /\ e = IF turn THEN d + 1 ELSE d
  BY <1>4, <1>6 DEF turn, on
<1>11. /\ on => c + 1 <= z /\ e = d
       /\ ~on => turn \/ c = z
       /\ ~on /\ d + 1 <= y => c + 1 <= z /\ e = d + 1
       /\ ~on /\ ~(d + 1 <= y) => c = z
  BY <1>2, <1>5, <1>7, <1>8, <1>9, <1>10
<1> QED
  BY <1>1, <1>11 DEF e, z, on, turn

(* Behind the last page c - 1 of a table.                                  *)
LEMMA TableNext ==
    ASSUME NEW a \in Areas, a.start < a.end, NEW c \in Nat, c <= LastPage(a) + 1,
           c % TABLE_ENTRIES = 0 \/ c = LastPage(a) + 1,
           NEW d, d = (c - 1) \div TABLE_ENTRIES
    PROVE  /\ d + 1 <= pd_idx_end(a) => c <= LastPage(a) /\ c \div TABLE_ENTRIES = d + 1
           /\ ~(d + 1 <= pd_idx_end(a)) => c = LastPage(a) + 1
<1> DEFINE z == LastPage(a)
           e == c \div TABLE_ENTRIES
           y == z \div TABLE_ENTRIES
<1>1. z \in Nat /\ TABLE_ENTRIES \in Nat \ {0} /\ pd_idx_end(a) = y
  BY AreaFacts, Sizes
<1>2. c \in Int /\ z \in Int /\ c - 1 \in Int /\ (c - 1) + 1 = c
  BY <1>1
<1>5. d \in Int /\ y \in Int
  BY <1>1, <1>2, DivBounds
<1>6. e = IF c % TABLE_ENTRIES = 0 THEN d + 1 ELSE d
  <2>1. ((c - 1) + 1) \div TABLE_ENTRIES
          = IF ((c - 1) + 1) % TABLE_ENTRIES = 0 THEN d + 1 ELSE d
    BY <1>1, <1>2, DivStep
  <2> QED
    BY <1>2, <2>1
<1>7. c <= z => e <= y
  BY <1>1, <1>2, DivMono
<1>8. c = z + 1 => d = y
  <2>1. c = z + 1 => c - 1 = z
    BY <1>1
  <2> QED
    BY <2>1
<1>9. c <= z + 1 /\ (c % TABLE_ENTRIES = 0 \/ c = z + 1)
  OBVIOUS
<1> HIDE DEF z, e, y
<1> QED
  BY <1>1, <1>2, <1>5, <1>6, <1>7, <1>8, <1>9 DEF e, z

(* A loop begins at the first page of its area.                            *)
LEMMA StartFacts ==
    ASSUME NEW a \in Areas, a.start < a.end, StartAt(a)
    PROVE  /\ vma' = a /\ pt_idx' \in Nat
           /\ Cur' = PageOf(a.start) /\ Cur' <= LastPage(a)
           /\ pd_idx' = Cur' \div TABLE_ENTRIES
<1>1. /\ vma' = a
      /\ pd_idx' = PageOf(a.start) \div TABLE_ENTRIES
      /\ pt_idx' = PageOf(a.start) % TABLE_ENTRIES
  BY DEF StartAt
<1>2. /\ Base(a) + (PageOf(a.start) % TABLE_ENTRIES) = PageOf(a.start)
      /\ PageOf(a.start) % TABLE_ENTRIES \in 0 .. TABLE_ENTRIES - 1
      /\ PageOf(a.start) <= LastPage(a)
  BY AreaFacts
<1>3. Cur' = PageOf(a.start)
  BY <1>1, <1>2 DEF Cur
<1>4. pt_idx' \in Nat
  BY <1>1, <1>2, Sizes
<1> QED
  BY <1>1, <1>2, <1>3, <1>4

(* In a loop the area is one of the list, and the next page a number.      *)
LEMMA LoopFacts ==
    ASSUME ListInv, Running
    PROVE  /\ vma \in Areas /\ vma.start < vma.end /\ InRange(vma)
           /\ Cur \in Nat /\ Cur = Base(vma) + pt_idx
           /\ PageOf(vma.start) \in Nat /\ PageOf(vma.start) <= Cur
           /\ LastPage(vma) \in Nat
<1>1. vma \in Range(vm_area_list) /\ pt_idx \in Nat /\ PageOf(vma.start) <= Cur
  BY DEF ListInv, LoopOK
<1>2. vma \in Areas /\ vma.start < vma.end /\ InRange(vma)
  <2>1. Range(vm_area_list) \subseteq Areas
    <3>1. vm_area_list \in Seq(Areas)
      BY DEF ListInv, ListOK
    <3> QED
      BY <3>1, RangeEquality, ElementOfSeq
  <2> QED
    BY <1>1, <2>1 DEF ListInv, ListOK
<1>3. Base(vma) \in Nat /\ PageOf(vma.start) \in Nat /\ LastPage(vma) \in Nat
  BY <1>2, AreaFacts
<1>4. Cur \in Nat /\ Cur = Base(vma) + pt_idx
  BY <1>1, <1>3 DEF Cur
<1> QED
  BY <1>1, <1>2, <1>3, <1>4

LEMMA AllocList ==
    ASSUME ListInv, do_vm_alloc
    PROVE  /\ ListInv'
           /\ \E r \in REQUESTS, e \in Areas :
                 /\ e \notin Range(vm_area_list)
                 /\ Range(vm_area_list)' = Range(vm_area_list) \cup {e}
                 /\ (r[1] % PAGE_SIZE = 0 /\ r[2] % PAGE_SIZE = 0
                       /\ \A a \in Range(vm_area_list) : Whole(a)) => Whole(e)
                 /\ StartAt(e) /\ e.start < e.end
<1> DEFINE l == vm_area_list
<1>1. PICK r \in REQUESTS :
         LET a == CHOOSE b \in ToSet(Place(l, r[1], r[2])) : b \notin ToSet(l)
         IN  /\ InRange(a)
             /\ vm_area_list' = Place(l, r[1], r[2])
             /\ StartAt(a)
  BY DEF do_vm_alloc, InRange
<1>2. /\ l \in Seq(Areas) /\ Sorted(l) /\ \A a \in Range(l) : a.start < a.end
      /\ \A a \in Range(l) : InRange(a)
      /\ r[1] \in Nat /\ r[2] \in Nat \ {0, 1}
  BY VmAssumption DEF ListInv, ListOK
<1>3. PICK m \in 1 .. Len(l) + 1, e \in Areas :
         /\ Place(l, r[1], r[2]) = InsertAt(l, m, e)
         /\ Placed(l, m, e)
         /\ (r[1] % PAGE_SIZE = 0 /\ r[2] % PAGE_SIZE = 0 /\ \A a \in Range(l) : Whole(a))
               => Whole(e)
  BY <1>2, PlaceFacts
<1> DEFINE t == InsertAt(l, m, e)
<1>4. t \in Seq(Areas) /\ Sorted(t) /\ Range(t) = Range(l) \cup {e} /\ e \notin Range(l)
  BY <1>2, <1>3, InsertSorted
<1>5. ToSet(t) = Range(t) /\ ToSet(l) = Range(l)
  BY DEF ToSet, Range
<1>6. (CHOOSE b \in ToSet(t) : b \notin ToSet(l)) = e
  BY <1>4, <1>5
<1>7. vm_area_list' = t /\ InRange(e) /\ StartAt(e)
  BY <1>1, <1>3, <1>6
<1>8. e.start < e.end
  BY <1>3 DEF Placed
<1> HIDE DEF t
<1>9. ListOK'
  BY <1>2, <1>4, <1>7, <1>8 DEF ListOK, InRange
<1>10. LoopOK'
  <2>1. /\ vma' = e /\ pt_idx' \in Nat
        /\ Cur' = PageOf(e.start) /\ Cur' <= LastPage(e)
        /\ pd_idx' = Cur' \div TABLE_ENTRIES
    BY <1>7, <1>8, StartFacts
  <2>2. PageOf(e.start) \in Nat
    BY <1>8, AreaFacts
  <2>3. pc' = "map" /\ vma' \in Range(vm_area_list') /\ PageOf(e.start) <= PageOf(e.start)
    BY <1>4, <1>7, <2>1, <2>2 DEF do_vm_alloc
  <2> QED
    BY <2>1, <2>3 DEF LoopOK, Running
<1> QED
  BY <1>3, <1>4, <1>7, <1>8, <1>9, <1>10 DEF ListInv

LEMMA FreeList ==
    ASSUME ListInv, vm_free_area
    PROVE  ListInv'
<1>1. PICK a \in ToSet(vm_area_list) : StartAt(a)
  BY DEF vm_free_area
<1>2. a \in Range(vm_area_list)
  BY DEF ToSet, Range
<1>3. a \in Areas /\ a.start < a.end
  <2>1. Range(vm_area_list) \subseteq Areas
    <3>1. vm_area_list \in Seq(Areas)
      BY DEF ListInv, ListOK
    <3> QED
      BY <3>1, RangeEquality, ElementOfSeq
  <2> QED
    BY <1>2, <2>1 DEF ListInv, ListOK
<1>4. /\ vma' = a /\ pt_idx' \in Nat
      /\ Cur' = PageOf(a.start) /\ Cur' <= LastPage(a)
      /\ pd_idx' = Cur' \div TABLE_ENTRIES
  BY <1>1, <1>3, StartFacts
<1>5. PageOf(a.start) \in Nat
  BY <1>3, AreaFacts
<1>6. pc' = "unmap" /\ vm_area_list' = vm_area_list /\ PageOf(a.start) <= PageOf(a.start)
  BY <1>5 DEF vm_free_area
<1>7. ListOK'
  BY <1>6 DEF ListInv, ListOK, InRange
<1>8. LoopOK'
  BY <1>2, <1>4, <1>6 DEF LoopOK, Running
<1> QED
  BY <1>7, <1>8 DEF ListInv

(* An action that leaves the list and the indices alone and stops or goes   *)
(* on as before.                                                            *)
LEMMA StillList ==
    ASSUME ListInv, UNCHANGED <<vm_area_list, vma, pd_idx, pt_idx>>,
           pc' = pc \/ pc' \in {"bug", "corrupt", "gone"}
    PROVE  ListInv'
<1>1. ListOK' /\ Cur' = Cur
  BY DEF ListInv, ListOK, InRange, Cur
<1>2. LoopOK'
  BY <1>1 DEF ListInv, LoopOK, Running
<1> QED
  BY <1>1, <1>2 DEF ListInv

LEMMA MapPageList ==
    ASSUME ListInv, MapPage
    PROVE  /\ ListInv'
           /\ \/ pc' = "map" /\ vma' = vma /\ Cur' = Cur + 1
              \/ pc' = "idle" /\ Cur = LastPage(vma)
<1>1. /\ pc = "map" /\ Running
      /\ Cur <= LastPage(vma) /\ pd_idx = Cur \div TABLE_ENTRIES
      /\ vma \in Range(vm_area_list) /\ pt_idx \in Nat
  BY DEF MapPage, ListInv, LoopOK, Running
<1>2. /\ vma \in Areas /\ vma.start < vma.end
      /\ Cur \in Nat /\ Cur = Base(vma) + pt_idx
      /\ PageOf(vma.start) \in Nat /\ PageOf(vma.start) <= Cur
      /\ LastPage(vma) \in Nat
  BY <1>1, LoopFacts
<1>3. /\ vm_area_list' = vm_area_list
      /\ IF GoesOn(vma, pt_idx)
         THEN pt_idx' = pt_idx + 1 /\ UNCHANGED <<pc, vma, pd_idx>>
         ELSE IF pd_idx + 1 <= pd_idx_end(vma)
         THEN pt_idx' = pt_idx + 1 /\ pd_idx' = pd_idx + 1 /\ UNCHANGED <<pc, vma>>
         ELSE Finish
  BY DEF MapPage, GoesOn, Continues
<1>4. /\ GoesOn(vma, pt_idx)
           => Cur + 1 <= LastPage(vma) /\ (Cur + 1) \div TABLE_ENTRIES = pd_idx
      /\ ~GoesOn(vma, pt_idx) /\ pd_idx + 1 <= pd_idx_end(vma)
           => Cur + 1 <= LastPage(vma) /\ (Cur + 1) \div TABLE_ENTRIES = pd_idx + 1
      /\ ~GoesOn(vma, pt_idx) /\ ~(pd_idx + 1 <= pd_idx_end(vma)) => Cur = LastPage(vma)
  BY <1>1, <1>2, LoopNext
<1>5. ListOK'
  BY <1>3 DEF ListInv, ListOK, InRange
<1>6. ASSUME vma' = vma, pt_idx' = pt_idx + 1
      PROVE  Cur' = Cur + 1
  <2>1. Base(vma) \in Nat
    BY <1>2, AreaFacts
  <2> QED
    BY <1>1, <1>6, <2>1 DEF Cur
<1>7. CASE pt_idx' = pt_idx + 1
  <2>1. /\ pc' = "map" /\ vma' = vma
        /\ Cur' = Cur + 1 /\ Cur + 1 <= LastPage(vma)
        /\ pd_idx' = (Cur + 1) \div TABLE_ENTRIES
    <3>1. CASE GoesOn(vma, pt_idx)
      BY <1>1, <1>3, <1>4, <1>6, <3>1
    <3>2. CASE ~GoesOn(vma, pt_idx) /\ pd_idx + 1 <= pd_idx_end(vma)
      BY <1>1, <1>3, <1>4, <1>6, <3>2
    <3>3. CASE ~GoesOn(vma, pt_idx) /\ ~(pd_idx + 1 <= pd_idx_end(vma))
      BY <1>1, <1>3, <1>7, <3>3 DEF Finish
    <3> QED
      BY <3>1, <3>2, <3>3
  <2>2. LoopOK'
    <3>1. PageOf(vma.start) <= Cur + 1
      BY <1>2
    <3> QED
      BY <1>1, <1>3, <1>7, <2>1, <3>1 DEF LoopOK, Running
  <2> QED
    BY <1>5, <2>1, <2>2 DEF ListInv
<1>8. CASE Finish /\ Cur = LastPage(vma)
  BY <1>5, <1>8 DEF ListInv, LoopOK, Running, Finish
<1> QED
  BY <1>3, <1>4, <1>7, <1>8

LEMMA UnmapPageList ==
    ASSUME ListInv, UnmapPage
    PROVE  /\ ListInv'
           /\ \/ pc' = "corrupt"
              \/ pc' \in {"unmap", "unmap_table"} /\ vma' = vma /\ Cur' = Cur + 1
<1>1. /\ pc = "unmap" /\ Running
      /\ Cur <= LastPage(vma) /\ pd_idx = Cur \div TABLE_ENTRIES
      /\ vma \in Range(vm_area_list) /\ pt_idx \in Nat
      /\ UNCHANGED <<vm_area_list, vma, pd_idx>>
  BY DEF UnmapPage, ListInv, LoopOK, Running
<1>2. CASE pc' = "corrupt" /\ pt_idx' = pt_idx
  BY <1>1, <1>2, StillList
<1>3. CASE /\ pt_idx' = pt_idx + 1
           /\ pc' = IF GoesOn(vma, pt_idx) THEN "unmap" ELSE "unmap_table"
  <2>1. /\ vma \in Areas /\ vma.start < vma.end
        /\ Cur \in Nat /\ Cur = Base(vma) + pt_idx
        /\ PageOf(vma.start) \in Nat /\ PageOf(vma.start) <= Cur
        /\ LastPage(vma) \in Nat
    BY <1>1, LoopFacts
  <2>2. /\ GoesOn(vma, pt_idx)
             => Cur + 1 <= LastPage(vma) /\ (Cur + 1) \div TABLE_ENTRIES = pd_idx
        /\ ~GoesOn(vma, pt_idx)
             => (Cur + 1) % TABLE_ENTRIES = 0 \/ Cur = LastPage(vma)
    BY <1>1, <2>1, LoopNext
  <2>3. Cur' = Cur + 1
    <3>1. Base(vma) \in Nat
      BY <2>1, AreaFacts
    <3> QED
      BY <1>1, <1>3, <3>1 DEF Cur
  <2>4. ListOK'
    BY <1>1 DEF ListInv, ListOK, InRange
  <2>5. PageOf(vma.start) < Cur + 1 /\ (Cur + 1) - 1 = Cur /\ Cur + 1 <= LastPage(vma) + 1
    BY <1>1, <2>1
  <2>6. PageOf(vma.start) <= Cur + 1 /\ pt_idx + 1 \in Nat
    BY <1>1, <2>1
  <2>7. LoopOK'
    BY <1>1, <1>3, <2>2, <2>3, <2>5, <2>6 DEF LoopOK, Running
  <2> QED
    BY <1>1, <1>3, <2>3, <2>4, <2>7 DEF ListInv
<1> QED
  BY <1>2, <1>3 DEF UnmapPage, GoesOn, Continues

LEMMA UnmapTableList ==
    ASSUME ListInv, UnmapTable
    PROVE  /\ ListInv'
           /\ \/ /\ pc' = "unmap" /\ vma' = vma /\ Cur' = Cur
                 /\ vm_area_list' = vm_area_list
              \/ /\ pc' = "idle" /\ Cur = LastPage(vma) + 1
                 /\ Range(vm_area_list)' = Range(vm_area_list) \ {vma}
<1>1. /\ pc = "unmap_table" /\ Running
      /\ PageOf(vma.start) < Cur /\ Cur <= LastPage(vma) + 1
      /\ pd_idx = (Cur - 1) \div TABLE_ENTRIES
      /\ Cur % TABLE_ENTRIES = 0 \/ Cur = LastPage(vma) + 1
      /\ vma \in Range(vm_area_list) /\ pt_idx \in Nat
  BY DEF UnmapTable, ListInv, LoopOK, Running
<1>2. /\ vma \in Areas /\ vma.start < vma.end
      /\ Cur \in Nat /\ Cur = Base(vma) + pt_idx
      /\ PageOf(vma.start) \in Nat /\ PageOf(vma.start) <= Cur
  BY <1>1, LoopFacts
<1>3. /\ pd_idx + 1 <= pd_idx_end(vma)
           => Cur <= LastPage(vma) /\ Cur \div TABLE_ENTRIES = pd_idx + 1
      /\ ~(pd_idx + 1 <= pd_idx_end(vma)) => Cur = LastPage(vma) + 1
  BY <1>1, <1>2, TableNext
<1>4. CASE pd_idx + 1 <= pd_idx_end(vma)
  <2>1. /\ pd_idx' = pd_idx + 1 /\ pc' = "unmap"
        /\ UNCHANGED <<vm_area_list, vma, pt_idx>>
    BY <1>4 DEF UnmapTable
  <2>2. Cur' = Cur /\ ListOK'
    BY <2>1 DEF Cur, ListInv, ListOK, InRange
  <2>3. LoopOK'
    BY <1>1, <1>2, <1>3, <1>4, <2>1, <2>2 DEF LoopOK, Running
  <2> QED
    BY <2>1, <2>2, <2>3 DEF ListInv
<1>5. CASE ~(pd_idx + 1 <= pd_idx_end(vma))
  <2>1. vm_area_list' = RemoveFirst(vm_area_list, vma) /\ pc' = "idle"
    BY <1>5 DEF UnmapTable, Finish
  <2>2. /\ vm_area_list \in Seq(Areas) /\ Sorted(vm_area_list)
        /\ \A a \in Range(vm_area_list) : a.start < a.end
    BY DEF ListInv, ListOK
  <2> DEFINE t == RemoveFirst(vm_area_list, vma)
  <2>3. t \in Seq(Areas) /\ Sorted(t) /\ Range(t) = Range(vm_area_list) \ {vma}
    BY <1>1, <2>2, RemoveSorted
  <2> HIDE DEF t
  <2>4. vm_area_list' = t
    BY <2>1 DEF t
  <2>5. ListOK'
    BY <2>3, <2>4 DEF ListInv, ListOK, InRange
  <2>6. LoopOK'
    BY <2>1 DEF LoopOK, Running
  <2> QED
    BY <1>3, <1>5, <2>1, <2>3, <2>4, <2>5, <2>6 DEF ListInv
<1> QED
  BY <1>4, <1>5

LEMMA EndList ==
    ASSUME ListInv, do_vm_free
    PROVE  ListInv'
<1>1. /\ vm_area_list' = <<>> /\ pc' = "gone"
  BY DEF do_vm_free
<1>2. <<>> \in Seq(Areas) /\ Range(<<>>) = {} /\ Len(<<>>) = 0
  BY DEF Range
<1>3. ListOK'
  BY <1>1, <1>2 DEF ListOK, Sorted
<1>4. LoopOK'
  BY <1>1 DEF LoopOK, Running
<1> QED
  BY <1>3, <1>4 DEF ListInv

(* The list of areas and the place in the loops: the part of the inductive  *)
(* invariant that needs no assumption about the requests.                   *)
LEMMA ListInvariance == Spec => []ListInv
<1>1. Init => ListInv
  <2>1. <<>> \in Seq(Areas) /\ Range(<<>>) = {} /\ Len(<<>>) = 0
    BY DEF Range
  <2> QED
    BY <2>1 DEF Init, ListInv, ListOK, LoopOK, Running, Sorted
<1>2. ListInv /\ [Next]_vars => ListInv'
  <2> SUFFICES ASSUME ListInv, [Next]_vars PROVE ListInv'
    OBVIOUS
  <2>1. CASE do_vm_alloc
    BY <2>1, AllocList
  <2>2. CASE MapTable
    BY <2>2, StillList DEF MapTable
  <2>3. CASE MapPage
    BY <2>3, MapPageList
  <2>4. CASE OutOfPages
    BY <2>4, StillList DEF OutOfPages
  <2>5. CASE vm_free_area
    BY <2>5, FreeList
  <2>6. CASE UnmapPage
    BY <2>6, UnmapPageList
  <2>7. CASE UnmapTable
    BY <2>7, UnmapTableList
  <2>8. CASE StaleTable
    BY <2>8, StillList DEF StaleTable
  <2>9. CASE do_vm_free
    BY <2>9, EndList
  <2>10. CASE Stopped \/ UNCHANGED vars
    BY <2>10, StillList DEF Stopped, vars
  <2> QED
    BY <2>1, <2>2, <2>3, <2>4, <2>5, <2>6, <2>7, <2>8, <2>9, <2>10 DEF Next
<1> QED
  BY <1>1, <1>2, PTL DEF Spec

(***************************************************************************)
(* The page tables: what each of the four changes does to the pages in use *)
(***************************************************************************)
Indices == 0 .. TABLE_ENTRIES - 1
Value(s) == entries[s[1]][s[2]]
NewValue(s) == entries'[s[1]][s[2]]

LEMMA TableFacts ==
    ASSUME TablesType
    PROVE  /\ DOMAIN page_dir = 0 .. DIR_ENTRIES - 1
           /\ Live = {d \in (0 .. DIR_ENTRIES - 1) \ stale : page_dir[d] # NONE}
           /\ \A d \in Live : page_dir[d] \in PAGES
           /\ Tables = {page_dir[d] : d \in Live}
           /\ Tables \subseteq PAGES
           /\ Slots \subseteq Tables \X Indices
           /\ \A t \in PAGES, i \in Indices :
                 /\ entries[t][i] \in PAGES \cup {NONE}
                 /\ <<t, i>> \in Slots <=> t \in Tables /\ entries[t][i] # NONE
<1>1. /\ page_dir \in [0 .. DIR_ENTRIES - 1 -> PAGES \cup {NONE}]
      /\ entries \in [PAGES -> [Indices -> PAGES \cup {NONE}]]
  BY DEF TablesType, Indices
<1>2. DOMAIN page_dir = 0 .. DIR_ENTRIES - 1
  BY <1>1
<1>3. Live = {d \in (0 .. DIR_ENTRIES - 1) \ stale : page_dir[d] # NONE}
  BY <1>2 DEF Live
<1>4. \A d \in Live : page_dir[d] \in PAGES
  BY <1>1, <1>3
<1>5. Tables = {page_dir[d] : d \in Live}
  BY <1>2, <1>3 DEF Tables
<1>6. Slots \subseteq Tables \X Indices
  BY DEF Slots, Indices
<1>7. ASSUME NEW t \in PAGES, NEW i \in Indices
      PROVE  /\ entries[t][i] \in PAGES \cup {NONE}
             /\ <<t, i>> \in Slots <=> t \in Tables /\ entries[t][i] # NONE
  BY <1>1 DEF Slots, Indices
<1> QED
  BY <1>2, <1>3, <1>4, <1>5, <1>6, <1>7

(* Every slot is one of a live table.                                      *)
LEMMA SlotFacts ==
    ASSUME TablesOK
    PROVE  /\ \A s \in Slots : /\ s = <<s[1], s[2]>>
                               /\ s[1] \in Tables /\ s[2] \in Indices
                               /\ s[1] \in PAGES
                               /\ Value(s) \in PAGES
           /\ allocated = Tables \cup {Value(s) : s \in Slots}
           /\ IsFiniteSet(Slots) /\ IsFiniteSet(Live)
           /\ Cardinality(allocated) = Cardinality(Live) + Cardinality(Slots)
<1>1. /\ TablesType
      /\ allocated = Tables \cup {Value(s) : s \in Slots}
      /\ Cardinality(allocated) = Cardinality(Live) + Cardinality(Slots)
  BY DEF TablesOK, PagesAccounted, Value, Live
<1>2. \A s \in Slots : /\ s = <<s[1], s[2]>>
                       /\ s[1] \in Tables /\ s[2] \in Indices
                       /\ s[1] \in PAGES
                       /\ Value(s) \in PAGES
  <2>1. ASSUME NEW s \in Slots
        PROVE  /\ s = <<s[1], s[2]>>
               /\ s[1] \in Tables /\ s[2] \in Indices
               /\ s[1] \in PAGES
               /\ Value(s) \in PAGES
    <3>1. s = <<s[1], s[2]>> /\ s[1] \in Tables /\ s[2] \in Indices /\ s[1] \in PAGES
      BY <1>1, TableFacts
    <3>2. entries[s[1]][s[2]] \in PAGES \cup {NONE} /\ entries[s[1]][s[2]] # NONE
      BY <1>1, <3>1, TableFacts
    <3> QED
      BY <3>1, <3>2 DEF Value
  <2> QED
    BY <2>1
<1>3. IsFiniteSet(Live)
  <2>1. IsFiniteSet(0 .. DIR_ENTRIES - 1)
    <3>1. 0 \in Int /\ DIR_ENTRIES - 1 \in Int
      BY VmAssumption
    <3> QED
      BY <3>1, FS_Interval
  <2>2. Live \subseteq 0 .. DIR_ENTRIES - 1
    BY <1>1, TableFacts
  <2> QED
    BY <2>1, <2>2, FS_Subset
<1>4. IsFiniteSet(Slots)
  <2>1. IsFiniteSet(allocated) /\ Tables \subseteq allocated
    BY <1>1 DEF TablesType
  <2>2. IsFiniteSet(Tables)
    BY <2>1, FS_Subset
  <2>3. IsFiniteSet(Indices)
    <3>1. 0 \in Int /\ TABLE_ENTRIES - 1 \in Int
      BY Sizes
    <3> QED
      BY <3>1, FS_Interval DEF Indices
  <2>4. IsFiniteSet(Tables \X Indices)
    BY <2>2, <2>3, FS_Product
  <2>5. Slots \subseteq Tables \X Indices
    BY <1>1, TableFacts
  <2> QED
    BY <2>4, <2>5, FS_Subset
<1> QED
  BY <1>1, <1>2, <1>3, <1>4

(* alloc_page_zero for a page table.                                       *)
LEMMA AddTable ==
    ASSUME TablesOK,
           NEW d \in 0 .. DIR_ENTRIES - 1, page_dir[d] = NONE,
           NEW p \in PAGES, p \notin allocated,
           allocated' = allocated \cup {p},
           page_dir' = [page_dir EXCEPT ![d] = p],
           entries' = [entries EXCEPT ![p] = Empty],
           stale' = stale
    PROVE  /\ TablesOK'
           /\ \A e \in 0 .. DIR_ENTRIES - 1, i \in Indices :
                 MappedAt(e, i)' <=> MappedAt(e, i)
<1>1. TablesType
  BY DEF TablesOK
<1>2. Empty \in [Indices -> PAGES \cup {NONE}] /\ \A i \in Indices : Empty[i] = NONE
  BY DEF Empty, Indices
<1>3. /\ page_dir' \in [0 .. DIR_ENTRIES - 1 -> PAGES \cup {NONE}]
      /\ \A e \in 0 .. DIR_ENTRIES - 1 : page_dir'[e] = IF e = d THEN p ELSE page_dir[e]
      /\ entries' \in [PAGES -> [Indices -> PAGES \cup {NONE}]]
      /\ \A t \in PAGES : entries'[t] = IF t = p THEN Empty ELSE entries[t]
      /\ p # NONE /\ d \notin stale
  BY <1>1, <1>2, VmAssumption DEF TablesType, Indices
<1>4. TablesType'
  <2>1. IsFiniteSet(allocated \cup {p})
    BY <1>1, FS_AddElement DEF TablesType
  <2> QED
    BY <1>1, <1>3, <2>1 DEF TablesType, Indices
<1>5. d \notin Live /\ Live' = Live \cup {d}
  BY <1>1, <1>3, <1>4, TableFacts DEF Live
<1>6. Tables' = Tables \cup {p}
  <2>1. Tables = {page_dir[e] : e \in Live} /\ Live \subseteq 0 .. DIR_ENTRIES - 1
    BY <1>1, TableFacts
  <2>2. Tables' = {page_dir'[e] : e \in Live'}
    <3>1. Tables' = ({page_dir[e] : e \in DOMAIN page_dir \ stale} \ {NONE})'
      BY DEF Tables
    <3> QED
      BY <1>3, <3>1 DEF Live
  <2> QED
    BY <1>3, <1>5, <2>1, <2>2
<1>7. p \notin Tables /\ \A s \in Slots : Value(s) # p
  BY SlotFacts
<1>8. Slots' = Slots
  <2>1. \A t \in Tables, i \in Indices : entries'[t][i] = entries[t][i]
    BY <1>1, <1>3, <1>7, TableFacts
  <2>2. Slots = {s \in Tables \X Indices : entries[s[1]][s[2]] # NONE}
    BY DEF Slots, Indices
  <2>3. Slots' = {s \in (Tables \cup {p}) \X Indices : entries'[s[1]][s[2]] # NONE}
    BY <1>6 DEF Slots, Indices
  <2>4. ASSUME NEW s \in (Tables \cup {p}) \X Indices, entries'[s[1]][s[2]] # NONE
        PROVE  s \in Slots
    BY <1>2, <1>3, <2>1, <2>2, <2>4
  <2>5. ASSUME NEW s \in Slots
        PROVE  s \in (Tables \cup {p}) \X Indices /\ entries'[s[1]][s[2]] # NONE
    BY <2>1, <2>2
  <2> QED
    BY <2>3, <2>4, <2>5
<1>9. \A s \in Slots : NewValue(s) = Value(s)
  BY <1>3, <1>7, SlotFacts DEF Value, NewValue
<1>10. UsedOnce'
  <2>1. \A e, f \in Live' : page_dir'[e] = page_dir'[f] => e = f
    <3>1. \A e \in Live : page_dir[e] \in Tables /\ e \in 0 .. DIR_ENTRIES - 1
      BY <1>1, TableFacts
    <3> QED
      BY <1>3, <1>5, <1>7, <3>1 DEF TablesOK, UsedOnce
  <2>2. \A s \in Slots' : NewValue(s) \notin Tables'
    BY <1>6, <1>7, <1>8, <1>9 DEF TablesOK, UsedOnce, Value, NewValue
  <2>3. \A s, u \in Slots' : NewValue(s) = NewValue(u) => s = u
    BY <1>8, <1>9 DEF TablesOK, UsedOnce, Value, NewValue
  <2> QED
    BY <2>1, <2>2, <2>3 DEF UsedOnce, Value, NewValue
<1>11. PagesAccounted'
  <2>1. allocated' = Tables' \cup {NewValue(s) : s \in Slots'}
    BY <1>6, <1>8, <1>9, SlotFacts
  <2>2. /\ Cardinality(allocated') = Cardinality(allocated) + 1
        /\ Cardinality(Live') = Cardinality(Live) + 1
    BY <1>1, <1>5, SlotFacts, FS_AddElement DEF TablesType
  <2>3. Cardinality(Live) \in Nat /\ Cardinality(Slots) \in Nat
    BY SlotFacts, FS_CardinalityType
  <2>4. Cardinality(allocated') = Cardinality(Live') + Cardinality(Slots')
    BY <1>8, <2>2, <2>3, SlotFacts
  <2> QED
    BY <2>1, <2>4 DEF PagesAccounted, NewValue, Live
<1>12. ASSUME NEW e \in 0 .. DIR_ENTRIES - 1, NEW i \in Indices
       PROVE  MappedAt(e, i)' <=> MappedAt(e, i)
  <2>1. CASE e = d
    BY <1>2, <1>3, <1>5, <2>1 DEF MappedAt
  <2>2. CASE e # d
    <3>1. e \in Live => page_dir[e] \in Tables /\ page_dir[e] \in PAGES
      BY <1>1, TableFacts
    <3> QED
      BY <1>3, <1>5, <1>7, <2>2, <3>1 DEF MappedAt
  <2> QED
    BY <2>1, <2>2
<1> QED
  BY <1>4, <1>10, <1>11, <1>12 DEF TablesOK

(* A change of one entry of a live table.                                  *)
LEMMA EntryChange ==
    ASSUME TablesOK, NEW d \in Live, NEW i \in Indices, NEW v \in PAGES \cup {NONE},
           entries' = [entries EXCEPT ![page_dir[d]][i] = v],
           UNCHANGED <<page_dir, stale>>
    PROVE  /\ Live' = Live /\ Tables' = Tables
           /\ entries' \in [PAGES -> [Indices -> PAGES \cup {NONE}]]
           /\ \A t \in PAGES, j \in Indices :
                 entries'[t][j] = IF t = page_dir[d] /\ j = i THEN v ELSE entries[t][j]
           /\ \A s \in Slots : s # <<page_dir[d], i>> => NewValue(s) = Value(s)
           /\ v = NONE => Slots' = Slots \ {<<page_dir[d], i>>}
           /\ v # NONE => Slots' = Slots \cup {<<page_dir[d], i>>}
           /\ \A e \in 0 .. DIR_ENTRIES - 1, j \in Indices :
                 /\ e = d /\ j = i => (MappedAt(e, j)' <=> v # NONE)
                 /\ ~(e = d /\ j = i) => (MappedAt(e, j)' <=> MappedAt(e, j))
<1> DEFINE t == page_dir[d]
           c == <<t, i>>
<1>1. TablesType /\ d \in 0 .. DIR_ENTRIES - 1 /\ t \in PAGES /\ t \in Tables
  BY TableFacts DEF TablesOK
<1>2. /\ entries' \in [PAGES -> [Indices -> PAGES \cup {NONE}]]
      /\ \A u \in PAGES, j \in Indices :
            entries'[u][j] = IF u = t /\ j = i THEN v ELSE entries[u][j]
  BY <1>1 DEF TablesType, Indices
<1>3. Live' = Live /\ Tables' = Tables
  BY DEF Live, Tables
<1>4. \A s \in Slots : s # c => NewValue(s) = Value(s)
  BY <1>2, SlotFacts DEF Value, NewValue
<1> HIDE DEF t
<1>5. Slots' = IF v = NONE THEN Slots \ {c} ELSE Slots \cup {c}
  <2>1. Slots = {s \in Tables \X Indices : entries[s[1]][s[2]] # NONE}
    BY DEF Slots, Indices
  <2>2. Slots' = {s \in Tables \X Indices : entries'[s[1]][s[2]] # NONE}
    BY <1>3 DEF Slots, Indices
  <2>3. ASSUME NEW s \in Tables \X Indices
        PROVE  entries'[s[1]][s[2]] = IF s = c THEN v ELSE entries[s[1]][s[2]]
    <3>1. s[1] \in PAGES /\ s[2] \in Indices /\ s = <<s[1], s[2]>>
      BY <1>1, TableFacts
    <3> QED
      BY <1>2, <3>1
  <2>4. c \in Tables \X Indices
    BY <1>1
  <2> HIDE DEF c
  <2> QED
    BY <2>1, <2>2, <2>3, <2>4
<1>6. ASSUME NEW e \in 0 .. DIR_ENTRIES - 1, NEW j \in Indices
      PROVE  MappedAt(e, j)' <=> IF e = d /\ j = i THEN v # NONE ELSE MappedAt(e, j)
  <2>1. CASE e \notin Live
    BY <1>3, <2>1 DEF MappedAt
  <2>2. CASE e \in Live
    <3>1. page_dir[e] \in PAGES /\ page_dir'[e] = page_dir[e]
      BY <1>1, <2>2, TableFacts
    <3>2. page_dir[e] = t <=> e = d
      BY <2>2 DEF TablesOK, UsedOnce, t
    <3> QED
      BY <1>2, <1>3, <2>2, <3>1, <3>2 DEF MappedAt
  <2> QED
    BY <2>1, <2>2
<1> QED
  BY <1>2, <1>3, <1>4, <1>5, <1>6 DEF t

(* alloc_page_zero for a page, in an entry that was empty.                 *)
LEMMA AddPage ==
    ASSUME TablesOK, NEW d \in Live, NEW i \in Indices, entries[page_dir[d]][i] = NONE,
           NEW p \in PAGES, p \notin allocated,
           allocated' = allocated \cup {p},
           entries' = [entries EXCEPT ![page_dir[d]][i] = p],
           UNCHANGED <<page_dir, stale>>
    PROVE  /\ TablesOK' /\ Live' = Live
           /\ \A e \in 0 .. DIR_ENTRIES - 1, j \in Indices :
                 MappedAt(e, j)' <=> MappedAt(e, j) \/ (e = d /\ j = i)
<1> DEFINE c == <<page_dir[d], i>>
<1>1. TablesType /\ p # NONE /\ p \in PAGES \cup {NONE}
  BY VmAssumption DEF TablesOK
<1>2. /\ Live' = Live /\ Tables' = Tables
      /\ entries' \in [PAGES -> [Indices -> PAGES \cup {NONE}]]
      /\ \A t \in PAGES, j \in Indices :
            entries'[t][j] = IF t = page_dir[d] /\ j = i THEN p ELSE entries[t][j]
      /\ \A s \in Slots : s # c => NewValue(s) = Value(s)
      /\ Slots' = Slots \cup {c}
      /\ \A e \in 0 .. DIR_ENTRIES - 1, j \in Indices :
            /\ e = d /\ j = i => MappedAt(e, j)'
            /\ ~(e = d /\ j = i) => (MappedAt(e, j)' <=> MappedAt(e, j))
  <2>1. /\ Live' = Live /\ Tables' = Tables
        /\ entries' \in [PAGES -> [Indices -> PAGES \cup {NONE}]]
        /\ \A s \in Slots : s # c => NewValue(s) = Value(s)
        /\ p # NONE => Slots' = Slots \cup {c}
    BY <1>1, EntryChange
  <2>3. \A e \in 0 .. DIR_ENTRIES - 1, j \in Indices :
           /\ e = d /\ j = i => (MappedAt(e, j)' <=> p # NONE)
           /\ ~(e = d /\ j = i) => (MappedAt(e, j)' <=> MappedAt(e, j))
    BY <1>1, EntryChange
  <2>2. \A t \in PAGES, j \in Indices :
           entries'[t][j] = IF t = page_dir[d] /\ j = i THEN p ELSE entries[t][j]
    BY <1>1, EntryChange
  <2> QED
    BY <1>1, <2>1, <2>2, <2>3
<1>3. page_dir[d] \in PAGES /\ c \notin Slots
  BY <1>1, TableFacts
<1>4. /\ NewValue(c) = p
      /\ \A s \in Slots : NewValue(s) = Value(s)
      /\ p \notin Tables /\ \A s \in Slots : Value(s) # p
  BY <1>2, <1>3, SlotFacts DEF Value, NewValue
<1> HIDE DEF c
<1>5. TablesType'
  <2>1. IsFiniteSet(allocated \cup {p})
    BY <1>1, FS_AddElement DEF TablesType
  <2> QED
    BY <1>1, <1>2, <2>1 DEF TablesType, Indices
<1>6. UsedOnce'
  <2>1. \A e, f \in Live' : page_dir'[e] = page_dir'[f] => e = f
    BY <1>2 DEF TablesOK, UsedOnce
  <2>2. \A s \in Slots' : NewValue(s) \notin Tables'
    BY <1>2, <1>4 DEF TablesOK, UsedOnce, Value, NewValue
  <2>3. \A s, u \in Slots' : NewValue(s) = NewValue(u) => s = u
    <3>1. \A s, u \in Slots : Value(s) = Value(u) => s = u
      BY DEF TablesOK, UsedOnce, Value, NewValue
    <3> QED
      BY <1>2, <1>4, <3>1
  <2> QED
    BY <2>1, <2>2, <2>3 DEF UsedOnce, Value, NewValue
<1>7. PagesAccounted'
  <2>1. allocated' = Tables' \cup {NewValue(s) : s \in Slots'}
    <3>1. {NewValue(s) : s \in Slots'} = {Value(s) : s \in Slots} \cup {p}
      BY <1>2, <1>4
    <3> QED
      BY <1>2, <3>1, SlotFacts
  <2>2. /\ Cardinality(allocated') = Cardinality(allocated) + 1
        /\ Cardinality(Slots') = Cardinality(Slots) + 1
    BY <1>1, <1>2, <1>3, SlotFacts, FS_AddElement DEF TablesType
  <2>3. Cardinality(Live) \in Nat /\ Cardinality(Slots) \in Nat
    BY SlotFacts, FS_CardinalityType
  <2>4. Cardinality(allocated') = Cardinality(Live') + Cardinality(Slots')
    BY <1>2, <2>2, <2>3, SlotFacts
  <2> QED
    BY <2>1, <2>4 DEF PagesAccounted, NewValue, Live
<1> QED
  BY <1>1, <1>2, <1>5, <1>6, <1>7 DEF TablesOK

(* free_pages of the page in an entry.                                     *)
LEMMA DropPage ==
    ASSUME TablesOK, NEW d \in Live, NEW i \in Indices, entries[page_dir[d]][i] # NONE,
           allocated' = allocated \ {entries[page_dir[d]][i]},
           entries' = [entries EXCEPT ![page_dir[d]][i] = NONE],
           UNCHANGED <<page_dir, stale>>
    PROVE  /\ TablesOK' /\ Live' = Live
           /\ \A e \in 0 .. DIR_ENTRIES - 1, j \in Indices :
                 MappedAt(e, j)' <=> MappedAt(e, j) /\ ~(e = d /\ j = i)
<1> DEFINE c == <<page_dir[d], i>>
           p == entries[page_dir[d]][i]
<1>1. TablesType /\ NONE \in PAGES \cup {NONE} /\ p # NONE
  BY DEF TablesOK
<1>2. /\ Live' = Live /\ Tables' = Tables
      /\ entries' \in [PAGES -> [Indices -> PAGES \cup {NONE}]]
      /\ \A s \in Slots : s # c => NewValue(s) = Value(s)
      /\ Slots' = Slots \ {c}
      /\ \A e \in 0 .. DIR_ENTRIES - 1, j \in Indices :
            /\ e = d /\ j = i => ~MappedAt(e, j)'
            /\ ~(e = d /\ j = i) => (MappedAt(e, j)' <=> MappedAt(e, j))
  BY <1>1, EntryChange
<1>3. page_dir[d] \in PAGES /\ c \in Slots /\ Value(c) = p
  BY <1>1, TableFacts DEF Value
<1>4. /\ p \in allocated /\ p \notin Tables
      /\ \A s, u \in Slots : Value(s) = Value(u) => s = u
  BY <1>3, SlotFacts DEF TablesOK, UsedOnce, Value, NewValue
<1> HIDE DEF c, p
<1>5. allocated' = allocated \ {p}
  BY DEF p
<1>6. TablesType'
  <2>1. IsFiniteSet(allocated \ {p})
    BY <1>1, FS_Subset DEF TablesType
  <2> QED
    BY <1>1, <1>2, <1>5, <2>1 DEF TablesType, Indices
<1>7. UsedOnce'
  <2>1. \A e, f \in Live' : page_dir'[e] = page_dir'[f] => e = f
    BY <1>2 DEF TablesOK, UsedOnce
  <2>2. \A s \in Slots' : NewValue(s) \notin Tables'
    BY <1>2 DEF TablesOK, UsedOnce, Value, NewValue
  <2>3. \A s, u \in Slots' : NewValue(s) = NewValue(u) => s = u
    BY <1>2, <1>4
  <2> QED
    BY <2>1, <2>2, <2>3 DEF UsedOnce, Value, NewValue
<1>8. PagesAccounted'
  <2>1. allocated' = Tables' \cup {NewValue(s) : s \in Slots'}
    <3>1. {NewValue(s) : s \in Slots'} = {Value(s) : s \in Slots} \ {p}
      BY <1>2, <1>3, <1>4
    <3> QED
      BY <1>2, <1>4, <1>5, <3>1, SlotFacts
  <2>2. /\ Cardinality(allocated') = Cardinality(allocated) - 1
        /\ Cardinality(Slots') = Cardinality(Slots) - 1
    BY <1>1, <1>2, <1>3, <1>4, <1>5, SlotFacts, FS_RemoveElement, ZenonT(30) DEF TablesType
  <2>3. Cardinality(Live) \in Nat /\ Cardinality(Slots) \in Nat
    BY SlotFacts, FS_CardinalityType
  <2>4. Cardinality(allocated') = Cardinality(Live') + Cardinality(Slots')
    BY <1>2, <2>2, <2>3, SlotFacts
  <2> QED
    BY <2>1, <2>4 DEF PagesAccounted, NewValue, Live
<1> QED
  BY <1>2, <1>6, <1>7, <1>8 DEF TablesOK

(* free_pages of an empty page table, whose entry stays.                   *)
LEMMA DropTable ==
    ASSUME TablesOK, NEW d \in Live, entries[page_dir[d]] = Empty,
           allocated' = allocated \ {page_dir[d]},
           stale' = stale \cup {d},
           UNCHANGED <<page_dir, entries>>
    PROVE  /\ TablesOK'
           /\ \A e \in 0 .. DIR_ENTRIES - 1, j \in Indices :
                 MappedAt(e, j)' <=> MappedAt(e, j)
<1> DEFINE t == page_dir[d]
<1>1. /\ TablesType /\ d \in 0 .. DIR_ENTRIES - 1 /\ t \in PAGES /\ t \in Tables
      /\ t # NONE
  BY TableFacts DEF TablesOK, Live
<1>2. \A j \in Indices : entries[t][j] = NONE
  BY DEF Empty, Indices
<1>3. Live' = Live \ {d}
  BY DEF Live
<1>4. \A e \in Live : page_dir[e] = t => e = d
  BY DEF TablesOK, UsedOnce
<1>5. TablesType'
  <2>1. IsFiniteSet(allocated \ {t})
    BY <1>1, FS_Subset DEF TablesType
  <2> QED
    BY <1>1, <2>1 DEF TablesType
<1>6. Tables' = Tables \ {t}
  <2>1. Tables = {page_dir[e] : e \in Live}
    BY <1>1, TableFacts
  <2>2. Tables' = {page_dir[e] : e \in Live'}
    <3>1. Tables' = ({page_dir[e] : e \in DOMAIN page_dir \ stale} \ {NONE})'
      BY DEF Tables
    <3> QED
      BY <3>1 DEF Live
  <2> QED
    BY <1>3, <1>4, <2>1, <2>2
<1> HIDE DEF t
<1>7. Slots' = Slots
  <2>1. Slots = {s \in Tables \X Indices : entries[s[1]][s[2]] # NONE}
    BY DEF Slots, Indices
  <2>2. Slots' = {s \in (Tables \ {t}) \X Indices : entries[s[1]][s[2]] # NONE}
    BY <1>6 DEF Slots, Indices
  <2> QED
    BY <1>2, <2>1, <2>2
<1>8. \A s \in Slots : NewValue(s) = Value(s) /\ Value(s) # t
  BY <1>1 DEF Value, NewValue, TablesOK, UsedOnce
<1>9. UsedOnce'
  BY <1>3, <1>6, <1>7 DEF TablesOK, UsedOnce
<1>10. PagesAccounted'
  <2>1. allocated' = Tables' \cup {NewValue(s) : s \in Slots'}
    <3>1. {NewValue(s) : s \in Slots'} = {Value(s) : s \in Slots}
      BY <1>7, <1>8
    <3>2. allocated' = allocated \ {t}
      BY DEF t
    <3> QED
      BY <1>6, <1>8, <3>1, <3>2, SlotFacts
  <2>2. /\ Cardinality(allocated') = Cardinality(allocated) - 1
        /\ Cardinality(Live') = Cardinality(Live) - 1
    <3>1. t \in allocated /\ allocated' = allocated \ {t}
      BY <1>1, SlotFacts DEF t
    <3> QED
      BY <1>1, <1>3, <3>1, SlotFacts, FS_RemoveElement DEF TablesType
  <2>3. Cardinality(Live) \in Nat /\ Cardinality(Slots) \in Nat
    BY SlotFacts, FS_CardinalityType
  <2>4. Cardinality(allocated') = Cardinality(Live') + Cardinality(Slots')
    BY <1>7, <2>2, <2>3, SlotFacts
  <2> QED
    BY <2>1, <2>4 DEF PagesAccounted, NewValue, Live
<1>11. ASSUME NEW e \in 0 .. DIR_ENTRIES - 1, NEW j \in Indices
       PROVE  MappedAt(e, j)' <=> MappedAt(e, j)
  <2>1. CASE e = d
    BY <1>2, <1>3, <2>1 DEF MappedAt, t
  <2>2. CASE e # d
    BY <1>3, <2>2 DEF MappedAt
  <2> QED
    BY <2>1, <2>2
<1> QED
  BY <1>5, <1>9, <1>10, <1>11 DEF TablesOK

(***************************************************************************)
(* The pages of the areas against the pages that are mapped                *)
(***************************************************************************)
(* No page belongs to two areas.                                           *)
LEMMA PagesApart ==
    ASSUME ListInv, AllWhole,
           NEW a \in Range(vm_area_list), NEW b \in Range(vm_area_list), a # b,
           NEW n \in AreaPages(a)
    PROVE  n \notin AreaPages(b)
<1> DEFINE l == vm_area_list
<1>1. /\ l \in Seq(Areas) /\ Sorted(l)
      /\ \A c \in Range(l) : Whole(c)
  BY DEF ListInv, ListOK, AllWhole
<1>2. Range(l) = {l[i] : i \in 1 .. Len(l)} /\ \A i \in 1 .. Len(l) : l[i] \in Areas
  BY <1>1, RangeEquality, ElementOfSeq
<1>3. ASSUME NEW c \in Areas, NEW d \in Areas, Whole(c), c.end < d.start
      PROVE  PageOf(c.end) < PageOf(d.start)
  <2>1. c.end \in Int /\ d.start \in Int /\ PAGE_SIZE \in Nat \ {0, 1}
    BY VmAssumption DEF Areas
  <2>2. (c.end + 1) % PAGE_SIZE = 0
    BY <1>3 DEF Whole
  <2>3. \A s \in Int : c.end < s => c.end \div PAGE_SIZE < s \div PAGE_SIZE
    BY <2>1, <2>2, DivWhole
  <2> QED
    BY <1>3, <2>1, <2>3 DEF PageOf
<1>4. PICK i \in 1 .. Len(l), j \in 1 .. Len(l) : a = l[i] /\ b = l[j]
  BY <1>2
<1>5. \A c \in Areas : PageOf(c.start) \in Int /\ PageOf(c.end) \in Int
  <2>1. \A k \in Int : k \div PAGE_SIZE \in Int
    BY Sizes, DivBounds
  <2> QED
    BY <2>1 DEF Areas, PageOf
<1>6. a \in Areas /\ b \in Areas /\ Whole(a) /\ Whole(b)
  BY <1>1, <1>2, <1>4
<1>7. CASE i < j
  <2>1. PageOf(a.end) < PageOf(b.start)
    BY <1>1, <1>3, <1>4, <1>6, <1>7 DEF Sorted
  <2> QED
    BY <1>5, <1>6, <2>1 DEF AreaPages
<1>8. CASE j < i
  <2>1. PageOf(b.end) < PageOf(a.start)
    BY <1>1, <1>3, <1>4, <1>6, <1>8 DEF Sorted
  <2> QED
    BY <1>5, <1>6, <2>1 DEF AreaPages
<1> QED
  BY <1>4, <1>7, <1>8

(* The pages of the loop are the pages of the area, and in reach of the    *)
(* tables.                                                                 *)
LEMMA CurFacts ==
    ASSUME ListInv, Running, Cur <= LastPage(vma)
    PROVE  /\ Cur \in AreaPages(vma) /\ Cur \in UserPages
           /\ Cur % TABLE_ENTRIES = pt_idx % TABLE_ENTRIES
           /\ pt_idx \in Nat
<1>1. /\ vma \in Areas /\ vma.start < vma.end /\ InRange(vma)
      /\ Cur \in Nat /\ Cur = Base(vma) + pt_idx
      /\ PageOf(vma.start) \in Nat /\ PageOf(vma.start) <= Cur
      /\ LastPage(vma) \in Nat
  BY LoopFacts
<1>2. pt_idx \in Nat
  BY DEF ListInv, LoopOK
<1>3. LastPage(vma) <= PageOf(vma.end) /\ PageOf(vma.end) \in Nat
  BY <1>1, AreaFacts
<1>4. Cur \in AreaPages(vma)
  BY <1>1, <1>3 DEF AreaPages
<1>5. Cur \in UserPages
  <2> DEFINE top == DIR_ENTRIES * TABLE_ENTRIES
  <2>1. top \in Int /\ PageOf(vma.end) < top
    <3>1. \A i, j \in Nat : i * j \in Int
      OBVIOUS
    <3> QED
      BY <1>1, <3>1, VmAssumption DEF InRange
  <2> HIDE DEF top
  <2>2. Cur \in 0 .. top - 1
    BY <1>1, <1>3, <2>1
  <2> QED
    BY <2>2 DEF top, UserPages
<1>6. Cur % TABLE_ENTRIES = pt_idx % TABLE_ENTRIES
  <2>1. pt_idx \in Int
    BY <1>2
  <2> QED
    BY <1>1, <2>1, IndexFacts
<1> QED
  BY <1>2, <1>4, <1>5, <1>6

(* The end of a whole area is the end of the loop.                         *)
LEMMA WholeEnd ==
    ASSUME NEW a \in Areas, a.start < a.end, Whole(a)
    PROVE  LastPage(a) = PageOf(a.end)
<1>1. a.end \in Int /\ PAGE_SIZE \in Nat \ {0, 1} /\ (a.end + 1) % PAGE_SIZE = 0
  BY VmAssumption DEF Areas, Whole
<1>2. (a.end + PAGE_SIZE - 1) \div PAGE_SIZE = (a.end \div PAGE_SIZE) + 1
  BY <1>1, DivWhole
<1>3. a.end \div PAGE_SIZE \in Int
  BY <1>1, DivBounds
<1> QED
  BY <1>2, <1>3 DEF LastPage, PageOf

LEMMA UserPage ==
    ASSUME NEW n \in UserPages
    PROVE  /\ n \div TABLE_ENTRIES \in 0 .. DIR_ENTRIES - 1
           /\ n % TABLE_ENTRIES \in Indices
           /\ n \in Nat
           /\ TablesType => (Mapped(n) <=> MappedAt(n \div TABLE_ENTRIES, n % TABLE_ENTRIES))
<1> DEFINE top == DIR_ENTRIES * TABLE_ENTRIES
           d == n \div TABLE_ENTRIES
           i == n % TABLE_ENTRIES
<1>1. top \in Int /\ DIR_ENTRIES \in Int /\ TABLE_ENTRIES \in Nat \ {0}
  <2>1. \A k, j \in Nat : k * j \in Int
    OBVIOUS
  <2> QED
    BY <2>1, VmAssumption
<1>2. n \in Nat /\ n < top
  <2>1. n \in 0 .. top - 1
    BY DEF UserPages
  <2> HIDE DEF top
  <2> QED
    BY <1>1, <2>1
<1>3. d < DIR_ENTRIES
  <2>1. n \in Int /\ n < DIR_ENTRIES * TABLE_ENTRIES
    BY <1>2
  <2> QED
    BY <1>1, <2>1, DivLess
<1>4. d \in Nat
  BY <1>1, <1>2, DivNat
<1>5. i \in 0 .. TABLE_ENTRIES - 1
  <2>1. n \in Int
    BY <1>2
  <2> QED
    BY <1>1, <2>1, DivBounds
<1> HIDE DEF d, i
<1>6. d \in 0 .. DIR_ENTRIES - 1
  BY <1>1, <1>3, <1>4
<1>7. Mapped(n) <=> page_dir[d] # NONE /\ d \notin stale /\ entries[page_dir[d]][i] # NONE
  BY DEF Mapped, d, i
<1>8. TablesType => (Mapped(n) <=> MappedAt(d, i))
  BY <1>6, <1>7, TableFacts DEF MappedAt
<1> QED
  BY <1>2, <1>5, <1>6, <1>8 DEF d, i, Indices

(* The same of the state before and after a step.                          *)
MappedBySlot ==
    TablesType => \A n \in UserPages :
                     Mapped(n) <=> MappedAt(n \div TABLE_ENTRIES, n % TABLE_ENTRIES)

LEMMA MappedAlways == []MappedBySlot
<1>1. MappedBySlot
  BY UserPage DEF MappedBySlot
<1> QED
  BY <1>1, PTL

LEMMA SamePage ==
    ASSUME NEW n \in UserPages, NEW c \in UserPages,
           n \div TABLE_ENTRIES = c \div TABLE_ENTRIES, n % TABLE_ENTRIES = c % TABLE_ENTRIES
    PROVE  n = c
<1>1. n \in Int /\ c \in Int /\ TABLE_ENTRIES \in Nat \ {0}
  BY UserPage, Sizes
<1> QED
  BY <1>1, DivSame

(* In map_vm_area the next page is not mapped yet.                         *)
LEMMA NotMappedYet ==
    ASSUME ListInv, TablesInv, pc = "map"
    PROVE  ~Mapped(Cur)
<1>1. Running /\ Cur <= LastPage(vma) /\ vma \in Range(vm_area_list)
  BY DEF Running, ListInv, LoopOK
<1>2. Cur \in AreaPages(vma) /\ Cur \in UserPages
  BY <1>1, CurFacts
<1>3. Cur \in Nat
  BY <1>1, LoopFacts
<1>4. SUFFICES ASSUME Mapped(Cur) PROVE FALSE
  OBVIOUS
<1>5. Due(Cur)
  BY <1>2, <1>4 DEF TablesInv, OnlyDue, Stepping
<1>6. PICK a \in Range(vm_area_list) : Reached(a, Cur)
  BY <1>5 DEF Due
<1>7. a # vma
  BY <1>3, <1>6 DEF Reached
<1>8. Cur \in AreaPages(a)
  BY <1>6 DEF Reached
<1> QED
  BY <1>1, <1>2, <1>7, <1>8, PagesApart DEF TablesInv

(***************************************************************************)
(* Every step keeps the tables and the areas together                      *)
(***************************************************************************)
Kept == TablesInv' /\ (NothingBehind /\ AllDue => AllDue')

LEMMA StillTables ==
    ASSUME TablesOK, UNCHANGED <<page_dir, stale, entries, allocated>>
    PROVE  TablesOK' /\ Live' = Live /\ \A n \in UserPages : Mapped(n)' <=> Mapped(n)
<1>1. Live' = Live /\ Tables' = Tables /\ Slots' = Slots
  BY DEF Live, Tables, Slots
<1>2. TablesType' /\ UsedOnce' /\ PagesAccounted'
  BY <1>1 DEF TablesOK, TablesType, UsedOnce, PagesAccounted
<1>3. \A n \in UserPages : Mapped(n)' <=> Mapped(n)
  BY DEF Mapped
<1> QED
  BY <1>1, <1>2, <1>3 DEF TablesOK

(* What is mapped and what is due change alike.                            *)
LEMMA Together ==
    ASSUME TablesInv, Stepping, TablesOK', TableThere', AllWhole',
           \A n \in UserPages : Mapped(n)' <=> Mapped(n),
           \A n \in UserPages : Due(n)' <=> Due(n)
    PROVE  Kept
  BY DEF Kept, TablesInv, OnlyDue, AllDue

LEMMA AllocTables ==
    ASSUME WholePages, ListInv, ListInv', TablesInv, do_vm_alloc
    PROVE  Kept
<1>1. PICK r \in REQUESTS, e \in Areas :
         /\ e \notin Range(vm_area_list)
         /\ Range(vm_area_list)' = Range(vm_area_list) \cup {e}
         /\ (r[1] % PAGE_SIZE = 0 /\ r[2] % PAGE_SIZE = 0
               /\ \A a \in Range(vm_area_list) : Whole(a)) => Whole(e)
         /\ StartAt(e) /\ e.start < e.end
  BY AllocList
<1>2. /\ pc = "idle" /\ pc' = "map"
      /\ UNCHANGED <<page_dir, stale, entries, allocated>>
  BY DEF do_vm_alloc
<1>3. TablesOK' /\ \A n \in UserPages : Mapped(n)' <=> Mapped(n)
  BY <1>2, StillTables DEF TablesInv
<1>4. TableThere' /\ AllWhole'
  BY <1>1, <1>2 DEF TableThere, TablesInv, AllWhole, WholePages
<1>5. vma' = e /\ Cur' = PageOf(e.start)
  BY <1>1, StartFacts
<1>6. ASSUME NEW n \in UserPages
      PROVE  Due(n)' <=> Due(n)
  <2>1. PageOf(e.start) \in Int /\ n \in Int
    BY <1>1, AreaFacts, UserPage
  <2>2. \A a : Reached(a, n) <=> n \in AreaPages(a)
    BY <1>2 DEF Reached
  <2>3. \A a : Reached(a, n)' <=> n \in AreaPages(a) /\ (a = e => n < PageOf(e.start))
    BY <1>2, <1>5 DEF Reached
  <2>4. ~Reached(e, n)'
    BY <2>1, <2>3 DEF AreaPages
  <2>5. \A a \in Range(vm_area_list) : Reached(a, n)' <=> Reached(a, n)
    BY <1>1, <2>2, <2>3
  <2> QED
    BY <1>1, <2>4, <2>5 DEF Due
<1> QED
  BY <1>2, <1>3, <1>4, <1>6, Together DEF Stepping

LEMMA FreeTables ==
    ASSUME ListInv, TablesInv, vm_free_area
    PROVE  Kept
<1>1. PICK a \in ToSet(vm_area_list) : StartAt(a)
  BY DEF vm_free_area
<1>2. /\ pc = "idle" /\ pc' = "unmap" /\ vm_area_list' = vm_area_list
      /\ UNCHANGED <<page_dir, stale, entries, allocated>>
  BY DEF vm_free_area
<1>3. TablesOK' /\ \A n \in UserPages : Mapped(n)' <=> Mapped(n)
  BY <1>2, StillTables DEF TablesInv
<1>4. TableThere' /\ AllWhole'
  BY <1>2 DEF TableThere, TablesInv, AllWhole
<1>5. a \in Areas /\ a.start < a.end
  <2>1. a \in Range(vm_area_list)
    BY DEF ToSet, Range
  <2>2. Range(vm_area_list) \subseteq Areas
    <3>1. vm_area_list \in Seq(Areas)
      BY DEF ListInv, ListOK
    <3> QED
      BY <3>1, RangeEquality, ElementOfSeq
  <2> QED
    BY <2>1, <2>2 DEF ListInv, ListOK
<1>6. vma' = a /\ Cur' = PageOf(a.start)
  BY <1>1, <1>5, StartFacts
<1>7. ASSUME NEW n \in UserPages
      PROVE  Due(n)' <=> Due(n)
  <2>1. PageOf(a.start) \in Int /\ n \in Int
    BY <1>5, AreaFacts, UserPage
  <2>2. \A b : Reached(b, n) <=> n \in AreaPages(b)
    BY <1>2 DEF Reached
  <2>3. \A b : Reached(b, n)' <=> n \in AreaPages(b) /\ (b = a => PageOf(a.start) <= n)
    BY <1>2, <1>6 DEF Reached
  <2>4. n \in AreaPages(a) => PageOf(a.start) <= n
    BY <2>1 DEF AreaPages
  <2> QED
    BY <1>2, <2>2, <2>3, <2>4 DEF Due
<1> QED
  BY <1>2, <1>3, <1>4, <1>7, Together DEF Stepping

LEMMA MapTableTables ==
    ASSUME ListInv, TablesInv, MapTable
    PROVE  Kept
<1>1. /\ pc = "map" /\ page_dir[pd_idx] = NONE
      /\ UNCHANGED <<vm_area_list, stale, pc, vma, pd_idx, pt_idx>>
  BY DEF MapTable
<1>2. PICK p \in PAGES :
         /\ p \notin allocated /\ allocated' = allocated \cup {p}
         /\ page_dir' = [page_dir EXCEPT ![pd_idx] = p]
         /\ entries' = [entries EXCEPT ![p] = Empty]
  BY DEF MapTable, Take
<1>3. Running /\ Cur <= LastPage(vma) /\ pd_idx = Cur \div TABLE_ENTRIES
  BY <1>1 DEF Running, ListInv, LoopOK
<1>4. pd_idx \in 0 .. DIR_ENTRIES - 1
  BY <1>3, CurFacts, UserPage
<1>5. /\ TablesOK'
      /\ \A d \in 0 .. DIR_ENTRIES - 1, i \in Indices : MappedAt(d, i)' <=> MappedAt(d, i)
  BY <1>1, <1>2, <1>4, AddTable DEF TablesInv
<1>6. ASSUME NEW n \in UserPages
      PROVE  Mapped(n)' <=> Mapped(n)
  <2>1. /\ n \div TABLE_ENTRIES \in 0 .. DIR_ENTRIES - 1 /\ n % TABLE_ENTRIES \in Indices
        /\ TablesType => (Mapped(n) <=> MappedAt(n \div TABLE_ENTRIES, n % TABLE_ENTRIES))
    BY UserPage
  <2>2. TablesType' => (Mapped(n)' <=> MappedAt(n \div TABLE_ENTRIES, n % TABLE_ENTRIES)')
    <3>1. MappedBySlot'
      BY MappedAlways, PTL
    <3> QED
      BY <3>1 DEF MappedBySlot
  <2> QED
    BY <1>5, <2>1, <2>2 DEF TablesInv, TablesOK
<1>7. Cur' = Cur /\ TableThere' /\ AllWhole'
  BY <1>1 DEF Cur, TableThere, TablesInv, AllWhole
<1>8. \A n \in UserPages : Due(n)' <=> Due(n)
  BY <1>1, <1>7 DEF Due, Reached
<1> QED
  BY <1>1, <1>5, <1>6, <1>7, <1>8, Together DEF Stepping

LEMMA MapPageTables ==
    ASSUME ListInv, TablesInv, MapPage
    PROVE  Kept
<1> DEFINE t == page_dir[pd_idx]
           i == pt_idx % TABLE_ENTRIES
<1>1. /\ pc = "map" /\ t # NONE /\ pd_idx \notin stale
      /\ UNCHANGED <<vm_area_list, page_dir, stale>>
  BY DEF MapPage
<1>2. /\ Running /\ Cur <= LastPage(vma) /\ pd_idx = Cur \div TABLE_ENTRIES
      /\ vma \in Range(vm_area_list)
  BY <1>1 DEF Running, ListInv, LoopOK
<1>3. /\ Cur \in AreaPages(vma) /\ Cur \in UserPages
      /\ Cur % TABLE_ENTRIES = i /\ pt_idx \in Nat
  BY <1>2, CurFacts
<1>4. /\ pd_idx \in 0 .. DIR_ENTRIES - 1 /\ i \in Indices
      /\ Cur \in Nat
  BY <1>2, <1>3, UserPage
<1>5. TablesOK /\ TablesType /\ pd_idx \in Live
  BY <1>1, <1>4, TableFacts DEF TablesInv, TablesOK
<1>6. ~Mapped(Cur) /\ entries[t][i] = NONE
  <2>1. ~Mapped(Cur)
    BY <1>1, NotMappedYet
  <2>2. Mapped(Cur) <=> MappedAt(pd_idx, i)
    BY <1>2, <1>3, <1>5, UserPage
  <2> QED
    BY <1>5, <2>1, <2>2 DEF MappedAt
<1>7. \/ UNCHANGED <<entries, allocated>> /\ TRUE \in Present(t)
      \/ \E p \in PAGES : /\ p \notin allocated /\ allocated' = allocated \cup {p}
                          /\ entries' = [entries EXCEPT ![t][i] = p]
  BY DEF MapPage, Take
<1>8. \/ pc' = "map" /\ vma' = vma /\ Cur' = Cur + 1
      \/ pc' = "idle" /\ Cur = LastPage(vma)
  BY MapPageList
<1>9. ASSUME NEW n \in UserPages
      PROVE  Due(n)' <=> Due(n) \/ n = Cur
  <2>1. n \in Nat
    BY UserPage
  <2>2. \A a : Reached(a, n) <=> n \in AreaPages(a) /\ (a = vma => n < Cur)
    BY <1>1 DEF Reached
  <2>3. CASE pc' = "map" /\ vma' = vma /\ Cur' = Cur + 1
    <3>1. \A a : Reached(a, n)' <=> n \in AreaPages(a) /\ (a = vma => n < Cur + 1)
      BY <2>3 DEF Reached
    <3>2. n < Cur + 1 <=> n < Cur \/ n = Cur
      BY <1>4, <2>1
    <3>3. \A a : a = vma /\ n = Cur => Reached(a, n)'
      BY <1>3, <3>1, <3>2
    <3>4. \A a : Reached(a, n)' => Reached(a, n) \/ n = Cur
      BY <2>2, <3>1, <3>2
    <3>5. \A a : Reached(a, n) => Reached(a, n)'
      BY <2>2, <3>1, <3>2
    <3> QED
      BY <1>1, <1>2, <3>3, <3>4, <3>5 DEF Due
  <2>4. CASE pc' = "idle" /\ Cur = LastPage(vma)
    <3>1. \A a : Reached(a, n)' <=> n \in AreaPages(a)
      BY <2>4 DEF Reached
    <3>2. n \in AreaPages(vma) => n < Cur \/ n = Cur
      <4>1. vma \in Areas /\ vma.start < vma.end /\ Whole(vma)
        BY <1>2, LoopFacts DEF TablesInv, AllWhole
      <4>2. PageOf(vma.end) = Cur
        BY <2>4, <4>1, WholeEnd
      <4> QED
        BY <1>4, <2>1, <4>2 DEF AreaPages
    <3>3. \A a : a = vma /\ n = Cur => Reached(a, n)'
      BY <1>3, <3>1
    <3>4. \A a : Reached(a, n)' => Reached(a, n) \/ n = Cur
      BY <2>2, <3>1, <3>2
    <3>5. \A a : Reached(a, n) => Reached(a, n)'
      BY <2>2, <3>1
    <3> QED
      BY <1>1, <1>2, <3>3, <3>4, <3>5 DEF Due
  <2> QED
    BY <1>8, <2>3, <2>4
<1>10. TableThere' /\ AllWhole'
  BY <1>1, <1>8 DEF TableThere, TablesInv, AllWhole
<1>11. CASE UNCHANGED <<entries, allocated>> /\ TRUE \in Present(t)
  <2>1. TablesOK' /\ \A n \in UserPages : Mapped(n)' <=> Mapped(n)
    BY <1>1, <1>5, <1>11, StillTables
  <2>2. OnlyDue'
    BY <1>1, <1>9, <2>1 DEF TablesInv, OnlyDue, Stepping
  <2>3. ~NothingBehind
    <3>1. pt_idx < TABLE_ENTRIES => i = pt_idx
      BY <1>3, Sizes
    <3>2. ~(pt_idx < TABLE_ENTRIES)
      BY <1>6, <1>11, <3>1 DEF Present
    <3> QED
      BY <1>11, <3>2 DEF Present, NothingBehind
  <2> QED
    BY <1>10, <2>1, <2>2, <2>3 DEF Kept, TablesInv
<1>12. CASE \E p \in PAGES : /\ p \notin allocated /\ allocated' = allocated \cup {p}
                             /\ entries' = [entries EXCEPT ![t][i] = p]
  <2>1. PICK p \in PAGES : /\ p \notin allocated /\ allocated' = allocated \cup {p}
                           /\ entries' = [entries EXCEPT ![t][i] = p]
    BY <1>12
  <2>2. /\ TablesOK'
        /\ \A d \in 0 .. DIR_ENTRIES - 1, j \in Indices :
              MappedAt(d, j)' <=> MappedAt(d, j) \/ (d = pd_idx /\ j = i)
    BY <1>1, <1>4, <1>5, <1>6, <2>1, AddPage
  <2>3. ASSUME NEW n \in UserPages
        PROVE  Mapped(n)' <=> Mapped(n) \/ n = Cur
    <3> DEFINE d == n \div TABLE_ENTRIES
               j == n % TABLE_ENTRIES
    <3>1. d \in 0 .. DIR_ENTRIES - 1 /\ j \in Indices /\ (Mapped(n) <=> MappedAt(d, j))
      BY <1>5, UserPage
    <3>2. Mapped(n)' <=> MappedAt(d, j)'
      <4>1. MappedBySlot'
        BY MappedAlways, PTL
      <4> QED
        BY <2>2, <4>1 DEF MappedBySlot, TablesOK
    <3>3. d = pd_idx /\ j = i <=> n = Cur
      BY <1>2, <1>3, SamePage
    <3> HIDE DEF d, j, i
    <3> QED
      BY <2>2, <3>1, <3>2, <3>3
  <2>4. OnlyDue' /\ (AllDue => AllDue')
    BY <1>1, <1>9, <2>3 DEF TablesInv, OnlyDue, AllDue, Stepping
  <2> QED
    BY <1>10, <2>2, <2>4 DEF Kept, TablesInv
<1> QED
  BY <1>7, <1>11, <1>12

LEMMA UnmapPageTables ==
    ASSUME ListInv, TablesInv, UnmapPage
    PROVE  Kept
<1> DEFINE t == page_dir[pd_idx]
           i == pt_idx % TABLE_ENTRIES
<1>1. /\ pc = "unmap" /\ pd_idx \notin stale
      /\ UNCHANGED <<vm_area_list, page_dir, stale, vma, pd_idx>>
  BY DEF UnmapPage
<1>2. /\ Running /\ Cur <= LastPage(vma) /\ pd_idx = Cur \div TABLE_ENTRIES
      /\ vma \in Range(vm_area_list)
  BY <1>1 DEF Running, ListInv, LoopOK
<1>3. /\ Cur \in AreaPages(vma) /\ Cur \in UserPages
      /\ Cur % TABLE_ENTRIES = i
  BY <1>2, CurFacts
<1>4. pd_idx \in 0 .. DIR_ENTRIES - 1 /\ i \in Indices /\ Cur \in Nat
  BY <1>2, <1>3, UserPage
<1>5. TablesOK /\ TablesType
  BY DEF TablesInv, TablesOK
<1>6. CASE pc' = "corrupt" /\ UNCHANGED <<entries, allocated>>
  <2>1. TablesOK'
    BY <1>1, <1>5, <1>6, StillTables
  <2> QED
    BY <1>1, <1>6, <2>1
       DEF Kept, TablesInv, TableThere, AllWhole, OnlyDue, AllDue, Stepping
<1>7. CASE /\ t # NONE /\ entries[t][i] # NONE
           /\ entries' = [entries EXCEPT ![t][i] = NONE]
           /\ allocated' = allocated \ {entries[t][i]}
           /\ pc' # "corrupt"
  <2>1. pd_idx \in Live
    BY <1>1, <1>4, <1>5, <1>7, TableFacts
  <2>2. /\ TablesOK' /\ Live' = Live
        /\ \A d \in 0 .. DIR_ENTRIES - 1, j \in Indices :
              MappedAt(d, j)' <=> MappedAt(d, j) /\ ~(d = pd_idx /\ j = i)
    BY <1>1, <1>4, <1>5, <1>7, <2>1, DropPage
  <2>3. ASSUME NEW n \in UserPages
        PROVE  Mapped(n)' <=> Mapped(n) /\ n # Cur
    <3> DEFINE d == n \div TABLE_ENTRIES
               j == n % TABLE_ENTRIES
    <3>1. d \in 0 .. DIR_ENTRIES - 1 /\ j \in Indices /\ (Mapped(n) <=> MappedAt(d, j))
      BY <1>5, UserPage
    <3>2. Mapped(n)' <=> MappedAt(d, j)'
      <4>1. MappedBySlot'
        BY MappedAlways, PTL
      <4> QED
        BY <2>2, <4>1 DEF MappedBySlot, TablesOK
    <3>3. d = pd_idx /\ j = i <=> n = Cur
      BY <1>2, <1>3, SamePage
    <3> HIDE DEF d, j, i
    <3> QED
      BY <2>2, <3>1, <3>2, <3>3
  <2>4. pc' \in {"unmap", "unmap_table"} /\ vma' = vma /\ Cur' = Cur + 1
    BY <1>7, UnmapPageList
  <2>5. ASSUME NEW n \in UserPages
        PROVE  Due(n)' <=> Due(n) /\ n # Cur
    <3>1. n \in Nat
      BY UserPage
    <3>2. \A a : Reached(a, n) <=> n \in AreaPages(a) /\ (a = vma => Cur <= n)
      BY <1>1 DEF Reached
    <3>3. \A a : Reached(a, n)' <=> n \in AreaPages(a) /\ (a = vma => Cur + 1 <= n)
      BY <2>4 DEF Reached
    <3>4. Cur + 1 <= n <=> Cur <= n /\ n # Cur
      BY <1>4, <3>1
    <3>5. \A a \in Range(vm_area_list) : n = Cur /\ n \in AreaPages(a) => a = vma
      BY <1>2, <1>3, PagesApart DEF TablesInv
    <3>6. \A a \in Range(vm_area_list) : Reached(a, n)' <=> Reached(a, n) /\ n # Cur
      BY <3>2, <3>3, <3>4, <3>5
    <3> QED
      BY <1>1, <3>6 DEF Due
  <2>6. TableThere' /\ AllWhole'
    BY <1>1, <2>1, <2>2 DEF TableThere, TablesInv, AllWhole
  <2>7. OnlyDue' /\ (AllDue => AllDue')
    BY <1>1, <2>3, <2>5 DEF TablesInv, OnlyDue, AllDue, Stepping
  <2> QED
    BY <2>2, <2>6, <2>7 DEF Kept, TablesInv
<1>8. \/ pc' = "corrupt" /\ UNCHANGED <<entries, allocated>>
      \/ /\ t # NONE /\ entries[t][i] # NONE
         /\ entries' = [entries EXCEPT ![t][i] = NONE]
         /\ allocated' = allocated \ {entries[t][i]}
         /\ pc' # "corrupt"
  <2>1. IF t = NONE \/ entries[t][i] = NONE
        THEN pc' = "corrupt" /\ UNCHANGED <<entries, allocated, pt_idx>>
        ELSE /\ entries' = [entries EXCEPT ![t][i] = NONE]
             /\ allocated' = allocated \ {entries[t][i]}
             /\ pt_idx' = pt_idx + 1
             /\ pc' = IF Continues THEN "unmap" ELSE "unmap_table"
    BY DEF UnmapPage
  <2> HIDE DEF t, i
  <2> QED
    BY <2>1
<1> QED
  BY <1>6, <1>7, <1>8

LEMMA UnmapTableTables ==
    ASSUME ListInv, TablesInv, UnmapTable
    PROVE  Kept
<1>1. /\ pc = "unmap_table" /\ UNCHANGED <<page_dir, entries>>
      /\ IF entries[page_dir[pd_idx]] = Empty
         THEN /\ allocated' = allocated \ {page_dir[pd_idx]}
              /\ stale' = stale \cup {pd_idx}
         ELSE UNCHANGED <<allocated, stale>>
  BY DEF UnmapTable, UnusedTable
<1>2. TablesOK /\ TablesType /\ pd_idx \in Live
  BY <1>1 DEF TablesInv, TablesOK, TableThere
<1>3. TablesOK' /\ \A n \in UserPages : Mapped(n)' <=> Mapped(n)
  <2>1. CASE entries[page_dir[pd_idx]] = Empty
    <3>1. /\ TablesOK'
          /\ \A d \in 0 .. DIR_ENTRIES - 1, j \in Indices :
                MappedAt(d, j)' <=> MappedAt(d, j)
      BY <1>1, <1>2, <2>1, DropTable
    <3>2. MappedBySlot'
      BY MappedAlways, PTL
    <3>3. ASSUME NEW n \in UserPages
          PROVE  Mapped(n)' <=> Mapped(n)
      <4> DEFINE d == n \div TABLE_ENTRIES
                 j == n % TABLE_ENTRIES
      <4>1. d \in 0 .. DIR_ENTRIES - 1 /\ j \in Indices /\ (Mapped(n) <=> MappedAt(d, j))
        BY <1>2, UserPage
      <4>2. Mapped(n)' <=> MappedAt(d, j)'
        BY <3>1, <3>2 DEF MappedBySlot, TablesOK
      <4> HIDE DEF d, j
      <4> QED
        BY <3>1, <4>1, <4>2
    <3> QED
      BY <3>1, <3>3
  <2>2. CASE entries[page_dir[pd_idx]] # Empty
    BY <1>1, <1>2, <2>2, StillTables
  <2> QED
    BY <2>1, <2>2
<1>4. \/ /\ pc' = "unmap" /\ vma' = vma /\ Cur' = Cur
         /\ vm_area_list' = vm_area_list
      \/ /\ pc' = "idle" /\ Cur = LastPage(vma) + 1
         /\ Range(vm_area_list)' = Range(vm_area_list) \ {vma}
  BY UnmapTableList
<1>5. TableThere' /\ AllWhole'
  BY <1>4 DEF TableThere, TablesInv, AllWhole
<1>6. ASSUME NEW n \in UserPages
      PROVE  Due(n)' <=> Due(n)
  <2>1. \A a : Reached(a, n) <=> n \in AreaPages(a) /\ (a = vma => Cur <= n)
    BY <1>1 DEF Reached
  <2>2. CASE /\ pc' = "unmap" /\ vma' = vma /\ Cur' = Cur
             /\ vm_area_list' = vm_area_list
    <3>1. \A a : Reached(a, n)' <=> n \in AreaPages(a) /\ (a = vma => Cur <= n)
      BY <2>2 DEF Reached
    <3> QED
      BY <2>1, <2>2, <3>1 DEF Due
  <2>3. CASE /\ pc' = "idle" /\ Cur = LastPage(vma) + 1
             /\ Range(vm_area_list)' = Range(vm_area_list) \ {vma}
    <3>1. \A a : Reached(a, n)' <=> n \in AreaPages(a)
      BY <2>3 DEF Reached
    <3>2. ~Reached(vma, n)
      <4>1. /\ Running /\ vma \in Range(vm_area_list)
        BY <1>1 DEF Running, ListInv, LoopOK
      <4>2. /\ vma \in Areas /\ vma.start < vma.end /\ Whole(vma)
            /\ LastPage(vma) \in Nat
        BY <4>1, LoopFacts DEF TablesInv, AllWhole
      <4>3. PageOf(vma.end) + 1 = Cur /\ PageOf(vma.end) \in Nat
        BY <2>3, <4>2, WholeEnd
      <4>4. n \in Nat
        BY UserPage
      <4> QED
        BY <2>1, <4>3, <4>4 DEF AreaPages
    <3>3. \A a : a # vma => (Reached(a, n)' <=> Reached(a, n))
      BY <2>1, <3>1
    <3> QED
      BY <2>3, <3>2, <3>3 DEF Due
  <2> QED
    BY <1>4, <2>2, <2>3
<1> QED
  BY <1>1, <1>3, <1>5, <1>6, Together DEF Stepping

(* An action that leaves the tables alone and stops or changes nothing.     *)
LEMMA StopTables ==
    ASSUME TablesInv, UNCHANGED <<page_dir, stale, entries, allocated>>, AllWhole',
           pc' \in {"bug", "corrupt", "gone"} \/ UNCHANGED vars
    PROVE  Kept
<1>1. TablesOK' /\ Live' = Live /\ \A n \in UserPages : Mapped(n)' <=> Mapped(n)
  BY StillTables DEF TablesInv
<1>2. CASE pc' \in {"bug", "corrupt", "gone"}
  BY <1>1, <1>2 DEF Kept, TablesInv, TableThere, OnlyDue, AllDue, Stepping
<1>3. CASE UNCHANGED vars
  <2>1. \A n \in UserPages : Due(n)' <=> Due(n)
    BY <1>3 DEF vars, Due, Reached, Cur
  <2>2. pc' = pc /\ TableThere'
    BY <1>1, <1>3 DEF vars, TablesInv, TableThere
  <2> QED
    BY <1>1, <2>1, <2>2 DEF Kept, TablesInv, OnlyDue, AllDue, Stepping
<1> QED
  BY <1>2, <1>3

LEMMA TablesStep ==
    ASSUME WholePages, ListInv, ListInv', TablesInv, [Next]_vars
    PROVE  Kept
<1>1. CASE do_vm_alloc
  BY <1>1, AllocTables
<1>2. CASE MapTable
  BY <1>2, MapTableTables
<1>3. CASE MapPage
  BY <1>3, MapPageTables
<1>4. CASE OutOfPages
  BY <1>4, StopTables DEF OutOfPages, TablesInv, AllWhole
<1>5. CASE vm_free_area
  BY <1>5, FreeTables
<1>6. CASE UnmapPage
  BY <1>6, UnmapPageTables
<1>7. CASE UnmapTable
  BY <1>7, UnmapTableTables
<1>8. CASE StaleTable
  BY <1>8, StopTables DEF StaleTable, TablesInv, AllWhole
<1>9. CASE do_vm_free
  <2>1. AllWhole'
    BY <1>9 DEF do_vm_free, AllWhole, Range
  <2> QED
    BY <1>9, <2>1, StopTables DEF do_vm_free
<1>10. CASE Stopped \/ UNCHANGED vars
  BY <1>10, StopTables DEF Stopped, vars, TablesInv, AllWhole
<1> QED
  BY <1>1, <1>2, <1>3, <1>4, <1>5, <1>6, <1>7, <1>8, <1>9, <1>10 DEF Next

LEMMA TablesInit ==
    ASSUME Init
    PROVE  TablesInv /\ AllDue
<1>1. /\ Empty \in [0 .. TABLE_ENTRIES - 1 -> PAGES \cup {NONE}]
      /\ IsFiniteSet({}) /\ Cardinality({}) = 0
  BY FS_EmptySet DEF Empty
<1>2. Tables = {} /\ Slots = {} /\ Live = {}
  BY DEF Init, Tables, Slots, Live
<1>3. TablesOK
  <2>1. TablesType
    BY <1>1 DEF Init, TablesType
  <2>2. UsedOnce
    BY <1>2 DEF UsedOnce
  <2>3. PagesAccounted
    <3>1. {d \in DOMAIN page_dir \ stale : page_dir[d] # NONE} = {} /\ allocated = {}
      BY <1>2 DEF Live, Init
    <3>2. {entries[s[1]][s[2]] : s \in Slots} = {}
      BY <1>2
    <3>3. /\ Cardinality({d \in DOMAIN page_dir \ stale : page_dir[d] # NONE}) = 0
          /\ Cardinality(allocated) = 0
          /\ Cardinality(Slots) = 0
      BY <1>1, <1>2, <3>1
    <3>4. allocated = Tables \cup {entries[s[1]][s[2]] : s \in Slots} /\ 0 = 0 + 0
      BY <1>2, <3>1, <3>2
    <3> QED
      BY <3>3, <3>4 DEF PagesAccounted
  <2> QED
    BY <2>1, <2>2, <2>3 DEF TablesOK
<1>4. ASSUME NEW n \in UserPages
      PROVE  ~Mapped(n) /\ ~Due(n)
  <2>1. Range(vm_area_list) = {}
    BY DEF Init, Range
  <2>2. ~Mapped(n)
    BY <1>2, <1>3, UserPage DEF MappedAt, TablesOK
  <2> QED
    BY <2>1, <2>2 DEF Due
<1>5. AllWhole /\ TableThere
  BY DEF Init, AllWhole, TableThere, Range
<1> QED
  BY <1>3, <1>4, <1>5 DEF TablesInv, OnlyDue, AllDue

(* The tables, when whole pages are asked for.                             *)
LEMMA TablesInvariance ==
    ASSUME WholePages
    PROVE  Spec => [](ListInv /\ TablesInv)
<1>1. Init => TablesInv
  BY TablesInit
<1>2. ListInv /\ ListInv' /\ TablesInv /\ [Next]_vars => TablesInv'
  BY TablesStep DEF Kept
<1> QED
  BY <1>1, <1>2, ListInvariance, PTL DEF Spec

(***************************************************************************)
(* The theorems                                                            *)
(***************************************************************************)
(* Areas never overlap, whatever their sizes: neither where the address     *)
(* that was asked for is taken nor where a gap is searched, vm_alloc_area.  *)
THEOREM AreasInOrder == Spec => []AreasSorted
<1>1. ListInv => AreasSorted
  <2> SUFFICES ASSUME ListInv PROVE AreasSorted
    OBVIOUS
  <2>1. /\ vm_area_list \in Seq(Areas) /\ Sorted(vm_area_list)
        /\ \A a \in Range(vm_area_list) : a.start < a.end
    BY DEF ListInv, ListOK
  <2>2. /\ DOMAIN vm_area_list = 1 .. Len(vm_area_list)
        /\ Len(vm_area_list) \in Nat
        /\ \A i \in 1 .. Len(vm_area_list) :
              vm_area_list[i] \in Areas /\ vm_area_list[i] \in Range(vm_area_list)
    <3>1. /\ DOMAIN vm_area_list = 1 .. Len(vm_area_list)
          /\ Len(vm_area_list) \in Nat
          /\ \A i \in 1 .. Len(vm_area_list) : vm_area_list[i] \in Areas
      BY <2>1, LenProperties, ElementOfSeq
    <3> QED
      BY <3>1 DEF Range
  <2>3. ASSUME NEW i \in DOMAIN vm_area_list
        PROVE  /\ vm_area_list[i].start <= vm_area_list[i].end
               /\ i > 1 => vm_area_list[i - 1].end < vm_area_list[i].start
    <3>1. vm_area_list[i].start <= vm_area_list[i].end
      BY <2>1, <2>2 DEF Areas
    <3>2. i > 1 => i - 1 \in 1 .. Len(vm_area_list) /\ i - 1 < i
      BY <2>2
    <3> QED
      BY <2>1, <2>2, <3>1, <3>2 DEF Sorted
  <2> QED
    BY <2>3 DEF AreasSorted
<1> QED
  BY <1>1, ListInvariance, PTL

(* Every page taken from the allocator is one table or in one entry of one  *)
(* table: map_vm_area loses none when it meets an entry that is taken, and  *)
(* unmap_vm_area gives none back that is still in use.                      *)
THEOREM PagesAreAccounted ==
    ASSUME WholePages
    PROVE  Spec => []PagesAccounted
<1>1. ListInv /\ TablesInv => PagesAccounted
  BY DEF TablesInv, TablesOK
<1> QED
  BY <1>1, TablesInvariance, PTL

(* Setting one entry of one table keeps their types.                       *)
LEMMA EntryType ==
    ASSUME NEW f \in [PAGES -> [Indices -> PAGES \cup {NONE}]], NEW t, NEW i,
           NEW v \in PAGES \cup {NONE}
    PROVE  [f EXCEPT ![t][i] = v] \in [PAGES -> [Indices -> PAGES \cup {NONE}]]
<1> DEFINE g == [f[t] EXCEPT ![i] = v]
<1>1. CASE t \in PAGES
  <2>1. g \in [Indices -> PAGES \cup {NONE}]
    BY <1>1
  <2>2. [f EXCEPT ![t] = g] \in [PAGES -> [Indices -> PAGES \cup {NONE}]]
    <3> HIDE DEF g
    <3> QED
      BY <2>1
  <2> QED
    BY <2>2
<1>2. CASE t \notin PAGES
  BY <1>2
<1> QED
  BY <1>1, <1>2

(* Types, the bounds of the two indices included, whatever is asked for.    *)
THEOREM VmAreaTypeCorrect == Spec => []TypeOK
<1> DEFINE Types ==
              /\ page_dir \in [0 .. DIR_ENTRIES - 1 -> PAGES \cup {NONE}]
              /\ stale \subseteq 0 .. DIR_ENTRIES - 1
              /\ entries \in [PAGES -> [Indices -> PAGES \cup {NONE}]]
              /\ allocated \subseteq PAGES
<1>1. Empty \in [Indices -> PAGES \cup {NONE}]
  BY DEF Empty, Indices
<1>2. Init => Types
  BY <1>1 DEF Init
<1>3. ListInv /\ Types /\ [Next]_vars => Types'
  <2> SUFFICES ASSUME ListInv, Types, [Next]_vars PROVE Types'
    OBVIOUS
  <2>1. CASE UNCHANGED <<page_dir, stale, entries, allocated>>
    BY <2>1
  <2>2. CASE MapTable
    BY <1>1, <2>2, ZenonT(30) DEF MapTable, Take
  <2>3. CASE MapPage
    <3>1. UNCHANGED <<page_dir, stale>>
      BY <2>3 DEF MapPage
    <3>2. CASE UNCHANGED <<entries, allocated>>
      BY <3>1, <3>2
    <3>3. CASE \E p \in PAGES :
                  /\ allocated' = allocated \cup {p}
                  /\ entries' = [entries EXCEPT
                                    ![page_dir[pd_idx]][pt_idx % TABLE_ENTRIES] = p]
      BY <3>1, <3>3, EntryType
    <3> QED
      BY <2>3, <3>2, <3>3 DEF MapPage, Take
  <2>4. CASE UnmapPage
    <3>1. UNCHANGED <<page_dir, stale>>
      BY <2>4 DEF UnmapPage
    <3>2. CASE UNCHANGED <<entries, allocated>>
      BY <3>1, <3>2
    <3>3. CASE \E v \in {entries[page_dir[pd_idx]][pt_idx % TABLE_ENTRIES]} :
                  /\ allocated' = allocated \ {v}
                  /\ entries' = [entries EXCEPT
                                    ![page_dir[pd_idx]][pt_idx % TABLE_ENTRIES] = NONE]
      BY <3>1, <3>3, EntryType
    <3> QED
      BY <2>4, <3>2, <3>3 DEF UnmapPage
  <2>5. CASE UnmapTable
    <3>1. /\ Running /\ PageOf(vma.start) < Cur /\ Cur <= LastPage(vma) + 1
          /\ pd_idx = (Cur - 1) \div TABLE_ENTRIES
      BY <2>5 DEF UnmapTable, Running, ListInv, LoopOK
    <3>2. pd_idx \in 0 .. DIR_ENTRIES - 1
      <4>1. /\ vma \in Areas /\ vma.start < vma.end /\ InRange(vma)
            /\ Cur \in Nat /\ PageOf(vma.start) \in Nat /\ LastPage(vma) \in Nat
        BY <3>1, LoopFacts
      <4>2. LastPage(vma) <= PageOf(vma.end) /\ PageOf(vma.end) \in Nat
        BY <4>1, AreaFacts
      <4> DEFINE top == DIR_ENTRIES * TABLE_ENTRIES
      <4>3. top \in Int /\ PageOf(vma.end) < top
        <5>1. \A i, j \in Nat : i * j \in Int
          OBVIOUS
        <5> QED
          BY <4>1, <5>1, VmAssumption DEF InRange
      <4> HIDE DEF top
      <4>4. Cur - 1 \in 0 .. top - 1
        BY <3>1, <4>1, <4>2, <4>3
      <4>5. Cur - 1 \in UserPages
        BY <4>4 DEF top, UserPages
      <4> QED
        BY <3>1, <4>5, UserPage
    <3> QED
      BY <2>5, <3>2 DEF UnmapTable
  <2> QED
    BY <2>1, <2>2, <2>3, <2>4, <2>5
       DEF Next, vars, do_vm_alloc, OutOfPages, vm_free_area, StaleTable, do_vm_free, Stopped
<1>4. ListInv /\ Types => TypeOK
  <2> SUFFICES ASSUME ListInv, Types PROVE TypeOK
    OBVIOUS
  <2>1. ASSUME pc \in {"map", "unmap"}
        PROVE  pd_idx \in 0 .. pd_idx_end(vma) /\ pt_idx \in 0 .. pt_idx_end(vma)
    <3>1. /\ Running /\ Cur <= LastPage(vma) /\ pd_idx = Cur \div TABLE_ENTRIES
          /\ pt_idx \in Nat
      BY <2>1 DEF Running, ListInv, LoopOK
    <3>2. /\ vma \in Areas /\ vma.start < vma.end
          /\ Cur \in Nat /\ Cur = Base(vma) + pt_idx /\ LastPage(vma) \in Nat
      BY <3>1, LoopFacts
    <3>3. /\ pd_idx_end(vma) = LastPage(vma) \div TABLE_ENTRIES
          /\ pt_idx_end(vma) = LastPage(vma) - Base(vma)
          /\ Base(vma) \in Nat
      BY <3>2, AreaFacts
    <3>4. pd_idx \in Nat /\ pd_idx_end(vma) \in Nat
      BY <3>1, <3>2, <3>3, Sizes, DivNat
    <3>5. pd_idx <= pd_idx_end(vma)
      <4>1. Cur \in Int /\ LastPage(vma) \in Int
        BY <3>2
      <4> QED
        BY <3>1, <3>3, <4>1, Sizes, DivMono
    <3>6. pt_idx <= pt_idx_end(vma) /\ pt_idx_end(vma) \in Int
      BY <3>1, <3>2, <3>3
    <3> QED
      BY <3>1, <3>4, <3>5, <3>6
  <2>2. vm_area_list \in Seq([start : Nat, end : Nat])
    BY DEF ListInv, ListOK, Areas
  <2>3. pc \in {"idle", "map", "unmap", "unmap_table", "bug", "corrupt", "gone"}
    BY DEF ListInv, LoopOK
  <2>4. DOMAIN page_dir = 0 .. DIR_ENTRIES - 1
    OBVIOUS
  <2> QED
    BY <2>1, <2>2, <2>3, <2>4 DEF TypeOK, Indices
<1> HIDE DEF Types
<1> QED
  BY <1>2, <1>3, <1>4, ListInvariance, PTL DEF Spec

(* Between calls exactly the pages of the areas are mapped: what is mapped  *)
(* belongs to an area, and every page of an area is mapped, unless a bit    *)
(* behind a page table was taken for one of its entries.                    *)
THEOREM MappedExactly ==
    ASSUME WholePages, NothingBehind
    PROVE  Spec => []MappedExact
<1>1. Init => AllDue
  BY TablesInit
<1>2. ListInv /\ ListInv' /\ TablesInv /\ AllDue /\ [Next]_vars => AllDue'
  BY TablesStep DEF Kept
<1>3. ListInv /\ TablesInv /\ AllDue => MappedExact
  <2> SUFFICES ASSUME TablesInv, AllDue, pc = "idle", NEW n \in UserPages
               PROVE  Mapped(n) <=> \E a \in ToSet(vm_area_list) : n \in AreaPages(a)
    BY DEF MappedExact
  <2>1. Mapped(n) <=> Due(n)
    BY DEF TablesInv, OnlyDue, AllDue, Stepping
  <2>2. \A a : Reached(a, n) <=> n \in AreaPages(a)
    BY DEF Reached
  <2>3. ToSet(vm_area_list) = Range(vm_area_list)
    BY DEF ToSet, Range
  <2> QED
    BY <2>1, <2>2, <2>3 DEF Due
<1> QED
  BY <1>1, <1>2, <1>3, TablesInvariance, PTL DEF Spec

=============================================================================
