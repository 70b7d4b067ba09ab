---------------------------- MODULE SchedProofs ----------------------------
(***************************************************************************)
(* Proofs about the scheduler, for any processes, priorities and quantum:  *)
(* the inductive invariant SchedInv, and from it what the runs check.      *)
(***************************************************************************)
EXTENDS Sched, DataLemmas

(***************************************************************************)
(* ls are the queues above idle's in the heap h when the processes of al   *)
(* are alive: rings that hold each of them once, by priority.              *)
(***************************************************************************)
Prios == 1 .. MAX_PRIO

QueuesOf(h, ls, al) ==
    /\ ls \in [Prios -> Seq(Lists)]
    /\ \A i \in Prios :
          /\ IsInjective(ls[i]) /\ IsRing(h, RunQueue(i), ls[i])
          /\ Range(ls[i]) = {List(p) : p \in {q \in al : Prio[q] = i}}

Queue(h, i) == Walk(h, RunQueue(i), Cardinality(Procs) + 1)

QueuesOK(h, al) == QueuesOf(h, [i \in Prios |-> Queue(h, i)], al)

(* Idle's queue before the first end of its quantum.                       *)
IdleQueued(h) ==
    /\ h.next[RunQueue(0)] = List(Idle) /\ h.prev[RunQueue(0)] = List(Idle)
    /\ h.next[List(Idle)] = RunQueue(0) /\ h.prev[List(Idle)] = RunQueue(0)
    /\ h.prev[Base(Idle)] = Vma(Idle)

(* And after it: idle is on no queue, and its proc_t points to the queue.  *)
IdleMoved(h) ==
    /\ h.next[List(Idle)] = List(Idle) /\ h.prev[List(Idle)] = List(Idle)
    /\ h.prev[Base(Idle)] = RunQueue(0)

CreatedProcs == {CREATED[j] : j \in 1 .. created}

SchedInv ==
    /\ TypeOK
    /\ heap \in Heaps(Cells, Cells \cup {NULL})
    /\ kernel \in {"boot", "running"} =>
          /\ QueuesOK(heap, Alive)
          /\ \A p \in Alive : p # Idle => heap.prev[Base(p)] = Vma(p)
          /\ \A p \in Alive : {p} \X Resources \subseteq allocated
    /\ kernel = "boot" =>
          /\ Alive = CreatedProcs
          /\ created = 0 => heap.next[RunQueue(0)] = RunQueue(0)
                            /\ heap.prev[RunQueue(0)] = RunQueue(0)
          /\ created > 0 => current = Idle /\ esp0 = Idle /\ IdleQueued(heap)
    /\ kernel = "running" =>
          /\ Idle \in Alive /\ current \in Alive /\ cr3 = current /\ esp0 = current
          /\ current # Idle => \A p \in Alive : Prio[p] <= Prio[current]
          /\ \/ IdleQueued(heap) /\ current = Idle /\ Alive = Procs
             \/ IdleMoved(heap)
    /\ kernel = "wild" => current # Idle

(***************************************************************************)
(* Cells and processes                                                     *)
(***************************************************************************)
(* Cells of different kinds or of different owners are different.          *)
LEMMA CellFacts ==
    /\ \A i \in 0 .. MAX_PRIO : /\ RunQueue(i) \in Cells /\ RunQueue(i) \notin Lists
                                /\ RunQueue(i) \in RunQueues
    /\ \A p \in Procs : /\ List(p) \in Cells /\ List(p) \in Lists
                        /\ Base(p) \in Cells /\ Base(p) \notin Lists
                        /\ Base(p) \notin RunQueues /\ List(p) \notin RunQueues
                        /\ Vma(p) \in Cells /\ Vma(p) \notin Lists /\ Vma(p) \notin RunQueues
                        /\ ProcOf(List(p)) = p
    /\ \A p, q \in Procs : /\ List(p) = List(q) => p = q
                           /\ Base(p) = Base(q) => p = q
                           /\ Base(p) # Vma(q)
    /\ \A i, j \in 0 .. MAX_PRIO : RunQueue(i) = RunQueue(j) => i = j
  BY DEF RunQueue, List, Base, Vma, Cells, Lists, RunQueues, ProcOf

(* Idle has the priority 0, every other process one above it.              *)
LEMMA PrioFacts ==
    /\ 0 \in 0 .. MAX_PRIO /\ Idle \in Procs /\ Prio[Idle] = 0
    /\ \A i \in Prios : i \in 0 .. MAX_PRIO /\ i # 0
    /\ \A p \in Procs : Prio[p] \in 0 .. MAX_PRIO
    /\ \A p \in Procs : p # Idle <=> Prio[p] \in Prios
<1>1. /\ MAX_PRIO \in Nat /\ Idle \in Procs
      /\ \A p \in Procs : Prio[p] \in 0 .. MAX_PRIO /\ (Prio[p] = 0 <=> p = Idle)
  BY SchedAssumption DEF SchedParameters
<1>2. \A i : i \in Prios <=> i \in 0 .. MAX_PRIO /\ i # 0
  BY <1>1 DEF Prios
<1> HIDE DEF Prios
<1>3. 0 \in 0 .. MAX_PRIO
  BY <1>1
<1> QED
  BY <1>1, <1>2, <1>3

(* The processes are as many as their list fields.                         *)
LEMMA ProcsAreFinite ==
    /\ IsFiniteSet(Procs) /\ Cardinality(Procs) \in Nat
    /\ IsFiniteSet(Lists) /\ Cardinality(Lists) = Cardinality(Procs)
<1>1. Len(CREATED) \in Nat /\ CREATED \in [1 .. Len(CREATED) -> Procs]
  BY SchedAssumption, LenProperties, ElementOfSeq DEF SchedParameters
<1>2. CREATED \in Surjection(1 .. Len(CREATED), Procs)
  BY <1>1, SchedAssumption DEF Surjection, SchedParameters
<1>3. IsFiniteSet(1 .. Len(CREATED))
  BY <1>1, FS_Interval
<1>4. IsFiniteSet(Procs)
  BY <1>2, <1>3, FS_Surjection
<1> DEFINE f == [p \in Procs |-> List(p)]
<1>5. f \in [Procs -> Lists] /\ (\A p, q \in Procs : f[p] = f[q] => p = q)
      /\ \A l \in Lists : \E p \in Procs : f[p] = l
  BY CellFacts DEF Lists
<1> HIDE DEF f
<1>6. f \in Bijection(Procs, Lists)
  BY <1>5 DEF Bijection, Injection, Surjection, IsInjective
<1>7. ExistsBijection(Procs, Lists)
  BY <1>6 DEF ExistsBijection
<1> QED
  BY <1>4, <1>7, FS_Bijection, FS_CardinalityType

(***************************************************************************)
(* Queues                                                                  *)
(***************************************************************************)
(* What the walks find is in the queues.                                   *)
LEMMA QueuesFound ==
    ASSUME NEW h, NEW ls, NEW al, QueuesOf(h, ls, al)
    PROVE  /\ ls = [i \in Prios |-> Queue(h, i)]
           /\ QueuesOK(h, al)
<1>1. ASSUME NEW i \in Prios PROVE Queue(h, i) = ls[i]
  <2>1. /\ ls[i] \in Seq(Lists) /\ IsInjective(ls[i]) /\ IsRing(h, RunQueue(i), ls[i])
        /\ RunQueue(i) \notin Lists
    BY CellFacts, PrioFacts DEF QueuesOf
  <2>2. Len(ls[i]) <= Cardinality(Lists) /\ Cardinality(Lists) \in Nat /\ Len(ls[i]) \in Nat
    BY <2>1, ListIsShort, ProcsAreFinite
  <2> DEFINE size == Cardinality(Procs) + 1
  <2>3. size \in Nat /\ Len(ls[i]) + 1 <= size
    BY <2>2, ProcsAreFinite
  <2> HIDE DEF size
  <2>4. Walk(h, RunQueue(i), size) = ls[i]
    BY <2>1, <2>3, WalkOfRing
  <2> QED
    BY <2>4 DEF Queue, size
<1>2. ls = [i \in Prios |-> ls[i]]
  BY DEF QueuesOf
<1>3. ls = [i \in Prios |-> Queue(h, i)]
  BY <1>1, <1>2
<1> QED
  BY <1>3 DEF QueuesOK

(* Writes elsewhere leave the queues.                                      *)
LEMMA QueuesKept ==
    ASSUME NEW h, NEW g, NEW al \in SUBSET Procs, QueuesOK(h, al),
           \A i \in Prios : /\ g.next[RunQueue(i)] = h.next[RunQueue(i)]
                            /\ g.prev[RunQueue(i)] = h.prev[RunQueue(i)],
           \A p \in al : p # Idle => /\ g.next[List(p)] = h.next[List(p)]
                                     /\ g.prev[List(p)] = h.prev[List(p)]
    PROVE  QueuesOK(g, al)
<1> DEFINE ls == [i \in Prios |-> Queue(h, i)]
<1>1. QueuesOf(h, ls, al)
  BY DEF QueuesOK
<1> HIDE DEF ls
<1>2. ASSUME NEW i \in Prios PROVE IsRing(g, RunQueue(i), ls[i])
  <2>1. /\ ls[i] \in Seq(Lists) /\ IsInjective(ls[i]) /\ IsRing(h, RunQueue(i), ls[i])
        /\ Range(ls[i]) = {List(p) : p \in {q \in al : Prio[q] = i}}
    BY <1>1 DEF QueuesOf
  <2>2. Len(ls[i]) \in Nat
    BY <2>1, LenProperties
  <2>3. ASSUME NEW j \in 0 .. Len(ls[i])
        PROVE  /\ g.next[RingCell(RunQueue(i), ls[i], j)] = h.next[RingCell(RunQueue(i), ls[i], j)]
               /\ g.prev[RingCell(RunQueue(i), ls[i], j)] = h.prev[RingCell(RunQueue(i), ls[i], j)]
    <3>1. j \in 0 .. Len(ls[i]) + 1
      BY <2>2
    <3>2. RingCell(RunQueue(i), ls[i], j) \in {RunQueue(i)} \cup Range(ls[i])
      BY <2>1, <3>1, RingCells
    <3>3. CASE RingCell(RunQueue(i), ls[i], j) = RunQueue(i)
      BY <3>3
    <3>4. CASE RingCell(RunQueue(i), ls[i], j) \in Range(ls[i])
      <4>1. PICK p \in al : Prio[p] = i /\ RingCell(RunQueue(i), ls[i], j) = List(p)
        BY <2>1, <3>4
      <4>2. p # Idle
        BY <4>1, PrioFacts
      <4> QED
        BY <4>1, <4>2
    <3> QED
      BY <3>2, <3>3, <3>4
  <2> QED
    BY <2>1, <2>2, <2>3, RingKept
<1>3. QueuesOf(g, ls, al)
  BY <1>1, <1>2 DEF QueuesOf
<1> QED
  BY <1>3, QueuesFound

(* Of a queue in order: it is empty if no such process is alive, and its   *)
(* first link is the list field of one if there is.                        *)
LEMMA QueueHead ==
    ASSUME NEW h, NEW al \in SUBSET Procs, QueuesOK(h, al), NEW i \in Prios
    PROVE  /\ list_empty(h, RunQueue(i)) <=> \A p \in al : Prio[p] # i
           /\ ~list_empty(h, RunQueue(i)) =>
                 \E p \in al : Prio[p] = i /\ h.next[RunQueue(i)] = List(p)
<1> DEFINE ls == [k \in Prios |-> Queue(h, k)]
           s == ls[i]
           hd == RunQueue(i)
<1>1. QueuesOf(h, ls, al)
  BY DEF QueuesOK
<1> HIDE DEF ls
<1>2. /\ s \in Seq(Lists) /\ IsRing(h, hd, s)
      /\ Range(s) = {List(p) : p \in {q \in al : Prio[q] = i}}
  BY <1>1 DEF QueuesOf
<1> HIDE DEF s
<1>3. Len(s) \in Nat /\ Range(s) = {s[j] : j \in 1 .. Len(s)}
  BY <1>2, LenProperties, RangeEquality
<1>4. hd \notin Lists /\ \A p \in al : List(p) \in Lists
  BY CellFacts, PrioFacts
<1> HIDE DEF hd
<1>5. CASE Len(s) = 0
  <2>1. Range(s) = {}
    BY <1>3, <1>5
  <2>2. \A p \in al : Prio[p] # i
    BY <1>2, <2>1
  <2>3. 0 \in 0 .. Len(s) /\ RingCell(hd, s, 0) = hd /\ RingCell(hd, s, 0 + 1) = hd
    BY <1>5 DEF RingCell
  <2>4. h.next[hd] = hd /\ h.prev[hd] = hd
    BY <1>2, <2>3 DEF IsRing
  <2>5. list_empty(h, hd)
    BY <2>4 DEF list_empty
  <2> QED
    BY <2>2, <2>5 DEF hd
<1>6. CASE Len(s) # 0
  <2>1. 0 \in 0 .. Len(s) /\ RingCell(hd, s, 0) = hd /\ RingCell(hd, s, 0 + 1) = s[1]
    BY <1>3, <1>6 DEF RingCell
  <2>2. h.next[hd] = s[1]
    BY <1>2, <2>1 DEF IsRing
  <2>3. s[1] \in Range(s)
    BY <1>3, <1>6
  <2>4. PICK p \in al : Prio[p] = i /\ s[1] = List(p)
    BY <1>2, <2>3
  <2>5. ~list_empty(h, hd)
    BY <1>4, <2>2, <2>4 DEF list_empty
  <2> QED
    BY <2>2, <2>4, <2>5 DEF hd
<1> QED
  BY <1>5, <1>6

(***************************************************************************)
(* Joining and leaving a queue                                             *)
(***************************************************************************)
Words == Heaps(Cells, Cells \cup {NULL})

(* The cells of the queues above idle's.                                   *)
Above == {RunQueue(i) : i \in Prios} \cup {List(p) : p \in Procs \ {Idle}}

(* The words of the cells X are the same in both heaps.                    *)
Same(h, g, X) == \A x \in X : g.next[x] = h.next[x] /\ g.prev[x] = h.prev[x]

(* create_proc's list_insert_after, for a process that is not idle.        *)
LEMMA QueueJoined ==
    ASSUME NEW h \in Words, NEW al \in SUBSET Procs, QueuesOK(h, al),
           NEW p \in Procs, p \notin al, p # Idle,
           NEW g, g = list_insert_after(h, List(p), RunQueue(Prio[p]))
    PROVE  /\ g \in Words
           /\ QueuesOK(g, al \cup {p})
           /\ Same(h, g, Cells \ Above)
<1> DEFINE i == Prio[p]
           hd == RunQueue(i)
           n == List(p)
           ls == [k \in Prios |-> Queue(h, k)]
           s == ls[i]
           t == InsertAt(s, 1, n)
           ms == [ls EXCEPT ![i] = t]
<1>1. i \in Prios /\ hd \in Cells /\ n \in Cells /\ hd \notin Lists /\ n \in Lists /\ n # hd
      /\ hd \in Above /\ n \in Above
  BY CellFacts, PrioFacts DEF Above
<1>2. QueuesOf(h, ls, al)
  BY DEF QueuesOK
<1> HIDE DEF ls
<1>3. /\ ls \in [Prios -> Seq(Lists)]
      /\ \A k \in Prios : /\ IsInjective(ls[k]) /\ IsRing(h, RunQueue(k), ls[k])
                          /\ Range(ls[k]) = {List(q) : q \in {r \in al : Prio[r] = k}}
  BY <1>2 DEF QueuesOf
<1>4. s \in Seq(Lists) /\ IsInjective(s) /\ IsRing(h, hd, s)
      /\ Range(s) = {List(q) : q \in {r \in al : Prio[r] = i}}
  BY <1>1, <1>3
<1> HIDE DEF i, s
<1>5. Len(s) \in Nat
  BY <1>4, LenProperties
<1>6. n \notin Range(s)
  BY <1>4, CellFacts
<1> DEFINE d == h.next[hd]
<1>7. d \in {hd} \cup Range(s)
  <2>1. 0 \in 0 .. Len(s) /\ 0 + 1 \in 0 .. Len(s) + 1 /\ RingCell(hd, s, 0) = hd
    BY <1>5 DEF RingCell
  <2>2. d = RingCell(hd, s, 0 + 1)
    BY <1>4, <2>1 DEF IsRing
  <2> QED
    BY <1>4, <2>1, <2>2, RingCells
<1>8. d \in Cells /\ d \in Above /\ d # n
  <2>1. \A q \in al : Prio[q] = i => List(q) \in Cells /\ List(q) \in Above
    BY <1>1, CellFacts, PrioFacts DEF Above
  <2> QED
    BY <1>1, <1>4, <1>6, <1>7, <2>1
<1> HIDE DEF d, hd, n
<1>9. /\ g \in Words
      /\ \A x \in Cells : g.next[x] = IF x = hd THEN n ELSE IF x = n THEN d ELSE h.next[x]
      /\ \A x \in Cells : g.prev[x] = IF x = n THEN hd ELSE IF x = d THEN n ELSE h.prev[x]
  <2>1. h.next[hd] = d /\ g = list_insert_after(h, n, hd)
    BY DEF d, hd, n, i
  <2>2. Cells \subseteq Cells \cup {NULL}
    OBVIOUS
  <2>3. /\ list_insert_after(h, n, hd) \in Heaps(Cells, Cells \cup {NULL})
        /\ n # hd =>
              /\ \A x \in Cells : list_insert_after(h, n, hd).next[x] =
                    IF x = hd THEN n ELSE IF x = n THEN h.next[hd] ELSE h.next[x]
              /\ \A x \in Cells : list_insert_after(h, n, hd).prev[x] =
                    IF x = n THEN hd ELSE IF x = h.next[hd] THEN n ELSE h.prev[x]
    BY <1>1, <1>8, <2>1, <2>2, AfterInsert DEF Words
  <2> QED
    BY <1>1, <2>1, <2>3 DEF Words
<1>10. \A x \in Cells \ Above : g.next[x] = h.next[x] /\ g.prev[x] = h.prev[x]
  BY <1>1, <1>8, <1>9
<1>11. IsRing(g, hd, t)
  <2>1. RingCell(hd, s, 0) = hd /\ 0 \in 0 .. Len(s)
    BY <1>5 DEF RingCell
  <2>2. g.next[n] = d /\ g.prev[n] = hd /\ g.next[hd] = n /\ g.prev[d] = n /\ h.next[hd] = d
    BY <1>1, <1>8, <1>9 DEF d
  <2>3. \A j \in 0 .. Len(s) : RingCell(hd, s, j) \in Cells /\ RingCell(hd, s, j) # n
    <3>1. \A j \in 0 .. Len(s) : j \in 0 .. Len(s) + 1
      BY <1>5
    <3>2. \A j \in 0 .. Len(s) : RingCell(hd, s, j) \in {hd} \cup Range(s)
      BY <1>4, <3>1, RingCells
    <3>3. Range(s) \subseteq Cells
      BY <1>4, CellFacts
    <3> QED
      BY <1>1, <1>6, <3>2, <3>3
  <2>4. \A j \in 0 .. Len(s) :
              /\ RingCell(hd, s, j) # hd =>
                    g.next[RingCell(hd, s, j)] = h.next[RingCell(hd, s, j)]
              /\ RingCell(hd, s, j) # d =>
                    g.prev[RingCell(hd, s, j)] = h.prev[RingCell(hd, s, j)]
    BY <1>9, <2>3
  <2>5. IsRing(g, hd, InsertAt(s, 0 + 1, n))
    BY <1>1, <1>4, <1>6, <2>1, <2>2, <2>4, RingInsert
  <2>6. 0 + 1 = 1
    OBVIOUS
  <2> QED
    BY <2>5, <2>6
<1>12. t \in Seq(Lists) /\ IsInjective(t) /\ Range(t) = Range(s) \cup {n}
  <2>1. 1 \in 1 .. Len(s) + 1
    BY <1>5
  <2>2. InsertAt(s, 1, n) \in Seq(Lists)
    BY <1>1, <1>4, <2>1, InsertElements
  <2>3. Range(InsertAt(s, 1, n)) = Range(s) \cup {n}
    BY <1>1, <1>4, <2>1, InsertElements
  <2>4. IsInjective(InsertAt(s, 1, n))
    BY <1>1, <1>4, <1>6, <2>1, InsertInjective
  <2> QED
    BY <2>2, <2>3, <2>4
<1> HIDE DEF t
<1>13. ms \in [Prios -> Seq(Lists)] /\ ms[i] = t /\ \A k \in Prios : k # i => ms[k] = ls[k]
  BY <1>1, <1>3, <1>12
<1> HIDE DEF ms
<1>14. Range(t) = {List(q) : q \in {r \in al \cup {p} : Prio[r] = i}}
  <2>1. {r \in al \cup {p} : Prio[r] = i} = {r \in al : Prio[r] = i} \cup {p}
    BY DEF i
  <2> QED
    BY <1>4, <1>12, <2>1 DEF n
<1>15. ASSUME NEW k \in Prios, k # i
       PROVE  /\ IsInjective(ls[k]) /\ IsRing(g, RunQueue(k), ls[k])
              /\ Range(ls[k]) = {List(q) : q \in {r \in al \cup {p} : Prio[r] = k}}
  <2>1. {r \in al \cup {p} : Prio[r] = k} = {r \in al : Prio[r] = k}
    BY <1>15 DEF i
  <2>2. ls[k] \in Seq(Lists) /\ IsRing(h, RunQueue(k), ls[k])
        /\ Range(ls[k]) = {List(q) : q \in {r \in al : Prio[r] = k}}
    BY <1>3
  <2>3. Len(ls[k]) \in Nat
    BY <2>2, LenProperties
  <2>4. ASSUME NEW j \in 0 .. Len(ls[k])
        PROVE  /\ g.next[RingCell(RunQueue(k), ls[k], j)] = h.next[RingCell(RunQueue(k), ls[k], j)]
               /\ g.prev[RingCell(RunQueue(k), ls[k], j)] = h.prev[RingCell(RunQueue(k), ls[k], j)]
    <3> DEFINE x == RingCell(RunQueue(k), ls[k], j)
    <3>1. j \in 0 .. Len(ls[k]) + 1
      BY <2>3
    <3>2. x \in {RunQueue(k)} \cup Range(ls[k])
      BY <2>2, <3>1, RingCells
    <3> HIDE DEF x
    <3>3. CASE x = RunQueue(k)
      <4>1. x \in Cells /\ x \notin Lists /\ x # hd
        BY <1>1, <1>15, <3>3, CellFacts, PrioFacts DEF hd
      <4>2. Range(s) \subseteq Lists
        BY <1>4, CellFacts
      <4>3. x # n /\ x # d
        BY <1>1, <1>7, <4>1, <4>2
      <4> QED
        BY <1>9, <4>1, <4>3 DEF x
    <3>4. CASE x \in Range(ls[k])
      <4>1. PICK q \in al : Prio[q] = k /\ x = List(q)
        BY <2>2, <3>4
      <4>2. x \in Cells /\ x \in Lists /\ x # hd /\ x # n
        BY <1>1, <4>1, CellFacts DEF n
      <4>3. x \notin Range(s)
        BY <1>4, <1>15, <4>1, CellFacts
      <4>4. x # d
        BY <1>7, <4>2, <4>3
      <4> QED
        BY <1>9, <4>2, <4>4 DEF x
    <3> QED
      BY <3>2, <3>3, <3>4
  <2>5. IsRing(g, RunQueue(k), ls[k])
    BY <2>2, <2>3, <2>4, RingKept
  <2> QED
    BY <1>3, <2>1, <2>5
<1>16. QueuesOf(g, ms, al \cup {p})
  <2>1. ASSUME NEW k \in Prios
        PROVE  /\ IsInjective(ms[k]) /\ IsRing(g, RunQueue(k), ms[k])
               /\ Range(ms[k]) = {List(q) : q \in {r \in al \cup {p} : Prio[r] = k}}
    <3>1. CASE k = i
      BY <1>11, <1>12, <1>13, <1>14, <3>1 DEF hd
    <3>2. CASE k # i
      BY <1>13, <1>15, <3>2
    <3> QED
      BY <3>1, <3>2
  <2> QED
    BY <1>13, <2>1 DEF QueuesOf
<1> QED
  BY <1>9, <1>10, <1>16, QueuesFound DEF Same

(* list_remove of a process that is not idle.                              *)
LEMMA QueueLeft ==
    ASSUME NEW h \in Words, NEW al \in SUBSET Procs, QueuesOK(h, al),
           NEW p \in al, p # Idle,
           NEW g, g = list_remove(h, List(p))
    PROVE  /\ g \in Words
           /\ QueuesOK(g, al \ {p})
           /\ Same(h, g, Cells \ Above)
<1> DEFINE i == Prio[p]
           hd == RunQueue(i)
           n == List(p)
           ls == [k \in Prios |-> Queue(h, k)]
           s == ls[i]
           t == RemoveFirst(s, n)
           ms == [ls EXCEPT ![i] = t]
           d == h.next[n]
           e == h.prev[n]
<1>1. i \in Prios /\ hd \in Cells /\ n \in Cells /\ hd \notin Lists /\ n \in Lists /\ n # hd
      /\ hd \in Above /\ n \in Above
  BY CellFacts, PrioFacts DEF Above
<1>2. QueuesOf(h, ls, al)
  BY DEF QueuesOK
<1> HIDE DEF ls
<1>3. /\ ls \in [Prios -> Seq(Lists)]
      /\ \A k \in Prios : /\ IsInjective(ls[k]) /\ IsRing(h, RunQueue(k), ls[k])
                          /\ Range(ls[k]) = {List(q) : q \in {r \in al : Prio[r] = k}}
  BY <1>2 DEF QueuesOf
<1>4. s \in Seq(Lists) /\ IsInjective(s) /\ IsRing(h, hd, s)
      /\ Range(s) = {List(q) : q \in {r \in al : Prio[r] = i}}
  BY <1>1, <1>3
<1>5. n \in Range(s)
  BY <1>4
<1> HIDE DEF i, s
<1>6. Len(s) \in Nat /\ Range(s) = {s[j] : j \in 1 .. Len(s)}
  BY <1>4, LenProperties, RangeEquality
<1>7. PICK m \in 1 .. Len(s) : s[m] = n
  BY <1>5, <1>6
<1>8. /\ d \in {hd} \cup Range(s) /\ e \in {hd} \cup Range(s)
      /\ h.next[e] = n /\ h.prev[d] = n
  <2>1. m \in 0 .. Len(s) /\ m - 1 \in 0 .. Len(s) /\ (m - 1) + 1 = m
        /\ m + 1 \in 0 .. Len(s) + 1 /\ m - 1 \in 0 .. Len(s) + 1
    BY <1>6
  <2>2. RingCell(hd, s, m) = n
    BY <1>7 DEF RingCell
  <2>3. d = RingCell(hd, s, m + 1) /\ e = RingCell(hd, s, m - 1)
        /\ h.next[e] = n /\ h.prev[d] = n
    <3>1. h.next[RingCell(hd, s, m)] = RingCell(hd, s, m + 1)
          /\ h.prev[RingCell(hd, s, m + 1)] = RingCell(hd, s, m)
      BY <1>4, <2>1 DEF IsRing
    <3>2. h.next[RingCell(hd, s, m - 1)] = RingCell(hd, s, (m - 1) + 1)
          /\ h.prev[RingCell(hd, s, (m - 1) + 1)] = RingCell(hd, s, m - 1)
      BY <1>4, <2>1 DEF IsRing
    <3> QED
      BY <2>1, <2>2, <3>1, <3>2
  <2> QED
    BY <1>4, <2>1, <2>3, RingCells
<1>9. /\ d \in Cells /\ e \in Cells /\ d \in Above /\ e \in Above
      /\ Range(s) \subseteq Cells
  <2>1. \A q \in al : Prio[q] = i => List(q) \in Cells /\ List(q) \in Above
    BY <1>1, CellFacts, PrioFacts DEF Above
  <2> QED
    BY <1>1, <1>4, <1>8, <2>1
<1> HIDE DEF hd, n
<1>10. /\ g \in Words
       /\ \A x \in Cells : g.next[x] = IF x = n THEN n ELSE IF x = e THEN d ELSE h.next[x]
       /\ \A x \in Cells : g.prev[x] = IF x = n THEN n ELSE IF x = d THEN e ELSE h.prev[x]
  <2>1. g = list_remove(h, n) /\ h.next[n] \in Cells /\ h.prev[n] \in Cells
    BY <1>9 DEF n
  <2>2. Cells \subseteq Cells \cup {NULL}
    OBVIOUS
  <2>3. /\ list_remove(h, n) \in Heaps(Cells, Cells \cup {NULL})
        /\ \A x \in Cells : list_remove(h, n).next[x] =
              IF x = n THEN n ELSE IF x = h.prev[n] THEN h.next[n] ELSE h.next[x]
        /\ \A x \in Cells : list_remove(h, n).prev[x] =
              IF x = n THEN n ELSE IF x = h.next[n] THEN h.prev[n] ELSE h.prev[x]
    BY <1>1, <2>1, <2>2, AfterRemove DEF Words
  <2> QED
    BY <2>1, <2>3 DEF Words
<1>11. \A x \in Cells \ Above : g.next[x] = h.next[x] /\ g.prev[x] = h.prev[x]
  BY <1>1, <1>9, <1>10
<1>12. d # n /\ e # n
  <2>1. Len(s) >= 1
    BY <1>6
  <2>2. m \in 0 .. Len(s) /\ m - 1 \in 0 .. Len(s) /\ (m - 1) + 1 = m /\ m # m - 1
    BY <1>6
  <2>3. RingCell(hd, s, m) = n
    BY <1>7 DEF RingCell
  <2>4. h.next[RingCell(hd, s, m - 1)] = n
    BY <1>4, <2>2, <2>3 DEF IsRing
  <2>5. RingCell(hd, s, m - 1) # n
    BY <1>4, <2>2, <2>3, CellsDiffer, <1>1
  <2>6. h.prev[n] = RingCell(hd, s, m - 1)
    BY <1>4, <2>2, <2>3 DEF IsRing
  <2>7. e # n
    BY <2>5, <2>6
  <2>8. d # n
    BY <1>8, <2>7
  <2> QED
    BY <2>7, <2>8
<1> HIDE DEF d, e
<1>13. IsRing(g, hd, t)
  <2>1. g.next[e] = d /\ g.prev[d] = e /\ e = h.prev[n] /\ d = h.next[n]
    BY <1>9, <1>10, <1>12 DEF d, e
  <2>2. \A j \in 0 .. Len(s) : RingCell(hd, s, j) \in Cells
    <3>1. \A j \in 0 .. Len(s) : j \in 0 .. Len(s) + 1
      BY <1>6
    <3>2. \A j \in 0 .. Len(s) : RingCell(hd, s, j) \in {hd} \cup Range(s)
      BY <1>4, <3>1, RingCells
    <3> QED
      BY <1>1, <1>9, <3>2
  <2>3. \A j \in 0 .. Len(s) :
              /\ RingCell(hd, s, j) \notin {n, e} =>
                    g.next[RingCell(hd, s, j)] = h.next[RingCell(hd, s, j)]
              /\ RingCell(hd, s, j) \notin {n, d} =>
                    g.prev[RingCell(hd, s, j)] = h.prev[RingCell(hd, s, j)]
    BY <1>10, <2>2
  <2> QED
    BY <1>1, <1>4, <1>5, <2>1, <2>3, RingRemove
<1>14. t \in Seq(Lists) /\ IsInjective(t) /\ Range(t) = Range(s) \ {n}
  BY <1>4, <1>5, RemoveElements
<1> HIDE DEF t
<1>15. ms \in [Prios -> Seq(Lists)] /\ ms[i] = t /\ \A k \in Prios : k # i => ms[k] = ls[k]
  BY <1>1, <1>3, <1>14
<1> HIDE DEF ms
<1>16. Range(t) = {List(q) : q \in {r \in al \ {p} : Prio[r] = i}}
  <2>1. \A q \in al : List(q) = n => q = p
    BY CellFacts DEF n
  <2> QED
    BY <1>4, <1>14, <2>1 DEF n
<1>17. ASSUME NEW k \in Prios, k # i
       PROVE  /\ IsInjective(ls[k]) /\ IsRing(g, RunQueue(k), ls[k])
              /\ Range(ls[k]) = {List(q) : q \in {r \in al \ {p} : Prio[r] = k}}
  <2>1. {r \in al \ {p} : Prio[r] = k} = {r \in al : Prio[r] = k}
    BY <1>17 DEF i
  <2>2. ls[k] \in Seq(Lists) /\ IsRing(h, RunQueue(k), ls[k])
        /\ Range(ls[k]) = {List(q) : q \in {r \in al : Prio[r] = k}}
    BY <1>3
  <2>3. Len(ls[k]) \in Nat
    BY <2>2, LenProperties
  <2>4. ASSUME NEW j \in 0 .. Len(ls[k])
        PROVE  /\ g.next[RingCell(RunQueue(k), ls[k], j)] = h.next[RingCell(RunQueue(k), ls[k], j)]
               /\ g.prev[RingCell(RunQueue(k), ls[k], j)] = h.prev[RingCell(RunQueue(k), ls[k], j)]
    <3> DEFINE x == RingCell(RunQueue(k), ls[k], j)
    <3>1. j \in 0 .. Len(ls[k]) + 1
      BY <2>3
    <3>2. x \in {RunQueue(k)} \cup Range(ls[k])
      BY <2>2, <3>1, RingCells
    <3> HIDE DEF x
    <3>3. x \in Cells /\ x # hd /\ x \notin Range(s)
      <4>1. CASE x = RunQueue(k)
        <5>1. x \in Cells /\ x \notin Lists /\ x # hd
          BY <1>1, <1>17, <4>1, CellFacts, PrioFacts DEF hd
        <5>2. Range(s) \subseteq Lists
          BY <1>4, CellFacts
        <5> QED
          BY <5>1, <5>2
      <4>2. CASE x \in Range(ls[k])
        <5>1. PICK q \in al : Prio[q] = k /\ x = List(q)
          BY <2>2, <4>2
        <5>2. x \in Cells /\ x \in Lists /\ x # hd
          BY <1>1, <5>1, CellFacts
        <5>3. x \notin Range(s)
          BY <1>4, <1>17, <5>1, CellFacts
        <5> QED
          BY <5>2, <5>3
      <4> QED
        BY <3>2, <4>1, <4>2
    <3>4. x # n /\ x # d /\ x # e
      BY <1>5, <1>8, <3>3
    <3> QED
      BY <1>10, <3>3, <3>4 DEF x
  <2>5. IsRing(g, RunQueue(k), ls[k])
    BY <2>2, <2>3, <2>4, RingKept
  <2> QED
    BY <1>3, <2>1, <2>5
<1>18. QueuesOf(g, ms, al \ {p})
  <2>1. ASSUME NEW k \in Prios
        PROVE  /\ IsInjective(ms[k]) /\ IsRing(g, RunQueue(k), ms[k])
               /\ Range(ms[k]) = {List(q) : q \in {r \in al \ {p} : Prio[r] = k}}
    <3>1. CASE k = i
      BY <1>13, <1>14, <1>15, <1>16, <3>1 DEF hd
    <3>2. CASE k # i
      BY <1>15, <1>17, <3>2
    <3> QED
      BY <3>1, <3>2
  <2> QED
    BY <1>15, <2>1 DEF QueuesOf
<1> QED
  BY <1>10, <1>11, <1>18, QueuesFound DEF Same

(***************************************************************************)
(* schedule                                                                *)
(***************************************************************************)
(* While the queues above idle's are in order and one of them holds a      *)
(* process, or idle's is empty, schedule finds a process of the highest    *)
(* priority or leaves everything as it is.                                 *)
LEMMA ScheduleFinds ==
    ASSUME NEW g, NEW al \in SUBSET Procs, QueuesOK(g, al), schedule(g),
           list_empty(g, RunQueue(0)) \/ \E p \in al : p # Idle
    PROVE  /\ UNCHANGED kernel
           /\ \/ UNCHANGED <<current, cr3, esp0>> /\ al \subseteq {Idle}
              \/ \E q \in al : /\ q # Idle /\ current' = q /\ cr3' = q /\ esp0' = q
                               /\ \A p \in al : Prio[p] <= Prio[q]
<1> DEFINE R == ReadyQueues(g)
           head == g.next[RunQueue(Max(R))]
<1>1. R \in SUBSET (0 .. MAX_PRIO) /\ MAX_PRIO \in Nat
  BY SchedAssumption DEF ReadyQueues, SchedParameters
<1>2. \A i \in Prios : i \in R <=> \E p \in al : Prio[p] = i
  <2>1. \A i \in Prios : i \in R <=> ~list_empty(g, RunQueue(i))
    BY PrioFacts DEF ReadyQueues
  <2> QED
    BY <2>1, QueueHead
<1>3. \A p \in al : p # Idle => Prio[p] \in R
  BY <1>2, PrioFacts
<1>4. CASE R = {}
  <2>1. al \subseteq {Idle}
    BY <1>3, <1>4
  <2>2. UNCHANGED <<current, cr3, esp0, kernel>>
    BY <1>4 DEF schedule
  <2> QED
    BY <2>1, <2>2
<1>5. CASE R # {}
  <2>1. Max(R) \in R /\ \A i \in R : Max(R) >= i
    BY <1>1, <1>5, MaxElement
  <2>2. Max(R) \in Prios
    <3>1. CASE list_empty(g, RunQueue(0))
      <4>1. 0 \notin R
        BY <3>1 DEF ReadyQueues
      <4> QED
        BY <1>1, <2>1, <4>1 DEF Prios
    <3>2. CASE \E p \in al : p # Idle
      <4>1. PICK p \in al : p # Idle
        BY <3>2
      <4>2. Prio[p] \in R /\ Prio[p] \in Prios
        BY <1>3, <4>1, PrioFacts
      <4>3. Max(R) >= Prio[p] /\ Max(R) \in 0 .. MAX_PRIO
        BY <1>1, <2>1, <4>2
      <4> QED
        BY <1>1, <4>2, <4>3 DEF Prios
    <3> QED
      BY <3>1, <3>2
  <2>3. ~list_empty(g, RunQueue(Max(R)))
    BY <2>1 DEF ReadyQueues
  <2>4. PICK q \in al : Prio[q] = Max(R) /\ head = List(q)
    BY <2>2, <2>3, QueueHead
  <2>5. q # Idle /\ head \in Lists /\ ProcOf(head) = q
    BY <2>2, <2>4, PrioFacts, CellFacts
  <2>6. current' = q /\ cr3' = q /\ esp0' = q /\ UNCHANGED kernel
    BY <1>5, <2>5 DEF schedule, context_switch
  <2>7. ASSUME NEW p \in al PROVE Prio[p] <= Prio[q]
    <3>1. CASE p = Idle
      BY <2>2, <2>4, <3>1, PrioFacts, <1>1 DEF Prios
    <3>2. CASE p # Idle
      <4>1. Prio[p] \in R
        BY <1>3, <3>2
      <4>2. Max(R) >= Prio[p] /\ Max(R) \in Int /\ Prio[p] \in Int
        BY <1>1, <2>1, <4>1
      <4> QED
        BY <2>4, <4>2
    <3> QED
      BY <3>1, <3>2
  <2> QED
    BY <2>5, <2>6, <2>7
<1> QED
  BY <1>4, <1>5

(* tick_advance on idle: it takes itself off its queue and writes into its *)
(* proc_t and its first area instead; at the second time that leaves the   *)
(* queue empty, and the other queues are never touched.                    *)
LEMMA IdleRequeue ==
    ASSUME NEW h \in Words, IdleQueued(h) \/ IdleMoved(h),
           NEW g, g = list_insert_before(list_remove(h, List(Idle)), RunQueue(0), Base(Idle))
    PROVE  /\ g \in Words /\ IdleMoved(g)
           /\ IdleMoved(h) => list_empty(g, RunQueue(0))
           /\ Same(h, g, Above)
           /\ \A p \in Procs : p # Idle => g.prev[Base(p)] = h.prev[Base(p)]
<1> DEFINE rq == RunQueue(0)
           n == List(Idle)
           b == Base(Idle)
           v == Vma(Idle)
           f == list_remove(h, n)
<1>1. /\ rq \in Cells /\ n \in Cells /\ b \in Cells /\ v \in Cells
      /\ rq # n /\ rq # b /\ rq # v /\ n # b /\ n # v /\ b # v
      /\ Cells \subseteq Cells \cup {NULL}
  BY CellFacts, PrioFacts
<1>2. \A x \in Above : x \in Cells /\ x # rq /\ x # n /\ x # b /\ x # v
  BY CellFacts, PrioFacts DEF Above
<1>3. \A p \in Procs : p # Idle =>
         Base(p) \in Cells /\ Base(p) # rq /\ Base(p) # n /\ Base(p) # b /\ Base(p) # v
  BY CellFacts, PrioFacts
<1>4. \/ /\ h.next[rq] = n /\ h.prev[rq] = n /\ h.next[n] = rq /\ h.prev[n] = rq
         /\ h.prev[b] = v /\ IdleQueued(h)
      \/ h.next[n] = n /\ h.prev[n] = n /\ h.prev[b] = rq /\ IdleMoved(h)
  BY DEF IdleQueued, IdleMoved
<1>5. IdleMoved(h) => h.next[n] = n /\ h.prev[n] = n /\ h.prev[b] = rq
  BY DEF IdleMoved
<1>6. g = list_insert_before(f, rq, b)
  OBVIOUS
<1> HIDE DEF rq, n, b, v
<1>7. /\ f \in Words
      /\ \A x \in Cells : f.next[x] =
            IF x = n THEN n ELSE IF x = h.prev[n] THEN h.next[n] ELSE h.next[x]
      /\ \A x \in Cells : f.prev[x] =
            IF x = n THEN n ELSE IF x = h.next[n] THEN h.prev[n] ELSE h.prev[x]
  <2>1. h.next[n] \in Cells /\ h.prev[n] \in Cells
    BY <1>1, <1>4
  <2> QED
    BY <1>1, <2>1, AfterRemove DEF Words
<1> HIDE DEF f
<1>8. f.prev[b] = h.prev[b] /\ f.next[n] = n /\ f.prev[n] = n
  BY <1>1, <1>4, <1>7
<1>9. /\ g \in Words
      /\ \A x \in Cells : g.next[x] =
            IF x = f.prev[b] THEN rq ELSE IF x = rq THEN b ELSE f.next[x]
      /\ \A x \in Cells : g.prev[x] =
            IF x = rq THEN f.prev[b] ELSE IF x = b THEN rq ELSE f.prev[x]
  <2>1. f.prev[b] \in Cells
    BY <1>1, <1>4, <1>8
  <2> QED
    BY <1>1, <1>6, <1>7, <2>1, AfterInsertBefore DEF Words
<1>10. g.next[n] = n /\ g.prev[n] = n /\ g.prev[b] = rq
  BY <1>1, <1>4, <1>8, <1>9
<1>11. IdleMoved(g)
  BY <1>10 DEF IdleMoved, n, b, rq
<1>12. IdleMoved(h) => g.next[rq] = rq /\ g.prev[rq] = rq
  BY <1>1, <1>5, <1>8, <1>9
<1>13. IdleMoved(h) => list_empty(g, rq)
  BY <1>12 DEF list_empty
<1>14. ASSUME NEW x \in Cells, x # rq, x # n, x # b, x # v
       PROVE  g.next[x] = h.next[x] /\ g.prev[x] = h.prev[x]
  BY <1>4, <1>7, <1>8, <1>9, <1>14
<1> QED
  BY <1>2, <1>3, <1>9, <1>11, <1>13, <1>14 DEF rq, Same

(***************************************************************************)
(* The invariant is kept: the boot                                         *)
(***************************************************************************)

(* The words of a typed heap, one by one.                                  *)
LEMMA WordsTyped ==
    ASSUME NEW h \in Words
    PROVE  /\ DOMAIN h.next = Cells /\ DOMAIN h.prev = Cells
           /\ \A c \in Cells : h.next[c] \in Cells \cup {NULL}
           /\ \A c \in Cells : h.prev[c] \in Cells \cup {NULL}
  BY DEF Words, Heaps

(* Idle is on none of the queues above its own.                            *)
LEMMA IdleAside ==
    ASSUME NEW h, NEW al, NEW be, QueuesOK(h, al), al \cup {Idle} = be \cup {Idle}
    PROVE  QueuesOK(h, be)
<1> DEFINE ls == [i \in Prios |-> Queue(h, i)]
<1>1. QueuesOf(h, ls, al)
  BY DEF QueuesOK
<1> HIDE DEF ls
<1>2. \A i \in Prios : {q \in al : Prio[q] = i} = {q \in be : Prio[q] = i}
  BY PrioFacts
<1>3. QueuesOf(h, ls, be)
  BY <1>1, <1>2 DEF QueuesOf
<1> QED
  BY <1>3, QueuesFound

(* Before anything is created every queue is empty.                        *)
LEMMA StartInv == Init => SchedInv
<1> SUFFICES ASSUME Init PROVE SchedInv
  OBVIOUS
<1>1. heap \in Words /\ heap \in Heaps(Cells, Cells \cup {NULL})
  BY DEF Init, Words, Heaps
<1>2. TypeOK
  <2>1. 0 \in 0 .. Len(CREATED) /\ 0 \in 0 .. TICK_QUANTUM
    BY SchedAssumption, LenProperties DEF SchedParameters
  <2> QED
    BY <1>1, <2>1, WordsTyped DEF Init, TypeOK
<1>3. Alive = {}
  BY DEF Init, Alive
<1> DEFINE ls == [i \in Prios |-> << >>]
<1>4. QueuesOf(heap, ls, {})
  <2>1. IsInjective(<< >>) /\ Range(<< >>) = {} /\ Len(<< >>) = 0
    BY DEF IsInjective, Range
  <2>2. ls \in [Prios -> Seq(Lists)] /\ \A i \in Prios : ls[i] = << >>
    OBVIOUS
  <2> HIDE DEF ls
  <2>3. ASSUME NEW i \in Prios PROVE IsRing(heap, RunQueue(i), << >>)
    <3>1. heap.next[RunQueue(i)] = RunQueue(i) /\ heap.prev[RunQueue(i)] = RunQueue(i)
      BY CellFacts, PrioFacts DEF Init
    <3>2. \A j \in 0 .. 1 : RingCell(RunQueue(i), << >>, j) = RunQueue(i)
      BY <2>1 DEF RingCell
    <3>3. \A j \in 0 .. Len(<< >>) : j = 0 /\ j + 1 = 1 /\ 0 \in 0 .. 1 /\ 1 \in 0 .. 1
      BY <2>1
    <3> QED
      BY <3>1, <3>2, <3>3 DEF IsRing
  <2> QED
    BY <2>1, <2>2, <2>3 DEF QueuesOf
<1>5. QueuesOK(heap, Alive)
  BY <1>3, <1>4, QueuesFound
<1>6. CreatedProcs = {}
  BY DEF CreatedProcs, Init
<1>7. heap.next[RunQueue(0)] = RunQueue(0) /\ heap.prev[RunQueue(0)] = RunQueue(0)
  BY CellFacts, PrioFacts DEF Init
<1>8. kernel = "boot" /\ created = 0
  BY DEF Init
<1> QED
  BY <1>1, <1>2, <1>3, <1>5, <1>6, <1>7, <1>8 DEF SchedInv

(* The writes of create_proc before the process goes to its queue.         *)
LEMMA Prepared ==
    ASSUME NEW h \in Words, NEW p \in Procs,
           NEW g, g = link_init(SetPrev(h, Base(p), Vma(p)), List(p))
    PROVE  /\ g \in Words
           /\ \A x \in Cells : g.next[x] = IF x = List(p) THEN x ELSE h.next[x]
           /\ \A x \in Cells : g.prev[x] =
                 IF x = List(p) THEN x ELSE IF x = Base(p) THEN Vma(p) ELSE h.prev[x]
<1> DEFINE H == Heaps(Cells, Cells \cup {NULL})
           n == List(p)
           b == Base(p)
           v == Vma(p)
           h1 == SetPrev(h, b, v)
           h2 == SetNext(h1, n, n)
           h3 == SetPrev(h2, n, n)
<1>1. n \in Cells /\ b \in Cells /\ v \in Cells \cup {NULL} /\ n \in Cells \cup {NULL} /\ n # b
  BY CellFacts
<1>2. g = h3 /\ h \in H
  BY DEF link_init, Words
<1> HIDE DEF n, b, v
<1>3. h1 \in H /\ \A x \in Cells : /\ h1.next[x] = h.next[x]
                                   /\ h1.prev[x] = IF x = b THEN v ELSE h.prev[x]
  BY <1>1, <1>2, WriteWord
<1> HIDE DEF h1
<1>4. h2 \in H /\ \A x \in Cells : /\ h2.next[x] = IF x = n THEN n ELSE h1.next[x]
                                   /\ h2.prev[x] = h1.prev[x]
  BY <1>1, <1>3, WriteWord
<1> HIDE DEF h2
<1>5. h3 \in H /\ \A x \in Cells : /\ h3.next[x] = h2.next[x]
                                   /\ h3.prev[x] = IF x = n THEN n ELSE h2.prev[x]
  BY <1>1, <1>4, WriteWord
<1> HIDE DEF h3
<1> QED
  BY <1>1, <1>2, <1>3, <1>4, <1>5 DEF n, b, v, Words

(* One create_proc: the process is on the queue of its priority and on no  *)
(* other, and nothing of the earlier ones has moved.                       *)
LEMMA CreateStep ==
    ASSUME SchedInv, create_proc
    PROVE  SchedInv'
<1> DEFINE p == CREATED[created + 1]
           h == link_init(SetPrev(heap, Base(p), Vma(p)), List(p))
           g == list_insert_after(h, List(p), RunQueue(Prio[p]))
<1>1. /\ kernel = "boot" /\ created < Len(CREATED) /\ heap' = g
      /\ tick_left' = [tick_left EXCEPT ![p] = TICK_QUANTUM]
      /\ allocated' = allocated \cup ({p} \X Resources)
      /\ created = 0 => current' = ProcOf(g.next[RunQueue(0)]) /\ esp0' = current'
      /\ created # 0 => UNCHANGED <<current, esp0>>
      /\ created' = created + 1 /\ cr3' = cr3 /\ kernel' = kernel
  BY DEF create_proc
<1>2. /\ TypeOK /\ heap \in Words /\ QueuesOK(heap, Alive)
      /\ \A q \in Alive : q # Idle => heap.prev[Base(q)] = Vma(q)
      /\ \A q \in Alive : {q} \X Resources \subseteq allocated
      /\ Alive = CreatedProcs
      /\ created = 0 => heap.next[RunQueue(0)] = RunQueue(0)
                            /\ heap.prev[RunQueue(0)] = RunQueue(0)
      /\ created > 0 => current = Idle /\ esp0 = Idle /\ IdleQueued(heap)
  BY <1>1 DEF SchedInv, Words
<1>3. created \in 0 .. Len(CREATED) /\ Len(CREATED) \in Nat
  BY <1>2, SchedAssumption, LenProperties DEF TypeOK, SchedParameters
<1>4. /\ created + 1 \in 1 .. Len(CREATED) /\ p \in Procs
      /\ \A j \in 1 .. created : j \in 1 .. Len(CREATED) /\ j # created + 1
      /\ 1 .. (created + 1) = (1 .. created) \cup {created + 1}
  <2>1. created + 1 \in 1 .. Len(CREATED)
    BY <1>1, <1>3
  <2>2. CREATED \in [1 .. Len(CREATED) -> Procs]
    BY SchedAssumption, ElementOfSeq, LenProperties DEF SchedParameters
  <2>3. \A j \in 1 .. created : j \in 1 .. Len(CREATED) /\ j # created + 1
    BY <1>1, <1>3
  <2>4. 1 .. (created + 1) = (1 .. created) \cup {created + 1}
    BY <1>3
  <2> QED
    BY <2>1, <2>2, <2>3, <2>4
<1>5. p \notin Alive
  <2>1. SUFFICES ASSUME NEW j \in 1 .. created, p = CREATED[j] PROVE FALSE
    BY <1>2 DEF CreatedProcs
  <2>2. j \in 1 .. Len(CREATED) /\ j # created + 1 /\ created + 1 \in 1 .. Len(CREATED)
    BY <1>4
  <2> QED
    BY <2>1, <2>2, SchedAssumption DEF SchedParameters
<1>6. created = 0 <=> p = Idle
  <2>1. created + 1 = 1 <=> created = 0
    BY <1>3
  <2>2. 1 \in 1 .. Len(CREATED) /\ CREATED[1] = Idle
    BY <1>3, SchedAssumption DEF SchedParameters
  <2> QED
    BY <1>4, <2>1, <2>2, SchedAssumption DEF SchedParameters
<1>7. Alive' = Alive \cup {p} /\ Alive \subseteq Procs
  BY <1>1, <1>4 DEF Alive, Resources
<1>8. CreatedProcs' = CreatedProcs \cup {p}
  <2>1. CreatedProcs' = {CREATED[j] : j \in 1 .. (created + 1)}
    BY <1>1 DEF CreatedProcs
  <2> QED
    BY <1>4, <2>1 DEF CreatedProcs
<1> HIDE DEF p
<1>9. /\ h \in Words
      /\ \A x \in Cells : h.next[x] = IF x = List(p) THEN x ELSE heap.next[x]
      /\ \A x \in Cells : h.prev[x] =
                 IF x = List(p) THEN x ELSE IF x = Base(p) THEN Vma(p) ELSE heap.prev[x]
  BY <1>2, <1>4, Prepared
<1> HIDE DEF h
<1>10. QueuesOK(h, Alive)
  <2>1. \A i \in Prios : /\ h.next[RunQueue(i)] = heap.next[RunQueue(i)]
                         /\ h.prev[RunQueue(i)] = heap.prev[RunQueue(i)]
    BY <1>4, <1>9, CellFacts, PrioFacts
  <2>2. \A q \in Alive : /\ h.next[List(q)] = heap.next[List(q)]
                         /\ h.prev[List(q)] = heap.prev[List(q)]
    BY <1>4, <1>5, <1>7, <1>9, CellFacts
  <2> QED
    BY <1>2, <1>7, <2>1, <2>2, QueuesKept
<1>11. /\ g \in Words /\ QueuesOK(g, Alive \cup {p}) /\ IdleQueued(g)
       /\ \A q \in Procs : g.prev[Base(q)] = h.prev[Base(q)]
  <2>1. CASE p = Idle
    <3> DEFINE rq == RunQueue(0)
               n == List(Idle)
    <3>1. rq \in Cells /\ n \in Cells /\ rq # n /\ rq # Base(Idle) /\ n # Base(Idle)
          /\ Base(Idle) \in Cells /\ Cells \subseteq Cells \cup {NULL}
      BY CellFacts, PrioFacts
    <3>2. g = list_insert_after(h, n, rq) /\ h.next[rq] = rq
          /\ h.prev[Base(Idle)] = Vma(Idle)
      BY <1>2, <1>6, <1>9, <2>1, <3>1, PrioFacts
    <3>3. /\ g \in Words
          /\ \A x \in Cells : g.next[x] = IF x = rq THEN n ELSE IF x = n THEN rq ELSE h.next[x]
          /\ \A x \in Cells : g.prev[x] = IF x = n THEN rq ELSE IF x = rq THEN n ELSE h.prev[x]
      <4> HIDE DEF rq, n, g
      <4>1. /\ list_insert_after(h, n, rq) \in Heaps(Cells, Cells \cup {NULL})
            /\ n # rq =>
               /\ \A x \in Cells : list_insert_after(h, n, rq).next[x] =
                    IF x = rq THEN n ELSE IF x = n THEN h.next[rq] ELSE h.next[x]
               /\ \A x \in Cells : list_insert_after(h, n, rq).prev[x] =
                    IF x = n THEN rq ELSE IF x = h.next[rq] THEN n ELSE h.prev[x]
        BY <1>9, <3>1, <3>2, AfterInsert DEF Words
      <4> QED
        BY <3>1, <3>2, <4>1 DEF Words
    <3> HIDE DEF g
    <3>4. IdleQueued(g)
      BY <3>1, <3>2, <3>3 DEF IdleQueued
    <3>5. \A q \in Procs : g.prev[Base(q)] = h.prev[Base(q)]
      BY <3>1, <3>3, CellFacts, PrioFacts
    <3>6. \A i \in Prios : /\ g.next[RunQueue(i)] = h.next[RunQueue(i)]
                           /\ g.prev[RunQueue(i)] = h.prev[RunQueue(i)]
      BY <3>3, CellFacts, PrioFacts
    <3>7. \A q \in Alive : q # Idle => /\ g.next[List(q)] = h.next[List(q)]
                                       /\ g.prev[List(q)] = h.prev[List(q)]
      BY <1>7, <3>3, CellFacts, PrioFacts
    <3>8. QueuesOK(g, Alive)
      BY <1>7, <1>10, <3>6, <3>7, QueuesKept
    <3> QED
      BY <2>1, <3>3, <3>4, <3>5, <3>8, IdleAside
  <2>2. CASE p # Idle
    <3>0. g = list_insert_after(h, List(p), RunQueue(Prio[p]))
      OBVIOUS
    <3> HIDE DEF g
    <3>1. /\ g \in Words /\ QueuesOK(g, Alive \cup {p})
          /\ \A x \in Cells \ Above : g.next[x] = h.next[x] /\ g.prev[x] = h.prev[x]
      <4>1. PICK al \in SUBSET Procs : al = Alive
        BY <1>7
      <4>2. h \in Words /\ QueuesOK(h, al) /\ p \in Procs /\ p \notin al
        BY <1>4, <1>5, <1>9, <1>10, <4>1
      <4>3. g \in Words
        BY <2>2, <3>0, <4>2, QueueJoined
      <4>4. QueuesOK(g, al \cup {p})
        BY <2>2, <3>0, <4>2, QueueJoined
      <4>5. Same(h, g, Cells \ Above)
        BY <2>2, <3>0, <4>2, QueueJoined
      <4> QED
        BY <4>1, <4>3, <4>4, <4>5 DEF Same
    <3>2. \A q \in Procs : Base(q) \in Cells \ Above
      BY CellFacts, PrioFacts DEF Above
    <3>3. RunQueue(0) \in Cells \ Above /\ List(Idle) \in Cells \ Above
      BY CellFacts, PrioFacts DEF Above
    <3>4. IdleQueued(heap)
      BY <1>2, <1>3, <1>6, <2>2
    <3>5. /\ h.next[RunQueue(0)] = heap.next[RunQueue(0)]
          /\ h.prev[RunQueue(0)] = heap.prev[RunQueue(0)]
          /\ h.next[List(Idle)] = heap.next[List(Idle)]
          /\ h.prev[List(Idle)] = heap.prev[List(Idle)]
          /\ h.prev[Base(Idle)] = heap.prev[Base(Idle)]
      BY <1>4, <1>9, <2>2, CellFacts, PrioFacts
    <3>6. IdleQueued(g)
      BY <3>1, <3>2, <3>3, <3>4, <3>5, PrioFacts DEF IdleQueued
    <3> QED
      BY <3>1, <3>2, <3>6
  <2> QED
    BY <2>1, <2>2
<1>12. \A q \in Alive \cup {p} : q # Idle => g.prev[Base(q)] = Vma(q)
  <2>1. \A q \in Procs : Base(q) \in Cells /\ Base(q) # List(p)
    BY <1>4, CellFacts
  <2>2. \A q \in Alive \cup {p} : q # Idle => h.prev[Base(q)] = Vma(q)
    BY <1>2, <1>4, <1>7, <1>9, <2>1, CellFacts
  <2> QED
    BY <1>4, <1>7, <1>11, <2>2
<1>13. created = 0 => ProcOf(g.next[RunQueue(0)]) = Idle
  BY <1>11, CellFacts, PrioFacts DEF IdleQueued
<1> HIDE DEF g
<1>14. current' = Idle /\ esp0' = Idle
  BY <1>1, <1>2, <1>3, <1>13
<1>15. TypeOK'
  <2>1. /\ DOMAIN heap'.next = Cells /\ DOMAIN heap'.prev = Cells
        /\ \A c \in Cells : heap'.next[c] \in Cells \cup {NULL}
        /\ \A c \in Cells : heap'.prev[c] \in Cells \cup {NULL}
    BY <1>1, <1>11, WordsTyped
  <2>2. tick_left' \in [Procs -> 0 .. TICK_QUANTUM]
    <3>1. TICK_QUANTUM \in 0 .. TICK_QUANTUM /\ tick_left \in [Procs -> 0 .. TICK_QUANTUM]
      BY <1>2, SchedAssumption DEF TypeOK, SchedParameters
    <3> QED
      BY <1>1, <3>1
  <2>3. {current', cr3', esp0'} \subseteq Procs \cup {NULL}
    BY <1>1, <1>2, <1>14, PrioFacts DEF TypeOK
  <2>4. allocated' \subseteq Procs \X Resources
    BY <1>1, <1>2, <1>4 DEF TypeOK
  <2>5. created' \in 0 .. Len(CREATED) /\ kernel' = "boot"
    BY <1>1, <1>3
  <2> QED
    BY <2>1, <2>2, <2>3, <2>4, <2>5 DEF TypeOK, Cells, RunQueues, Lists
<1>16. QueuesOK(heap', Alive')
  BY <1>1, <1>7, <1>11
<1>17. \A q \in Alive' : {q} \X Resources \subseteq allocated'
  BY <1>1, <1>2, <1>7
<1>18. heap' \in Words /\ IdleQueued(heap')
  BY <1>1, <1>11
<1>19. \A q \in Alive' : q # Idle => heap'.prev[Base(q)] = Vma(q)
  BY <1>1, <1>7, <1>12
<1>20. kernel' = "boot" /\ Alive' = CreatedProcs' /\ created' # 0
  BY <1>1, <1>2, <1>3, <1>7, <1>8
<1> QED
  BY <1>14, <1>15, <1>16, <1>17, <1>18, <1>19, <1>20 DEF SchedInv, Words

(* The first process goes to user mode when all have been created.         *)
LEMMA SwitchStep ==
    ASSUME SchedInv, switch_to_user
    PROVE  SchedInv'
<1>1. /\ kernel = "boot" /\ created = Len(CREATED) /\ kernel' = "running" /\ cr3' = current
      /\ UNCHANGED <<heap, tick_left, current, esp0, allocated, created>>
  BY DEF switch_to_user
<1>2. Len(CREATED) \in Nat /\ Len(CREATED) > 1
  BY SchedAssumption, LenProperties DEF SchedParameters
<1>3. /\ TypeOK /\ heap \in Heaps(Cells, Cells \cup {NULL}) /\ QueuesOK(heap, Alive)
      /\ \A q \in Alive : q # Idle => heap.prev[Base(q)] = Vma(q)
      /\ \A q \in Alive : {q} \X Resources \subseteq allocated
      /\ Alive = CreatedProcs
      /\ current = Idle /\ esp0 = Idle /\ IdleQueued(heap)
  <2>1. created > 0
    BY <1>1, <1>2
  <2> QED
    BY <1>1, <2>1 DEF SchedInv
<1>4. Alive = Procs
  <2>1. \A p \in Procs : p \in CreatedProcs
    BY <1>1, SchedAssumption DEF CreatedProcs, SchedParameters
  <2> QED
    BY <1>3, <2>1 DEF Alive
<1>5. Alive' = Alive /\ heap' = heap
  BY <1>1 DEF Alive
<1>6. TypeOK'
  <2>1. current \in Procs \cup {NULL}
    BY <1>3 DEF TypeOK
  <2>2. {current', cr3', esp0'} \subseteq Procs \cup {NULL}
    BY <1>1, <1>3, <2>1
  <2> QED
    BY <1>1, <1>3, <2>2 DEF TypeOK, Cells, RunQueues, Lists
<1>7. QueuesOK(heap', Alive')
  BY <1>3, <1>5
<1> QED
  BY <1>1, <1>3, <1>4, <1>5, <1>6, <1>7, PrioFacts DEF SchedInv

(***************************************************************************)
(* The invariant is kept: ticks and exits                                  *)
(***************************************************************************)
(* What the invariant says while the kernel runs.                          *)
LEMMA Running ==
    ASSUME SchedInv, kernel = "running"
    PROVE  /\ TypeOK /\ heap \in Words /\ Alive \in SUBSET Procs /\ QueuesOK(heap, Alive)
           /\ \A q \in Alive : q # Idle => heap.prev[Base(q)] = Vma(q)
           /\ \A q \in Alive : {q} \X Resources \subseteq allocated
           /\ Idle \in Alive /\ current \in Alive /\ cr3 = current /\ esp0 = current
           /\ current # Idle => \A p \in Alive : Prio[p] <= Prio[current]
           /\ \/ IdleQueued(heap) /\ current = Idle /\ Alive = Procs
              \/ IdleMoved(heap)
  BY DEF SchedInv, Words, Alive

(* What is to be shown to get it back.                                     *)
LEMMA RunsOn ==
    ASSUME TypeOK, kernel' = "running", created' = created, heap' \in Words,
           tick_left' \in [Procs -> 0 .. TICK_QUANTUM], allocated' \subseteq allocated,
           QueuesOK(heap', Alive'),
           \A q \in Alive' : q # Idle => heap'.prev[Base(q)] = Vma(q),
           \A q \in Alive' : {q} \X Resources \subseteq allocated',
           Idle \in Alive', current' \in Alive', cr3' = current', esp0' = current',
           current' # Idle => \A p \in Alive' : Prio[p] <= Prio[current'],
           \/ IdleQueued(heap') /\ current' = Idle /\ Alive' = Procs
           \/ IdleMoved(heap')
    PROVE  SchedInv'
<1>1. TypeOK'
  <2>1. /\ DOMAIN heap'.next = Cells /\ DOMAIN heap'.prev = Cells
        /\ \A c \in Cells : heap'.next[c] \in Cells \cup {NULL}
        /\ \A c \in Cells : heap'.prev[c] \in Cells \cup {NULL}
    BY WordsTyped
  <2>2. current' \in Procs
    BY DEF Alive
  <2> QED
    BY <2>1, <2>2 DEF TypeOK, Cells, RunQueues, Lists
<1> QED
  BY <1>1 DEF SchedInv, Words

(* A tick in the middle of a quantum only counts.                          *)
LEMMA TickStep ==
    ASSUME SchedInv, TickInQuantum
    PROVE  SchedInv'
<1>1. /\ kernel = "running" /\ tick_left[current] > 0
      /\ tick_left' = [tick_left EXCEPT ![current] = @ - 1]
      /\ UNCHANGED <<heap, current, cr3, esp0, allocated, created, kernel>>
  BY DEF TickInQuantum
<1>2. Alive' = Alive
  BY <1>1 DEF Alive
<1>3. tick_left' \in [Procs -> 0 .. TICK_QUANTUM]
  <2>1. tick_left \in [Procs -> 0 .. TICK_QUANTUM] /\ current \in Procs
    BY <1>1, Running DEF TypeOK
  <2>2. tick_left[current] - 1 \in 0 .. TICK_QUANTUM
    <3>1. tick_left[current] \in 0 .. TICK_QUANTUM /\ TICK_QUANTUM \in Nat
      BY <2>1, SchedAssumption DEF SchedParameters
    <3> QED
      BY <1>1, <3>1
  <2> QED
    BY <1>1, <2>1, <2>2
<1>4. QueuesOK(heap', Alive') <=> QueuesOK(heap, Alive)
  BY <1>1, <1>2
<1> QED
  BY <1>1, <1>2, <1>3, <1>4, Running, RunsOn

(* The end of idle's quantum: some other process goes on, or idle does.    *)
LEMMA IdleQuantumStep ==
    ASSUME SchedInv, TickEndsQuantum, current = Idle
    PROVE  SchedInv' /\ kernel' = "running"
<1> DEFINE g == Requeue(Idle)
<1>1. /\ kernel = "running" /\ tick_left' = [tick_left EXCEPT ![current] = TICK_QUANTUM]
      /\ heap' = g /\ schedule(g) /\ UNCHANGED <<allocated, created>>
  BY DEF TickEndsQuantum
<1>2. /\ TypeOK /\ heap \in Words /\ Alive \in SUBSET Procs /\ QueuesOK(heap, Alive)
      /\ \A q \in Alive : q # Idle => heap.prev[Base(q)] = Vma(q)
      /\ \A q \in Alive : {q} \X Resources \subseteq allocated
      /\ Idle \in Alive /\ cr3 = Idle /\ esp0 = Idle
      /\ IdleQueued(heap) => Alive = Procs \/ IdleMoved(heap)
      /\ IdleQueued(heap) \/ IdleMoved(heap)
  BY <1>1, Running
<1>3. g = list_insert_before(list_remove(heap, List(Idle)), RunQueue(0), Base(Idle))
  BY PrioFacts DEF Requeue
<1> HIDE DEF g
<1>4. /\ g \in Words /\ IdleMoved(g)
      /\ IdleMoved(heap) => list_empty(g, RunQueue(0))
      /\ Same(heap, g, Above)
      /\ \A p \in Procs : p # Idle => g.prev[Base(p)] = heap.prev[Base(p)]
  BY <1>2, <1>3, IdleRequeue
<1>5. QueuesOK(g, Alive)
  <2>1. \A i \in Prios : RunQueue(i) \in Above
    BY DEF Above
  <2>2. \A p \in Alive : p # Idle => List(p) \in Above
    BY <1>2 DEF Above
  <2> QED
    BY <1>2, <1>4, <2>1, <2>2, QueuesKept DEF Same
<1>6. list_empty(g, RunQueue(0)) \/ \E p \in Alive : p # Idle
  <2>1. CASE IdleMoved(heap)
    BY <1>4, <2>1
  <2>2. CASE Alive = Procs
    <3>1. Len(CREATED) \in Nat /\ CREATED \in [1 .. Len(CREATED) -> Procs]
      BY SchedAssumption, LenProperties, ElementOfSeq DEF SchedParameters
    <3>2. 1 \in 1 .. Len(CREATED) /\ 2 \in 1 .. Len(CREATED) /\ 1 # 2
      BY <3>1, SchedAssumption DEF SchedParameters
    <3>3. CREATED[2] \in Procs /\ CREATED[2] # Idle
      BY <3>1, <3>2, SchedAssumption DEF SchedParameters
    <3> QED
      BY <2>2, <3>3
  <2> QED
    BY <1>2, <2>1, <2>2
<1>7. /\ UNCHANGED kernel
      /\ \/ UNCHANGED <<current, cr3, esp0>> /\ Alive \subseteq {Idle}
         \/ \E q \in Alive : /\ q # Idle /\ current' = q /\ cr3' = q /\ esp0' = q
                             /\ \A p \in Alive : Prio[p] <= Prio[q]
  BY <1>1, <1>2, <1>5, <1>6, ScheduleFinds
<1>8. Alive' = Alive
  BY <1>1 DEF Alive
<1>9. current' \in Alive /\ cr3' = current' /\ esp0' = current'
      /\ (current' # Idle => \A p \in Alive : Prio[p] <= Prio[current'])
  BY <1>2, <1>7
<1>10. tick_left' \in [Procs -> 0 .. TICK_QUANTUM]
  <2>1. tick_left \in [Procs -> 0 .. TICK_QUANTUM] /\ TICK_QUANTUM \in 0 .. TICK_QUANTUM
    BY <1>2, SchedAssumption DEF TypeOK, SchedParameters
  <2> QED
    BY <1>1, <2>1
<1>11. QueuesOK(heap', Alive')
  BY <1>1, <1>5, <1>8
<1>12. \A q \in Alive' : q # Idle => heap'.prev[Base(q)] = Vma(q)
  BY <1>1, <1>2, <1>4, <1>8
<1>13. kernel' = "running"
  BY <1>1, <1>7
<1>14. \A q \in Alive' : {q} \X Resources \subseteq allocated'
  BY <1>1, <1>2, <1>8
<1>15. heap' \in Words /\ IdleMoved(heap')
  BY <1>1, <1>4
<1> QED
  BY <1>1, <1>2, <1>8, <1>9, <1>10, <1>11, <1>12, <1>13, <1>14, <1>15, RunsOn

(* The end of any other quantum: the queue of the process begins with its  *)
(* proc_t, which is no link, and the kernel is lost.                       *)
LEMMA OtherQuantumStep ==
    ASSUME SchedInv, TickEndsQuantum, current # Idle
    PROVE  SchedInv' /\ kernel' = "wild"
<1> DEFINE c == current
           i == Prio[c]
           f == list_remove(heap, List(c))
           g == Requeue(c)
           rq == RunQueue(i)
           b == Base(c)
           v == Vma(c)
<1>1. /\ kernel = "running" /\ tick_left' = [tick_left EXCEPT ![c] = TICK_QUANTUM]
      /\ heap' = g /\ schedule(g) /\ UNCHANGED <<allocated, created>>
  BY DEF TickEndsQuantum
<1>2. /\ TypeOK /\ heap \in Words /\ Alive \in SUBSET Procs /\ QueuesOK(heap, Alive)
      /\ heap.prev[b] = v /\ c \in Alive /\ c \in Procs
      /\ \A p \in Alive : Prio[p] <= Prio[c]
  BY <1>1, Running
<1>3. g = list_insert_before(f, rq, b)
  BY DEF Requeue
<1>4. f \in Words /\ QueuesOK(f, Alive \ {c}) /\ Same(heap, f, Cells \ Above)
  BY <1>2, QueueLeft
<1>5. /\ i \in Prios /\ i \in 0 .. MAX_PRIO /\ rq \in Cells /\ b \in Cells /\ v \in Cells
      /\ b \notin Above /\ rq # b /\ rq # v /\ b # v /\ b \notin Lists
      /\ Cells \subseteq Cells \cup {NULL}
  BY <1>2, CellFacts, PrioFacts DEF Above
<1>6. f.prev[b] = v
  BY <1>2, <1>4, <1>5 DEF Same
<1> HIDE DEF f, g, rq, b, v, i
<1>7. /\ g \in Words
      /\ \A x \in Cells : g.next[x] = IF x = v THEN rq ELSE IF x = rq THEN b ELSE f.next[x]
      /\ \A x \in Cells : g.prev[x] = IF x = rq THEN v ELSE IF x = b THEN rq ELSE f.prev[x]
  BY <1>3, <1>4, <1>5, <1>6, AfterInsertBefore DEF Words
<1>8. g.next[rq] = b /\ g.prev[rq] = v
  BY <1>5, <1>7
<1>9. i \in ReadyQueues(g)
  BY <1>5, <1>8 DEF ReadyQueues, list_empty, rq
<1>10. ASSUME NEW k \in 0 .. MAX_PRIO, k > i
       PROVE  k \notin ReadyQueues(g)
  <2>1. k \in Prios /\ k # i
    BY <1>5, <1>10, SchedAssumption DEF Prios, SchedParameters
  <2>2. RunQueue(k) \in Cells /\ RunQueue(k) # rq /\ RunQueue(k) # v /\ RunQueue(k) # b
    BY <1>2, <1>5, <2>1, CellFacts, PrioFacts DEF rq, v, b
  <2>3. \A p \in Alive \ {c} : Prio[p] # k
    <3>1. \A p \in Alive \ {c} : Prio[p] <= i /\ Prio[p] \in 0 .. MAX_PRIO
      BY <1>2, PrioFacts DEF i
    <3> QED
      BY <1>5, <1>10, <3>1, SchedAssumption DEF SchedParameters
  <2>4. list_empty(f, RunQueue(k))
    BY <1>2, <1>4, <2>1, <2>3, QueueHead
  <2>5. list_empty(g, RunQueue(k))
    BY <1>7, <2>2, <2>4 DEF list_empty
  <2> QED
    BY <2>5 DEF ReadyQueues
<1> DEFINE R == ReadyQueues(g)
<1>11. R \in SUBSET (0 .. MAX_PRIO) /\ MAX_PRIO \in Nat /\ R # {}
  BY <1>9, SchedAssumption DEF ReadyQueues, SchedParameters
<1>12. Max(R) = i
  <2>1. Max(R) \in R /\ \A k \in R : Max(R) >= k
    BY <1>11, MaxElement
  <2>2. Max(R) >= i /\ ~(Max(R) > i) /\ Max(R) \in 0 .. MAX_PRIO
    BY <1>9, <1>10, <1>11, <2>1
  <2> QED
    BY <1>5, <1>11, <2>2
<1>13. g.next[RunQueue(Max(R))] \notin Lists
  BY <1>5, <1>8, <1>12 DEF rq
<1>14. kernel' = "wild" /\ UNCHANGED <<current, cr3, esp0>>
  BY <1>1, <1>11, <1>13 DEF schedule
<1>15. TypeOK'
  <2>1. /\ DOMAIN heap'.next = Cells /\ DOMAIN heap'.prev = Cells
        /\ \A x \in Cells : heap'.next[x] \in Cells \cup {NULL}
        /\ \A x \in Cells : heap'.prev[x] \in Cells \cup {NULL}
    BY <1>1, <1>7, WordsTyped
  <2>2. tick_left \in [Procs -> 0 .. TICK_QUANTUM] /\ TICK_QUANTUM \in 0 .. TICK_QUANTUM
    BY <1>2, SchedAssumption DEF TypeOK, SchedParameters
  <2>3. tick_left' \in [Procs -> 0 .. TICK_QUANTUM]
    BY <1>1, <2>2
  <2> QED
    BY <1>1, <1>2, <1>14, <2>1, <2>3 DEF TypeOK, Cells, RunQueues, Lists
<1>16. heap' \in Heaps(Cells, Cells \cup {NULL})
  BY <1>1, <1>7 DEF Words
<1> QED
  BY <1>14, <1>15, <1>16 DEF SchedInv

(* An exit: the process leaves its queue, and idle goes on.                *)
LEMMA ExitStep ==
    ASSUME SchedInv, do_sys_exit
    PROVE  SchedInv'
<1> DEFINE c == current
           f == list_remove(heap, List(c))
           g == SetPrev(f, Base(c), NULL)
<1>1. /\ kernel = "running" /\ c # Idle /\ heap' = g
      /\ allocated' = allocated \ ({c} \X {"page_dir", "proc"})
      /\ current' = Idle /\ cr3' = Idle /\ esp0' = Idle
      /\ UNCHANGED <<tick_left, created, kernel>>
  BY DEF do_sys_exit, context_switch
<1>2. /\ TypeOK /\ heap \in Words /\ Alive \in SUBSET Procs /\ QueuesOK(heap, Alive)
      /\ \A q \in Alive : q # Idle => heap.prev[Base(q)] = Vma(q)
      /\ \A q \in Alive : {q} \X Resources \subseteq allocated
      /\ Idle \in Alive /\ c \in Alive /\ c \in Procs /\ IdleMoved(heap)
  BY <1>1, Running
<1>3. f \in Words /\ QueuesOK(f, Alive \ {c}) /\ Same(heap, f, Cells \ Above)
  BY <1>1, <1>2, QueueLeft
<1> HIDE DEF f
<1>4. /\ g \in Words
      /\ \A x \in Cells : g.next[x] = f.next[x]
      /\ \A x \in Cells : g.prev[x] = IF x = Base(c) THEN NULL ELSE f.prev[x]
  <2>1. Base(c) \in Cells /\ NULL \in Cells \cup {NULL}
    BY <1>2, CellFacts
  <2> QED
    BY <1>3, <2>1, WriteWord DEF Words
<1> HIDE DEF g
<1>5. Alive' = Alive \ {c} /\ Alive' \in SUBSET Procs
  BY <1>1, <1>2 DEF Alive
<1>6. QueuesOK(g, Alive \ {c})
  <2>1. \A i \in Prios : RunQueue(i) \in Cells /\ RunQueue(i) # Base(c)
    BY <1>2, CellFacts, PrioFacts
  <2>2. \A p \in Procs : List(p) \in Cells /\ List(p) # Base(c)
    BY <1>2, CellFacts
  <2>3. Alive \ {c} \in SUBSET Procs
    BY <1>2
  <2> QED
    BY <1>3, <1>4, <2>1, <2>2, <2>3, QueuesKept
<1>7. \A p \in Procs : p # c => g.prev[Base(p)] = heap.prev[Base(p)]
  <2>1. \A p \in Procs : Base(p) \in Cells \ Above /\ (p # c => Base(p) # Base(c))
    <3>1. \A p \in Procs : Base(p) \notin Above
      BY CellFacts DEF Above, Base, RunQueue, List
    <3> QED
      BY <1>2, <3>1, CellFacts
  <2> QED
    BY <1>3, <1>4, <2>1 DEF Same
<1>8. IdleMoved(g)
  <2>1. List(Idle) \in Cells \ Above /\ List(Idle) # Base(c)
    BY <1>2, CellFacts, PrioFacts DEF Above
  <2>2. g.next[List(Idle)] = heap.next[List(Idle)] /\ g.prev[List(Idle)] = heap.prev[List(Idle)]
    BY <1>3, <1>4, <2>1 DEF Same
  <2>3. g.prev[Base(Idle)] = heap.prev[Base(Idle)]
    BY <1>1, <1>7, PrioFacts
  <2> QED
    BY <1>2, <2>2, <2>3 DEF IdleMoved
<1>9. QueuesOK(heap', Alive')
  BY <1>1, <1>5, <1>6
<1>10. \A q \in Alive' : q # Idle => heap'.prev[Base(q)] = Vma(q)
  BY <1>1, <1>2, <1>5, <1>7
<1>11. \A q \in Alive' : {q} \X Resources \subseteq allocated'
  BY <1>1, <1>2, <1>5
<1>12. heap' \in Words /\ IdleMoved(heap')
  BY <1>1, <1>4, <1>8
<1>13. tick_left' \in [Procs -> 0 .. TICK_QUANTUM] /\ allocated' \subseteq allocated
  BY <1>1, <1>2 DEF TypeOK
<1>14. Idle \in Alive'
  BY <1>1, <1>2, <1>5
<1> QED
  BY <1>1, <1>2, <1>9, <1>10, <1>11, <1>12, <1>13, <1>14, RunsOn

(***************************************************************************)
(* The theorems                                                            *)
(***************************************************************************)
(* The inductive invariant of the scheduler.                               *)
THEOREM SchedInvariance == Spec => []SchedInv
<1>1. SchedInv /\ [Next]_vars => SchedInv'
  <2> SUFFICES ASSUME SchedInv, [Next]_vars PROVE SchedInv'
    OBVIOUS
  <2>1. CASE create_proc
    BY <2>1, CreateStep
  <2>2. CASE switch_to_user
    BY <2>2, SwitchStep
  <2>3. CASE TickInQuantum
    BY <2>3, TickStep
  <2>4. CASE TickEndsQuantum
    BY <2>4, IdleQuantumStep, OtherQuantumStep
  <2>5. CASE do_sys_exit
    BY <2>5, ExitStep
  <2>6. CASE IdleExits
    <3>1. TypeOK
      BY DEF SchedInv
    <3>2. kernel' = "bug" /\ UNCHANGED <<heap, tick_left, current, cr3, esp0, allocated, created>>
      BY <2>6 DEF IdleExits
    <3>3. TypeOK'
      BY <3>1, <3>2 DEF TypeOK, Cells, RunQueues, Lists
    <3> QED
      BY <3>2, <3>3 DEF SchedInv
  <2>7. CASE UNCHANGED vars
    <3>1. UNCHANGED <<heap, tick_left, current, cr3, esp0, allocated, created, kernel>>
      BY <2>7 DEF vars
    <3>2. Alive' = Alive /\ CreatedProcs' = CreatedProcs /\ (TypeOK => TypeOK')
      BY <3>1 DEF Alive, CreatedProcs, TypeOK, Cells, RunQueues, Lists
    <3>3. /\ QueuesOK(heap, Alive) => QueuesOK(heap', Alive')
          /\ IdleQueued(heap) => IdleQueued(heap')
          /\ IdleMoved(heap) => IdleMoved(heap')
      BY <3>1, <3>2
    <3> QED
      BY <3>1, <3>2, <3>3 DEF SchedInv
  <2> QED
    BY <2>1, <2>2, <2>3, <2>4, <2>5, <2>6, <2>7 DEF Next, do_timer, Stopped
<1> QED
  BY <1>1, StartInv, PTL DEF Spec

(* Every word of the queues stays a cell or NULL, quanta stay in range.    *)
THEOREM SchedTypeCorrect == Spec => []TypeOK
<1>1. SchedInv => TypeOK
  BY DEF SchedInv
<1> QED
  BY <1>1, SchedInvariance, PTL

(* The queue of every priority above idle's is a ring of exactly the       *)
(* processes of that priority that are alive, at every time while the      *)
(* kernel runs.                                                            *)
THEOREM QueuesStayIntact == Spec => []QueuesIntact
<1>1. SchedInv => QueuesIntact
  <2> SUFFICES ASSUME SchedInv, kernel = "running", NEW i \in 1 .. MAX_PRIO
               PROVE  LET members == {List(p) : p \in {q \in Alive : Prio[q] = i}}
                          walk    == Walk(heap, RunQueue(i), Cardinality(Procs) + 1)
                      IN  /\ {walk[n] : n \in DOMAIN walk} = members
                          /\ Len(walk) = Cardinality(members)
                          /\ \A c \in members \cup {RunQueue(i)} :
                                heap.prev[heap.next[c]] = c
    BY DEF QueuesIntact
  <2> DEFINE members == {List(p) : p \in {q \in Alive : Prio[q] = i}}
             walk == Walk(heap, RunQueue(i), Cardinality(Procs) + 1)
             ls == [k \in Prios |-> Queue(heap, k)]
             hd == RunQueue(i)
  <2>1. i \in Prios /\ ls[i] = walk
    BY DEF Prios, Queue
  <2>2. QueuesOf(heap, ls, Alive)
    BY Running DEF QueuesOK
  <2> HIDE DEF ls
  <2>3. /\ walk \in Seq(Lists) /\ IsInjective(walk) /\ IsRing(heap, hd, walk)
        /\ Range(walk) = members
    BY <2>1, <2>2 DEF QueuesOf
  <2> HIDE DEF walk, members, hd
  <2>4. Len(walk) \in Nat /\ DOMAIN walk = 1 .. Len(walk)
    BY <2>3, LenProperties
  <2>5. {walk[n] : n \in DOMAIN walk} = members
    BY <2>3 DEF Range
  <2>6. Len(walk) = Cardinality(members)
    <3>1. walk \in Bijection(1 .. Len(walk), members)
      BY <2>3, <2>4, <2>5, ElementOfSeq DEF Bijection, Injection, Surjection, IsInjective
    <3>2. ExistsBijection(1 .. Len(walk), members)
      BY <3>1 DEF ExistsBijection
    <3>3. PICK n \in Nat : n = Len(walk)
      BY <2>4
    <3>4. IsFiniteSet(1 .. n) /\ Cardinality(1 .. n) = n
      BY FS_Interval
    <3> QED
      BY <3>2, <3>3, <3>4, FS_Bijection
  <2>7. \A c \in members \cup {hd} : heap.prev[heap.next[c]] = c
    <3> SUFFICES ASSUME NEW c \in {hd} \cup Range(walk)
                 PROVE  heap.prev[heap.next[c]] = c
      BY <2>3
    <3>1. PICK k \in 0 .. Len(walk) : c = RingCell(hd, walk, k)
      BY <2>3, RingPlaces, ZenonT(30)
    <3> QED
      BY <2>3, <3>1 DEF IsRing
  <2> QED
    BY <2>5, <2>6, <2>7 DEF walk, members, hd
<1> QED
  BY <1>1, SchedInvariance, PTL

(* cr3, tss.esp0 and current always name one process that is alive with    *)
(* all it was given.                                                       *)
THEOREM CurrentStaysAlive == Spec => []CurrentIsAlive
<1>1. SchedInv => CurrentIsAlive
  BY Running DEF CurrentIsAlive
<1> QED
  BY <1>1, SchedInvariance, PTL

(* No process of a higher priority waits for a process other than idle.    *)
THEOREM HighestAlwaysRuns == Spec => []HighestRuns
<1>1. SchedInv => HighestRuns
  BY Running DEF HighestRuns
<1> QED
  BY <1>1, SchedInvariance, PTL

(* The wrong list_insert_before at the end of idle's own quantum never     *)
(* loses the processor.                                                    *)
THEOREM IdleDoesNoHarm == Spec => []IdleQuantumHarmless
<1>1. SchedInv => IdleQuantumHarmless
  BY DEF SchedInv, IdleQuantumHarmless
<1> QED
  BY <1>1, SchedInvariance, PTL
=============================================================================
