------------------------------- MODULE Sched -------------------------------
(***************************************************************************)
(* Processes, run queues and the timer: proc.c, schedule.c, do_timer of    *)
(* intr.c and do_sys_exit of syscall.c.  The run queues are modelled at    *)
(* the level of their links, in one heap with the words of proc_t and      *)
(* vm_area_t that the queue operations reach.  Handlers are atomic: timer  *)
(* and system call go through interrupt gates.                             *)
(***************************************************************************)
EXTENDS Links, FiniteSets, FiniteSetsExt, TLC

CONSTANTS
    Procs,          \* the processes proc_init creates, in CREATED's order
    Idle,           \* the first of them
    CREATED,        \* the calls of create_proc
    Prio,           \* prio of each process
    MAX_PRIO,
    TICK_QUANTUM,
    NULL

SchedParameters ==
    /\ Idle \in Procs
    /\ MAX_PRIO \in Nat
    /\ TICK_QUANTUM \in Nat
    /\ Prio \in [Procs -> 0 .. MAX_PRIO]
    /\ \A p \in Procs : Prio[p] = 0 <=> p = Idle
    /\ CREATED \in Seq(Procs) /\ Len(CREATED) > 1 /\ CREATED[1] = Idle
    /\ \A p \in Procs : \E j \in 1 .. Len(CREATED) : CREATED[j] = p
    /\ \A j, k \in 1 .. Len(CREATED) : CREATED[j] = CREATED[k] => j = k

ASSUME SchedAssumption == SchedParameters

VARIABLES
    heap,           \* the words of the cells below
    tick_left,
    current,
    cr3,            \* the process whose page directory is loaded
    esp0,           \* the process whose kernel stack tss.esp0 names
    allocated,      \* what has been allocated for a process and not freed
    created,        \* calls of create_proc so far
    kernel          \* "boot", "running", or stopped: "bug", "wild"

vars == <<heap, tick_left, current, cr3, esp0, allocated, created, kernel>>

(***************************************************************************)
(* Cells.  A process has three: proc->list; the proc_t itself read as a    *)
(* link_t, whose next word is pid and whose prev word is                   *)
(* vm_info.vm_area_list; and its first vm_area_t read as a link_t, whose   *)
(* next word is vm_info and whose prev word is next.                       *)
(***************************************************************************)
RunQueue(i) == <<"run_queue", i>>
List(p) == <<"list", p>>
Base(p) == <<"proc", p>>
Vma(p) == <<"vm_area", p>>

RunQueues == {RunQueue(i) : i \in 0 .. MAX_PRIO}
Lists == {List(p) : p \in Procs}
Cells == RunQueues \cup Lists \cup {Base(p) : p \in Procs} \cup {Vma(p) : p \in Procs}

(* link_to_struct(l, proc_t, list)                                         *)
ProcOf(l) == l[2]

Alive == {p \in Procs : <<p, "proc">> \in allocated}

Init ==
    /\ heap = [next |-> [c \in Cells |-> IF c \in RunQueues THEN c ELSE NULL],
               prev |-> [c \in Cells |-> IF c \in RunQueues THEN c ELSE NULL]]
    /\ tick_left = [p \in Procs |-> 0]
    /\ current = NULL
    /\ cr3 = NULL
    /\ esp0 = NULL
    /\ allocated = {}
    /\ created = 0
    /\ kernel = "boot"

(***************************************************************************)
(* proc_init: create_proc for each process; the first one becomes current  *)
(* and idle_proc by way of its run queue.                                  *)
(***************************************************************************)
Resources == {"proc", "page_dir", "vm_areas", "kernel_stack"}

create_proc ==
    /\ kernel = "boot"
    /\ created < Len(CREATED)
    /\ LET p  == CREATED[created + 1]
           h1 == SetPrev(heap, Base(p), Vma(p))
           h2 == link_init(h1, List(p))
           h3 == list_insert_after(h2, List(p), RunQueue(Prio[p]))
       IN  /\ heap' = h3
           /\ tick_left' = [tick_left EXCEPT ![p] = TICK_QUANTUM]
           /\ allocated' = allocated \cup ({p} \X Resources)
           /\ IF created = 0
              THEN /\ current' = ProcOf(h3.next[RunQueue(0)])
                   /\ esp0' = current'
              ELSE UNCHANGED <<current, esp0>>
    /\ created' = created + 1
    /\ UNCHANGED <<cr3, kernel>>

switch_to_user ==
    /\ kernel = "boot"
    /\ created = Len(CREATED)
    /\ kernel' = "running"
    /\ cr3' = current
    /\ UNCHANGED <<heap, tick_left, current, esp0, allocated, created>>

(* Wrong on purpose: the highest priority is left out.                    *)
ReadyQueues_below_max(h) == {i \in 0 .. MAX_PRIO - 1 : ~list_empty(h, RunQueue(i))}

(***************************************************************************)
(* schedule, on the heap h: the head of the highest queue that is not      *)
(* empty becomes current.  If what stands there is not a process's list    *)
(* field, container_of makes a process of whatever lies around it and the  *)
(* processor continues at a garbage stack in a garbage address space: the  *)
(* model stops, and keeps in current the process that called schedule.     *)
(***************************************************************************)
ReadyQueues(h) == {i \in 0 .. MAX_PRIO : ~list_empty(h, RunQueue(i))}

(* Wrong on purpose: tss.esp0 is not set.                                 *)
context_switch_keeps_esp0(next) ==
    /\ current' = next
    /\ cr3' = next
    /\ esp0' = esp0

context_switch(next) ==
    /\ current' = next
    /\ cr3' = next
    /\ esp0' = next

(* Wrong on purpose: the queues are searched from the lowest priority.    *)
schedule_lowest(h) ==
    LET head == h.next[RunQueue(Min(ReadyQueues(h)))]
    IN  \/ /\ ReadyQueues(h) = {}
           /\ UNCHANGED <<current, cr3, esp0, kernel>>
        \/ /\ ReadyQueues(h) # {}
           /\ head \in Lists
           /\ context_switch(ProcOf(head))
           /\ UNCHANGED kernel
        \/ /\ ReadyQueues(h) # {}
           /\ head \notin Lists
           /\ kernel' = "wild"
           /\ UNCHANGED <<current, cr3, esp0>>

schedule(h) ==
    LET head == h.next[RunQueue(Max(ReadyQueues(h)))]
    IN  \/ /\ ReadyQueues(h) = {}
           /\ UNCHANGED <<current, cr3, esp0, kernel>>
        \/ /\ ReadyQueues(h) # {}
           /\ head \in Lists
           /\ context_switch(ProcOf(head))
           /\ UNCHANGED kernel
        \/ /\ ReadyQueues(h) # {}
           /\ head \notin Lists
           /\ kernel' = "wild"
           /\ UNCHANGED <<current, cr3, esp0>>

(***************************************************************************)
(* do_timer.  At the end of a quantum tick_advance removes current from    *)
(* its queue and calls list_insert_before with the queue as the new link   *)
(* and the proc_t, not its list field, as the list.                        *)
(***************************************************************************)
Requeue(p) ==
    list_insert_before(list_remove(heap, List(p)), RunQueue(Prio[p]), Base(p))

(* Wrong on purpose: the quantum ends one tick late.                      *)
TickInQuantum_one_more ==
    /\ kernel = "running"
    /\ tick_left[current] >= 0
    /\ tick_left' = [tick_left EXCEPT ![current] = @ - 1]
    /\ UNCHANGED <<heap, current, cr3, esp0, allocated, created, kernel>>

TickInQuantum ==
    /\ kernel = "running"
    /\ tick_left[current] > 0
    /\ tick_left' = [tick_left EXCEPT ![current] = @ - 1]
    /\ UNCHANGED <<heap, current, cr3, esp0, allocated, created, kernel>>

TickEndsQuantum ==
    /\ kernel = "running"
    /\ tick_left[current] = 0
    /\ tick_left' = [tick_left EXCEPT ![current] = TICK_QUANTUM]
    /\ heap' = Requeue(current)
    /\ schedule(Requeue(current))
    /\ UNCHANGED <<allocated, created>>

do_timer == TickInQuantum \/ TickEndsQuantum

(***************************************************************************)
(* do_sys_exit.  destroy_proc clears the list of vm areas before it walks   *)
(* it, and frees the page directory and the proc_t; the processor goes on   *)
(* with idle, whoever else is ready.                                        *)
(***************************************************************************)
(* Wrong on purpose: the process stays on its queue.                      *)
do_sys_exit_stays_queued ==
    /\ kernel = "running"
    /\ current # Idle
    /\ heap' = SetPrev(heap, Base(current), NULL)
    /\ allocated' = allocated \ ({current} \X {"page_dir", "proc"})
    /\ context_switch(Idle)
    /\ UNCHANGED <<tick_left, created, kernel>>

do_sys_exit ==
    /\ kernel = "running"
    /\ current # Idle
    /\ heap' = SetPrev(list_remove(heap, List(current)), Base(current), NULL)
    /\ allocated' = allocated \ ({current} \X {"page_dir", "proc"})
    /\ context_switch(Idle)
    /\ UNCHANGED <<tick_left, created, kernel>>

(* BUG_MSG("idle can't exit.")                                              *)
IdleExits ==
    /\ kernel = "running"
    /\ current = Idle
    /\ kernel' = "bug"
    /\ UNCHANGED <<heap, tick_left, current, cr3, esp0, allocated, created>>

Stopped ==
    /\ kernel \in {"bug", "wild"}
    /\ UNCHANGED vars

Next ==
    \/ create_proc
    \/ switch_to_user
    \/ do_timer
    \/ do_sys_exit
    \/ IdleExits
    \/ Stopped

Spec == Init /\ [][Next]_vars

(* The boot code runs on, and the timer does not stop.                      *)
FairSpec == Spec /\ WF_vars(create_proc \/ switch_to_user) /\ WF_vars(do_timer)

(***************************************************************************)
(* Properties                                                              *)
(***************************************************************************)
TypeOK ==
    /\ DOMAIN heap.next = Cells /\ DOMAIN heap.prev = Cells
    /\ \A c \in Cells : heap.next[c] \in Cells \cup {NULL}
    /\ \A c \in Cells : heap.prev[c] \in Cells \cup {NULL}
    /\ tick_left \in [Procs -> 0 .. TICK_QUANTUM]
    /\ {current, cr3, esp0} \subseteq Procs \cup {NULL}
    /\ allocated \subseteq Procs \X Resources
    /\ created \in 0 .. Len(CREATED)
    /\ kernel \in {"boot", "running", "bug", "wild"}

(* As long as the kernel runs, the queue of every priority above idle's is *)
(* a proper ring of the processes of that priority which have been created *)
(* and have not exited, the running one included.                          *)
QueuesIntact ==
    kernel = "running" =>
        \A i \in 1 .. MAX_PRIO :
            LET members == {List(p) : p \in {q \in Alive : Prio[q] = i}}
                walk    == Walk(heap, RunQueue(i), Cardinality(Procs) + 1)
            IN  /\ {walk[n] : n \in DOMAIN walk} = members
                /\ Len(walk) = Cardinality(members)
                /\ \A c \in members \cup {RunQueue(i)} : heap.prev[heap.next[c]] = c

(* The page directory in cr3, the kernel stack of the next trap and the    *)
(* process the handlers act on are always those of one process, which has  *)
(* not exited and of which nothing has been freed.                         *)
CurrentIsAlive ==
    kernel = "running" =>
        /\ current \in Alive /\ cr3 = current /\ esp0 = current
        /\ {current} \X Resources \subseteq allocated

(* A process other than idle runs only when no process of a higher         *)
(* priority is ready.                                                      *)
HighestRuns ==
    kernel = "running" /\ current # Idle =>
        \A p \in Alive : Prio[p] <= Prio[current]

(* The end of idle's quantum, which also corrupts a queue, always leaves   *)
(* the processor with a process: the damage is repaired by the next one.   *)
IdleQuantumHarmless == kernel = "wild" => current # Idle

(* Every process that has not exited runs again, unless the kernel stops.  *)
EveryoneRuns ==
    \A p \in Procs :
        kernel = "running" /\ p \in Alive ~> current = p \/ kernel # "running"

(* list.h on list_insert_before: "The new link goes between the current    *)
(* and prev links on the list": a queue that is not empty starts with the  *)
(* list field of a process.                                                *)
ScheduleFindsProcess == kernel # "wild"
=============================================================================
