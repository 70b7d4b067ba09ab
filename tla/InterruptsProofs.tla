-------------------------- MODULE InterruptsProofs --------------------------
(***************************************************************************)
(* Theorems about Interrupts.  The processes are Sched's: a behaviour of   *)
(* the machine is one of the scheduler, so its theorems hold here too.     *)
(* Over that, the frames on the kernel stacks and the requests in service. *)
(***************************************************************************)
EXTENDS Interrupts, DataLemmas, TLAPS

SP == INSTANCE SchedProofs

(***************************************************************************)
(* The scheduler under the interrupts                                      *)
(***************************************************************************)
(* Every step of the machine is a step of the scheduler or leaves it alone *)
(* as it is.                                                               *)
THEOREM ImplementsSched == Spec => S!Spec
<1>1. Init => S!Init
  BY DEF Init
<1>2. [Next]_vars => [S!Next]_(S!vars)
  <2> SUFFICES ASSUME [Next]_vars PROVE [S!Next]_(S!vars)
    OBVIOUS
  <2> USE DEF S!vars, S!Next, S!do_timer, schedVars
  <2>1. CASE Boot
    BY <2>1 DEF Boot
  <2>2. CASE TimerTick
    BY <2>2 DEF TimerTick
  <2>3. CASE TimerSwitches
    BY <2>3 DEF TimerSwitches
  <2>4. CASE do_sys_exit
    BY <2>4 DEF do_sys_exit
  <2>5. CASE TimerReturns \/ start_proc \/ KeyHandled \/ KeyPrinted \/ KeyReturns
             \/ do_sys_idle \/ IdleReturns \/ Types
    BY <2>5 DEF TimerReturns, start_proc, KeyHandled, KeyPrinted, KeyReturns,
                do_sys_idle, IdleReturns, Types
  <2>6. CASE Stopped \/ UNCHANGED vars
    BY <2>6 DEF Stopped, vars
  <2> QED
    BY <2>1, <2>2, <2>3, <2>4, <2>5, <2>6 DEF Next
<1> QED
  BY <1>1, <1>2, PTL DEF Spec, S!Spec

(* The scheduler of the theorems is the one of the machine.                *)
LEMMA SameScheduler == S!Spec => SP!Spec
<1>1. S!Init => SP!Init
  BY DEF S!Init, SP!Init, S!Cells, SP!Cells, S!RunQueues, SP!RunQueues,
         S!Lists, SP!Lists, S!RunQueue, SP!RunQueue, S!List, SP!List, S!Base,
         SP!Base, S!Vma, SP!Vma
<1>2. \A p : S!Requeue(p) = SP!Requeue(p)
  BY DEF S!Requeue, SP!Requeue, S!SetPrev, SP!SetPrev, S!SetNext, SP!SetNext,
         S!link_init, SP!link_init, S!list_remove, SP!list_remove,
         S!list_insert_before, SP!list_insert_before, S!RunQueue, SP!RunQueue,
         S!List, SP!List, S!Base, SP!Base
<1>3. \A h : S!schedule(h) => SP!schedule(h)
  BY DEF S!schedule, SP!schedule, S!context_switch, SP!context_switch,
         S!ReadyQueues, SP!ReadyQueues, S!RunQueue, SP!RunQueue, S!list_empty,
         SP!list_empty, S!Lists, SP!Lists, S!List, SP!List, S!ProcOf,
         SP!ProcOf, S!Max, SP!Max
<1>4. [S!Next]_(S!vars) => [SP!Next]_(SP!vars)
  <2>1. S!create_proc => SP!create_proc
    BY DEF S!create_proc, SP!create_proc, S!Resources, SP!Resources, S!ProcOf,
           SP!ProcOf, S!RunQueue, SP!RunQueue, S!List, SP!List, S!Base,
           SP!Base, S!Vma, SP!Vma, S!list_insert_after, SP!list_insert_after,
           S!SetPrev, SP!SetPrev, S!SetNext, SP!SetNext, S!link_init,
           SP!link_init
  <2>2. S!switch_to_user => SP!switch_to_user
    BY DEF S!switch_to_user, SP!switch_to_user
  <2>3. S!TickInQuantum => SP!TickInQuantum
    BY DEF S!TickInQuantum, SP!TickInQuantum
  <2>4. S!TickEndsQuantum => SP!TickEndsQuantum
    BY <1>2, <1>3 DEF S!TickEndsQuantum, SP!TickEndsQuantum
  <2>5. S!do_sys_exit => SP!do_sys_exit
    BY DEF S!do_sys_exit, SP!do_sys_exit, S!context_switch, SP!context_switch,
           S!List, SP!List, S!Base, SP!Base, S!SetPrev, SP!SetPrev, S!SetNext,
           SP!SetNext, S!link_init, SP!link_init, S!list_remove,
           SP!list_remove
  <2>6. S!IdleExits => SP!IdleExits
    BY DEF S!IdleExits, SP!IdleExits
  <2>7. S!Stopped => SP!Stopped
    BY DEF S!Stopped, SP!Stopped, S!vars, SP!vars
  <2> QED
    BY <2>1, <2>2, <2>3, <2>4, <2>5, <2>6, <2>7
       DEF S!Next, SP!Next, S!do_timer, SP!do_timer, S!vars, SP!vars
<1> QED
  BY <1>1, <1>4, PTL DEF S!Spec, SP!Spec

(* Whatever the interrupts do, the page directory in cr3 and the kernel    *)
(* stack of the next trap belong to the running process, which is alive.   *)
THEOREM CurrentAliveHere == Spec => []S!CurrentIsAlive
<1>1. SP!SchedParameters
  BY InterruptsAssumption DEF S!SchedParameters, SP!SchedParameters
<1>2. SP!CurrentIsAlive => S!CurrentIsAlive
  BY DEF S!CurrentIsAlive, SP!CurrentIsAlive, S!Alive, SP!Alive, S!Resources, SP!Resources
<1> QED
  BY <1>1, <1>2, ImplementsSched, SameScheduler, SP!CurrentStaysAlive, PTL

(***************************************************************************)
(* The kernel stacks                                                       *)
(***************************************************************************)
Waiting(s) == LastFrame(s) \in {"start", "timer"}

(* Below the last frame nothing has its interrupts off.                    *)
OnTop(s) == \A i \in 1 .. Len(s) : i < Len(s) => s[i] \notin {"start", "timer"}

Stacks == {s \in Seq(Frames) : OnTop(s)}

KeysOn(s) == {i \in 1 .. Len(s) : s[i] = "key"}
KeyFrames(st) == {f \in Procs \X Nat : f[2] \in KeysOn(st[f[1]])}

(* The last frame of a stack that is not empty.                            *)
LEMMA LastOfStack ==
    ASSUME NEW s \in Seq(Frames)
    PROVE  /\ Len(s) \in Nat
           /\ s # <<>> => Len(s) > 0 /\ LastFrame(s) = s[Len(s)]
           /\ s = <<>> => Len(s) = 0 /\ LastFrame(s) = "program"
           /\ \A i \in 1 .. Len(s) : s[i] \in Frames
<1>1. Len(s) \in Nat /\ (s # <<>> => Len(s) > 0) /\ (s = <<>> => Len(s) = 0)
  BY EmptySeq, LenProperties
<1> QED
  BY <1>1, ElementOfSeq DEF LastFrame, Last

(* What Front leaves.                                                      *)
LEMMA FrontOfStack ==
    ASSUME NEW s \in Seq(Frames), s # <<>>
    PROVE  /\ Front(s) \in Seq(Frames) /\ Len(Front(s)) = Len(s) - 1
           /\ \A i \in 1 .. Len(s) - 1 : Front(s)[i] = s[i]
<1>1. Len(s) \in Nat /\ Len(s) > 0
  BY LastOfStack
<1> DEFINE n == Len(s) - 1
<1>2. n \in 0 .. Len(s) /\ n \in Nat
  BY <1>1
<1>3. 1 \in 1 .. Len(s) + 1
  BY <1>1
<1> HIDE DEF n
<1>4. /\ SubSeq(s, 1, n) \in Seq(Frames) /\ Len(SubSeq(s, 1, n)) = n
      /\ \A i \in 1 .. n : SubSeq(s, 1, n)[i] = s[i]
  BY <1>1, <1>2, <1>3, SubSeqProperties
<1> QED
  BY <1>1, <1>4 DEF Front, n

(* Append, for a handler that stays.                                       *)
LEMMA Pushed ==
    ASSUME NEW s \in Stacks, NEW f \in Frames, ~Waiting(s)
    PROVE  /\ Append(s, f) \in Stacks
           /\ LastFrame(Append(s, f)) = f
           /\ f = "key" => KeysOn(Append(s, f)) = KeysOn(s) \cup {Len(s) + 1}
           /\ f # "key" => KeysOn(Append(s, f)) = KeysOn(s)
           /\ Len(s) + 1 \in Nat /\ Len(s) + 1 \notin KeysOn(s)
<1> DEFINE t == Append(s, f)
<1>1. s \in Seq(Frames) /\ OnTop(s)
  BY DEF Stacks
<1>2. /\ t \in Seq(Frames) /\ t # <<>> /\ Len(t) = Len(s) + 1
      /\ t[Len(s) + 1] = f /\ \A i \in 1 .. Len(s) : t[i] = s[i]
  BY <1>1, AppendProperties
<1>3. Len(s) \in Nat /\ LastFrame(t) = f
  BY <1>1, <1>2, LastOfStack
<1> HIDE DEF t
<1>4. \A i \in 1 .. Len(s) : s[i] \notin {"start", "timer"}
  BY <1>1, LastOfStack DEF OnTop, Waiting
<1>5. OnTop(t)
  BY <1>2, <1>3, <1>4 DEF OnTop
<1>6. /\ f = "key" => KeysOn(t) = KeysOn(s) \cup {Len(s) + 1}
      /\ f # "key" => KeysOn(t) = KeysOn(s)
  BY <1>2, <1>3 DEF KeysOn
<1>7. Len(s) + 1 \in Nat /\ Len(s) + 1 \notin KeysOn(s)
  BY <1>3 DEF KeysOn
<1> QED
  BY <1>2, <1>3, <1>5, <1>6, <1>7 DEF Stacks, t

(* The return from the last frame.                                         *)
LEMMA Popped ==
    ASSUME NEW s \in Stacks, s # <<>>
    PROVE  /\ Front(s) \in Stacks /\ ~Waiting(Front(s))
           /\ LastFrame(s) # "key" => KeysOn(Front(s)) = KeysOn(s)
           /\ LastFrame(s) = "key" => /\ KeysOn(Front(s)) = KeysOn(s) \ {Len(s)}
                                      /\ Len(s) \in KeysOn(s)
           /\ Len(s) \in Nat
<1> DEFINE t == Front(s)
<1>1. s \in Seq(Frames) /\ OnTop(s) /\ Len(s) \in Nat /\ Len(s) > 0 /\ LastFrame(s) = s[Len(s)]
  BY LastOfStack DEF Stacks
<1>2. /\ t \in Seq(Frames) /\ Len(t) = Len(s) - 1
      /\ \A i \in 1 .. Len(s) - 1 : t[i] = s[i]
  BY <1>1, FrontOfStack
<1> HIDE DEF t
<1>3. \A i \in 1 .. Len(t) : t[i] \notin {"start", "timer"}
  BY <1>1, <1>2 DEF OnTop
<1>4. OnTop(t) /\ ~Waiting(t)
  BY <1>2, <1>3, LastOfStack DEF OnTop, Waiting
<1>5. /\ LastFrame(s) # "key" => KeysOn(t) = KeysOn(s)
      /\ LastFrame(s) = "key" => KeysOn(t) = KeysOn(s) \ {Len(s)}
  BY <1>1, <1>2 DEF KeysOn
<1>6. LastFrame(s) = "key" => Len(s) \in KeysOn(s)
  <2>1. Len(s) \in 1 .. Len(s)
    BY <1>1
  <2> QED
    BY <1>1, <2>1 DEF KeysOn
<1> QED
  BY <1>1, <1>2, <1>4, <1>5, <1>6 DEF Stacks, t

(* An interrupt that found interrupts on.                                  *)
LEMMA Woken ==
    ASSUME NEW s \in Stacks, ~Waiting(s)
    PROVE  /\ Interrupted(s) \in Stacks /\ ~Waiting(Interrupted(s))
           /\ KeysOn(Interrupted(s)) = KeysOn(s) /\ Len(Interrupted(s)) = Len(s)
<1>1. CASE LastFrame(s) # "halted"
  BY <1>1 DEF Interrupted
<1>2. CASE LastFrame(s) = "halted"
  <2>1. s \in Seq(Frames) /\ s # <<>>
    BY <1>2, LastOfStack DEF Stacks
  <2>2. /\ Front(s) \in Stacks /\ ~Waiting(Front(s)) /\ Front(s) \in Seq(Frames)
        /\ KeysOn(Front(s)) = KeysOn(s)
    BY <1>2, <2>1, Popped DEF Stacks
  <2>3. Len(s) \in Nat /\ Len(s) > 0 /\ Len(Front(s)) = Len(s) - 1
    BY <2>1, LastOfStack, FrontOfStack
  <2> DEFINE r == Front(s)
  <2>4. "awake" \in Frames
    BY DEF Frames
  <2>5. /\ Append(r, "awake") \in Stacks /\ LastFrame(Append(r, "awake")) = "awake"
        /\ KeysOn(Append(r, "awake")) = KeysOn(r)
    <3> HIDE DEF r
    <3>1. r \in Stacks /\ ~Waiting(r)
      BY <2>2 DEF r
    <3> QED
      BY <3>1, <2>4, Pushed
  <2>6. Len(Append(r, "awake")) = Len(s)
    BY <2>2, <2>3, AppendProperties
  <2>7. Interrupted(s) = Append(r, "awake")
    BY <1>2 DEF Interrupted
  <2> QED
    BY <2>2, <2>5, <2>6, <2>7 DEF Waiting
<1> QED
  BY <1>1, <1>2

(* One stack changes, and the others do not.                               *)
LEMMA OneStack ==
    ASSUME NEW st \in [Procs -> Stacks], NEW c \in Procs, NEW t \in Stacks
    PROVE  /\ [st EXCEPT ![c] = t] \in [Procs -> Stacks]
           /\ [st EXCEPT ![c] = t][c] = t
           /\ \A p \in Procs : p # c => [st EXCEPT ![c] = t][p] = st[p]
  OBVIOUS

(* The frames of keyboard handlers are where they were.                    *)
LEMMA KeysStay ==
    ASSUME NEW st \in [Procs -> Stacks], NEW c \in Procs, NEW t \in Stacks,
           KeysOn(t) = KeysOn(st[c])
    PROVE  KeyFrames([st EXCEPT ![c] = t]) = KeyFrames(st)
<1> DEFINE g == [st EXCEPT ![c] = t]
<1>1. \A p \in Procs : KeysOn(g[p]) = KeysOn(st[p])
  BY OneStack
<1> HIDE DEF g
<1>2. KeyFrames(g) = KeyFrames(st)
  BY <1>1 DEF KeyFrames
<1> QED
  BY <1>2 DEF g

(* Names for the two, which the provers are not to look into.              *)
With(A, e) == A \cup {e}
Without(A, e) == A \ {e}

(* A keyboard handler stays.                                               *)
LEMMA KeyJoins ==
    ASSUME NEW st \in [Procs -> Stacks], NEW c \in Procs, NEW t \in Stacks, NEW n \in Nat,
           KeysOn(t) = With(KeysOn(st[c]), n)
    PROVE  KeyFrames([st EXCEPT ![c] = t]) = With(KeyFrames(st), <<c, n>>)
<1> DEFINE g == [st EXCEPT ![c] = t]
<1>1. \A p \in Procs : \A i : i \in KeysOn(g[p]) <=> i \in KeysOn(st[p]) \/ (p = c /\ i = n)
  BY OneStack DEF With
<1> HIDE DEF g
<1>2. KeyFrames(g) = KeyFrames(st) \cup {<<c, n>>}
  BY <1>1 DEF KeyFrames
<1> QED
  BY <1>2 DEF g, With

(* A keyboard handler returns.                                             *)
LEMMA KeyLeaves ==
    ASSUME NEW st \in [Procs -> Stacks], NEW c \in Procs, NEW t \in Stacks, NEW n \in Nat,
           KeysOn(t) = Without(KeysOn(st[c]), n)
    PROVE  KeyFrames([st EXCEPT ![c] = t]) = Without(KeyFrames(st), <<c, n>>)
<1> DEFINE g == [st EXCEPT ![c] = t]
<1>1. \A p \in Procs : \A i : i \in KeysOn(g[p]) <=> i \in KeysOn(st[p]) /\ ~(p = c /\ i = n)
  BY OneStack DEF Without
<1> HIDE DEF g
<1>2. KeyFrames(g) = KeyFrames(st) \ {<<c, n>>}
  BY <1>1 DEF KeyFrames
<1> QED
  BY <1>2 DEF g, Without

(***************************************************************************)
(* The requests in service                                                 *)
(***************************************************************************)
(* What an EOI ends.                                                       *)
LEMMA WhatIsEnded ==
    ASSUME in_service \in SUBSET {TIMER, KEYBOARD}
    PROVE  /\ EndOfInterrupt(in_service) =
                  IF TIMER \in in_service THEN in_service \ {TIMER} ELSE {}
           /\ EndsAnother <=> KEYBOARD \in in_service /\ TIMER \notin in_service
<1>1. CASE in_service = {}
  BY <1>1 DEF EndOfInterrupt, EndsAnother
<1>2. CASE in_service # {}
  <2>1. in_service \in SUBSET Nat
    BY DEF TIMER, KEYBOARD
  <2>2. Min(in_service) \in in_service /\ \A i \in in_service : Min(in_service) <= i
    BY <1>2, <2>1, MinElement
  <2> DEFINE m == Min(in_service)
  <2>3. m \in in_service /\ \A i \in in_service : m <= i
    BY <2>2
  <2>4. EndOfInterrupt(in_service) = in_service \ {m} /\ (EndsAnother <=> m = KEYBOARD)
    BY <1>2 DEF EndOfInterrupt, EndsAnother
  <2> HIDE DEF m
  <2>5. CASE TIMER \in in_service
    <3>1. m = TIMER /\ TIMER # KEYBOARD
      BY <2>3, <2>5 DEF TIMER, KEYBOARD
    <3> QED
      BY <2>4, <2>5, <3>1
  <2>6. CASE TIMER \notin in_service
    <3>1. m = KEYBOARD /\ in_service = {KEYBOARD}
      BY <2>3, <2>6
    <3> QED
      BY <2>4, <2>6, <3>1
  <2> QED
    BY <2>5, <2>6
<1> QED
  BY <1>1, <1>2

(***************************************************************************)
(* The inductive invariant.  Whoever does not run was left in a handler    *)
(* with its interrupts off.  Each exit may enter such a handler without an *)
(* interrupt in service: its EOI then ends the one of a keyboard handler,  *)
(* and a further key may come before that one has returned.                *)
(***************************************************************************)
(* The keyboard's interrupt is in service and no EOI of another is due.    *)
Undisturbed ==
    KEYBOARD \in in_service /\ (TIMER \in in_service \/ ~Waiting(stack[current]))

Slack == IF Undisturbed THEN 1 ELSE 0

Booting == in_service = {} /\ \A p \in Procs : stack[p] = <<"start">>

Running ==
    /\ TIMER \in in_service => Waiting(stack[current])
    /\ \A p \in S!Alive : p # current => Waiting(stack[p])
    /\ KEYBOARD \in in_service => \E f \in KeyFrames(stack) : f[1] \in S!Alive
    /\ Cardinality(KeyFrames(stack)) <= Exited + Slack

MachineInv ==
    /\ stack \in [Procs -> Stacks]
    /\ in_service \in SUBSET {TIMER, KEYBOARD}
    /\ IsFiniteSet(KeyFrames(stack))
    /\ kernel = "boot" => Booting
    /\ kernel = "running" => Running
    /\ ~cut => Cardinality(KeyFrames(stack)) = IF KEYBOARD \in in_service THEN 1 ELSE 0

(* The running process is one of finitely many.                            *)
LEMMA Runner ==
    ASSUME S!CurrentIsAlive, kernel = "running"
    PROVE  current \in S!Alive /\ current \in Procs /\ S!Alive \subseteq Procs
  BY DEF S!CurrentIsAlive, S!Alive

(* Finitely many processes have exited.                                    *)
LEMMA ExitedIsFinite ==
    /\ IsFiniteSet(Procs) /\ Exited \in Nat
    /\ \A al : IsFiniteSet(Procs \ al)
<1>1. SP!SchedParameters
  BY InterruptsAssumption DEF S!SchedParameters, SP!SchedParameters
<1>2. IsFiniteSet(Procs)
  BY <1>1, SP!ProcsAreFinite DEF SP!IsFiniteSet, IsFiniteSet
<1>3. \A al : IsFiniteSet(Procs \ al)
  BY <1>2, FS_Difference
<1> QED
  BY <1>2, <1>3, FS_CardinalityType DEF Exited

(***************************************************************************)
(* The invariant is kept                                                   *)
(***************************************************************************)
(* Nothing of what the invariant speaks of changes.                        *)
LEMMA Unmoved ==
    ASSUME MachineInv, UNCHANGED <<stack, in_service, cut, current, allocated, kernel>>
    PROVE  MachineInv'
  BY DEF MachineInv, Booting, Running, Slack, Undisturbed, Exited, S!Alive, KeyFrames

(* A step of the boot, the switch to user mode included.                   *)
LEMMA BootStep ==
    ASSUME MachineInv, (S!CurrentIsAlive)', kernel = "boot", kernel' \in {"boot", "running"},
           UNCHANGED <<stack, in_service, cut>>
    PROVE  MachineInv'
<1>1. /\ stack \in [Procs -> Stacks] /\ in_service \in SUBSET {TIMER, KEYBOARD}
      /\ IsFiniteSet(KeyFrames(stack)) /\ Booting
      /\ ~cut => Cardinality(KeyFrames(stack)) = IF KEYBOARD \in in_service THEN 1 ELSE 0
  BY DEF MachineInv
<1>2. KeyFrames(stack) = {}
  <2>1. KeysOn(<<"start">>) = {}
    BY DEF KeysOn
  <2> QED
    BY <1>1, <2>1 DEF Booting, KeyFrames
<1>3. KeyFrames(stack)' = KeyFrames(stack)
  BY DEF KeyFrames
<1>4. ASSUME kernel' = "running" PROVE Running'
  <2>1. current' \in Procs /\ S!Alive' \subseteq Procs
    BY <1>4 DEF S!CurrentIsAlive, S!Alive
  <2>2. \A p \in Procs : Waiting(stack'[p])
    BY <1>1, SMTT(30) DEF Booting, Waiting, LastFrame, Last
  <2>3. Exited' \in Nat
    <3>1. IsFiniteSet(Procs \ S!Alive')
      BY ExitedIsFinite
    <3> QED
      BY <3>1, FS_CardinalityType DEF Exited
  <2>4. Cardinality(KeyFrames(stack)') = 0
    BY <1>2, <1>3, FS_EmptySet
  <2>5. Slack' \in {0, 1}
    BY DEF Slack
  <2>6. Cardinality(KeyFrames(stack)') <= Exited' + Slack'
    <3>1. \A e \in Nat : \A k \in {0, 1} : 0 <= e + k
      OBVIOUS
    <3> QED
      BY <2>3, <2>4, <2>5, <3>1
  <2>7. in_service' = {}
    BY <1>1 DEF Booting
  <2> QED
    BY <2>1, <2>2, <2>6, <2>7 DEF Running
<1>5. Booting'
  BY <1>1 DEF Booting
<1> QED
  BY <1>1, <1>3, <1>4, <1>5 DEF MachineInv

(* What goes on with interrupts on, in a program, a system call or a       *)
(* keyboard handler that does not end, changes no frame of the keyboard's. *)
LEMMA GoesOn ==
    ASSUME MachineInv, S!CurrentIsAlive, kernel = "running", ~Waiting(stack[current]),
           NEW t \in Stacks, ~Waiting(t), KeysOn(t) = KeysOn(stack[current]),
           stack' = [stack EXCEPT ![current] = t],
           UNCHANGED <<in_service, cut, current, allocated, kernel>>
    PROVE  MachineInv'
<1>1. /\ stack \in [Procs -> Stacks] /\ in_service \in SUBSET {TIMER, KEYBOARD}
      /\ IsFiniteSet(KeyFrames(stack)) /\ Running
      /\ ~cut => Cardinality(KeyFrames(stack)) = IF KEYBOARD \in in_service THEN 1 ELSE 0
  BY DEF MachineInv
<1>2. current \in Procs /\ S!Alive \subseteq Procs
  BY Runner
<1>3. /\ stack' \in [Procs -> Stacks] /\ stack'[current] = t
      /\ \A p \in Procs : p # current => stack'[p] = stack[p]
      /\ KeyFrames(stack') = KeyFrames(stack)
  BY <1>1, <1>2, OneStack, KeysStay
<1>4. S!Alive' = S!Alive /\ Exited' = Exited /\ KeyFrames(stack)' = KeyFrames(stack')
  BY DEF S!Alive, Exited, KeyFrames
<1>5. Slack' = Slack
  BY <1>3 DEF Undisturbed, Slack
<1>6. Running'
  BY <1>1, <1>2, <1>3, <1>4, <1>5 DEF Running
<1> QED
  BY <1>1, <1>3, <1>4, <1>6 DEF MachineInv

(* The timer's interrupt at the end of a quantum.                          *)
LEMMA Switches ==
    ASSUME MachineInv, S!CurrentIsAlive, (S!CurrentIsAlive)', TimerSwitches
    PROVE  MachineInv'
<1>1. /\ kernel = "running" /\ ~Waiting(stack[current]) /\ kernel' # "boot"
      /\ stack' = [stack EXCEPT ![current] = Append(Interrupted(stack[current]), "timer")]
      /\ in_service' = in_service \cup {TIMER} /\ UNCHANGED <<cut, allocated>>
  <2>1. kernel = "running" /\ kernel' \in {"running", "wild"}
    BY DEF TimerSwitches, S!TickEndsQuantum, S!schedule
  <2> QED
    BY <2>1 DEF TimerSwitches, Taken, InterruptFlag, Waiting, HandlerStays, S!TickEndsQuantum
<1>2. /\ stack \in [Procs -> Stacks] /\ in_service \in SUBSET {TIMER, KEYBOARD}
      /\ IsFiniteSet(KeyFrames(stack)) /\ Running
      /\ ~cut => Cardinality(KeyFrames(stack)) = IF KEYBOARD \in in_service THEN 1 ELSE 0
  BY <1>1 DEF MachineInv
<1>3. current \in Procs /\ S!Alive \subseteq Procs
  BY <1>1, Runner
<1> DEFINE w == Interrupted(stack[current])
           t == Append(w, "timer")
<1>4. stack[current] \in Stacks
  BY <1>2, <1>3
<1>5. w \in Stacks /\ ~Waiting(w) /\ KeysOn(w) = KeysOn(stack[current])
  BY <1>1, <1>4, Woken
<1>6. t \in Stacks /\ LastFrame(t) = "timer" /\ KeysOn(t) = KeysOn(stack[current])
  <2>1. "timer" \in Frames
    BY DEF Frames
  <2> HIDE DEF w
  <2> QED
    BY <1>5, <2>1, Pushed
<1> HIDE DEF t
<1>7. /\ stack' \in [Procs -> Stacks] /\ stack'[current] = t
      /\ \A p \in Procs : p # current => stack'[p] = stack[p]
      /\ KeyFrames(stack') = KeyFrames(stack)
  <2>1. stack' = [stack EXCEPT ![current] = t]
    BY <1>1 DEF t
  <2> QED
    BY <2>1, <1>2, <1>3, <1>6, OneStack, KeysStay
<1>8. S!Alive' = S!Alive /\ Exited' = Exited /\ KeyFrames(stack)' = KeyFrames(stack')
  BY <1>1 DEF S!Alive, Exited, KeyFrames
<1>9. TIMER # KEYBOARD /\ in_service' \in SUBSET {TIMER, KEYBOARD}
  BY <1>1, <1>2 DEF TIMER, KEYBOARD
<1>10. ASSUME kernel' = "running" PROVE Running'
  <2>1. current' \in S!Alive
    BY <1>8, <1>10 DEF S!CurrentIsAlive
  <2>2. \A p \in S!Alive : Waiting(stack'[p])
    BY <1>2, <1>3, <1>6, <1>7 DEF Running, Waiting
  <2>3. Undisturbed => Undisturbed'
    BY <1>1 DEF Undisturbed
  <2>4. Cardinality(KeyFrames(stack)) <= Exited' + Slack
    BY <1>2, <1>8 DEF Running
  <2>5. Cardinality(KeyFrames(stack)) \in Nat /\ Exited' \in Nat
    BY <1>2, <1>8, ExitedIsFinite, FS_CardinalityType
  <2>6. Cardinality(KeyFrames(stack)) <= Exited' + Slack'
    BY <2>3, <2>4, <2>5 DEF Slack
  <2> QED
    BY <1>1, <1>2, <1>7, <1>8, <1>9, <2>1, <2>2, <2>6 DEF Running
<1> QED
  BY <1>1, <1>2, <1>7, <1>8, <1>9, <1>10 DEF MachineInv

(* The rest of the timer's handler, or the first entry of a process: with  *)
(* interrupts off, and its EOI is the timer's own only if it was entered   *)
(* by the timer.                                                           *)
LEMMA HandlerEnds ==
    ASSUME MachineInv, S!CurrentIsAlive, NEW f \in {"start", "timer"}, Top(f), Pop,
           in_service' = EndOfInterrupt(in_service), cut' = (cut \/ EndsAnother),
           UNCHANGED <<current, allocated, kernel>>
    PROVE  MachineInv'
<1>1. kernel = "running" /\ LastFrame(stack[current]) = f /\ f # "program" /\ f # "key"
  BY DEF Top
<1>2. /\ stack \in [Procs -> Stacks] /\ in_service \in SUBSET {TIMER, KEYBOARD}
      /\ IsFiniteSet(KeyFrames(stack)) /\ Running
      /\ ~cut => Cardinality(KeyFrames(stack)) = IF KEYBOARD \in in_service THEN 1 ELSE 0
  BY <1>1 DEF MachineInv
<1>3. current \in Procs /\ S!Alive \subseteq Procs
  BY <1>1, Runner
<1> DEFINE t == Front(stack[current])
<1>4. stack[current] \in Stacks /\ stack[current] # <<>> /\ Waiting(stack[current])
  BY <1>1, <1>2, <1>3 DEF LastFrame, Waiting
<1>5. t \in Stacks /\ ~Waiting(t) /\ KeysOn(t) = KeysOn(stack[current])
  BY <1>1, <1>4, Popped
<1>6. stack' = [stack EXCEPT ![current] = t]
  BY DEF Pop
<1> HIDE DEF t
<1>7. /\ stack' \in [Procs -> Stacks] /\ stack'[current] = t
      /\ \A p \in Procs : p # current => stack'[p] = stack[p]
      /\ KeyFrames(stack') = KeyFrames(stack)
  BY <1>2, <1>3, <1>5, <1>6, OneStack, KeysStay
<1>8. S!Alive' = S!Alive /\ Exited' = Exited /\ KeyFrames(stack)' = KeyFrames(stack')
  BY DEF S!Alive, Exited, KeyFrames
<1>9. /\ TIMER # KEYBOARD /\ TIMER \notin in_service'
      /\ KEYBOARD \in in_service' <=> KEYBOARD \in in_service /\ TIMER \in in_service
      /\ in_service' \in SUBSET {TIMER, KEYBOARD}
      /\ ~cut' => ~cut /\ (KEYBOARD \in in_service' <=> KEYBOARD \in in_service)
  <2>1. TIMER # KEYBOARD
    BY DEF TIMER, KEYBOARD
  <2> QED
    BY <1>2, <2>1, WhatIsEnded
<1>10. Running'
  <2>1. Undisturbed' <=> Undisturbed
    BY <1>4, <1>5, <1>7, <1>9 DEF Undisturbed
  <2>2. Cardinality(KeyFrames(stack)') <= Exited' + Slack'
    BY <1>2, <1>7, <1>8, <2>1 DEF Running, Slack
  <2> QED
    BY <1>2, <1>3, <1>7, <1>8, <1>9, <2>2 DEF Running
<1>11. ~cut' => Cardinality(KeyFrames(stack)') = IF KEYBOARD \in in_service' THEN 1 ELSE 0
  BY <1>2, <1>7, <1>8, <1>9
<1> QED
  BY <1>1, <1>2, <1>7, <1>8, <1>9, <1>10, <1>11 DEF MachineInv

(* A key that prints: taken only when nothing is in service.               *)
LEMMA KeyStays ==
    ASSUME MachineInv, S!CurrentIsAlive, KeyPrinted
    PROVE  MachineInv'
<1>1. /\ kernel = "running" /\ ~Waiting(stack[current])
      /\ stack' = [stack EXCEPT ![current] = Append(Interrupted(stack[current]), "key")]
      /\ in_service' = in_service \cup {KEYBOARD}
      /\ UNCHANGED <<cut, current, allocated, kernel>>
      /\ \A i \in in_service : KEYBOARD < i
  BY DEF KeyPrinted, Taken, InterruptFlag, Waiting, HandlerStays, schedVars
<1>2. /\ stack \in [Procs -> Stacks] /\ in_service \in SUBSET {TIMER, KEYBOARD}
      /\ IsFiniteSet(KeyFrames(stack)) /\ Running
      /\ ~cut => Cardinality(KeyFrames(stack)) = IF KEYBOARD \in in_service THEN 1 ELSE 0
  BY <1>1 DEF MachineInv
<1>3. current \in S!Alive /\ current \in Procs /\ S!Alive \subseteq Procs
  BY <1>1, Runner
<1>4. in_service = {} /\ in_service' = {KEYBOARD} /\ TIMER # KEYBOARD
  <2>1. TIMER # KEYBOARD /\ ~(KEYBOARD < TIMER) /\ ~(KEYBOARD < KEYBOARD)
    BY DEF TIMER, KEYBOARD
  <2>2. in_service = {}
    BY <1>1, <1>2, <2>1
  <2> QED
    BY <1>1, <2>1, <2>2
<1> DEFINE w == Interrupted(stack[current])
           t == Append(w, "key")
           n == Len(w) + 1
<1>5. stack[current] \in Stacks
  BY <1>2, <1>3
<1>6. w \in Stacks /\ ~Waiting(w) /\ KeysOn(w) = KeysOn(stack[current])
  BY <1>1, <1>5, Woken
<1>7. /\ t \in Stacks /\ LastFrame(t) = "key" /\ n \in Nat /\ n \notin KeysOn(stack[current])
      /\ KeysOn(t) = KeysOn(stack[current]) \cup {n}
  <2>1. "key" \in Frames
    BY DEF Frames
  <2> HIDE DEF w
  <2> QED
    BY <1>6, <2>1, Pushed
<1>8. stack' = [stack EXCEPT ![current] = t]
  BY <1>1
<1> HIDE DEF t, n
<1>9. /\ stack' \in [Procs -> Stacks] /\ stack'[current] = t
      /\ \A p \in Procs : p # current => stack'[p] = stack[p]
      /\ KeyFrames(stack') = KeyFrames(stack) \cup {<<current, n>>}
      /\ <<current, n>> \notin KeyFrames(stack)
  <2>1. <<current, n>> \notin KeyFrames(stack)
    BY <1>7 DEF KeyFrames
  <2>2. KeyFrames([stack EXCEPT ![current] = t]) = KeyFrames(stack) \cup {<<current, n>>}
    <3>1. /\ stack \in [Procs -> Stacks] /\ current \in Procs /\ t \in Stacks /\ n \in Nat
          /\ KeysOn(t) = With(KeysOn(stack[current]), n)
      BY <1>2, <1>3, <1>7 DEF With
    <3>2. KeyFrames([stack EXCEPT ![current] = t]) = With(KeyFrames(stack), <<current, n>>)
      BY <3>1, KeyJoins
    <3> QED
      BY <3>2 DEF With
  <2>3. /\ stack' \in [Procs -> Stacks] /\ stack'[current] = t
        /\ \A p \in Procs : p # current => stack'[p] = stack[p]
    BY <1>2, <1>3, <1>7, <1>8, OneStack
  <2> QED
    BY <1>8, <2>1, <2>2, <2>3
<1>10. S!Alive' = S!Alive /\ Exited' = Exited /\ KeyFrames(stack)' = KeyFrames(stack')
  BY <1>1 DEF S!Alive, Exited, KeyFrames
<1>11. /\ IsFiniteSet(KeyFrames(stack'))
       /\ Cardinality(KeyFrames(stack')) = Cardinality(KeyFrames(stack)) + 1
       /\ Cardinality(KeyFrames(stack)) \in Nat /\ Exited \in Nat
  <2> DEFINE k == <<current, n>>
             K == KeyFrames(stack)
             K1 == KeyFrames(stack')
  <2>1. IsFiniteSet(K) /\ K1 = K \cup {k} /\ k \notin K
    BY <1>2, <1>9
  <2> HIDE DEF k, K, K1
  <2>2. Cardinality(K) \in Nat /\ IsFiniteSet(K1) /\ Cardinality(K1) = Cardinality(K) + 1
    BY <2>1, FS_AddElement, FS_CardinalityType
  <2> QED
    BY <2>2, ExitedIsFinite DEF K, K1
<1>12. Running'
  <2>1. Slack = 0
    BY <1>4 DEF Slack, Undisturbed
  <2>2. Slack' = 1
    BY <1>4, <1>7, <1>9, <1>1 DEF Slack, Undisturbed, Waiting
  <2>3. Cardinality(KeyFrames(stack)) <= Exited + Slack
    BY <1>2 DEF Running
  <2>4. Cardinality(KeyFrames(stack)') <= Exited' + Slack'
    BY <1>10, <1>11, <2>1, <2>2, <2>3
  <2>5. \E f \in KeyFrames(stack') : f[1] \in S!Alive
    BY <1>3, <1>9
  <2> QED
    BY <1>1, <1>2, <1>3, <1>4, <1>9, <1>10, <2>4, <2>5 DEF Running
<1>13. ~cut' => Cardinality(KeyFrames(stack)') = IF KEYBOARD \in in_service' THEN 1 ELSE 0
  BY <1>1, <1>2, <1>4, <1>10, <1>11
<1> QED
  BY <1>1, <1>2, <1>4, <1>9, <1>10, <1>11, <1>12, <1>13 DEF MachineInv

(* The end of a key that has printed.                                      *)
LEMMA KeyEnds ==
    ASSUME MachineInv, S!CurrentIsAlive, KeyReturns
    PROVE  MachineInv'
<1>1. /\ kernel = "running" /\ LastFrame(stack[current]) = "key"
      /\ stack' = [stack EXCEPT ![current] = Front(@)]
      /\ in_service' = EndOfInterrupt(in_service)
      /\ UNCHANGED <<cut, current, allocated, kernel>>
  BY DEF KeyReturns, Top, Pop, schedVars
<1>2. /\ stack \in [Procs -> Stacks] /\ in_service \in SUBSET {TIMER, KEYBOARD}
      /\ IsFiniteSet(KeyFrames(stack)) /\ Running
      /\ ~cut => Cardinality(KeyFrames(stack)) = IF KEYBOARD \in in_service THEN 1 ELSE 0
  BY <1>1 DEF MachineInv
<1>3. current \in S!Alive /\ current \in Procs /\ S!Alive \subseteq Procs
  BY <1>1, Runner
<1> DEFINE t == Front(stack[current])
           n == Len(stack[current])
<1>4. stack[current] \in Stacks /\ stack[current] # <<>> /\ ~Waiting(stack[current])
  BY <1>1, <1>2, <1>3 DEF LastFrame, Waiting
<1>5. in_service' = {} /\ TIMER \notin in_service /\ TIMER # KEYBOARD
  <2>1. TIMER \notin in_service
    BY <1>2, <1>4 DEF Running
  <2>2. TIMER # KEYBOARD
    BY DEF TIMER, KEYBOARD
  <2> QED
    BY <1>1, <1>2, <2>1, <2>2, WhatIsEnded
<1>6. /\ t \in Stacks /\ ~Waiting(t) /\ n \in Nat /\ n \in KeysOn(stack[current])
      /\ KeysOn(t) = KeysOn(stack[current]) \ {n}
  BY <1>1, <1>4, Popped
<1>7. stack' = [stack EXCEPT ![current] = t]
  BY <1>1
<1> HIDE DEF t, n
<1>8. /\ stack' \in [Procs -> Stacks] /\ stack'[current] = t
      /\ \A p \in Procs : p # current => stack'[p] = stack[p]
  BY <1>2, <1>3, <1>6, <1>7, OneStack
<1> DEFINE k == <<current, n>>
           K == KeyFrames(stack)
           K1 == KeyFrames(stack')
<1>9. K1 = K \ {k} /\ k \in K
  <2>1. k \in K
    BY <1>3, <1>6 DEF KeyFrames
  <2>2. /\ stack \in [Procs -> Stacks] /\ current \in Procs /\ t \in Stacks /\ n \in Nat
        /\ KeysOn(t) = Without(KeysOn(stack[current]), n)
    BY <1>2, <1>3, <1>6 DEF Without
  <2>3. KeyFrames([stack EXCEPT ![current] = t]) = Without(KeyFrames(stack), <<current, n>>)
    BY <2>2, KeyLeaves
  <2> QED
    BY <1>7, <2>1, <2>3 DEF Without
<1>10. S!Alive' = S!Alive /\ Exited' = Exited /\ KeyFrames(stack)' = K1
  BY <1>1 DEF S!Alive, Exited, KeyFrames
<1>11. /\ IsFiniteSet(K1) /\ Cardinality(K) \in Nat /\ Cardinality(K1) \in Nat
       /\ Cardinality(K1) = Cardinality(K) - 1
  <2>1. IsFiniteSet(K)
    BY <1>2
  <2> HIDE DEF k, K, K1
  <2> QED
    BY <1>9, <2>1, FS_RemoveElement, FS_CardinalityType
<1>12. Running'
  <2>1. Slack \in {0, 1} /\ Slack' = 0 /\ Exited \in Nat
    BY <1>5, ExitedIsFinite DEF Slack, Undisturbed
  <2>2. Cardinality(K) <= Exited + Slack
    BY <1>2 DEF Running
  <2> HIDE DEF K, K1
  <2>3. Cardinality(K1) <= Exited' + Slack'
    <3>1. \A a, b, c \in Nat : \A s \in {0, 1} : a = b - 1 /\ b <= c + s => a <= c + 0
      OBVIOUS
    <3> QED
      BY <1>10, <1>11, <2>1, <2>2, <3>1
  <2> QED
    BY <1>1, <1>2, <1>3, <1>5, <1>8, <1>10, <2>3 DEF Running
<1>13. ~cut' => Cardinality(K1) = IF KEYBOARD \in in_service' THEN 1 ELSE 0
  <2>1. ~cut => Cardinality(K) = 0 \/ Cardinality(K) = 1
    BY <1>2
  <2> HIDE DEF K, K1
  <2> QED
    BY <1>1, <1>5, <1>11, <2>1
<1> QED
  BY <1>1, <1>2, <1>5, <1>8, <1>10, <1>11, <1>12, <1>13 DEF MachineInv

(* A process in its program has no frame.                                  *)
LEMMA EmptyStack ==
    ASSUME NEW s \in Stacks, LastFrame(s) = "program"
    PROVE  KeysOn(s) = {} /\ ~Waiting(s)
<1>1. s \in Seq(Frames) /\ "program" \notin Frames
  BY DEF Stacks, Frames
<1>2. Len(s) \in Nat /\ (s # <<>> => LastFrame(s) \in Frames)
  <2>1. \A m \in Nat : m > 0 => m \in 1 .. m
    OBVIOUS
  <2> QED
    BY <1>1, <2>1, LastOfStack
<1>3. Len(s) = 0
  BY <1>1, <1>2, LastOfStack
<1> QED
  BY <1>3 DEF KeysOn, Waiting

(* The keyboard handlers of one process are among all of them.             *)
LEMMA KeyboardsOf ==
    ASSUME MachineInv, NEW p \in Procs
    PROVE  /\ Keyboards(p) \in Nat /\ Keyboards(p) <= Cardinality(KeyFrames(stack))
           /\ \A f \in KeyFrames(stack) : f[1] = p => Keyboards(p) > 0
<1> DEFINE A == KeysOn(stack[p])
           K == KeyFrames(stack)
           g == [i \in A |-> <<p, i>>]
<1>1. stack[p] \in Seq(Frames) /\ Len(stack[p]) \in Nat /\ IsFiniteSet(K)
  BY LenProperties DEF MachineInv, Stacks
<1>2. Keyboards(p) = Cardinality(A)
  <2>1. DOMAIN stack[p] = 1 .. Len(stack[p])
    BY <1>1, LenProperties
  <2> QED
    BY <2>1 DEF Keyboards, KeysOn
<1>3. g \in Injection(A, K)
  <2>1. \A i \in A : i \in Nat
    BY <1>1 DEF KeysOn
  <2>2. \A i \in A : <<p, i>> \in K
    BY <2>1 DEF KeyFrames
  <2> QED
    BY <2>2 DEF Injection, IsInjective
<1>4. \A f \in K : f[1] = p => f[2] \in A
  BY DEF KeyFrames
<1> HIDE DEF A, K, g
<1>5. IsFiniteSet(A) /\ Cardinality(A) <= Cardinality(K) /\ Cardinality(A) \in Nat
  BY <1>1, <1>3, FS_Injection, FS_CardinalityType
<1>6. ASSUME NEW f \in K, f[1] = p PROVE Cardinality(A) > 0
  <2>1. A # {}
    BY <1>4, <1>6
  <2> QED
    BY <1>5, <2>1, FS_EmptySet
<1> QED
  BY <1>2, <1>5, <1>6 DEF K

(* An exit: the program's stack is empty, and idle was left in a handler.  *)
LEMMA Exits ==
    ASSUME MachineInv, S!CurrentIsAlive, (S!CurrentIsAlive)', do_sys_exit
    PROVE  MachineInv'
<1>1. /\ kernel = "running" /\ current # Idle /\ current' = Idle
      /\ LastFrame(stack[current]) = "program" /\ kernel' = kernel
      /\ allocated' = allocated \ ({current} \X {"page_dir", "proc"})
      /\ UNCHANGED <<stack, in_service, cut>>
  BY DEF do_sys_exit, S!do_sys_exit, S!context_switch, Top, machineVars
<1>2. /\ stack \in [Procs -> Stacks] /\ in_service \in SUBSET {TIMER, KEYBOARD}
      /\ IsFiniteSet(KeyFrames(stack)) /\ Running
      /\ ~cut => Cardinality(KeyFrames(stack)) = IF KEYBOARD \in in_service THEN 1 ELSE 0
  BY <1>1 DEF MachineInv
<1>3. current \in S!Alive /\ current \in Procs /\ S!Alive \subseteq Procs
  BY <1>1, Runner
<1>4. S!Alive' = S!Alive \ {current}
  BY <1>1 DEF S!Alive
<1>5. KeysOn(stack[current]) = {} /\ ~Waiting(stack[current])
  <2>1. stack[current] \in Stacks
    BY <1>2, <1>3
  <2> QED
    BY <1>1, <2>1, EmptyStack
<1>6. Exited' = Exited + 1 /\ Exited \in Nat
  <2> DEFINE E == Procs \ S!Alive
             E1 == Procs \ S!Alive'
  <2>1. E1 = E \cup {current} /\ current \notin E /\ IsFiniteSet(E)
    BY <1>3, <1>4, ExitedIsFinite
  <2>2. Exited = Cardinality(E) /\ Exited' = Cardinality(E1)
    BY DEF Exited
  <2> HIDE DEF E, E1
  <2> QED
    BY <2>1, <2>2, FS_AddElement, FS_CardinalityType
<1>7. KeyFrames(stack)' = KeyFrames(stack)
  BY <1>1 DEF KeyFrames
<1> DEFINE K == KeyFrames(stack)
<1>8. Running'
  <2>1. Slack \in {0, 1} /\ Slack' \in {0, 1} /\ Cardinality(K) \in Nat
    BY <1>2, FS_CardinalityType DEF Slack
  <2>2. Cardinality(K) <= Exited + Slack
    BY <1>2 DEF Running
  <2>3. Cardinality(K) <= Exited' + Slack'
    <3> HIDE DEF K
    <3>1. \A a, c \in Nat : \A s, r \in {0, 1} : a <= c + s => a <= (c + 1) + r
      OBVIOUS
    <3> QED
      BY <1>6, <2>1, <2>2, <3>1
  <2>4. \A f \in K : f[1] # current
    BY <1>5 DEF KeyFrames
  <2>5. KEYBOARD \in in_service => \E f \in K : f[1] \in S!Alive'
    BY <1>2, <1>4, <2>4 DEF Running
  <2>6. TIMER \notin in_service
    BY <1>2, <1>5 DEF Running
  <2> QED
    BY <1>1, <1>2, <1>3, <1>4, <1>7, <2>3, <2>5, <2>6 DEF Running
<1> QED
  BY <1>1, <1>2, <1>7, <1>8 DEF MachineInv

(* The inductive invariant of the machine.                                 *)
THEOREM MachineInvariance == Spec => []MachineInv
<1>1. Init => MachineInv
  <2> SUFFICES ASSUME Init PROVE MachineInv
    OBVIOUS
  <2>1. stack = [p \in Procs |-> <<"start">>] /\ in_service = {} /\ kernel = "boot"
    BY DEF Init, S!Init
  <2>2. <<"start">> \in Stacks /\ KeysOn(<<"start">>) = {}
    <3>1. <<"start">> \in Seq(Frames) /\ Len(<<"start">>) = 1
      BY DEF Frames
    <3> QED
      BY <3>1 DEF Stacks, OnTop, KeysOn
  <2>3. stack \in [Procs -> Stacks] /\ \A p \in Procs : stack[p] = <<"start">>
    BY <2>1, <2>2
  <2>4. KeyFrames(stack) = {}
    BY <2>2, <2>3 DEF KeyFrames
  <2>5. IsFiniteSet(KeyFrames(stack)) /\ Cardinality(KeyFrames(stack)) = 0
    BY <2>4, FS_EmptySet
  <2> QED
    BY <2>1, <2>3, <2>5 DEF MachineInv, Booting
<1>2. MachineInv /\ S!CurrentIsAlive /\ (S!CurrentIsAlive)' /\ [Next]_vars => MachineInv'
  <2> SUFFICES ASSUME MachineInv, S!CurrentIsAlive, (S!CurrentIsAlive)', [Next]_vars
               PROVE  MachineInv'
    OBVIOUS
  <2>1. CASE Boot
    BY <2>1, BootStep DEF Boot, machineVars, S!create_proc, S!switch_to_user
  <2>2. ASSUME Taken(TIMER) \/ Taken(KEYBOARD), HandlerReturns,
               UNCHANGED <<in_service, cut, current, allocated, kernel>>
        PROVE  MachineInv'
    <3>1. kernel = "running" /\ ~Waiting(stack[current])
      BY <2>2 DEF Taken, InterruptFlag, Waiting
    <3>2. stack[current] \in Stacks
      BY <3>1, Runner DEF MachineInv
    <3> DEFINE t == Interrupted(stack[current])
    <3>3. t \in Stacks /\ ~Waiting(t) /\ KeysOn(t) = KeysOn(stack[current])
      BY <3>1, <3>2, Woken
    <3>4. stack' = [stack EXCEPT ![current] = t]
      BY <2>2 DEF HandlerReturns
    <3> HIDE DEF t
    <3> QED
      BY <2>2, <3>1, <3>3, <3>4, GoesOn
  <2>3. CASE TimerTick
    BY <2>2, <2>3 DEF TimerTick, S!TickInQuantum
  <2>4. CASE TimerSwitches
    BY <2>4, Switches
  <2>5. CASE TimerReturns
    BY <2>5, HandlerEnds DEF TimerReturns, schedVars
  <2>6. CASE start_proc
    BY <2>6, HandlerEnds DEF start_proc, schedVars
  <2>7. CASE KeyHandled
    BY <2>2, <2>7 DEF KeyHandled, schedVars
  <2>8. CASE KeyPrinted
    BY <2>8, KeyStays
  <2>9. CASE KeyReturns
    BY <2>9, KeyEnds
  <2>10. CASE do_sys_idle
    <3> DEFINE t == <<"halted">>
    <3>1. kernel = "running" /\ stack' = [stack EXCEPT ![current] = t]
          /\ LastFrame(stack[current]) = "program"
          /\ UNCHANGED <<in_service, cut, current, allocated, kernel>>
      BY <2>10 DEF do_sys_idle, Top, schedVars
    <3>2. stack[current] \in Stacks
      BY <3>1, Runner DEF MachineInv
    <3>3. ~Waiting(stack[current]) /\ KeysOn(stack[current]) = {}
      BY <3>1, <3>2, EmptyStack
    <3>4. t \in Stacks /\ ~Waiting(t) /\ KeysOn(t) = {}
      <4>1. t \in Seq(Frames) /\ Len(t) = 1
        BY DEF Frames
      <4> QED
        BY <4>1 DEF Stacks, OnTop, KeysOn, Waiting, LastFrame, Last
    <3> HIDE DEF t
    <3> QED
      BY <3>1, <3>3, <3>4, GoesOn
  <2>11. CASE IdleReturns
    <3> DEFINE t == Front(stack[current])
    <3>1. kernel = "running" /\ stack' = [stack EXCEPT ![current] = t]
          /\ LastFrame(stack[current]) = "awake"
          /\ UNCHANGED <<in_service, cut, current, allocated, kernel>>
      BY <2>11 DEF IdleReturns, Top, Pop, schedVars
    <3>2. stack[current] \in Stacks /\ stack[current] # <<>> /\ ~Waiting(stack[current])
      BY <3>1, Runner DEF MachineInv, Waiting, LastFrame
    <3>3. t \in Stacks /\ ~Waiting(t) /\ KeysOn(t) = KeysOn(stack[current])
      BY <3>1, <3>2, Popped
    <3> HIDE DEF t
    <3> QED
      BY <3>1, <3>2, <3>3, GoesOn
  <2>12. CASE do_sys_exit
    BY <2>12, Exits
  <2>13. CASE Types \/ Stopped \/ UNCHANGED vars
    BY <2>13, Unmoved DEF Types, Stopped, vars, schedVars, machineVars
  <2> QED
    BY <2>1, <2>3, <2>4, <2>5, <2>6, <2>7, <2>8, <2>9, <2>10, <2>11, <2>12, <2>13 DEF Next
<1> QED
  BY <1>1, <1>2, CurrentAliveHere, PTL DEF Spec

(* What is in service is ended by a handler that will run again.           *)
THEOREM InServiceStaysHandled == Spec => []InServiceIsHandled
<1>1. MachineInv => InServiceIsHandled
  <2> SUFFICES ASSUME MachineInv, kernel = "running"
               PROVE  /\ TIMER \in in_service => ~InterruptFlag
                      /\ KEYBOARD \in in_service => \E p \in S!Alive : Keyboards(p) > 0
    BY DEF InServiceIsHandled
  <2>1. Running
    BY DEF MachineInv
  <2>2. ASSUME KEYBOARD \in in_service
        PROVE  \E p \in S!Alive : Keyboards(p) > 0
    <3>1. PICK f \in KeyFrames(stack) : f[1] \in S!Alive
      BY <2>1, <2>2 DEF Running
    <3>2. PICK p \in Procs : p = f[1]
      BY DEF KeyFrames
    <3>3. Keyboards(p) > 0
      BY <3>2, KeyboardsOf
    <3> QED
      BY <3>1, <3>2, <3>3
  <2> QED
    BY <2>1, <2>2 DEF Running, InterruptFlag, Waiting
<1> QED
  BY <1>1, MachineInvariance, PTL

(***************************************************************************)
(* The codes of the keys                                                   *)
(***************************************************************************)
(* What the keys send, one by one.                                         *)
LEMMA Tables ==
    /\ DOMAIN Makes = {"lshift", "rshift", "lctrl", "rctrl", "lalt", "ralt", "caps", "num",
                       "scroll", "home", "letter", "f1", "pause"}
    /\ DOMAIN Breaks = DOMAIN Makes
    /\ Makes["lshift"] = <<"lshift">> /\ Makes["rshift"] = <<"rshift">>
    /\ Makes["lctrl"] = <<"ctrl">> /\ Makes["rctrl"] = <<"E0", "ctrl">>
    /\ Makes["lalt"] = <<"alt">> /\ Makes["ralt"] = <<"E0", "alt">>
    /\ Makes["caps"] = <<"caps">> /\ Makes["num"] = <<"num">>
    /\ Makes["scroll"] = <<"scroll">>
    /\ Makes["home"] = <<"E0", "lshift", "E0", "cursor">>
    /\ Makes["letter"] = <<"do_self">> /\ Makes["f1"] = <<"func">>
    /\ Makes["pause"] = <<"E1", "ctrl", "num", "E1", "unctrl", "none">>
    /\ Breaks["lshift"] = <<"unlshift">> /\ Breaks["rshift"] = <<"unrshift">>
    /\ Breaks["lctrl"] = <<"unctrl">> /\ Breaks["rctrl"] = <<"E0", "unctrl">>
    /\ Breaks["lalt"] = <<"unalt">> /\ Breaks["ralt"] = <<"E0", "unalt">>
    /\ Breaks["caps"] = <<"uncaps">> /\ Breaks["num"] = <<"none">>
    /\ Breaks["scroll"] = <<"none">>
    /\ Breaks["home"] = <<"E0", "none", "E0", "unlshift">>
    /\ Breaks["letter"] = <<"none">> /\ Breaks["f1"] = <<"none">>
    /\ Breaks["pause"] = <<>>
<1>1. /\ DOMAIN Makes = {"lshift", "rshift", "lctrl", "rctrl", "lalt", "ralt", "caps", "num",
                         "scroll", "home", "letter", "f1", "pause"}
      /\ DOMAIN Breaks = DOMAIN Makes
  BY DEF Makes, Breaks
<1>2. /\ Makes["lshift"] = <<"lshift">> /\ Makes["rshift"] = <<"rshift">>
      /\ Makes["lctrl"] = <<"ctrl">> /\ Makes["rctrl"] = <<"E0", "ctrl">>
      /\ Makes["lalt"] = <<"alt">> /\ Makes["ralt"] = <<"E0", "alt">>
      /\ Makes["caps"] = <<"caps">> /\ Makes["num"] = <<"num">>
      /\ Makes["scroll"] = <<"scroll">>
      /\ Makes["home"] = <<"E0", "lshift", "E0", "cursor">>
      /\ Makes["letter"] = <<"do_self">> /\ Makes["f1"] = <<"func">>
      /\ Makes["pause"] = <<"E1", "ctrl", "num", "E1", "unctrl", "none">>
  BY DEF Makes
<1>3. /\ Breaks["lshift"] = <<"unlshift">> /\ Breaks["rshift"] = <<"unrshift">>
      /\ Breaks["lctrl"] = <<"unctrl">> /\ Breaks["rctrl"] = <<"E0", "unctrl">>
      /\ Breaks["lalt"] = <<"unalt">> /\ Breaks["ralt"] = <<"E0", "unalt">>
      /\ Breaks["caps"] = <<"uncaps">> /\ Breaks["num"] = <<"none">>
      /\ Breaks["scroll"] = <<"none">>
      /\ Breaks["home"] = <<"E0", "none", "E0", "unlshift">>
      /\ Breaks["letter"] = <<"none">> /\ Breaks["f1"] = <<"none">>
      /\ Breaks["pause"] = <<>>
  BY DEF Breaks
<1> QED
  BY <1>1, <1>2, <1>3, Zenon

(* Whatever a key sends is made of codes.                                  *)
LEMMA KeysSendCodes ==
    \A k \in DOMAIN Makes : Makes[k] \in Seq(Codes) /\ Breaks[k] \in Seq(Codes)
<1>1. /\ <<"lshift">> \in Seq(Codes) /\ <<"rshift">> \in Seq(Codes)
      /\ <<"ctrl">> \in Seq(Codes) /\ <<"E0", "ctrl">> \in Seq(Codes)
      /\ <<"alt">> \in Seq(Codes) /\ <<"E0", "alt">> \in Seq(Codes)
      /\ <<"caps">> \in Seq(Codes) /\ <<"num">> \in Seq(Codes) /\ <<"scroll">> \in Seq(Codes)
      /\ <<"E0", "lshift", "E0", "cursor">> \in Seq(Codes)
      /\ <<"do_self">> \in Seq(Codes) /\ <<"func">> \in Seq(Codes)
      /\ <<"E1", "ctrl", "num", "E1", "unctrl", "none">> \in Seq(Codes)
  BY DEF Codes
<1>2. /\ <<"unlshift">> \in Seq(Codes) /\ <<"unrshift">> \in Seq(Codes)
      /\ <<"unctrl">> \in Seq(Codes) /\ <<"E0", "unctrl">> \in Seq(Codes)
      /\ <<"unalt">> \in Seq(Codes) /\ <<"E0", "unalt">> \in Seq(Codes)
      /\ <<"uncaps">> \in Seq(Codes) /\ <<"none">> \in Seq(Codes)
      /\ <<"E0", "none", "E0", "unlshift">> \in Seq(Codes) /\ <<>> \in Seq(Codes)
  BY DEF Codes
<1>3. \A k \in DOMAIN Makes : Makes[k] \in Seq(Codes)
  BY <1>1, Tables, Zenon
<1>4. \A k \in DOMAIN Makes : Breaks[k] \in Seq(Codes)
  BY <1>2, Tables, Zenon
<1> QED
  BY <1>3, <1>4

(***************************************************************************)
(* Reading codes                                                           *)
(***************************************************************************)
Bits == Modifiers \cup {"caps", "caps_down"}
Lights == {"caps", "num", "scroll"}
Boards == [mode : SUBSET Bits, leds : SUBSET Lights, e0 : 0 .. 2]

BitOf(s, c) ==
    CASE c \in {"lshift", "unlshift"} -> "lshift"
      [] c \in {"rshift", "unrshift"} -> "rshift"
      [] c \in {"ctrl", "unctrl"} -> IF s.e0 = 0 THEN "lctrl" ELSE "rctrl"
      [] c \in {"alt", "unalt"} -> IF s.e0 = 0 THEN "lalt" ELSE "ralt"

Turns(s, c) == c = "caps" /\ "caps_down" \notin s.mode

ModeAfter(s, c) ==
    IF c \in {"lshift", "rshift", "ctrl", "alt"} THEN s.mode \cup {BitOf(s, c)}
    ELSE IF c \in {"unlshift", "unrshift", "unctrl", "unalt"} THEN s.mode \ {BitOf(s, c)}
    ELSE IF Turns(s, c) THEN SymDiff(s.mode, {"caps"}) \cup {"caps_down"}
    ELSE IF c = "uncaps" THEN s.mode \ {"caps_down"}
    ELSE s.mode

LedsAfter(s, c) ==
    IF Turns(s, c) \/ c \in {"num", "scroll"} THEN SymDiff(s.leds, {c}) ELSE s.leds

(* What mode, leds and e0 are after the routine of a code.                 *)
Reads(s, c) == [mode |-> ModeAfter(s, c), leds |-> LedsAfter(s, c), e0 |-> Prefix(c)]

(* Reading all of b takes the board s to t.                                *)
Leads(s, b, t) ==
    \E run \in [1 .. Len(b) + 1 -> Boards] :
        /\ run[1] = s /\ run[Len(b) + 1] = t
        /\ \A i \in 1 .. Len(b) : run[i + 1] = Reads(run[i], b[i])

(* The routine of a code keeps to the bits there are.                      *)
LEMMA ReadsTyped ==
    ASSUME NEW s \in Boards, NEW c \in Codes
    PROVE  Reads(s, c) \in Boards
<1>1. s.mode \in SUBSET Bits /\ s.leds \in SUBSET Lights /\ s.e0 \in 0 .. 2
  BY DEF Boards
<1>2. ModeAfter(s, c) \in SUBSET Bits
  <2>1. CASE c \in {"lshift", "rshift", "ctrl", "alt"}
    <3>1. ModeAfter(s, c) = s.mode \cup {BitOf(s, c)}
      BY <2>1 DEF ModeAfter
    <3>2. BitOf(s, c) \in Bits
      BY <2>1 DEF BitOf, Bits, Modifiers
    <3> QED
      BY <1>1, <3>1, <3>2
  <2>2. CASE c \in {"unlshift", "unrshift", "unctrl", "unalt"}
    <3>1. ModeAfter(s, c) = s.mode \ {BitOf(s, c)}
      BY <2>2 DEF ModeAfter
    <3> QED
      BY <1>1, <3>1
  <2>3. CASE c \notin {"lshift", "rshift", "ctrl", "alt", "unlshift", "unrshift", "unctrl", "unalt"}
    <3>1. ModeAfter(s, c) \in {SymDiff(s.mode, {"caps"}) \cup {"caps_down"}, s.mode \ {"caps_down"}, s.mode}
      BY <2>3 DEF ModeAfter
    <3>2. SymDiff(s.mode, {"caps"}) \cup {"caps_down"} \in SUBSET Bits
      BY <1>1 DEF SymDiff, Bits
    <3> QED
      BY <1>1, <3>1, <3>2
  <2> QED
    BY <2>1, <2>2, <2>3
<1>3. LedsAfter(s, c) \in SUBSET Lights
  BY <1>1 DEF LedsAfter, Turns, SymDiff, Lights
<1>4. Prefix(c) \in 0 .. 2
  BY DEF Prefix
<1> QED
  BY <1>2, <1>3, <1>4 DEF Reads, Boards

(* Nothing to read.                                                        *)
LEMMA NothingRead ==
    ASSUME NEW s \in Boards, NEW b \in Seq(Codes), b = <<>>, NEW t, Leads(s, b, t)
    PROVE  t = s
<1>1. Len(b) = 0
  OBVIOUS
<1> QED
  BY <1>1 DEF Leads

(* One code more at the end.                                               *)
LEMMA ReadLast ==
    ASSUME NEW s \in Boards, NEW t \in Boards, NEW b \in Seq(Codes), NEW c \in Codes,
           Leads(s, b, t)
    PROVE  Leads(s, Append(b, c), Reads(t, c)) /\ Reads(t, c) \in Boards
<1> DEFINE n == Len(b)
           u == Reads(t, c)
           a == Append(b, c)
<1>1. n \in Nat /\ Len(a) = n + 1 /\ a[n + 1] = c /\ \A i \in 1 .. n : a[i] = b[i]
  BY LenProperties, AppendProperties
<1>2. u \in Boards
  BY ReadsTyped
<1>3. PICK run \in [1 .. n + 1 -> Boards] :
        /\ run[1] = s /\ run[n + 1] = t
        /\ \A i \in 1 .. n : run[i + 1] = Reads(run[i], b[i])
  BY DEF Leads
<1> DEFINE r == [i \in 1 .. n + 2 |-> IF i = n + 2 THEN u ELSE run[i]]
<1> HIDE DEF n, a
<1>4. r \in [1 .. (n + 1) + 1 -> Boards] /\ r[1] = s /\ r[(n + 1) + 1] = u
  <2>1. /\ (n + 1) + 1 = n + 2 /\ 1 \in 1 .. n + 2 /\ 1 # n + 2 /\ n + 2 \in 1 .. n + 2
        /\ \A i \in 1 .. n + 2 : i # n + 2 => i \in 1 .. n + 1
    BY <1>1
  <2> HIDE DEF u
  <2> QED
    BY <1>2, <1>3, <2>1
<1>5. ASSUME NEW i \in 1 .. n + 1
      PROVE  r[i + 1] = Reads(r[i], a[i])
  <2>1. i \in 1 .. n + 2 /\ i # n + 2 /\ i + 1 \in 1 .. n + 2
    BY <1>1
  <2>2. CASE i = n + 1
    <3>1. i + 1 = n + 2
      BY <1>1, <2>2
    <3> QED
      BY <1>1, <1>3, <2>1, <2>2, <3>1
  <2>3. CASE i # n + 1
    <3>1. i \in 1 .. n /\ i + 1 # n + 2
      BY <1>1, <2>3
    <3> QED
      BY <1>1, <1>3, <2>1, <3>1
  <2> QED
    BY <2>2, <2>3
<1> HIDE DEF r, u
<1>6. Leads(s, a, u)
  BY <1>1, <1>4, <1>5 DEF Leads
<1> QED
  BY <1>2, <1>6 DEF a, u

(* One code less at the front.                                             *)
LEMMA ReadFirst ==
    ASSUME NEW s \in Boards, NEW t \in Boards, NEW b \in Seq(Codes), b # <<>>,
           Leads(s, b, t)
    PROVE  /\ Leads(Reads(s, Head(b)), Tail(b), t)
           /\ Head(b) \in Codes /\ Tail(b) \in Seq(Codes) /\ Reads(s, Head(b)) \in Boards
<1> DEFINE n == Len(b)
           u == Reads(s, Head(b))
<1>1. n \in Nat /\ n > 0
  BY LenProperties, EmptySeq
<1>2. /\ Head(b) = b[1] /\ Head(b) \in Codes /\ Tail(b) \in Seq(Codes)
      /\ Len(Tail(b)) = n - 1 /\ \A i \in 1 .. n - 1 : Tail(b)[i] = b[i + 1]
  BY <1>1, HeadTailProperties
<1>3. u \in Boards
  BY <1>2, ReadsTyped
<1>4. PICK run \in [1 .. n + 1 -> Boards] :
        /\ run[1] = s /\ run[n + 1] = t
        /\ \A i \in 1 .. n : run[i + 1] = Reads(run[i], b[i])
  BY DEF Leads
<1> DEFINE r == [i \in 1 .. n |-> run[i + 1]]
           a == Tail(b)
<1>5. u = run[2]
  BY <1>1, <1>2, <1>4
<1> HIDE DEF n, a, u
<1>6. (n - 1) + 1 = n
  BY <1>1
<1>7. r \in [1 .. n -> Boards] /\ r[1] = u /\ r[n] = t
  <2>1. 1 \in 1 .. n /\ n \in 1 .. n /\ \A i \in 1 .. n : i + 1 \in 1 .. n + 1
    BY <1>1
  <2> QED
    BY <1>4, <1>5, <2>1
<1>8. ASSUME NEW i \in 1 .. n - 1
      PROVE  r[i + 1] = Reads(r[i], a[i])
  <2>1. i \in 1 .. n /\ i + 1 \in 1 .. n
    BY <1>1
  <2> QED
    BY <1>2, <1>4, <2>1 DEF a
<1> HIDE DEF r
<1>9. Leads(u, a, t)
  BY <1>2, <1>6, <1>7, <1>8 DEF Leads, a
<1> QED
  BY <1>2, <1>3, <1>9 DEF a, u

(* Where nothing was to read, one code is read.                            *)
LEMMA NothingToRead ==
    ASSUME NEW s \in Boards, NEW b \in Seq(Codes), b = <<>>
    PROVE  Leads(s, b, s)
<1>1. Len(b) = 0 /\ Len(b) + 1 = 1
  OBVIOUS
<1> DEFINE run == [i \in 1 .. Len(b) + 1 |-> s]
<1>2. run \in [1 .. Len(b) + 1 -> Boards]
  OBVIOUS
<1>3. run[1] = s /\ run[Len(b) + 1] = s /\ 1 .. Len(b) = {}
  BY <1>1
<1> HIDE DEF run
<1> QED
  BY <1>2, <1>3 DEF Leads

(* The routines of the keyboard are these, on its variables.               *)
LEMMA SameMode ==
    /\ \A code \in Codes : NewMode(code) = ModeAfter([mode |-> mode, leds |-> leds, e0 |-> e0], code)
    /\ \A code \in Codes : NewLeds(code) = LedsAfter([mode |-> mode, leds |-> leds, e0 |-> e0], code)
  BY DEF NewMode, ModeAfter, NewLeds, LedsAfter, Turns, CapsTurns, ModeOf, BitOf

(* The codes of one key behind those in the buffer.                        *)
LEMMA OneSent ==
    ASSUME NEW b \in Seq(Codes), NEW r \in Seq(Codes), NEW c \in Codes
    PROVE  /\ b \o Append(r, c) = Append(b \o r, c)
           /\ b \o r \in Seq(Codes) /\ b \o <<>> = b /\ Append(r, c) \in Seq(Codes)
           /\ Append(<<>>, c) = <<c>>
<1>1. b \o r \in Seq(Codes) /\ b \o <<>> = b /\ Append(r, c) \in Seq(Codes)
  BY ConcatProperties, ConcatEmptySeq, AppendProperties
<1>2. Append(r, c) = r \o <<c>> /\ Append(b \o r, c) = (b \o r) \o <<c>> /\ <<c>> \in Seq(Codes)
  BY <1>1, AppendIsConcat
<1>3. b \o (r \o <<c>>) = (b \o r) \o <<c>>
  BY <1>1, <1>2, ConcatAssociative
<1>4. Append(<<>>, c) = <<c>>
  OBVIOUS
<1> QED
  BY <1>1, <1>2, <1>3, <1>4

(* Append of a tuple.                                                      *)
LEMMA Longer ==
    ASSUME NEW r \in Seq(Codes), NEW q \in Seq(Codes), Len(q) = Len(r) + 1,
           NEW c \in Codes, q[Len(q)] = c, \A i \in 1 .. Len(r) : q[i] = r[i]
    PROVE  Append(r, c) = q
<1> DEFINE a == Append(r, c)
<1>1. /\ a \in Seq(Codes) /\ Len(a) = Len(r) + 1 /\ Len(r) \in Nat
      /\ a[Len(r) + 1] = c /\ \A i \in 1 .. Len(r) : a[i] = r[i]
  BY AppendProperties, LenProperties
<1> HIDE DEF a
<1>2. Len(a) = Len(q) /\ \A i \in 1 .. Len(a) : a[i] = q[i]
  BY <1>1
<1>3. a = q
  BY <1>1, <1>2, SeqEqual
<1> QED
  BY <1>3 DEF a

(* One code more is sent.                                                  *)
LEMMA SendsOne ==
    ASSUME NEW s \in Boards, NEW b \in Seq(Codes), NEW r \in Seq(Codes), NEW c \in Codes,
           NEW t \in Boards, Leads(s, b \o r, t)
    PROVE  Leads(s, b \o Append(r, c), Reads(t, c)) /\ Reads(t, c) \in Boards
<1>1. b \o r \in Seq(Codes) /\ b \o Append(r, c) = Append(b \o r, c)
  BY OneSent
<1> QED
  BY <1>1, ReadLast

(* A key that sends one code.                                              *)
LEMMA Sends1 ==
    ASSUME NEW s \in Boards, NEW b \in Seq(Codes), NEW t \in Boards, Leads(s, b, t),
           NEW c \in Codes
    PROVE  Leads(s, b \o <<c>>, Reads(t, c)) /\ Reads(t, c) \in Boards
<1>1. b \o <<>> = b /\ <<>> \in Seq(Codes) /\ Append(<<>>, c) = <<c>>
  BY OneSent
<1>2. Leads(s, b \o <<>>, t)
  BY <1>1
<1>3. Leads(s, b \o Append(<<>>, c), Reads(t, c)) /\ Reads(t, c) \in Boards
  BY <1>1, <1>2, SendsOne
<1> QED
  BY <1>1, <1>3

(* One that sends two.                                                     *)
LEMMA Sends2 ==
    ASSUME NEW s \in Boards, NEW b \in Seq(Codes), NEW t \in Boards, Leads(s, b, t),
           NEW c \in Codes, NEW d \in Codes
    PROVE  /\ Leads(s, b \o <<c, d>>, Reads(Reads(t, c), d))
           /\ Reads(t, c) \in Boards /\ Reads(Reads(t, c), d) \in Boards
<1> DEFINE u == Reads(t, c)
           r == <<c>>
<1>1. Leads(s, b \o r, u) /\ u \in Boards
  BY Sends1
<1>2. r \in Seq(Codes) /\ Append(r, d) = <<c, d>>
  <2> DEFINE q == <<c, d>>
  <2>1. /\ r \in Seq(Codes) /\ Len(r) = 1 /\ q \in Seq(Codes) /\ Len(q) = 2
        /\ r[1] = c /\ q[1] = c /\ q[2] = d
    OBVIOUS
  <2> HIDE DEF r, q
  <2>2. Append(r, d) = q
    <3>1. /\ Len(q) = Len(r) + 1 /\ q[Len(q)] = d
          /\ \A i \in 1 .. Len(r) : q[i] = r[i]
      BY <2>1
    <3> QED
      BY <2>1, <3>1, Longer
  <2> QED
    BY <2>1, <2>2 DEF q
<1> HIDE DEF u, r
<1>3. Leads(s, b \o Append(r, d), Reads(u, d)) /\ Reads(u, d) \in Boards
  BY <1>1, <1>2, SendsOne
<1> QED
  BY <1>1, <1>2, <1>3 DEF u

(* One that sends four.                                                    *)
LEMMA Sends4 ==
    ASSUME NEW s \in Boards, NEW b \in Seq(Codes), NEW t \in Boards, Leads(s, b, t),
           NEW c \in Codes, NEW d \in Codes, NEW e \in Codes, NEW f \in Codes
    PROVE  LET u == Reads(Reads(t, c), d)
           IN  /\ Leads(s, b \o <<c, d, e, f>>, Reads(Reads(u, e), f))
               /\ Reads(t, c) \in Boards /\ u \in Boards
               /\ Reads(u, e) \in Boards /\ Reads(Reads(u, e), f) \in Boards
<1> DEFINE u == Reads(Reads(t, c), d)
           v == Reads(u, e)
           r == <<c, d>>
           q == <<c, d, e>>
<1>1. Leads(s, b \o r, u) /\ u \in Boards /\ Reads(t, c) \in Boards
  BY Sends2
<1>2. /\ r \in Seq(Codes) /\ Append(r, e) = q
      /\ q \in Seq(Codes) /\ Append(q, f) = <<c, d, e, f>>
  <2> DEFINE p == <<c, d, e, f>>
  <2>1. /\ r \in Seq(Codes) /\ Len(r) = 2 /\ r[1] = c /\ r[2] = d
        /\ q \in Seq(Codes) /\ Len(q) = 3 /\ q[1] = c /\ q[2] = d /\ q[3] = e
    OBVIOUS
  <2>2. /\ p \in Seq(Codes) /\ Len(p) = 4
        /\ p[1] = c /\ p[2] = d /\ p[3] = e /\ p[4] = f
    OBVIOUS
  <2> HIDE DEF r, q, p
  <2>3. Append(r, e) = q
    <3>1. /\ Len(q) = Len(r) + 1 /\ q[Len(q)] = e
          /\ \A i \in 1 .. Len(r) : q[i] = r[i]
      BY <2>1
    <3> QED
      BY <2>1, <3>1, Longer
  <2>4. Append(q, f) = p
    <3>1. /\ Len(p) = Len(q) + 1 /\ p[Len(p)] = f
          /\ \A i \in 1 .. Len(q) : p[i] = q[i]
      BY <2>1, <2>2
    <3> QED
      BY <2>1, <2>2, <3>1, Longer
  <2> QED
    BY <2>1, <2>3, <2>4 DEF p
<1> HIDE DEF u, r, q
<1>3. Leads(s, b \o q, v) /\ v \in Boards
  BY <1>1, <1>2, SendsOne
<1> HIDE DEF v
<1>4. Leads(s, b \o Append(q, f), Reads(v, f)) /\ Reads(v, f) \in Boards
  BY <1>2, <1>3, SendsOne
<1> QED
  BY <1>1, <1>2, <1>3, <1>4 DEF u, v

(* One that sends six.                                                     *)
LEMMA Sends6 ==
    ASSUME NEW s \in Boards, NEW b \in Seq(Codes), NEW t \in Boards, Leads(s, b, t),
           NEW c \in Codes, NEW d \in Codes, NEW e \in Codes, NEW f \in Codes,
           NEW g \in Codes, NEW h \in Codes,
           NEW v, v = Reads(t, c), NEW w, w = Reads(v, d), NEW x, x = Reads(w, e),
           NEW y, y = Reads(x, f), NEW z, z = Reads(y, g), NEW u, u = Reads(z, h)
    PROVE  /\ Leads(s, b \o <<c, d, e, f, g, h>>, u)
           /\ v \in Boards /\ w \in Boards /\ x \in Boards
           /\ y \in Boards /\ z \in Boards /\ u \in Boards
<1> DEFINE r == <<c, d, e, f>>
           q == <<c, d, e, f, g>>
<1>1. /\ Leads(s, b \o r, y) /\ y \in Boards
      /\ v \in Boards /\ w \in Boards /\ x \in Boards
  BY Sends4
<1>2. /\ r \in Seq(Codes) /\ Append(r, g) = q
      /\ q \in Seq(Codes) /\ Append(q, h) = <<c, d, e, f, g, h>>
  <2> DEFINE p == <<c, d, e, f, g, h>>
  <2>1. /\ r \in Seq(Codes) /\ Len(r) = 4
        /\ r[1] = c /\ r[2] = d /\ r[3] = e /\ r[4] = f
    OBVIOUS
  <2>2. /\ q \in Seq(Codes) /\ Len(q) = 5
        /\ q[1] = c /\ q[2] = d /\ q[3] = e /\ q[4] = f /\ q[5] = g
    OBVIOUS
  <2>3. /\ p \in Seq(Codes) /\ Len(p) = 6
        /\ p[1] = c /\ p[2] = d /\ p[3] = e /\ p[4] = f /\ p[5] = g /\ p[6] = h
    OBVIOUS
  <2> HIDE DEF r, q, p
  <2>4. Append(r, g) = q
    <3>1. /\ Len(q) = Len(r) + 1 /\ q[Len(q)] = g
          /\ \A i \in 1 .. Len(r) : q[i] = r[i]
      BY <2>1, <2>2
    <3> QED
      BY <2>1, <2>2, <3>1, Longer
  <2>5. Append(q, h) = p
    <3>1. /\ Len(p) = Len(q) + 1 /\ p[Len(p)] = h
          /\ \A i \in 1 .. Len(q) : p[i] = q[i]
      BY <2>2, <2>3
    <3> QED
      BY <2>2, <2>3, <3>1, Longer
  <2> QED
    BY <2>1, <2>2, <2>4, <2>5 DEF p
<1> HIDE DEF r, q
<1>3. Leads(s, b \o q, z) /\ z \in Boards
  BY <1>1, <1>2, SendsOne
<1>4. Leads(s, b \o Append(q, h), u) /\ u \in Boards
  BY <1>2, <1>3, SendsOne
<1> QED
  BY <1>1, <1>2, <1>3, <1>4

(***************************************************************************)
(* What the codes of a key come to                                         *)
(***************************************************************************)
(* Between two keys the modes are those of the keys that are held.         *)
Rests(t, held, lock) ==
    /\ t \in Boards /\ t.e0 = 0
    /\ \A m \in Modifiers :
            m \in t.mode <=> m \in held \/ (m = "lshift" /\ "home" \in held)
    /\ "caps_down" \in t.mode <=> "caps" \in held
    /\ "caps" \in t.mode <=> lock = TRUE
    /\ "caps" \in t.leds <=> lock = TRUE

(* A prefix.                                                               *)
LEMMA ReadsPrefix ==
    ASSUME NEW t \in Boards, NEW c \in {"E0", "E1"}
    PROVE  LET u == Reads(t, c) IN u.mode = t.mode /\ u.leds = t.leds /\ u.e0 # 0
<1>1. ModeAfter(t, c) = t.mode /\ LedsAfter(t, c) = t.leds
  BY DEF ModeAfter, LedsAfter, Turns
<1>2. Prefix(c) # 0
  BY DEF Prefix
<1> QED
  BY <1>1, <1>2 DEF Reads

(* A code that changes no bit but perhaps another light.                   *)
LEMMA ReadsOther ==
    ASSUME NEW t \in Boards, NEW c \in {"none", "cursor", "do_self", "func", "num", "scroll"}
    PROVE  LET u == Reads(t, c)
           IN  u.mode = t.mode /\ ("caps" \in u.leds <=> "caps" \in t.leds) /\ u.e0 = 0
<1>1. ModeAfter(t, c) = t.mode /\ Prefix(c) = 0
  BY DEF ModeAfter, Prefix, Turns
<1>2. "caps" \in LedsAfter(t, c) <=> "caps" \in t.leds
  BY DEF LedsAfter, Turns, SymDiff
<1> QED
  BY <1>1, <1>2 DEF Reads

(* A modifier goes down.                                                   *)
LEMMA ReadsMake ==
    ASSUME NEW t \in Boards, NEW c \in {"lshift", "rshift", "ctrl", "alt"}
    PROVE  LET u == Reads(t, c)
           IN  /\ u.mode = t.mode \cup {BitOf(t, c)} /\ BitOf(t, c) \in Modifiers
               /\ u.leds = t.leds /\ u.e0 = 0
<1>1. ModeAfter(t, c) = t.mode \cup {BitOf(t, c)} /\ Prefix(c) = 0 /\ LedsAfter(t, c) = t.leds
  BY DEF ModeAfter, Prefix, LedsAfter, Turns
<1>2. BitOf(t, c) \in Modifiers
  BY DEF BitOf, Modifiers
<1> QED
  BY <1>1, <1>2 DEF Reads

(* A modifier goes up.                                                     *)
LEMMA ReadsBreak ==
    ASSUME NEW t \in Boards, NEW c \in {"unlshift", "unrshift", "unctrl", "unalt"}
    PROVE  LET u == Reads(t, c)
           IN  /\ u.mode = t.mode \ {BitOf(t, c)} /\ BitOf(t, c) \in Modifiers
               /\ u.leds = t.leds /\ u.e0 = 0
<1>1. ModeAfter(t, c) = t.mode \ {BitOf(t, c)} /\ Prefix(c) = 0 /\ LedsAfter(t, c) = t.leds
  BY DEF ModeAfter, Prefix, LedsAfter, Turns
<1>2. BitOf(t, c) \in Modifiers
  BY DEF BitOf, Modifiers
<1> QED
  BY <1>1, <1>2 DEF Reads

(* Where nothing but another light changes.                                *)
Like(t, u) == u.mode = t.mode /\ ("caps" \in u.leds <=> "caps" \in t.leds) /\ u.e0 = 0

LEMMA RestsOn ==
    ASSUME NEW t, NEW u \in Boards, NEW held, NEW after, NEW lock, Rests(t, held, lock), Like(t, u),
           after \cap (Modifiers \cup {"home", "caps"}) = held \cap (Modifiers \cup {"home", "caps"})
    PROVE  Rests(u, after, lock)
<1>1. \A m \in Modifiers \cup {"home", "caps"} : m \in after <=> m \in held
  OBVIOUS
<1> QED
  BY <1>1 DEF Rests, Like

(* Caps lock goes down: it turns once, however long it is held.            *)
LEMMA ReadsCaps ==
    ASSUME NEW t, NEW u, u = Reads(t, "caps"), NEW held, NEW lock \in BOOLEAN,
           Rests(t, held, lock), u \in Boards
    PROVE  /\ "caps" \notin held => Rests(u, held \cup {"caps"}, ~lock)
           /\ "caps" \in held => Like(t, u)
<1>1. u.mode = ModeAfter(t, "caps") /\ u.leds = LedsAfter(t, "caps") /\ u.e0 = 0
  BY DEF Reads, Prefix
<1>2. "caps" \notin Modifiers /\ "caps_down" \notin Modifiers
  BY DEF Modifiers
<1>3. ASSUME "caps" \notin held
      PROVE  Rests(u, held \cup {"caps"}, ~lock)
  <2>1. /\ u.mode = SymDiff(t.mode, {"caps"}) \cup {"caps_down"}
        /\ u.leds = SymDiff(t.leds, {"caps"})
    BY <1>1, <1>3 DEF Rests, ModeAfter, LedsAfter, Turns
  <2>2. /\ \A m \in Modifiers : m \in u.mode <=> m \in t.mode
        /\ "caps_down" \in u.mode
        /\ "caps" \in u.mode <=> "caps" \notin t.mode
        /\ "caps" \in u.leds <=> "caps" \notin t.leds
    BY <1>2, <2>1 DEF SymDiff
  <2>3. /\ \A m \in Modifiers : m \in held \cup {"caps"} <=> m \in held
        /\ "home" \in held \cup {"caps"} <=> "home" \in held
    BY <1>2
  <2>4. \A m \in Modifiers : m \in u.mode <=> m \in held \cup {"caps"}
                                       \/ (m = "lshift" /\ "home" \in held \cup {"caps"})
    BY <2>2, <2>3 DEF Rests
  <2> QED
    BY <1>1, <2>2, <2>4 DEF Rests
<1>4. ASSUME "caps" \in held
      PROVE  Like(t, u)
  <2>1. u.mode = t.mode /\ u.leds = t.leds
    BY <1>1, <1>4 DEF Rests, ModeAfter, LedsAfter, Turns
  <2> QED
    BY <1>1, <2>1 DEF Like
<1> QED
  BY <1>3, <1>4

(* It goes up.                                                             *)
LEMMA ReadsUncaps ==
    ASSUME NEW t, NEW u, u = Reads(t, "uncaps"), NEW held, NEW lock, Rests(t, held, lock),
           u \in Boards
    PROVE  Rests(u, held \ {"caps"}, lock)
<1>1. u.mode = t.mode \ {"caps_down"} /\ u.leds = t.leds /\ u.e0 = 0
  <2>1. ModeAfter(t, "uncaps") = t.mode \ {"caps_down"}
    BY DEF ModeAfter, Turns
  <2>2. LedsAfter(t, "uncaps") = t.leds /\ Prefix("uncaps") = 0
    BY DEF Prefix, LedsAfter, Turns
  <2> QED
    BY <2>1, <2>2 DEF Reads
<1>2. "caps" \notin Modifiers /\ "caps_down" \notin Modifiers
  BY DEF Modifiers
<1>3. \A m \in Modifiers : m \in u.mode <=> m \in held \ {"caps"}
                                     \/ (m = "lshift" /\ "home" \in held \ {"caps"})
  BY <1>1, <1>2 DEF Rests
<1> QED
  BY <1>1, <1>3 DEF Rests

(* A modifier, or the shift around the grey key, goes down.                *)
LEMMA RestsDown ==
    ASSUME NEW t, NEW u \in Boards, NEW held, NEW lock, Rests(t, held, lock),
           NEW m \in Modifiers, NEW k, k = m \/ (k = "home" /\ m = "lshift"),
           u.mode = t.mode \cup {m}, "caps" \in u.leds <=> "caps" \in t.leds, u.e0 = 0
    PROVE  Rests(u, held \cup {k}, lock)
<1>1. "caps" \notin Modifiers /\ "caps_down" \notin Modifiers /\ "home" \notin Modifiers
  BY DEF Modifiers
<1>2. "caps" \in held \cup {k} <=> "caps" \in held
  BY <1>1
<1>3. \A b \in Modifiers :
         b \in u.mode <=> b \in held \cup {k} \/ (b = "lshift" /\ "home" \in held \cup {k})
  BY <1>1 DEF Rests
<1> QED
  BY <1>1, <1>2, <1>3 DEF Rests

(* It goes up.                                                             *)
LEMMA RestsUp ==
    ASSUME NEW t, NEW u \in Boards, NEW held, NEW lock, Rests(t, held, lock),
           NEW m \in Modifiers, NEW k, k = m \/ (k = "home" /\ m = "lshift"),
           "home" \notin held \/ "lshift" \notin held, k \in held,
           u.mode = t.mode \ {m}, "caps" \in u.leds <=> "caps" \in t.leds, u.e0 = 0
    PROVE  Rests(u, held \ {k}, lock)
<1>1. "caps" \notin Modifiers /\ "caps_down" \notin Modifiers /\ "home" \notin Modifiers
  BY DEF Modifiers
<1>2. "caps" \in held \ {k} <=> "caps" \in held
  BY <1>1
<1>3. \A b \in Modifiers :
         b \in u.mode <=> b \in held \ {k} \/ (b = "lshift" /\ "home" \in held \ {k})
  BY <1>1 DEF Rests
<1> QED
  BY <1>1, <1>2, <1>3 DEF Rests

(* Reading all of b takes the board s to one that rests.                   *)
Settles(s, b, held, lock) == \E t \in Boards : Leads(s, b, t) /\ Rests(t, held, lock)

(* What each key sends when it goes down.                                  *)
LEMMA Pressed ==
    ASSUME NEW s \in Boards, NEW b \in Seq(Codes),
           NEW used \in KEY_SETS, NEW held \in SUBSET used, NEW lock \in BOOLEAN,
           Settles(s, b, held, lock), NEW k \in used, k \notin held,
           NEW turned, turned = IF k = "caps" THEN ~lock ELSE lock
    PROVE  Settles(s, b \o Makes[k], held \cup {k}, turned)
<1> DEFINE codes == Makes[k]
           more == held \cup {k}
           Goal == \E u \in Boards : Leads(s, b \o codes, u) /\ Rests(u, more, turned)
<1> SUFFICES ASSUME NEW t \in Boards, Leads(s, b, t), Rests(t, held, lock)
             PROVE  Goal
  BY DEF Settles
<1>1. t.e0 = 0 /\ \A c \in {"lshift", "rshift", "ctrl", "alt", "caps", "num", "scroll", "do_self",
                            "func", "none", "cursor", "unctrl", "E0", "E1"} : c \in Codes
  BY DEF Rests, Codes
<1>2. ASSUME NEW c \in {"lshift", "rshift", "ctrl", "alt"}, Makes[k] = <<c>>, k = BitOf(t, c)
      PROVE  Goal
  <2> DEFINE u == Reads(t, c)
  <2>1. Leads(s, b \o <<c>>, u) /\ u \in Boards
    BY <1>1, Sends1
  <2>2. /\ u.mode = t.mode \cup {BitOf(t, c)} /\ BitOf(t, c) \in Modifiers
        /\ u.leds = t.leds /\ u.e0 = 0
    BY ReadsMake
  <2> HIDE DEF u
  <2>3. Rests(u, more, lock)
    BY <1>2, <2>1, <2>2, RestsDown
  <2>4. k # "caps"
    BY <1>2, <2>2 DEF Modifiers
  <2> QED
    BY <1>2, <2>1, <2>3, <2>4
<1>3. ASSUME NEW c \in {"ctrl", "alt"}, Makes[k] = <<"E0", c>>,
             k = IF c = "ctrl" THEN "rctrl" ELSE "ralt"
      PROVE  Goal
  <2> DEFINE v == Reads(t, "E0")
             u == Reads(v, c)
  <2>1. Leads(s, b \o <<"E0", c>>, u) /\ u \in Boards /\ v \in Boards
    BY <1>1, Sends2
  <2>2. v.mode = t.mode /\ v.leds = t.leds /\ v.e0 # 0
    BY ReadsPrefix
  <2> HIDE DEF v
  <2>3. /\ u.mode = t.mode \cup {BitOf(v, c)} /\ BitOf(v, c) \in Modifiers
        /\ u.leds = t.leds /\ u.e0 = 0
    BY <2>1, <2>2, ReadsMake
  <2>4. BitOf(v, c) = k
    BY <1>3, <2>2 DEF BitOf
  <2> HIDE DEF u
  <2>5. Rests(u, more, lock)
    BY <2>1, <2>3, <2>4, RestsDown
  <2>6. k # "caps"
    BY <1>3
  <2> QED
    BY <1>3, <2>1, <2>5, <2>6
<1>4. ASSUME NEW c \in {"num", "scroll", "do_self", "func"}, Makes[k] = <<c>>,
             k \in {"num", "scroll", "letter", "f1"}
      PROVE  Goal
  <2> DEFINE u == Reads(t, c)
  <2>1. Leads(s, b \o <<c>>, u) /\ u \in Boards
    BY <1>1, Sends1
  <2>2. Like(t, u)
    BY ReadsOther DEF Like
  <2> HIDE DEF u
  <2>3. more \cap (Modifiers \cup {"home", "caps"}) = held \cap (Modifiers \cup {"home", "caps"})
    BY <1>4 DEF Modifiers
  <2>4. Rests(u, more, lock)
    BY <2>1, <2>2, <2>3, RestsOn
  <2>5. k # "caps"
    BY <1>4
  <2> QED
    BY <1>4, <2>1, <2>4, <2>5
<1>5. ASSUME k = "home"
      PROVE  Goal
  <2> DEFINE v == Reads(t, "E0")
             w == Reads(v, "lshift")
             x == Reads(w, "E0")
             u == Reads(x, "cursor")
  <2>1. /\ Leads(s, b \o <<"E0", "lshift", "E0", "cursor">>, u)
        /\ u \in Boards /\ v \in Boards /\ w \in Boards /\ x \in Boards
    BY <1>1, Sends4
  <2>2. v.mode = t.mode /\ v.leds = t.leds
    BY ReadsPrefix
  <2>3. x.mode = w.mode /\ x.leds = w.leds
    BY <2>1, ReadsPrefix
  <2> HIDE DEF v
  <2>4. w.mode = v.mode \cup {BitOf(v, "lshift")} /\ w.leds = v.leds
    BY <2>1, ReadsMake
  <2>5. BitOf(v, "lshift") = "lshift"
    BY DEF BitOf
  <2> HIDE DEF w, x
  <2>6. u.mode = x.mode /\ ("caps" \in u.leds <=> "caps" \in x.leds) /\ u.e0 = 0
    BY <2>1, ReadsOther
  <2> HIDE DEF u
  <2>7. u.mode = t.mode \cup {"lshift"} /\ ("caps" \in u.leds <=> "caps" \in t.leds)
    BY <2>2, <2>3, <2>4, <2>5, <2>6
  <2>8. "lshift" \in Modifiers
    BY DEF Modifiers
  <2>9. Rests(u, more, lock)
    BY <1>5, <2>1, <2>6, <2>7, <2>8, RestsDown
  <2>10. Makes[k] = <<"E0", "lshift", "E0", "cursor">> /\ k # "caps"
    BY <1>5, Tables
  <2> QED
    BY <2>1, <2>9, <2>10
<1>6. ASSUME k = "caps"
      PROVE  Goal
  <2> DEFINE u == Reads(t, "caps")
  <2>1. Leads(s, b \o <<"caps">>, u) /\ u \in Boards
    BY <1>1, Sends1
  <2>2. Rests(u, held \cup {"caps"}, ~lock)
    BY <1>6, <2>1, ReadsCaps
  <2>3. Makes[k] = <<"caps">>
    BY <1>6, Tables
  <2> HIDE DEF u
  <2> QED
    BY <1>6, <2>1, <2>2, <2>3
<1>7. ASSUME k = "pause"
      PROVE  Goal
  <2> DEFINE v == Reads(t, "E1")
             w == Reads(v, "ctrl")
             x == Reads(w, "num")
             y == Reads(x, "E1")
             z == Reads(y, "unctrl")
             u == Reads(z, "none")
  <2>1. /\ Leads(s, b \o <<"E1", "ctrl", "num", "E1", "unctrl", "none">>, u)
        /\ u \in Boards /\ v \in Boards /\ w \in Boards /\ x \in Boards
        /\ y \in Boards /\ z \in Boards
    <3>1. "E1" \in Codes /\ "ctrl" \in Codes /\ "num" \in Codes /\ "unctrl" \in Codes /\ "none" \in Codes
      BY <1>1
    <3>2. /\ v = Reads(t, "E1") /\ w = Reads(v, "ctrl") /\ x = Reads(w, "num")
          /\ y = Reads(x, "E1") /\ z = Reads(y, "unctrl") /\ u = Reads(z, "none")
      OBVIOUS
    <3> HIDE DEF u, v, w, x, y, z
    <3> QED
      BY <3>1, <3>2, Sends6
  <2>2. v.mode = t.mode /\ v.leds = t.leds /\ v.e0 # 0
    BY ReadsPrefix
  <2> HIDE DEF v
  <2>3. w.mode = v.mode \cup {BitOf(v, "ctrl")} /\ w.leds = v.leds
    BY <2>1, ReadsMake
  <2> HIDE DEF w
  <2>4. x.mode = w.mode /\ ("caps" \in x.leds <=> "caps" \in w.leds)
    BY <2>1, ReadsOther
  <2> HIDE DEF x
  <2>5. y.mode = x.mode /\ y.leds = x.leds /\ y.e0 # 0
    BY <2>1, ReadsPrefix
  <2> HIDE DEF y
  <2>6. z.mode = y.mode \ {BitOf(y, "unctrl")} /\ z.leds = y.leds
    BY <2>1, ReadsBreak
  <2> HIDE DEF z
  <2>7. u.mode = z.mode /\ ("caps" \in u.leds <=> "caps" \in z.leds) /\ u.e0 = 0
    BY <2>1, ReadsOther
  <2> HIDE DEF u
  <2>8. BitOf(v, "ctrl") = "rctrl" /\ BitOf(y, "unctrl") = "rctrl"
    BY <2>2, <2>5 DEF BitOf
  <2>9. "rctrl" \notin t.mode
    <3>1. "rctrl" \notin used
      BY <1>7, KeyboardAssumption
    <3>2. "rctrl" \in Modifiers /\ "rctrl" # "lshift"
      BY DEF Modifiers
    <3> QED
      BY <3>1, <3>2 DEF Rests
  <2>10. Like(t, u)
    BY <2>2, <2>3, <2>4, <2>5, <2>6, <2>7, <2>8, <2>9 DEF Like
  <2>11. more \cap (Modifiers \cup {"home", "caps"}) = held \cap (Modifiers \cup {"home", "caps"})
    BY <1>7 DEF Modifiers
  <2>12. Rests(u, more, lock)
    BY <2>1, <2>10, <2>11, RestsOn
  <2>13. Makes[k] = <<"E1", "ctrl", "num", "E1", "unctrl", "none">> /\ k # "caps"
    BY <1>7, Tables
  <2> QED
    BY <2>1, <2>12, <2>13
<1>8. k \in DOMAIN Makes
  BY KeyboardAssumption
<1>9. BitOf(t, "lshift") = "lshift" /\ BitOf(t, "rshift") = "rshift"
  BY DEF BitOf
<1>10. BitOf(t, "ctrl") = "lctrl" /\ BitOf(t, "alt") = "lalt"
  BY <1>1 DEF BitOf
<1>11. CASE k \in {"lshift", "rshift", "lctrl", "lalt"}
  <2>1. k = "lshift" => Goal
    BY <1>2, <1>9, Tables
  <2>2. k = "rshift" => Goal
    BY <1>2, <1>9, Tables
  <2>3. k = "lctrl" => Goal
    BY <1>2, <1>10, Tables
  <2>4. k = "lalt" => Goal
    BY <1>2, <1>10, Tables
  <2> QED
    BY <1>11, <2>1, <2>2, <2>3, <2>4
<1>12. CASE k \in {"rctrl", "ralt"}
  <2>1. k = "rctrl" => Goal
    BY <1>3, Tables
  <2>2. k = "ralt" => Goal
    BY <1>3, Tables
  <2> QED
    BY <1>12, <2>1, <2>2
<1>13. CASE k \in {"num", "scroll", "letter", "f1"}
  <2>1. k = "num" => Goal
    BY <1>4, Tables
  <2>2. k = "scroll" => Goal
    BY <1>4, Tables
  <2>3. k = "letter" => Goal
    BY <1>4, Tables
  <2>4. k = "f1" => Goal
    BY <1>4, Tables
  <2> QED
    BY <1>13, <2>1, <2>2, <2>3, <2>4
<1>14. Goal
  BY <1>5, <1>6, <1>7, <1>8, <1>11, <1>12, <1>13, Tables
<1> QED
  BY <1>14

(* What a key sends that is held changes nothing.                          *)
LEMMA Repeated ==
    ASSUME NEW s \in Boards, NEW b \in Seq(Codes),
           NEW used \in KEY_SETS, NEW held \in SUBSET used, NEW lock \in BOOLEAN,
           Settles(s, b, held, lock), NEW k \in held, k # "pause",
           NEW codes, codes = IF k = "home" THEN <<"E0", "cursor">> ELSE Makes[k]
    PROVE  Settles(s, b \o codes, held, lock)
<1> SUFFICES ASSUME NEW t \in Boards, Leads(s, b, t), Rests(t, held, lock)
             PROVE  \E u \in Boards : Leads(s, b \o codes, u) /\ Rests(u, held, lock)
  BY DEF Settles
<1> DEFINE Goal == \E u \in Boards : Leads(s, b \o codes, u) /\ Like(t, u)
<1>1. t.e0 = 0 /\ \A c \in {"lshift", "rshift", "ctrl", "alt", "caps", "num", "scroll", "do_self",
                            "func", "cursor", "E0"} : c \in Codes
  BY DEF Rests, Codes
<1>2. ASSUME NEW c \in {"lshift", "rshift", "ctrl", "alt"}, codes = <<c>>, k = BitOf(t, c)
      PROVE  Goal
  <2> DEFINE u == Reads(t, c)
  <2>1. Leads(s, b \o <<c>>, u) /\ u \in Boards
    BY <1>1, Sends1
  <2>2. /\ u.mode = t.mode \cup {BitOf(t, c)} /\ BitOf(t, c) \in Modifiers
        /\ u.leds = t.leds /\ u.e0 = 0
    BY ReadsMake
  <2>3. k \in t.mode
    BY <1>2, <2>2 DEF Rests
  <2> HIDE DEF u
  <2>4. Like(t, u)
    BY <1>2, <2>2, <2>3 DEF Like
  <2> QED
    BY <1>2, <2>1, <2>4
<1>3. ASSUME NEW c \in {"ctrl", "alt"}, codes = <<"E0", c>>,
             k = IF c = "ctrl" THEN "rctrl" ELSE "ralt"
      PROVE  Goal
  <2> DEFINE v == Reads(t, "E0")
             u == Reads(v, c)
  <2>1. Leads(s, b \o <<"E0", c>>, u) /\ u \in Boards /\ v \in Boards
    BY <1>1, Sends2
  <2>2. v.mode = t.mode /\ v.leds = t.leds /\ v.e0 # 0
    BY ReadsPrefix
  <2> HIDE DEF v
  <2>3. /\ u.mode = t.mode \cup {BitOf(v, c)} /\ BitOf(v, c) \in Modifiers
        /\ u.leds = t.leds /\ u.e0 = 0
    BY <2>1, <2>2, ReadsMake
  <2>4. BitOf(v, c) = k
    BY <1>3, <2>2 DEF BitOf
  <2>5. k \in t.mode
    BY <2>3, <2>4 DEF Rests
  <2> HIDE DEF u
  <2>6. Like(t, u)
    BY <2>3, <2>4, <2>5 DEF Like
  <2> QED
    BY <1>3, <2>1, <2>6
<1>4. ASSUME NEW c \in {"num", "scroll", "do_self", "func"}, codes = <<c>>
      PROVE  Goal
  <2> DEFINE u == Reads(t, c)
  <2>1. Leads(s, b \o <<c>>, u) /\ u \in Boards
    BY <1>1, Sends1
  <2>2. Like(t, u)
    BY ReadsOther DEF Like
  <2> HIDE DEF u
  <2> QED
    BY <1>4, <2>1, <2>2
<1>5. ASSUME k = "home"
      PROVE  Goal
  <2> DEFINE v == Reads(t, "E0")
             u == Reads(v, "cursor")
  <2>1. Leads(s, b \o <<"E0", "cursor">>, u) /\ u \in Boards /\ v \in Boards
    BY <1>1, Sends2
  <2>2. v.mode = t.mode /\ v.leds = t.leds
    BY ReadsPrefix
  <2> HIDE DEF v
  <2>3. u.mode = v.mode /\ ("caps" \in u.leds <=> "caps" \in v.leds) /\ u.e0 = 0
    BY <2>1, ReadsOther
  <2> HIDE DEF u
  <2>4. Like(t, u)
    BY <2>2, <2>3 DEF Like
  <2> QED
    BY <1>5, <2>1, <2>4
<1>6. ASSUME k = "caps"
      PROVE  Goal
  <2> DEFINE u == Reads(t, "caps")
  <2>1. Leads(s, b \o <<"caps">>, u) /\ u \in Boards
    BY <1>1, Sends1
  <2>2. Like(t, u)
    BY <1>6, <2>1, ReadsCaps
  <2>3. codes = <<"caps">>
    BY <1>6, Tables
  <2> HIDE DEF u
  <2> QED
    BY <2>1, <2>2, <2>3
<1>7. k \in DOMAIN Makes
  BY KeyboardAssumption
<1>8. BitOf(t, "lshift") = "lshift" /\ BitOf(t, "rshift") = "rshift"
  BY DEF BitOf
<1>9. BitOf(t, "ctrl") = "lctrl" /\ BitOf(t, "alt") = "lalt"
  BY <1>1 DEF BitOf
<1>10. k # "home" => codes = Makes[k]
  OBVIOUS
<1>11. ASSUME k \in {"lshift", "rshift", "lctrl", "lalt"}
       PROVE  Goal
  <2>1. k = "lshift" => Goal
    BY <1>2, <1>8, <1>10, Tables
  <2>2. k = "rshift" => Goal
    BY <1>2, <1>8, <1>10, Tables
  <2>3. k = "lctrl" => Goal
    BY <1>2, <1>9, <1>10, Tables
  <2>4. k = "lalt" => Goal
    BY <1>2, <1>9, <1>10, Tables
  <2> QED
    BY <1>11, <2>1, <2>2, <2>3, <2>4
<1>12. ASSUME k \in {"rctrl", "ralt"}
       PROVE  Goal
  <2>1. k = "rctrl" => Goal
    BY <1>3, <1>10, Tables
  <2>2. k = "ralt" => Goal
    BY <1>3, <1>10, Tables
  <2> QED
    BY <1>12, <2>1, <2>2
<1>13. ASSUME k \in {"num", "scroll", "letter", "f1"}
       PROVE  Goal
  <2>1. k = "num" => Goal
    BY <1>4, <1>10, Tables
  <2>2. k = "scroll" => Goal
    BY <1>4, <1>10, Tables
  <2>3. k = "letter" => Goal
    BY <1>4, <1>10, Tables
  <2>4. k = "f1" => Goal
    BY <1>4, <1>10, Tables
  <2> QED
    BY <1>13, <2>1, <2>2, <2>3, <2>4
<1>14. Goal
  BY <1>5, <1>6, <1>7, <1>11, <1>12, <1>13, Tables
<1>15. PICK u \in Boards : Leads(s, b \o codes, u) /\ Like(t, u)
  BY <1>14
<1>16. Rests(u, held, lock)
  BY <1>15, RestsOn
<1> QED
  BY <1>15, <1>16

(* What each key sends when it goes up.                                    *)
LEMMA Released ==
    ASSUME NEW s \in Boards, NEW b \in Seq(Codes),
           NEW used \in KEY_SETS, NEW held \in SUBSET used, NEW lock \in BOOLEAN,
           Settles(s, b, held, lock), NEW k \in held
    PROVE  Settles(s, b \o Breaks[k], held \ {k}, lock)
<1> DEFINE codes == Breaks[k]
           less == held \ {k}
           Goal == \E u \in Boards : Leads(s, b \o codes, u) /\ Rests(u, less, lock)
<1> SUFFICES ASSUME NEW t \in Boards, Leads(s, b, t), Rests(t, held, lock)
             PROVE  Goal
  BY DEF Settles
<1>1. t.e0 = 0 /\ \A c \in {"unlshift", "unrshift", "unctrl", "unalt", "uncaps", "none", "E0"} :
                       c \in Codes
  BY DEF Rests, Codes
<1>2. "home" \notin held \/ "lshift" \notin held
  BY KeyboardAssumption
<1>3. ASSUME NEW c \in {"unlshift", "unrshift", "unctrl", "unalt"}, Breaks[k] = <<c>>,
             k = BitOf(t, c)
      PROVE  Goal
  <2> DEFINE u == Reads(t, c)
  <2>1. Leads(s, b \o <<c>>, u) /\ u \in Boards
    BY <1>1, Sends1
  <2>2. /\ u.mode = t.mode \ {BitOf(t, c)} /\ BitOf(t, c) \in Modifiers
        /\ u.leds = t.leds /\ u.e0 = 0
    BY ReadsBreak
  <2> HIDE DEF u
  <2>3. Rests(u, less, lock)
    BY <1>2, <1>3, <2>1, <2>2, RestsUp
  <2> QED
    BY <1>3, <2>1, <2>3
<1>4. ASSUME NEW c \in {"unctrl", "unalt"}, Breaks[k] = <<"E0", c>>,
             k = IF c = "unctrl" THEN "rctrl" ELSE "ralt"
      PROVE  Goal
  <2> DEFINE v == Reads(t, "E0")
             u == Reads(v, c)
  <2>1. Leads(s, b \o <<"E0", c>>, u) /\ u \in Boards /\ v \in Boards
    BY <1>1, Sends2
  <2>2. v.mode = t.mode /\ v.leds = t.leds /\ v.e0 # 0
    BY ReadsPrefix
  <2> HIDE DEF v
  <2>3. /\ u.mode = t.mode \ {BitOf(v, c)} /\ BitOf(v, c) \in Modifiers
        /\ u.leds = t.leds /\ u.e0 = 0
    BY <2>1, <2>2, ReadsBreak
  <2>4. BitOf(v, c) = k
    BY <1>4, <2>2 DEF BitOf
  <2> HIDE DEF u
  <2>5. Rests(u, less, lock)
    BY <1>2, <2>1, <2>3, <2>4, RestsUp
  <2> QED
    BY <1>4, <2>1, <2>5
<1>5. ASSUME Breaks[k] = <<"none">>, k \in {"num", "scroll", "letter", "f1"}
      PROVE  Goal
  <2> DEFINE u == Reads(t, "none")
  <2>1. Leads(s, b \o <<"none">>, u) /\ u \in Boards
    BY <1>1, Sends1
  <2>2. Like(t, u)
    BY ReadsOther DEF Like
  <2> HIDE DEF u
  <2>3. less \cap (Modifiers \cup {"home", "caps"}) = held \cap (Modifiers \cup {"home", "caps"})
    BY <1>5 DEF Modifiers
  <2>4. Rests(u, less, lock)
    BY <2>1, <2>2, <2>3, RestsOn
  <2> QED
    BY <1>5, <2>1, <2>4
<1>6. ASSUME k = "home"
      PROVE  Goal
  <2> DEFINE v == Reads(t, "E0")
             w == Reads(v, "none")
             x == Reads(w, "E0")
             u == Reads(x, "unlshift")
  <2>1. /\ Leads(s, b \o <<"E0", "none", "E0", "unlshift">>, u)
        /\ u \in Boards /\ v \in Boards /\ w \in Boards /\ x \in Boards
    BY <1>1, Sends4
  <2>2. v.mode = t.mode /\ v.leds = t.leds
    BY ReadsPrefix
  <2>3. w.mode = v.mode /\ ("caps" \in w.leds <=> "caps" \in v.leds)
    BY <2>1, ReadsOther
  <2>4. x.mode = w.mode /\ x.leds = w.leds
    BY <2>1, ReadsPrefix
  <2> HIDE DEF v, w, x
  <2>5. u.mode = x.mode \ {BitOf(x, "unlshift")} /\ u.leds = x.leds /\ u.e0 = 0
    BY <2>1, ReadsBreak
  <2>6. BitOf(x, "unlshift") = "lshift"
    BY DEF BitOf
  <2> HIDE DEF u
  <2>7. u.mode = t.mode \ {"lshift"} /\ ("caps" \in u.leds <=> "caps" \in t.leds)
    BY <2>2, <2>3, <2>4, <2>5, <2>6
  <2>8. "lshift" \in Modifiers
    BY DEF Modifiers
  <2>9. Rests(u, less, lock)
    BY <1>2, <1>6, <2>1, <2>5, <2>7, <2>8, RestsUp
  <2>10. Breaks[k] = <<"E0", "none", "E0", "unlshift">>
    BY <1>6, Tables
  <2> QED
    BY <2>1, <2>9, <2>10
<1>7. ASSUME k = "caps"
      PROVE  Goal
  <2> DEFINE u == Reads(t, "uncaps")
  <2>1. Leads(s, b \o <<"uncaps">>, u) /\ u \in Boards
    BY <1>1, Sends1
  <2>2. Rests(u, less, lock)
    BY <1>7, <2>1, ReadsUncaps
  <2>3. Breaks[k] = <<"uncaps">>
    BY <1>7, Tables
  <2> HIDE DEF u
  <2> QED
    BY <2>1, <2>2, <2>3
<1>8. ASSUME k = "pause"
      PROVE  Goal
  <2>1. Breaks[k] = <<>>
    BY <1>8, Tables
  <2>2. b \o <<>> = b
    BY ConcatEmptySeq
  <2>3. Like(t, t)
    BY <1>1 DEF Like
  <2>4. less \cap (Modifiers \cup {"home", "caps"}) = held \cap (Modifiers \cup {"home", "caps"})
    BY <1>8 DEF Modifiers
  <2>5. Rests(t, less, lock)
    BY <2>3, <2>4, RestsOn
  <2> QED
    BY <2>1, <2>2, <2>5
<1>9. k \in DOMAIN Makes
  BY KeyboardAssumption
<1>10. BitOf(t, "unlshift") = "lshift" /\ BitOf(t, "unrshift") = "rshift"
  BY DEF BitOf
<1>11. BitOf(t, "unctrl") = "lctrl" /\ BitOf(t, "unalt") = "lalt"
  BY <1>1 DEF BitOf
<1>12. CASE k \in {"lshift", "rshift", "lctrl", "lalt"}
  <2>1. k = "lshift" => Goal
    BY <1>3, <1>10, Tables
  <2>2. k = "rshift" => Goal
    BY <1>3, <1>10, Tables
  <2>3. k = "lctrl" => Goal
    BY <1>3, <1>11, Tables
  <2>4. k = "lalt" => Goal
    BY <1>3, <1>11, Tables
  <2> QED
    BY <1>12, <2>1, <2>2, <2>3, <2>4
<1>13. CASE k \in {"rctrl", "ralt"}
  <2>1. k = "rctrl" => Goal
    BY <1>4, Tables
  <2>2. k = "ralt" => Goal
    BY <1>4, Tables
  <2> QED
    BY <1>13, <2>1, <2>2
<1>14. CASE k \in {"num", "scroll", "letter", "f1"}
  BY <1>5, <1>14, Tables
<1>15. Goal
  BY <1>6, <1>7, <1>8, <1>9, <1>12, <1>13, <1>14, Tables
<1> QED
  BY <1>15

(***************************************************************************)
(* The inductive invariant of the keyboard.  Reading the codes that are in *)
(* the buffer takes the routines from where they are to the modes of the   *)
(* keys that are held.  The handler of a code that prints puts the prefix  *)
(* back at its end, before another code can be read.                       *)
(***************************************************************************)
Now == [mode |-> mode, leds |-> leds, e0 |-> IF KEYBOARD \in in_service THEN 0 ELSE e0]

KeyTypes ==
    /\ mode \in SUBSET Bits
    /\ leds \in SUBSET Lights
    /\ e0 \in 0 .. 2
    /\ buffer \in Seq(Codes)
    /\ keys \in KEY_SETS
    /\ down \in SUBSET keys
    /\ locked \in BOOLEAN

KeyboardInv ==
    /\ KeyTypes
    /\ ~cut => Settles(Now, buffer, down, locked)

(* Nothing of what the invariant speaks of changes.                        *)
LEMMA KeyboardStill ==
    ASSUME KeyboardInv, UNCHANGED keyboardVars,
           ~cut' => ~cut /\ (KEYBOARD \in in_service' <=> KEYBOARD \in in_service)
    PROVE  KeyboardInv'
<1>1. /\ mode' = mode /\ leds' = leds /\ e0' = e0 /\ buffer' = buffer
      /\ keys' = keys /\ down' = down /\ locked' = locked
  BY DEF keyboardVars, stateVars, typingVars
<1>2. KeyTypes'
  BY <1>1 DEF KeyboardInv, KeyTypes
<1>3. ASSUME ~cut'
      PROVE  Now' = Now
  BY <1>1, <1>3 DEF Now
<1> QED
  BY <1>1, <1>2, <1>3 DEF KeyboardInv

(* The board is one.                                                       *)
LEMMA NowIsBoard ==
    ASSUME KeyTypes
    PROVE  Now \in Boards
<1>1. (IF KEYBOARD \in in_service THEN 0 ELSE e0) \in 0 .. 2
  BY DEF KeyTypes
<1> QED
  BY <1>1 DEF KeyTypes, Now, Boards

(* A code is read only when nothing is in service.                         *)
LEMMA NothingInService ==
    ASSUME in_service \in SUBSET {TIMER, KEYBOARD}, Taken(KEYBOARD)
    PROVE  in_service = {}
  BY DEF Taken, TIMER, KEYBOARD

(* A code is read.                                                         *)
LEMMA KeyIsRead ==
    ASSUME KeyboardInv, in_service = {}, ReadCode, UNCHANGED typingVars, cut' = cut,
           e0' \in 0 .. 2,
           KEYBOARD \notin in_service' => e0' = Prefix(Head(buffer)),
           KEYBOARD \in in_service' => Prefix(Head(buffer)) = 0
    PROVE  KeyboardInv'
<1> DEFINE c == Head(buffer)
<1>1. /\ buffer # <<>> /\ buffer' = Tail(buffer) /\ mode' = NewMode(c) /\ leds' = NewLeds(c)
      /\ keys' = keys /\ down' = down /\ locked' = locked
  BY DEF ReadCode, typingVars
<1>2. KeyTypes /\ Now \in Boards /\ buffer \in Seq(Codes)
  BY NowIsBoard DEF KeyboardInv, KeyTypes
<1>3. Now = [mode |-> mode, leds |-> leds, e0 |-> e0]
  BY DEF Now
<1>4. c \in Codes /\ Tail(buffer) \in Seq(Codes)
  BY <1>1, <1>2, LenProperties, EmptySeq, HeadTailProperties
<1>5. mode' = ModeAfter(Now, c) /\ leds' = LedsAfter(Now, c)
  BY <1>1, <1>3, <1>4, SameMode
<1>6. Now' = Reads(Now, c)
  <2>1. (IF KEYBOARD \in in_service' THEN 0 ELSE e0') = Prefix(c)
    OBVIOUS
  <2>2. Now' = [mode |-> mode', leds |-> leds', e0 |-> IF KEYBOARD \in in_service' THEN 0 ELSE e0']
    BY DEF Now
  <2> HIDE DEF c
  <2> QED
    BY <1>5, <2>1, <2>2 DEF Reads
<1>7. Now' \in Boards
  BY <1>2, <1>4, <1>6, ReadsTyped
<1>8. KeyTypes'
  <2>1. mode' \in SUBSET Bits /\ leds' \in SUBSET Lights
    BY <1>7 DEF Now, Boards
  <2> QED
    BY <1>1, <1>2, <1>4, <2>1 DEF KeyTypes
<1>9. ASSUME ~cut'
      PROVE  Settles(Now', buffer', down', locked')
  <2>1. PICK t \in Boards : Leads(Now, buffer, t) /\ Rests(t, down, locked)
    BY <1>9 DEF KeyboardInv, Settles
  <2>2. Leads(Reads(Now, c), Tail(buffer), t)
    BY <1>1, <1>2, <2>1, ReadFirst
  <2> HIDE DEF c
  <2> QED
    BY <1>1, <1>6, <2>1, <2>2 DEF Settles
<1> HIDE DEF c
<1> QED
  BY <1>8, <1>9 DEF KeyboardInv

(* Somebody does something with a key.                                     *)
LEMMA KeyIsUsed ==
    ASSUME KeyboardInv, Typing, UNCHANGED <<in_service, cut>>
    PROVE  KeyboardInv'
<1>1. PICK k \in keys : Press(k) \/ Repeat(k) \/ Release(k)
  BY DEF Typing
<1>2. /\ mode' = mode /\ leds' = leds /\ e0' = e0 /\ keys' = keys
      /\ in_service' = in_service /\ cut' = cut
  BY <1>1 DEF Press, Repeat, Release, Sends, stateVars
<1>3. Now' = Now
  BY <1>2 DEF Now
<1>4. KeyTypes /\ Now \in Boards /\ buffer \in Seq(Codes) /\ keys \in KEY_SETS
      /\ down \in SUBSET keys /\ locked \in BOOLEAN
  BY NowIsBoard DEF KeyboardInv, KeyTypes
<1>5. k \in DOMAIN Makes
  BY <1>4, KeyboardAssumption
<1>6. ASSUME NEW codes \in Seq(Codes), buffer' = buffer \o codes,
             down' \in SUBSET keys, locked' \in BOOLEAN,
             ~cut => Settles(Now, buffer \o codes, down', locked')
      PROVE  KeyboardInv'
  <2>1. buffer \o codes \in Seq(Codes)
    BY <1>4, <1>6, ConcatProperties
  <2>2. KeyTypes'
    BY <1>2, <1>4, <1>6, <2>1 DEF KeyTypes
  <2> QED
    BY <1>2, <1>3, <1>6, <2>2 DEF KeyboardInv
<1>7. ~cut => Settles(Now, buffer, down, locked)
  BY DEF KeyboardInv
<1>8. CASE Press(k)
  <2>1. /\ k \notin down /\ buffer' = buffer \o Makes[k] /\ down' = down \cup {k}
        /\ locked' = (locked # (k = "caps"))
    BY <1>8 DEF Press, Sends
  <2>2. Makes[k] \in Seq(Codes)
    BY <1>5, KeysSendCodes
  <2>3. locked' = (IF k = "caps" THEN ~locked ELSE locked) /\ locked' \in BOOLEAN
    BY <1>4, <2>1
  <2>4. ~cut => Settles(Now, buffer \o Makes[k], down \cup {k}, locked')
    BY <1>4, <1>7, <2>1, <2>3, Pressed
  <2>5. down' \in SUBSET keys
    BY <1>4, <2>1
  <2> QED
    BY <1>6, <2>1, <2>2, <2>3, <2>4, <2>5
<1>9. CASE Repeat(k)
  <2> DEFINE codes == IF k = "home" THEN <<"E0", "cursor">> ELSE Makes[k]
  <2>1. k \in down /\ k # "pause" /\ buffer' = buffer \o codes /\ down' = down /\ locked' = locked
    BY <1>9 DEF Repeat, Sends
  <2>2. codes \in Seq(Codes)
    <3>1. <<"E0", "cursor">> \in Seq(Codes)
      BY DEF Codes
    <3> QED
      BY <1>5, <3>1, KeysSendCodes
  <2>3. codes = IF k = "home" THEN <<"E0", "cursor">> ELSE Makes[k]
    OBVIOUS
  <2> HIDE DEF codes
  <2>4. ~cut => Settles(Now, buffer \o codes, down, locked)
    BY <1>4, <1>7, <2>1, <2>3, Repeated
  <2>5. down' \in SUBSET keys /\ locked' \in BOOLEAN
    BY <1>4, <2>1
  <2> QED
    BY <1>6, <2>1, <2>2, <2>4, <2>5
<1>10. CASE Release(k)
  <2>1. /\ k \in down /\ buffer' = buffer \o Breaks[k] /\ down' = down \ {k} /\ locked' = locked
    BY <1>10 DEF Release, Sends
  <2>2. Breaks[k] \in Seq(Codes)
    BY <1>5, KeysSendCodes
  <2>3. ~cut => Settles(Now, buffer \o Breaks[k], down \ {k}, locked)
    BY <1>4, <1>7, <2>1, Released
  <2>4. down' \in SUBSET keys /\ locked' \in BOOLEAN
    BY <1>4, <2>1
  <2> QED
    BY <1>6, <2>1, <2>2, <2>3, <2>4
<1> QED
  BY <1>1, <1>8, <1>9, <1>10

(* The handler of a code that prints returns: its interrupt is in service, *)
(* unless another EOI has ended it.                                        *)
LEMMA KeyHandlerReturns ==
    ASSUME MachineInv, S!CurrentIsAlive, KeyboardInv, KeyReturns
    PROVE  KeyboardInv'
<1>1. /\ kernel = "running" /\ LastFrame(stack[current]) = "key"
      /\ mode' = mode /\ leds' = leds /\ e0' = 0 /\ buffer' = buffer
      /\ keys' = keys /\ down' = down /\ locked' = locked /\ cut' = cut
  BY DEF KeyReturns, Top, typingVars
<1>2. KeyTypes'
  BY <1>1 DEF KeyboardInv, KeyTypes
<1>3. ASSUME ~cut'
      PROVE  Now' = Now
  <2> DEFINE n == Len(stack[current])
             K == KeyFrames(stack)
  <2>1. current \in Procs /\ stack[current] \in Stacks
    BY <1>1, Runner DEF MachineInv
  <2>2. stack[current] # <<>> /\ ~Waiting(stack[current])
    BY <1>1 DEF LastFrame, Waiting
  <2>3. n \in Nat /\ n \in KeysOn(stack[current])
    BY <1>1, <2>1, <2>2, Popped
  <2>4. <<current, n>> \in K
    BY <2>1, <2>3 DEF KeyFrames
  <2>5. IsFiniteSet(K) /\ Cardinality(K) = IF KEYBOARD \in in_service THEN 1 ELSE 0
    BY <1>1, <1>3 DEF MachineInv
  <2> HIDE DEF n, K
  <2>6. Cardinality(K) # 0
    BY <2>4, <2>5, FS_EmptySet
  <2>7. KEYBOARD \in in_service
    BY <2>5, <2>6
  <2> QED
    BY <1>1, <2>7 DEF Now
<1> QED
  BY <1>1, <1>2, <1>3 DEF KeyboardInv

(* A code that prints is no prefix.                                        *)
LEMMA PrintsNoPrefix ==
    ASSUME NEW c, TRUE \in Prints(c)
    PROVE  Prefix(c) = 0
<1>1. c \in {"do_self", "cursor", "func"}
  BY DEF Prints
<1> QED
  BY <1>1 DEF Prefix

(* In every reachable state the keyboard keeps its invariant.              *)
THEOREM KeyboardInvariance == Spec => []KeyboardInv
<1>1. Init => KeyboardInv
  <2> SUFFICES ASSUME Init PROVE KeyboardInv
    OBVIOUS
  <2>1. /\ mode = {} /\ leds = {"num"} /\ e0 = 0 /\ buffer = <<>> /\ keys \in KEY_SETS
        /\ down = {} /\ locked = FALSE
    BY DEF Init, KeyboardInit
  <2>2. KeyTypes
    <3>1. {} \in SUBSET Bits /\ {"num"} \in SUBSET Lights /\ 0 \in 0 .. 2
      BY DEF Lights
    <3>2. <<>> \in Seq(Codes) /\ {} \in SUBSET keys /\ FALSE \in BOOLEAN
      OBVIOUS
    <3> QED
      BY <2>1, <3>1, <3>2 DEF KeyTypes
  <2>3. Now \in Boards /\ Now.mode = {} /\ Now.leds = {"num"} /\ Now.e0 = 0
    BY <2>1, <2>2, NowIsBoard DEF Now
  <2>4. Leads(Now, buffer, Now)
    BY <2>1, <2>2, <2>3, NothingToRead DEF KeyTypes
  <2>5. Rests(Now, down, locked)
    BY <2>1, <2>3 DEF Rests
  <2> QED
    BY <2>2, <2>3, <2>4, <2>5 DEF KeyboardInv, Settles
<1>2. MachineInv /\ S!CurrentIsAlive /\ KeyboardInv /\ [Next]_vars => KeyboardInv'
  <2> SUFFICES ASSUME MachineInv, S!CurrentIsAlive, KeyboardInv, [Next]_vars
               PROVE  KeyboardInv'
    OBVIOUS
  <2>1. in_service \in SUBSET {TIMER, KEYBOARD} /\ TIMER # KEYBOARD
    BY DEF MachineInv, TIMER, KEYBOARD
  <2>2. CASE Boot \/ TimerTick \/ do_sys_idle \/ IdleReturns \/ do_sys_exit \/ Stopped
             \/ UNCHANGED vars
    <3>1. UNCHANGED <<keyboardVars, in_service, cut>>
      BY <2>2 DEF Boot, TimerTick, do_sys_idle, IdleReturns, do_sys_exit, Stopped, vars,
                  machineVars
    <3> QED
      BY <3>1, KeyboardStill
  <2>3. CASE TimerSwitches
    <3>1. UNCHANGED <<keyboardVars, cut>> /\ in_service' = in_service \cup {TIMER}
      BY <2>3 DEF TimerSwitches
    <3> QED
      BY <2>1, <3>1, KeyboardStill
  <2>4. CASE TimerReturns \/ start_proc
    <3>1. /\ UNCHANGED keyboardVars /\ cut' = (cut \/ EndsAnother)
          /\ in_service' = EndOfInterrupt(in_service)
      BY <2>4 DEF TimerReturns, start_proc
    <3>2. ~cut' => KEYBOARD \in in_service' <=> KEYBOARD \in in_service
      BY <2>1, <3>1, WhatIsEnded
    <3> QED
      BY <3>1, <3>2, KeyboardStill
  <2>5. CASE KeyHandled
    <3>1. /\ in_service = {} /\ in_service' = {} /\ ReadCode /\ UNCHANGED typingVars
          /\ cut' = cut /\ e0' = Prefix(Head(buffer))
      BY <2>1, <2>5, NothingInService DEF KeyHandled
    <3>2. Prefix(Head(buffer)) \in 0 .. 2
      BY DEF Prefix
    <3> QED
      BY <3>1, <3>2, KeyIsRead
  <2>6. CASE KeyPrinted
    <3>1. /\ in_service = {} /\ in_service' = {KEYBOARD} /\ ReadCode /\ UNCHANGED typingVars
          /\ cut' = cut /\ e0' = e0 /\ Prefix(Head(buffer)) = 0
      BY <2>1, <2>6, NothingInService, PrintsNoPrefix DEF KeyPrinted
    <3>2. e0' \in 0 .. 2
      BY <3>1 DEF KeyboardInv, KeyTypes
    <3> QED
      BY <3>1, <3>2, KeyIsRead
  <2>7. CASE KeyReturns
    BY <2>7, KeyHandlerReturns
  <2>8. CASE Types
    BY <2>8, KeyIsUsed DEF Types, machineVars
  <2> QED
    BY <2>2, <2>3, <2>4, <2>5, <2>6, <2>7, <2>8 DEF Next
<1> QED
  BY <1>1, <1>2, MachineInvariance, CurrentAliveHere, PTL DEF Spec

(* When all codes are read the modes are those of the keys that are held,  *)
(* and caps lock and its light have turned with each press.                *)
THEOREM ModeStaysWithKeys == Spec => []ModeFollowsKeys
<1>1. KeyboardInv => ModeFollowsKeys
  <2> SUFFICES ASSUME KeyboardInv, ~cut, buffer = <<>>, KEYBOARD \notin in_service
               PROVE  /\ mode \cap Modifiers =
                            (down \cap Modifiers) \cup
                                (IF "home" \in down THEN {"lshift"} ELSE {})
                      /\ "caps" \in mode <=> locked
                      /\ "caps" \in leds <=> locked
    BY DEF ModeFollowsKeys
  <2>1. PICK t \in Boards : Leads(Now, buffer, t) /\ Rests(t, down, locked)
    BY DEF KeyboardInv, Settles
  <2>2. Now \in Boards /\ buffer \in Seq(Codes) /\ locked \in BOOLEAN
    BY NowIsBoard DEF KeyboardInv, KeyTypes
  <2>3. t = Now
    BY <2>1, <2>2, NothingRead
  <2>4. t.mode = mode /\ t.leds = leds
    BY <2>3 DEF Now
  <2>5. \A m \in Modifiers :
           m \in mode <=> m \in down \/ (m = "lshift" /\ "home" \in down)
    BY <2>1, <2>4 DEF Rests
  <2>6. "lshift" \in Modifiers
    BY DEF Modifiers
  <2>7. mode \cap Modifiers =
            (down \cap Modifiers) \cup (IF "home" \in down THEN {"lshift"} ELSE {})
    BY <2>5, <2>6
  <2>8. ("caps" \in mode <=> locked) /\ ("caps" \in leds <=> locked)
    BY <2>1, <2>2, <2>4 DEF Rests
  <2> QED
    BY <2>7, <2>8
<1> QED
  BY <1>1, KeyboardInvariance, PTL

(* The variables keep their types, and a stack holds no more than one      *)
(* keyboard handler for every exit and one.                                *)
THEOREM InterruptsTypeCorrect == Spec => []TypeOK
<1>1. MachineInv /\ KeyboardInv => TypeOK
  <2> SUFFICES ASSUME MachineInv, KeyboardInv PROVE TypeOK
    OBVIOUS
  <2>1. /\ mode \subseteq Modifiers \cup {"caps", "caps_down"}
        /\ leds \subseteq {"caps", "num", "scroll"}
        /\ e0 \in 0 .. 2
    BY DEF KeyboardInv, KeyTypes, Bits, Lights
  <2>2. {buffer[i] : i \in DOMAIN buffer} \subseteq Codes
    BY DEF KeyboardInv, KeyTypes
  <2>3. in_service \subseteq {TIMER, KEYBOARD}
    BY DEF MachineInv
  <2>4. ASSUME NEW p \in Procs
        PROVE  {stack[p][i] : i \in DOMAIN stack[p]} \subseteq Frames
    <3>1. stack[p] \in Seq(Frames)
      BY DEF MachineInv, Stacks
    <3> QED
      BY <3>1
  <2>5. ASSUME kernel = "running", NEW p \in Procs
        PROVE  Keyboards(p) <= 1 + Exited
    <3> DEFINE n == Cardinality(KeyFrames(stack))
    <3>1. Keyboards(p) \in Nat /\ Keyboards(p) <= n
      BY KeyboardsOf
    <3>2. n <= Exited + Slack /\ n \in Nat /\ Slack \in {0, 1} /\ Exited \in Nat
      BY <2>5, ExitedIsFinite, FS_CardinalityType DEF MachineInv, Running, Slack
    <3> HIDE DEF n
    <3>3. \A a, b, c \in Nat : \A s \in {0, 1} : a <= b /\ b <= c + s => a <= 1 + c
      OBVIOUS
    <3> QED
      BY <3>1, <3>2, <3>3
  <2> QED
    BY <2>1, <2>2, <2>3, <2>4, <2>5 DEF TypeOK
<1> QED
  BY <1>1, MachineInvariance, KeyboardInvariance, PTL
=============================================================================
