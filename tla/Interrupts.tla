----------------------------- MODULE Interrupts -----------------------------
(***************************************************************************)
(* Interrupts: timer and keyboard through the interrupt controller, over   *)
(* the processes of Sched.  Handlers are entered with interrupts off.      *)
(* They are on in the programs, in do_sys_idle, and, because set_cursor    *)
(* turns them on, in a keyboard handler from its call of con_write on.     *)
(*                                                                         *)
(* What a process has on its kernel stack is a sequence of frames:         *)
(*   "start"   load_executable, before the first instruction               *)
(*   "halted"  do_sys_idle behind its hlt;  "awake", after an interrupt    *)
(*   "key"     keyboard_interrupt, after put_queue                         *)
(*   "timer"   the timer's handler, in schedule                            *)
(* No frame: the program runs.  The floppy's interrupt is not delivered:   *)
(* fd_rw reads the result with interrupts off, which withdraws it.         *)
(***************************************************************************)
EXTENDS Keyboard, SequencesExt, FiniteSets

CONSTANTS Procs, Idle, CREATED, Prio, MAX_PRIO, TICK_QUANTUM, NULL

VARIABLES heap, tick_left, current, cr3, esp0, allocated, created, kernel

S == INSTANCE Sched

ASSUME InterruptsAssumption == S!SchedParameters

VARIABLES
    stack,      \* the frames of each process, the one to return to last
    in_service, \* the controller: requests taken whose end has not been told
    cut         \* history: some keyboard interrupt was ended by another handler

schedVars == <<heap, tick_left, current, cr3, esp0, allocated, created, kernel>>
machineVars == <<stack, in_service, cut>>
vars == <<schedVars, keyboardVars, machineVars>>

TIMER == 0
KEYBOARD == 1

Init ==
    /\ S!Init
    /\ KeyboardInit
    /\ stack = [p \in Procs |-> <<"start">>]
    /\ in_service = {}
    /\ cut = FALSE

(***************************************************************************)
(* The controller and the processor                                        *)
(***************************************************************************)
LastFrame(s) == IF s = <<>> THEN "program" ELSE Last(s)

InterruptFlag == LastFrame(stack[current]) \notin {"start", "timer"}

(* Wrong on purpose: a request is taken while it is in service.            *)
Taken_again(irq) ==
    /\ kernel = "running"
    /\ InterruptFlag
    /\ \A i \in in_service : irq <= i

(* A request is taken if nothing of its priority or a higher one is in     *)
(* service.                                                                *)
Taken(irq) ==
    /\ kernel = "running"
    /\ InterruptFlag
    /\ \A i \in in_service : irq < i

(* END_OF_INTERR ends the highest request in service, whoever sends it.    *)
EndOfInterrupt(s) == IF s = {} THEN {} ELSE s \ {Min(s)}

(* An interrupt ends a hlt.                                                 *)
Interrupted(s) ==
    IF LastFrame(s) = "halted" THEN Append(Front(s), "awake") ELSE s

HandlerReturns == stack' = [stack EXCEPT ![current] = Interrupted(@)]
HandlerStays(frame) == stack' = [stack EXCEPT ![current] = Append(Interrupted(@), frame)]

Top(frame) == kernel = "running" /\ LastFrame(stack[current]) = frame
Pop == stack' = [stack EXCEPT ![current] = Front(@)]

(* An EOI that ends the interrupt of a keyboard handler that goes on.      *)
EndsAnother == in_service # {} /\ Min(in_service) = KEYBOARD

(***************************************************************************)
(* The timer's interrupt: a handler that does not call schedule returns    *)
(* before anything else can happen; its EOI is its own.                    *)
(***************************************************************************)
Boot ==
    /\ S!create_proc \/ S!switch_to_user
    /\ UNCHANGED <<keyboardVars, machineVars>>

TimerTick ==
    /\ Taken(TIMER)
    /\ S!TickInQuantum
    /\ HandlerReturns
    /\ UNCHANGED <<keyboardVars, in_service, cut>>

TimerSwitches ==
    /\ Taken(TIMER)
    /\ S!TickEndsQuantum
    /\ HandlerStays("timer")
    /\ in_service' = in_service \cup {TIMER}
    /\ UNCHANGED <<keyboardVars, cut>>

(* The rest of the handler, in the process that was switched to: by the    *)
(* timer or by an exit.                                                    *)
TimerReturns ==
    /\ Top("timer")
    /\ in_service' = EndOfInterrupt(in_service)
    /\ cut' = (cut \/ EndsAnother)
    /\ Pop
    /\ UNCHANGED <<schedVars, keyboardVars>>

(* Wrong on purpose: a new process sends no EOI.                           *)
start_proc_silent ==
    /\ Top("start")
    /\ Pop
    /\ UNCHANGED <<schedVars, keyboardVars, in_service, cut>>

start_proc ==
    /\ Top("start")
    /\ in_service' = EndOfInterrupt(in_service)
    /\ cut' = (cut \/ EndsAnother)
    /\ Pop
    /\ UNCHANGED <<schedVars, keyboardVars>>

(***************************************************************************)
(* The keyboard's interrupt.  A code that prints nothing is handled with   *)
(* interrupts off up to the end.  What can interrupt the handler behind    *)
(* its EOI is modelled as coming after it: it only returns from there.     *)
(***************************************************************************)
(* Wrong on purpose: a prefix leaves without EOI.                          *)
KeyHandled_prefix_stays ==
    /\ Taken(KEYBOARD)
    /\ ReadCode
    /\ FALSE \in Prints(Head(buffer))
    /\ e0' = Prefix(Head(buffer))
    /\ in_service' = IF e0' = 0 THEN in_service ELSE in_service \cup {KEYBOARD}
    /\ HandlerReturns
    /\ UNCHANGED <<schedVars, typingVars, cut>>

KeyHandled ==
    /\ Taken(KEYBOARD)
    /\ ReadCode
    /\ FALSE \in Prints(Head(buffer))
    /\ e0' = Prefix(Head(buffer))
    /\ HandlerReturns
    /\ UNCHANGED <<schedVars, typingVars, in_service, cut>>

KeyPrinted ==
    /\ Taken(KEYBOARD)
    /\ ReadCode
    /\ TRUE \in Prints(Head(buffer))
    /\ in_service' = in_service \cup {KEYBOARD}
    /\ HandlerStays("key")
    /\ UNCHANGED <<schedVars, e0, typingVars, cut>>

KeyReturns ==
    /\ Top("key")
    /\ e0' = 0
    /\ in_service' = EndOfInterrupt(in_service)
    /\ Pop
    /\ UNCHANGED <<schedVars, mode, leds, buffer, typingVars, cut>>

(***************************************************************************)
(* The programs: idle calls SYS_IDLE for ever, the others may call         *)
(* SYS_EXIT.  An exit continues in the frame where idle was left.          *)
(***************************************************************************)
do_sys_idle ==
    /\ current = Idle
    /\ Top("program")
    /\ stack' = [stack EXCEPT ![Idle] = <<"halted">>]
    /\ UNCHANGED <<schedVars, keyboardVars, in_service, cut>>

IdleReturns ==
    /\ Top("awake")
    /\ Pop
    /\ UNCHANGED <<schedVars, keyboardVars, in_service, cut>>

do_sys_exit ==
    /\ Top("program")
    /\ S!do_sys_exit
    /\ UNCHANGED <<keyboardVars, machineVars>>

Types ==
    /\ kernel = "running"
    /\ Typing
    /\ UNCHANGED <<schedVars, machineVars>>

Stopped == S!Stopped /\ UNCHANGED vars

Next ==
    \/ Boot
    \/ TimerTick \/ TimerSwitches \/ TimerReturns \/ start_proc
    \/ KeyHandled \/ KeyPrinted \/ KeyReturns
    \/ do_sys_idle \/ IdleReturns \/ do_sys_exit
    \/ Types
    \/ Stopped

Spec == Init /\ [][Next]_vars

(***************************************************************************)
(* The processor goes on.  A request stays with the controller until it is *)
(* taken, at the first instruction with interrupts on: a chance that comes *)
(* again and again is not missed for ever.  The timer leaves a handler the *)
(* time to end.                                                            *)
(***************************************************************************)
FairSpec ==
    /\ Spec
    /\ WF_vars(Boot)
    /\ WF_vars(TimerReturns \/ start_proc)
    /\ SF_vars(TimerTick \/ TimerSwitches)
    /\ SF_vars(KeyHandled \/ KeyPrinted)
    /\ SF_vars(KeyReturns)

(***************************************************************************)
(* Properties                                                              *)
(***************************************************************************)
Frames == {"start", "halted", "awake", "key", "timer"}
Keyboards(p) == Cardinality({i \in DOMAIN stack[p] : stack[p][i] = "key"})
Exited == Cardinality(Procs \ S!Alive)

(* A kernel stack holds a system call, one keyboard handler and one timer  *)
(* handler, and one more keyboard handler for every exit.                  *)
TypeOK ==
    /\ mode \subseteq Modifiers \cup {"caps", "caps_down"}
    /\ leds \subseteq {"caps", "num", "scroll"}
    /\ e0 \in 0 .. 2
    /\ {buffer[i] : i \in DOMAIN buffer} \subseteq Codes
    /\ in_service \subseteq {TIMER, KEYBOARD}
    /\ \A p \in Procs : {stack[p][i] : i \in DOMAIN stack[p]} \subseteq Frames
    /\ kernel = "running" => \A p \in Procs : Keyboards(p) <= 1 + Exited

(* What is in service is ended by a handler that will run again: the timer *)
(* is in service only where interrupts are off, and the keyboard only if a *)
(* living process has its handler to finish.                               *)
InServiceIsHandled ==
    kernel = "running" =>
        /\ TIMER \in in_service => ~InterruptFlag
        /\ KEYBOARD \in in_service => \E p \in S!Alive : Keyboards(p) > 0

(* When all codes have been read and no handler is left in the middle, the *)
(* modes are the modifiers that are held down, and caps lock has turned    *)
(* once for each time its key went down, with its light, however long it   *)
(* was held; but see EoiAfterHandling.                                     *)
ModeFollowsKeys ==
    /\ ~cut
    /\ buffer = <<>>
    /\ KEYBOARD \notin in_service
    => /\ mode \cap Modifiers =
              (down \cap Modifiers) \cup (IF "home" \in down THEN {"lshift"} ELSE {})
       /\ "caps" \in mode <=> locked
       /\ "caps" \in leds <=> locked

(* Every key is read, unless the kernel stops or idle has been interrupted *)
(* in the middle of a key: it keeps the keyboard until it runs again.      *)
KeysAreRead ==
    buffer # <<>> ~>
        \/ buffer = <<>>
        \/ kernel \notin {"boot", "running"}
        \/ KEYBOARD \in in_service /\ Keyboards(Idle) > 0 /\ current # Idle

(* proc_asm.S: "we should send END_OF_INTERR to PIC after handling the     *)
(* interrupt": a keyboard interrupt stays in service until its handler has *)
(* put the prefix back.                                                    *)
EoiAfterHandling ==
    kernel = "running" =>
        \A p \in S!Alive : Keyboards(p) > 0 => KEYBOARD \in in_service
=============================================================================
