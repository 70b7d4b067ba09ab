---------------------------- MODULE MCInterrupts ----------------------------
(***************************************************************************)
(* Interrupts with idle and two processes of one priority.                 *)
(***************************************************************************)
EXTENDS Interrupts, TLC

CONSTANTS idle, proc1, proc2

SomeProcs == {idle, proc1, proc2}
SomeCreated == <<idle, proc1, proc2>>
SomePrio == idle :> 0 @@ proc1 :> 1 @@ proc2 :> 1
=============================================================================
