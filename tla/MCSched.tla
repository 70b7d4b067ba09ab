------------------------------ MODULE MCSched ------------------------------
(***************************************************************************)
(* Sched with the two processes the kernel creates, and with more.         *)
(***************************************************************************)
EXTENDS Sched

CONSTANTS idle, proc1, proc2, proc3

BootProcs == {idle, proc1}
BootCreated == <<idle, proc1>>
BootPrio == idle :> 0 @@ proc1 :> 10

MoreProcs == {idle, proc1, proc2, proc3}
MoreCreated == <<idle, proc1, proc2, proc3>>
MorePrio == idle :> 0 @@ proc1 :> 1 @@ proc2 :> 2 @@ proc3 :> 1
=============================================================================
