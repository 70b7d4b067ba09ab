------------------------------ MODULE MCBuddy ------------------------------
(***************************************************************************)
(* Buddy with small memories for TLC.                                      *)
(***************************************************************************)
EXTENDS Buddy

(* The orders that exist, and one that the check of alloc_pages refuses.    *)
MCRequests == Orders \cup {MAX_ORDER + 1}

(* The order that the check lets through although it does not exist.        *)
MCRequestsTop == {0, MAX_ORDER}
=============================================================================
