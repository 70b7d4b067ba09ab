----------------------------- MODULE MCConsole -----------------------------
(***************************************************************************)
(* Three lines of four columns, every cell with a text of its own, and a   *)
(* line of memory behind the screen.                                       *)
(***************************************************************************)
EXTENDS Console

FirstScreen == [i \in 0 .. 15 |->
    <<"0", "1", "2", "3", "e", "f", "g", "h", "i", "j", "k", "l", "w", "x", "y", "z">>[i + 1]]

(* Home, page down, which ends with a tilde, and F1.                       *)
SomeKeys == {<<"ESC", "[", "H">>, <<"ESC", "[", "6", "~">>, <<"ESC", "[", "[", "A">>}
=============================================================================
