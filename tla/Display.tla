------------------------------ MODULE Display ------------------------------
(***************************************************************************)
(* What printf, by way of put_char, does to the video memory: display.c.   *)
(* It has a position of its own and knows nothing of the console's cursor. *)
(* Colours are left out; what is printed is a character or a control.      *)
(***************************************************************************)
EXTENDS Integers

CONSTANTS
    COLUMNS, LINES,     \* LINE_WORDS and LINE_COUNT, and the console's
    PRINT_TAB,          \* the width of put_char's tabulator
    BLANK

VARIABLES
    video,          \* the video memory
    cur_pos

(* The line that comes in is blank.                                        *)
scroll_down ==
    [i \in DOMAIN video |-> IF i < (LINES - 1) * COLUMNS THEN video[i + COLUMNS]
                            ELSE IF i < LINES * COLUMNS THEN BLANK ELSE video[i]]

(* A tabulator that would reach the next line prints nothing.              *)
Blanks(ch) ==
    CASE ch \in {"LF", "CR"} -> COLUMNS - (cur_pos % COLUMNS)
      [] ch = "TAB" -> IF cur_pos \div COLUMNS = (cur_pos + PRINT_TAB) \div COLUMNS
                       THEN PRINT_TAB ELSE 0

(* Wrong on purpose: the screen scrolls one line late.                     *)
BehindScreen_late == cur_pos \div COLUMNS > LINES

BehindScreen == cur_pos \div COLUMNS >= LINES

(* put_char: a control is so many blanks, of which only the first can find *)
(* the position behind the screen.                                         *)
put_char(ch) ==
    LET n      == IF ch \in {"LF", "CR", "TAB"} THEN Blanks(ch) ELSE 1
        c      == IF ch \in {"LF", "CR", "TAB"} THEN BLANK ELSE ch
        scroll == BehindScreen /\ n > 0
        from   == IF scroll THEN cur_pos - COLUMNS ELSE cur_pos
        screen == IF scroll THEN scroll_down ELSE video
    IN  /\ cur_pos' = from + n
        /\ video' = [i \in DOMAIN video |-> IF i \in from .. from + n - 1 THEN c ELSE screen[i]]
=============================================================================
