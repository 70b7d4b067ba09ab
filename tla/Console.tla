------------------------------ MODULE Console ------------------------------
(***************************************************************************)
(* The console, console.c: the characters a key has put into the queue are *)
(* written one by one, with tabulators, line feeds and escape sequences.   *)
(*                                                                         *)
(* con_init says the display is a CGA: origin stays at the start of the    *)
(* video memory and the branches for an EGA are never taken.  Memory is    *)
(* counted in cells.  Colours, the beep and the cursor of the controller   *)
(* are left out.  con_write runs with interrupts off up to its last call,  *)
(* and no key is read before its interrupt has ended.                      *)
(*                                                                         *)
(* Of characters with the same effect one is listed: "LF" for 10, 11 and   *)
(* 12, "G" for G and `, and so on; "BEL" is any control character without  *)
(* effect, and any byte above 127, which is negative as a char.            *)
(***************************************************************************)
EXTENDS Display, Sequences, SequencesExt

CONSTANTS
    MEMORY,             \* cells of video memory
    TAB,
    CODE_7, CODE_8,     \* the codes of the characters 7 and 8
    NPAR,
    SCREEN, CUR_POS,    \* what printf has left on the screen at boot, and where
    PRINTED,            \* bound: what the kernel prints later
    GLYPHS,             \* bound: what is typed outside of a sequence
    DIGITS,             \* bound: the digits typed
    MAX_PAR,            \* bound: the numbers typed
    KEYS,               \* bound: the cursor and function keys pressed
    MAX_KEYS            \* bound: keys pressed outside of a sequence, and prints

ASSUME ConsoleAssumption ==
    /\ {COLUMNS, LINES, TAB, NPAR} \subseteq Nat \ {0}
    /\ {MEMORY, PRINT_TAB} \subseteq Nat
    /\ COLUMNS >= 4
    /\ COLUMNS % 2 = 0 \* scrolling moves two cells at a time
    /\ COLUMNS % TAB = 0
    /\ MEMORY >= LINES * COLUMNS
    /\ NPAR > 1
    /\ CUR_POS \in 0 .. LINES * COLUMNS

VARIABLES
    x, y, pos,
    top, bottom,
    state, npar, par,
    saved_x, saved_y,
    write_q,
    key             \* history: the key being written, and how it found things

cursorVars == <<x, y, pos>>
regionVars == <<top, bottom>>
parserVars == <<npar, par>>
savedVars == <<saved_x, saved_y>>

VARIABLE keys       \* keys pressed outside of a sequence, and prints

vars == <<video, cur_pos, cursorVars, regionVars, state, parserVars, savedVars, write_q, key, keys>>

Cells == 0 .. MEMORY - 1
RowOf(i) == i \div COLUMNS

DigitValue ==
    [c \in {"0", "1", "2", "3", "4", "5", "6", "7", "8", "9"} |->
        CHOOSE n \in 0 .. 9 : c = <<"0", "1", "2", "3", "4", "5", "6", "7", "8", "9">>[n + 1]]

Controls == {"ESC", "LF", "CR", "DEL", "BS", "TAB", "BEL"}

ASSUME GlyphsAssumption == GLYPHS \cap Controls = {}

Functions == {"G", "A", "B", "C", "D", "E", "F", "d", "H", "J", "K", "L", "M", "P", "@", "r",
              "s", "u"}
Printable == GLYPHS \cup Functions \cup DOMAIN DigitValue \cup {"[", "?", ";", "~", "Y", "I"}

(* What a cell can show.  CGA is what con_init writes.                     *)
Characters ==
    Printable \cup PRINTED \cup {BLANK, "*", "C", "G", "A"} \cup {SCREEN[i] : i \in Cells}

NoKey == [bytes |-> <<>>, state |-> 0, video |-> <<>>]

(* con_init: four cells of the first row name the display.                 *)
Init ==
    /\ video = [i \in Cells |-> IF i \in COLUMNS - 4 .. COLUMNS - 1
                                THEN <<"*", "C", "G", "A">>[i - COLUMNS + 5] ELSE SCREEN[i]]
    /\ cur_pos = CUR_POS
    /\ x = 0 /\ y = 0 /\ pos = 0
    /\ top = 0 /\ bottom = LINES
    /\ state = 0
    /\ npar = 0 /\ par = [i \in 0 .. NPAR - 1 |-> 0]
    /\ saved_x = 0 /\ saved_y = 0
    /\ write_q = <<>>
    /\ key = NoKey
    /\ keys = 0

(***************************************************************************)
(* What is done to the video memory                                        *)
(***************************************************************************)
(* Wrong on purpose: one row too few moves.                                *)
scrup_short(t, b, n) ==
    [i \in Cells |-> IF RowOf(i) \notin t .. b - 1 THEN video[i]
                     ELSE IF RowOf(i) + n + 1 < b THEN video[i + n * COLUMNS] ELSE BLANK]

(* scrup and scrdown, n times, in the rows from t up to, not including, b   *)
scrup(t, b, n) ==
    [i \in Cells |-> IF RowOf(i) \notin t .. b - 1 THEN video[i]
                     ELSE IF RowOf(i) + n < b THEN video[i + n * COLUMNS] ELSE BLANK]

scrdown(t, b, n) ==
    [i \in Cells |-> IF RowOf(i) \notin t .. b - 1 THEN video[i]
                     ELSE IF RowOf(i) - n >= t THEN video[i - n * COLUMNS] ELSE BLANK]

(* The cells from the cursor to the end of its line: none behind the line. *)
RestOfLine == pos .. pos + COLUMNS - x - 1

(* insert_char and delete_char, n times                                     *)
insert_char(n) ==
    [i \in Cells |-> IF i \notin RestOfLine THEN video[i]
                     ELSE IF i - n >= pos THEN video[i - n] ELSE BLANK]

delete_char(n) ==
    [i \in Cells |-> IF i \notin RestOfLine THEN video[i]
                     ELSE IF i + n \in RestOfLine THEN video[i + n] ELSE BLANK]

(* csi_J and csi_K                                                          *)
csi_J(n) ==
    CASE n = 0 -> pos .. LINES * COLUMNS - 1
      [] n = 1 -> 0 .. pos - 1
      [] n = 2 -> 0 .. LINES * COLUMNS - 1
      [] OTHER -> {}

csi_K(n) ==
    CASE n = 0 -> RestOfLine
      [] n = 1 -> pos - x .. pos - 1
      [] n = 2 -> pos - x .. pos - x + COLUMNS - 1
      [] OTHER -> {}

Erased(area) == [i \in Cells |-> IF i \in area THEN BLANK ELSE video[i]]

(***************************************************************************)
(* State 0: text                                                           *)
(***************************************************************************)
(* lf: the row, the way of pos, and the memory after it                     *)
lf ==
    IF y + 1 < bottom
    THEN [y |-> y + 1, way |-> COLUMNS, video |-> video]
    ELSE [y |-> y, way |-> 0, video |-> scrup(top, bottom, 1)]

Full == x >= COLUMNS

(* A character wraps before it is written, not after.                      *)
PutChar(c) ==
    /\ c \in Printable
    /\ LET at == IF Full THEN pos - COLUMNS + lf.way ELSE pos
           to == IF Full THEN lf.video ELSE video
       IN  /\ video' = [to EXCEPT ![at] = c]
           /\ pos' = at + 1
           /\ x' = IF Full THEN x - COLUMNS + 1 ELSE x + 1
           /\ y' = IF Full THEN lf.y ELSE y

Tabulate(c) ==
    /\ c = "TAB"
    /\ LET next == x + TAB - (x % TAB)
           wrap == next > COLUMNS
       IN  /\ x' = IF wrap THEN next - COLUMNS ELSE next
           /\ y' = IF wrap THEN lf.y ELSE y
           /\ pos' = pos + next - x + (IF wrap THEN lf.way - COLUMNS ELSE 0)
           /\ video' = IF wrap THEN lf.video ELSE video

LineFeed ==
    /\ y' = lf.y
    /\ pos' = pos + lf.way
    /\ video' = lf.video
    /\ UNCHANGED x

ri ==
    /\ IF y > top
       THEN y' = y - 1 /\ pos' = pos - COLUMNS /\ UNCHANGED video
       ELSE video' = scrdown(top, bottom, 1) /\ UNCHANGED <<y, pos>>
    /\ UNCHANGED x

cr ==
    /\ pos' = pos - x
    /\ x' = 0
    /\ UNCHANGED <<y, video>>

(* Backspace moves the cursor left; delete blanks the cell as well.        *)
Back(c) ==
    /\ c \in {"DEL", "BS"}
    /\ IF x = 0 THEN UNCHANGED <<video, cursorVars>>
       ELSE /\ x' = x - 1
            /\ pos' = pos - 1
            /\ video' = IF c = "DEL" THEN [video EXCEPT ![pos - 1] = BLANK] ELSE video
            /\ UNCHANGED y

Text(c) ==
    /\ state = 0
    /\ state' = IF c = "ESC" THEN 1 ELSE 0
    /\ \/ PutChar(c) \/ Tabulate(c) \/ Back(c)
       \/ c = "LF" /\ LineFeed
       \/ c = "CR" /\ cr
       \/ c \in {"ESC", "BEL"} /\ UNCHANGED <<video, cursorVars>>
    /\ UNCHANGED <<regionVars, parserVars, savedVars>>

(***************************************************************************)
(* Positions.  A difference below zero is a huge unsigned number.          *)
(***************************************************************************)
(* Wrong on purpose: the line behind the last one is taken for one.        *)
gotoxy_below(new_x, new_y) ==
    IF new_x \in 0 .. COLUMNS /\ new_y \in 0 .. LINES
    THEN x' = new_x /\ y' = new_y /\ pos' = new_y * COLUMNS + new_x
    ELSE UNCHANGED cursorVars

(* gotoxy: the column behind the last one is all right.                    *)
gotoxy(new_x, new_y) ==
    IF new_x \in 0 .. COLUMNS /\ new_y \in 0 .. LINES - 1
    THEN x' = new_x /\ y' = new_y /\ pos' = new_y * COLUMNS + new_x
    ELSE UNCHANGED cursorVars

save_cur == saved_x' = x /\ saved_y' = y
restore_cur == gotoxy(saved_x, saved_y)

(***************************************************************************)
(* State 1: after ESC.  Whether the cursor is saved or restored is decided *)
(* by its column, which is compared with the characters 7 and 8.           *)
(***************************************************************************)
Escape(c) ==
    /\ state = 1
    /\ state' = IF c = "[" THEN 2 ELSE 0
    /\ \/ c = "E" /\ gotoxy(0, y + 1) /\ UNCHANGED <<video, savedVars>>
       \/ c = "M" /\ ri /\ UNCHANGED savedVars
       \/ c = "D" /\ LineFeed /\ UNCHANGED savedVars
       \/ /\ c \notin {"[", "E", "M", "D"}
          /\ \/ x = CODE_7 /\ save_cur /\ UNCHANGED cursorVars
             \/ x = CODE_8 /\ restore_cur /\ UNCHANGED savedVars
             \/ x \notin {CODE_7, CODE_8} /\ UNCHANGED <<cursorVars, savedVars>>
          /\ UNCHANGED video
       \/ c = "[" /\ UNCHANGED <<video, cursorVars, savedVars>>
    /\ UNCHANGED <<regionVars, parserVars>>

(***************************************************************************)
(* States 2 and 3: after ESC [, and in the parameters                      *)
(***************************************************************************)
(* In state 2 the parameters are cleared first.                            *)
Pars == IF state = 2 THEN [i \in 0 .. NPAR - 1 |-> 0] ELSE par
Count == IF state = 2 THEN 0 ELSE npar

Question(c) == state = 2 /\ c = "?"
Separates(c) == c = ";" /\ Count < NPAR - 1

Parameter(c) ==
    /\ state \in {2, 3}
    /\ Question(c) \/ Separates(c) \/ c \in DOMAIN DigitValue
    /\ state' = 3
    /\ npar' = IF Separates(c) THEN Count + 1 ELSE Count
    /\ par' = IF c \in DOMAIN DigitValue
              THEN [Pars EXCEPT ![Count] = 10 * @ + DigitValue[c]] ELSE Pars
    /\ UNCHANGED <<video, cursorVars, regionVars, savedVars>>

(* A parameter that is not given, or 0: counts are 1, positions the first. *)
Number(i) == IF Pars[i] = 0 THEN 1 ELSE Pars[i]
Position(i) == IF Pars[i] = 0 THEN 0 ELSE Pars[i] - 1
Capped(most) == IF Number(0) > most THEN most ELSE Number(0)

(* Where a function moves the cursor                                       *)
Moves ==
    [G |-> <<Position(0), y>>,
     A |-> <<x, y - Number(0)>>,
     B |-> <<x, y + Number(0)>>,
     C |-> <<x + Number(0), y>>,
     D |-> <<x - Number(0), y>>,
     E |-> <<0, y + Number(0)>>,
     F |-> <<0, y - Number(0)>>,
     d |-> <<x, Position(0)>>,
     H |-> <<Position(1), Position(0)>>,
     u |-> <<saved_x, saved_y>>]

MoveCursor(c) ==
    /\ c \in DOMAIN Moves
    /\ gotoxy(Moves[c][1], Moves[c][2])
    /\ UNCHANGED <<video, regionVars, savedVars>>

(* What a function makes of the video memory: insert_line and delete_line   *)
(* scroll from the line of the cursor to the last one.                     *)
Edit(c) ==
    /\ \/ c = "J" /\ video' = Erased(csi_J(Pars[0]))
       \/ c = "K" /\ video' = Erased(csi_K(Pars[0]))
       \/ c = "L" /\ video' = scrdown(y, LINES, Capped(LINES))
       \/ c = "M" /\ video' = scrup(y, LINES, Capped(LINES))
       \/ c = "P" /\ video' = delete_char(Capped(COLUMNS))
       \/ c = "@" /\ video' = insert_char(Capped(COLUMNS))
    /\ UNCHANGED <<cursorVars, regionVars, savedVars>>

SetRegion(c) ==
    /\ c = "r"
    /\ LET first == Position(0)
           last  == IF Pars[1] = 0 THEN LINES ELSE Pars[1]
       IN  IF first < last /\ last <= LINES
           THEN top' = first /\ bottom' = last
           ELSE UNCHANGED regionVars
    /\ UNCHANGED <<video, cursorVars, savedVars>>

(* What the functions do to par itself is left out: it is cleared before   *)
(* it is read again.                                                       *)
Function(c) ==
    /\ state \in {2, 3}
    /\ ~(Question(c) \/ Separates(c) \/ c \in DOMAIN DigitValue)
    /\ state' = 0
    /\ npar' = Count
    /\ par' = Pars
    /\ \/ MoveCursor(c) \/ Edit(c) \/ SetRegion(c)
       \/ c = "s" /\ save_cur /\ UNCHANGED <<video, cursorVars, regionVars>>
       \/ /\ c \notin Functions
          /\ UNCHANGED <<video, cursorVars, regionVars, savedVars>>

(* One turn of con_write                                                   *)
con_write ==
    /\ write_q # <<>>
    /\ write_q' = Tail(write_q)
    /\ key' = IF Len(write_q) = 1 THEN NoKey ELSE key
    /\ LET c == Head(write_q)
       IN  Text(c) \/ Escape(c) \/ Parameter(c) \/ Function(c)
    /\ UNCHANGED <<keys, cur_pos>>

(***************************************************************************)
(* A key.  What the keyboard makes of it: a character, or the sequence of  *)
(* a cursor or function key.  A return is put twice.                       *)
(***************************************************************************)
(* Wrong on purpose: the byte that is highest in its word is dropped.      *)
cput_queue_three(bytes) ==
    FlattenSeq([i \in 1 .. Len(bytes) |->
        IF i = 4 THEN <<>> ELSE IF bytes[i] = "CR" THEN <<"CR", "CR">> ELSE <<bytes[i]>>])

cput_queue(bytes) ==
    FlattenSeq([i \in 1 .. Len(bytes) |->
        IF bytes[i] = "CR" THEN <<"CR", "CR">> ELSE <<bytes[i]>>])

cur_table ==
    {<<"ESC", "[", c>> : c \in {"H", "A", "D", "G", "C", "Y", "B"}} \cup
    {<<"ESC", "[", c, "~">> : c \in {"5", "6", "2", "3"}}

func_table ==
    {<<"ESC", "[", "[", c>> : c \in {"A", "B", "C", "D", "E", "F", "G", "H", "I", "J", "K", "L"}}

ASSUME KeysAssumption == KEYS \subseteq cur_table \cup func_table

keyboard_interrupt(bytes) ==
    /\ write_q = <<>>
    /\ keys < MAX_KEYS \/ state # 0
    /\ write_q' = cput_queue(bytes)
    /\ key' = [bytes |-> bytes, state |-> state, video |-> video]
    /\ keys' = IF state = 0 THEN keys + 1 ELSE keys
    /\ UNCHANGED <<video, cur_pos, cursorVars, regionVars, state, parserVars, savedVars>>

(* The kernel prints when no key is being written: a system call.          *)
printf ==
    /\ write_q = <<>>
    /\ keys < MAX_KEYS
    /\ keys' = keys + 1
    /\ \E ch \in PRINTED : put_char(ch)
    /\ UNCHANGED <<cursorVars, regionVars, state, parserVars, savedVars, write_q, key>>

(* Bound: a number grows up to MAX_PAR.                                    *)
Digit(c) ==
    /\ c \in DIGITS
    /\ state = 3 => 10 * par[npar] + DigitValue[c] <= MAX_PAR
    /\ keyboard_interrupt(<<c>>)

Character(c) ==
    /\ c \in IF state = 0 THEN GLYPHS \cup Controls ELSE (Printable \cup Controls) \ DOMAIN DigitValue
    /\ keyboard_interrupt(<<c>>)

Idle == write_q = <<>> /\ keys = MAX_KEYS /\ state = 0 /\ UNCHANGED vars

Next ==
    \/ con_write
    \/ \E c \in Printable \cup Controls : Character(c)
    \/ \E c \in DIGITS : state # 0 /\ Digit(c)
    \/ \E k \in KEYS : keyboard_interrupt(k)
    \/ printf
    \/ Idle

Spec == Init /\ [][Next]_vars

(***************************************************************************)
(* Properties                                                              *)
(***************************************************************************)
TypeOK ==
    /\ video \in [Cells -> Characters]
    /\ cur_pos \in 0 .. LINES * COLUMNS
    /\ x \in 0 .. COLUMNS /\ y \in 0 .. LINES - 1
    /\ top \in 0 .. LINES - 1 /\ bottom \in 1 .. LINES /\ top < bottom
    /\ state \in 0 .. 3
    /\ npar \in 0 .. NPAR - 1
    /\ par \in [0 .. NPAR - 1 -> Nat]
    /\ saved_x \in 0 .. COLUMNS /\ saved_y \in 0 .. LINES - 1

(* pos, which says where to write, and x and y, which say when to wrap and  *)
(* to scroll, are moved separately and never part; and no write, erasure   *)
(* or scroll goes behind the last line.                                    *)
StaysOnScreen ==
    /\ pos = y * COLUMNS + x
    /\ \A i \in LINES * COLUMNS .. MEMORY - 1 : video[i] = SCREEN[i]

(* A cursor key, whose sequence the keyboard makes, moves the cursor or     *)
(* does nothing: it is understood to its last byte and prints none of them *)
(* unless it comes in the middle of another sequence.                      *)
CursorKeysPrintNothing ==
    [][write_q # <<>> /\ write_q' = <<>> /\ key.bytes \in cur_table /\ key.state = 0
         => state' = 0 /\ video' = key.video]_vars

(* The memory in rows changes as Terminal says.                            *)
RowsOf(v) == [r \in 0 .. LINES - 1 |-> [c \in 0 .. COLUMNS - 1 |-> v[r * COLUMNS + c]]]

Screen == INSTANCE Terminal WITH
    rows    <- RowsOf(video),
    cursor  <- [x |-> x, y |-> y],
    region  <- [top |-> top, bottom |-> bottom],
    printed <- cur_pos

ImplementsTerminal == Screen!Spec
=============================================================================
