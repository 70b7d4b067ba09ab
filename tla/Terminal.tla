------------------------------ MODULE Terminal ------------------------------
(***************************************************************************)
(* What the screen promises: rows of cells, a cursor that may stand right  *)
(* of the last column, and a region of rows that scrolls.  A step moves    *)
(* the cursor, or changes the cells in one of the ways below.  Beside the  *)
(* cursor there is the place where the kernel prints, which may be behind  *)
(* the last cell.                                                          *)
(***************************************************************************)
EXTENDS Integers

CONSTANTS COLUMNS, LINES, BLANK, Characters

VARIABLES
    rows,       \* rows[r][c]
    cursor,     \* [x, y]
    region,     \* its first row, and the row behind its last one
    printed     \* cells in front of the place where the kernel prints

vars == <<rows, cursor, region, printed>>

Rows == 0 .. LINES - 1
Columns == 0 .. COLUMNS - 1
Places == [x : 0 .. COLUMNS, y : Rows]

BlankRow == [c \in Columns |-> BLANK]

Init ==
    /\ rows \in [Rows -> [Columns -> Characters]]
    /\ cursor = [x |-> 0, y |-> 0]
    /\ region = [top |-> 0, bottom |-> LINES]
    /\ printed \in 0 .. LINES * COLUMNS

(* The rows from t up to, not including, b move by n towards t, or away.   *)
Up(t, b, n) ==
    [r \in Rows |-> IF r \notin t .. b - 1 THEN rows[r]
                    ELSE IF r + n < b THEN rows[r + n] ELSE BlankRow]
Down(t, b, n) ==
    [r \in Rows |-> IF r \notin t .. b - 1 THEN rows[r]
                    ELSE IF r - n >= t THEN rows[r - n] ELSE BlankRow]

Move ==
    /\ cursor' \in Places
    /\ UNCHANGED <<rows, region>>

SetRegion ==
    /\ \E t, b \in 0 .. LINES : t < b /\ region' = [top |-> t, bottom |-> b]
    /\ UNCHANGED <<rows, cursor>>

(* One line down: the region scrolls when the cursor cannot move.          *)
LineFeed(old, new) ==
    LET last == cursor.y + 1 >= region.bottom
    IN  /\ new = IF last THEN Up(region.top, region.bottom, 1) ELSE old
        /\ cursor'.y = IF last THEN cursor.y ELSE cursor.y + 1

(* A character appears at the cursor, or at the start of the next line if  *)
(* the cursor was behind its own; nothing else changes but by scrolling.   *)
Write ==
    /\ UNCHANGED region
    /\ cursor' \in Places
    /\ LET full == cursor.x = COLUMNS
           c    == cursor'.x - 1
           new  == rows'
       IN  /\ cursor'.x = IF full THEN 1 ELSE cursor.x + 1
           /\ \E before \in {rows, Up(region.top, region.bottom, 1)} :
                /\ IF full THEN LineFeed(rows, before)
                   ELSE before = rows /\ cursor'.y = cursor.y
                /\ new = [before EXCEPT ![cursor'.y][c] = new[cursor'.y][c]]

(* The column stays, or a tabulator wraps from behind the last one.        *)
Feed ==
    /\ UNCHANGED region
    /\ cursor' \in Places
    /\ cursor'.x = cursor.x \/ cursor.x = COLUMNS
    /\ LineFeed(rows, rows')

ReverseFeed ==
    /\ UNCHANGED region
    /\ cursor' = [cursor EXCEPT !.y = IF @ > region.top THEN @ - 1 ELSE @]
    /\ rows' = IF cursor.y > region.top THEN rows ELSE Down(region.top, region.bottom, 1)

Delete ==
    /\ cursor.x > 0
    /\ cursor' = [cursor EXCEPT !.x = @ - 1]
    /\ rows' = [rows EXCEPT ![cursor.y][cursor.x - 1] = BLANK]
    /\ UNCHANGED region

(* Erasing ends or begins at the cursor or at a border, in the line of the *)
(* cursor or on the whole screen.                                          *)
Cells == [x : Columns, y : Rows]
Line == {p \in Cells : p.y = cursor.y}
BeforeCursor == {p \in Cells : p.y < cursor.y \/ (p.y = cursor.y /\ p.x < cursor.x)}

Erase ==
    /\ \E area \in {Cells, Line} : \E part \in {area, area \cap BeforeCursor, area \ BeforeCursor} :
         rows' = [r \in Rows |-> [c \in Columns |->
                    IF [x |-> c, y |-> r] \in part THEN BLANK ELSE rows[r][c]]]
    /\ UNCHANGED <<cursor, region>>

ShiftLine ==
    /\ \E n \in 1 .. COLUMNS :
         LET row   == rows[cursor.y]
             right == [c \in Columns |-> IF c < cursor.x THEN row[c]
                                         ELSE IF c - n >= cursor.x THEN row[c - n] ELSE BLANK]
             left  == [c \in Columns |-> IF c < cursor.x THEN row[c]
                                         ELSE IF c + n < COLUMNS THEN row[c + n] ELSE BLANK]
         IN  rows' = [rows EXCEPT ![cursor.y] = right] \/ rows' = [rows EXCEPT ![cursor.y] = left]
    /\ UNCHANGED <<cursor, region>>

(* Lines are inserted and deleted at the cursor whatever the region is.    *)
ShiftRows ==
    /\ \E n \in 1 .. LINES : rows' \in {Up(cursor.y, LINES, n), Down(cursor.y, LINES, n)}
    /\ UNCHANGED <<cursor, region>>

(* The kernel prints some cells, at most the rest of a line, and nothing   *)
(* else changes but by scrolling the whole screen, wherever the cursor is. *)
PutChars ==
    \E n \in 1 .. COLUMNS :
        LET full   == printed = LINES * COLUMNS
            from   == IF full THEN printed - COLUMNS ELSE printed
            before == IF full THEN Up(0, LINES, 1) ELSE rows
        IN  /\ printed' = from + n
            /\ printed' <= LINES * COLUMNS
            /\ rows' = [r \in Rows |-> [c \in Columns |->
                          IF r * COLUMNS + c \in from .. printed' - 1 THEN rows'[r][c]
                          ELSE before[r][c]]]
            /\ UNCHANGED <<cursor, region>>

Next ==
    \/ /\ \/ Move \/ SetRegion
          \/ Write \/ Feed \/ ReverseFeed \/ Delete
          \/ Erase \/ ShiftLine \/ ShiftRows
       /\ UNCHANGED printed
    \/ PutChars

Spec == Init /\ [][Next]_vars
=============================================================================
