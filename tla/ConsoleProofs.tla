---------------------------- MODULE ConsoleProofs ----------------------------
(***************************************************************************)
(* Theorems about the screen, for any size of screen and memory: after any *)
(* sequence of keys and prints the cursor's three variables agree, nothing *)
(* is written behind the screen, and row by row the memory changes as a    *)
(* terminal's does; a cursor key is understood to its last byte.           *)
(***************************************************************************)
EXTENDS Console, DataLemmas

(***************************************************************************)
(* Rows and columns                                                        *)
(***************************************************************************)
LEMMA Sizes ==
    /\ COLUMNS \in Nat /\ COLUMNS >= 4 /\ LINES \in Nat /\ LINES >= 1
    /\ TAB \in Nat /\ TAB >= 1 /\ NPAR \in Nat /\ NPAR > 1
    /\ MEMORY \in Nat /\ PRINT_TAB \in Nat
    /\ LINES * COLUMNS \in Nat /\ LINES * COLUMNS <= MEMORY
<1>1. \A p, q \in Nat : p * q \in Nat
  OBVIOUS
<1> QED
  BY <1>1, ConsoleAssumption

(* Row r starts behind the rows in front of it.                            *)
LEMMA RowStart ==
    ASSUME NEW r \in Int, NEW s \in Int
    PROVE  /\ r * COLUMNS \in Int
           /\ (r + s) * COLUMNS = r * COLUMNS + s * COLUMNS
           /\ (r + 1) * COLUMNS = r * COLUMNS + COLUMNS
           /\ (r - 1) * COLUMNS = r * COLUMNS - COLUMNS
           /\ (r - s) * COLUMNS = r * COLUMNS - s * COLUMNS
           /\ r <= s => r * COLUMNS <= s * COLUMNS
           /\ r < s => r * COLUMNS + COLUMNS <= s * COLUMNS
           /\ r >= 0 => r * COLUMNS >= 0
<1>1. \A p, q, w \in Int :
         /\ p * w \in Int
         /\ (p + q) * w = p * w + q * w
         /\ (p + 1) * w = p * w + w
         /\ (p - 1) * w = p * w - w
         /\ (p - q) * w = p * w - q * w
  OBVIOUS
<1>2. \A p, q, w \in Int : w >= 0 /\ p <= q => p * w <= q * w
  OBVIOUS
<1>3. \A p, w \in Int : w >= 0 /\ p >= 0 => p * w >= 0
  OBVIOUS
<1>4. r < s => (r + 1) * COLUMNS <= s * COLUMNS
  BY <1>2, Sizes
<1> QED
  BY <1>1, <1>2, <1>3, <1>4, Sizes

LEMMA RowSum ==
    ASSUME NEW r \in Int, NEW n \in Nat
    PROVE  /\ (r + n) * COLUMNS = r * COLUMNS + n * COLUMNS
           /\ (r - n) * COLUMNS = r * COLUMNS - n * COLUMNS
           /\ r * COLUMNS \in Int /\ n * COLUMNS \in Int /\ n * COLUMNS >= 0
<1>1. n \in Int /\ n >= 0
  OBVIOUS
<1> QED
  BY <1>1, RowStart

LEMMA RowFacts ==
    ASSUME NEW i \in Int
    PROVE  /\ RowOf(i) \in Int
           /\ RowOf(i) * COLUMNS <= i /\ i < RowOf(i) * COLUMNS + COLUMNS
           /\ i < LINES * COLUMNS <=> RowOf(i) < LINES
           /\ i >= 0 => RowOf(i) >= 0
<1>1. RowOf(i) \in Int /\ RowOf(i) * COLUMNS <= i /\ i < RowOf(i) * COLUMNS + COLUMNS
  BY Sizes, DivBounds DEF RowOf
<1>2. PICK k \in Int : k = RowOf(i)
  BY <1>1
<1>3. k < LINES => k * COLUMNS + COLUMNS <= LINES * COLUMNS
  BY Sizes, RowStart
<1>4. LINES <= k => LINES * COLUMNS <= k * COLUMNS
  BY Sizes, RowStart
<1>5. k < 0 => k * COLUMNS + COLUMNS <= 0
  <2>1. k < 0 => k * COLUMNS + COLUMNS <= 0 * COLUMNS
    BY RowStart
  <2> QED
    BY <2>1, Sizes
<1>6. k * COLUMNS \in Int
  BY RowStart
<1> QED
  BY <1>1, <1>2, <1>3, <1>4, <1>5, <1>6, Sizes

(* The cell in row r and column c                                          *)
LEMMA CellFacts ==
    ASSUME NEW r \in 0 .. LINES - 1, NEW c \in 0 .. COLUMNS - 1
    PROVE  /\ r * COLUMNS \in Nat
           /\ r * COLUMNS + c \in 0 .. LINES * COLUMNS - 1
           /\ r * COLUMNS + c \in Cells
           /\ RowOf(r * COLUMNS + c) = r
<1>1. r \in Int /\ r >= 0 /\ r < LINES /\ c \in Nat /\ c < COLUMNS
  BY Sizes
<1>2. r * COLUMNS \in Int /\ r * COLUMNS >= 0 /\ r * COLUMNS + COLUMNS <= LINES * COLUMNS
  BY <1>1, Sizes, RowStart
<1>3. r * COLUMNS + c \in Int /\ r * COLUMNS <= r * COLUMNS + c
      /\ r * COLUMNS + c < r * COLUMNS + COLUMNS
  BY <1>1, <1>2, Sizes
<1>4. RowOf(r * COLUMNS + c) = r
  BY <1>1, <1>3, Sizes, DivUnique DEF RowOf
<1> QED
  BY <1>1, <1>2, <1>4, Sizes DEF Cells

(***************************************************************************)
(* The video memory: what is behind the screen stays                       *)
(***************************************************************************)
Drawn(v) ==
    /\ v \in [Cells -> Characters]
    /\ \A i \in LINES * COLUMNS .. MEMORY - 1 : v[i] = SCREEN[i]

(* A picture that differs only on the screen.                              *)
LEMMA Redrawn ==
    ASSUME NEW v, Drawn(v), NEW w, DOMAIN w = Cells, w = [i \in Cells |-> w[i]],
           \A i \in Cells : w[i] \in Characters,
           \A i \in Cells : i >= LINES * COLUMNS => w[i] = v[i]
    PROVE  Drawn(w)
  BY Sizes DEF Drawn, Cells

LEMMA ScrollsUp ==
    ASSUME Drawn(video), NEW t \in Nat, NEW b \in 0 .. LINES, NEW n \in Nat
    PROVE  Drawn(scrup(t, b, n))
<1> DEFINE w == scrup(t, b, n)
<1>1. \A i \in Cells : w[i] = IF RowOf(i) \notin t .. b - 1 THEN video[i]
                              ELSE IF RowOf(i) + n < b THEN video[i + n * COLUMNS] ELSE BLANK
  BY DEF scrup
<1>2. DOMAIN w = Cells /\ w = [i \in Cells |-> w[i]]
  BY DEF scrup
<1> HIDE DEF w
<1>3. ASSUME NEW i \in Cells, RowOf(i) + n < b PROVE i + n * COLUMNS \in Cells
  <2>1. i \in Int /\ i >= 0
    BY DEF Cells
  <2>2. RowOf(i) \in Int /\ RowOf(i) * COLUMNS <= i /\ i < RowOf(i) * COLUMNS + COLUMNS
    BY <2>1, RowFacts
  <2>3. RowOf(i) + n < LINES
    BY <1>3, <2>2, Sizes
  <2>4. (RowOf(i) + n) * COLUMNS + COLUMNS <= LINES * COLUMNS
    BY <2>2, <2>3, Sizes, RowStart
  <2>5. /\ (RowOf(i) + n) * COLUMNS = RowOf(i) * COLUMNS + n * COLUMNS
        /\ RowOf(i) * COLUMNS \in Int /\ n * COLUMNS \in Int /\ n * COLUMNS >= 0
    BY <2>2, RowSum
  <2> QED
    BY <2>1, <2>2, <2>4, <2>5, Sizes DEF Cells
<1>4. ASSUME NEW i \in Cells, i >= LINES * COLUMNS PROVE RowOf(i) \notin t .. b - 1
  <2>1. RowOf(i) \in Int /\ RowOf(i) >= LINES
    BY <1>4, RowFacts, Sizes DEF Cells
  <2> QED
    BY <2>1, Sizes
<1>5. BLANK \in Characters /\ video \in [Cells -> Characters]
  BY DEF Drawn, Characters
<1>6. \A i \in Cells : w[i] \in Characters
  BY <1>1, <1>3, <1>5
<1>7. \A i \in Cells : i >= LINES * COLUMNS => w[i] = video[i]
  BY <1>1, <1>4
<1>8. Drawn(w)
  BY <1>2, <1>6, <1>7, Redrawn
<1> QED
  BY <1>8 DEF w

LEMMA ScrollsDown ==
    ASSUME Drawn(video), NEW t \in Nat, NEW b \in 0 .. LINES, NEW n \in Nat
    PROVE  Drawn(scrdown(t, b, n))
<1> DEFINE w == scrdown(t, b, n)
<1>1. \A i \in Cells : w[i] = IF RowOf(i) \notin t .. b - 1 THEN video[i]
                              ELSE IF RowOf(i) - n >= t THEN video[i - n * COLUMNS] ELSE BLANK
  BY DEF scrdown
<1>2. DOMAIN w = Cells /\ w = [i \in Cells |-> w[i]]
  BY DEF scrdown
<1> HIDE DEF w
<1>3. ASSUME NEW i \in Cells, RowOf(i) - n >= t PROVE i - n * COLUMNS \in Cells
  <2>1. i \in Int /\ i >= 0 /\ i < MEMORY
    BY Sizes DEF Cells
  <2>2. RowOf(i) \in Int /\ RowOf(i) * COLUMNS <= i
    BY <2>1, RowFacts
  <2>3. RowOf(i) - n >= 0
    BY <1>3, <2>2
  <2>4. (RowOf(i) - n) * COLUMNS >= 0
    <3>1. PICK k \in Int : k = RowOf(i) - n /\ k >= 0
      BY <2>2, <2>3
    <3> QED
      BY <3>1, RowStart
  <2>5. /\ (RowOf(i) - n) * COLUMNS = RowOf(i) * COLUMNS - n * COLUMNS
        /\ RowOf(i) * COLUMNS \in Int /\ n * COLUMNS \in Int /\ n * COLUMNS >= 0
    BY <2>2, RowSum
  <2> QED
    BY <2>1, <2>2, <2>4, <2>5, Sizes DEF Cells
<1>4. ASSUME NEW i \in Cells, i >= LINES * COLUMNS PROVE RowOf(i) \notin t .. b - 1
  <2>1. RowOf(i) \in Int /\ RowOf(i) >= LINES
    BY <1>4, RowFacts, Sizes DEF Cells
  <2> QED
    BY <2>1, Sizes
<1>5. BLANK \in Characters /\ video \in [Cells -> Characters]
  BY DEF Drawn, Characters
<1>6. \A i \in Cells : w[i] \in Characters
  BY <1>1, <1>3, <1>5
<1>7. \A i \in Cells : i >= LINES * COLUMNS => w[i] = video[i]
  BY <1>1, <1>4
<1>8. Drawn(w)
  BY <1>2, <1>6, <1>7, Redrawn
<1> QED
  BY <1>8 DEF w

(* One cell of the screen is written.                                      *)
LEMMA Written ==
    ASSUME NEW v, Drawn(v), NEW i \in 0 .. LINES * COLUMNS - 1, NEW c \in Characters
    PROVE  Drawn([v EXCEPT ![i] = c])
<1>1. v \in [Cells -> Characters] /\ \A k \in LINES * COLUMNS .. MEMORY - 1 : v[k] = SCREEN[k]
  BY DEF Drawn
<1>2. [v EXCEPT ![i] = c] \in [Cells -> Characters]
  BY <1>1
<1>3. \A k \in LINES * COLUMNS .. MEMORY - 1 : k \in Cells /\ k # i
  BY Sizes DEF Cells
<1> QED
  BY <1>1, <1>2, <1>3 DEF Drawn

(* Cells of the screen are erased.                                         *)
LEMMA ErasesScreen ==
    ASSUME Drawn(video), NEW area, \A i \in area : i < LINES * COLUMNS
    PROVE  Drawn(Erased(area))
<1>1. BLANK \in Characters
  BY DEF Characters
<1> QED
  BY <1>1, Sizes DEF Drawn, Cells, Erased

(***************************************************************************)
(* The cursor                                                              *)
(***************************************************************************)
CursorOK == x \in 0 .. COLUMNS /\ y \in 0 .. LINES - 1 /\ pos = y * COLUMNS + x

RegionOK == top \in 0 .. LINES - 1 /\ bottom \in 1 .. LINES /\ top < bottom

LEMMA CursorFacts ==
    ASSUME CursorOK
    PROVE  /\ x \in Int /\ x >= 0 /\ x <= COLUMNS /\ y \in Int /\ y >= 0 /\ y < LINES
           /\ y * COLUMNS \in Int /\ y * COLUMNS >= 0
           /\ y * COLUMNS + COLUMNS <= LINES * COLUMNS
           /\ pos \in Int /\ pos = y * COLUMNS + x /\ pos <= LINES * COLUMNS
           /\ RestOfLine = pos .. y * COLUMNS + COLUMNS - 1
<1>1. x \in Int /\ x >= 0 /\ x <= COLUMNS /\ y \in Int /\ y >= 0 /\ y < LINES
  BY Sizes DEF CursorOK
<1>2. /\ y * COLUMNS \in Int /\ y * COLUMNS >= 0
      /\ y * COLUMNS + COLUMNS <= LINES * COLUMNS
  BY <1>1, Sizes, RowStart
<1>3. pos = y * COLUMNS + x
  BY DEF CursorOK
<1>4. pos + COLUMNS - x - 1 = y * COLUMNS + COLUMNS - 1
  BY <1>1, <1>2, <1>3, Sizes
<1> QED
  BY <1>1, <1>2, <1>3, <1>4, Sizes DEF RestOfLine

(* The rest of its line is on the screen.                                  *)
LEMMA LineOnScreen ==
    ASSUME CursorOK
    PROVE  /\ \A i \in RestOfLine : i \in Cells /\ i < LINES * COLUMNS
           /\ \A i \in Cells : i >= LINES * COLUMNS => i \notin RestOfLine
<1>1. PICK e \in Int, l \in Int : e = y * COLUMNS + COLUMNS - 1 /\ l = LINES * COLUMNS
  BY CursorFacts, Sizes
<1>2. /\ pos \in Int /\ pos >= 0 /\ e < l /\ RestOfLine = pos .. e
      /\ l <= MEMORY /\ MEMORY \in Int
  BY <1>1, CursorFacts, Sizes
<1>3. \A i \in RestOfLine : i \in Cells /\ i < l
  BY <1>2 DEF Cells
<1>4. \A i \in Cells : i >= l => i \notin RestOfLine
  BY <1>2 DEF Cells
<1> QED
  BY <1>1, <1>3, <1>4

(* Cells in the line of the cursor move right or left.                     *)
LEMMA ShiftsRight ==
    ASSUME Drawn(video), CursorOK, NEW n \in Nat
    PROVE  Drawn(insert_char(n))
<1> DEFINE w == insert_char(n)
<1>1. \A i \in Cells : w[i] = IF i \notin RestOfLine THEN video[i]
                              ELSE IF i - n >= pos THEN video[i - n] ELSE BLANK
  BY DEF insert_char
<1>2. DOMAIN w = Cells /\ w = [i \in Cells |-> w[i]]
  BY DEF insert_char
<1> HIDE DEF w
<1>3. /\ pos \in Int /\ pos >= 0 /\ y * COLUMNS + COLUMNS \in Int
      /\ y * COLUMNS + COLUMNS <= LINES * COLUMNS
      /\ RestOfLine = pos .. y * COLUMNS + COLUMNS - 1
  BY CursorFacts, Sizes
<1>4. \A i \in Cells : i - n >= pos => i - n \in Cells
  BY <1>3, Sizes DEF Cells
<1>5. \A i \in Cells : i >= LINES * COLUMNS => i \notin RestOfLine
  BY LineOnScreen
<1>6. BLANK \in Characters /\ video \in [Cells -> Characters]
  BY DEF Drawn, Characters
<1>7. \A i \in Cells : w[i] \in Characters
  BY <1>1, <1>4, <1>6
<1>8. \A i \in Cells : i >= LINES * COLUMNS => w[i] = video[i]
  BY <1>1, <1>5
<1>9. Drawn(w)
  BY <1>2, <1>7, <1>8, Redrawn
<1> QED
  BY <1>9 DEF w

LEMMA ShiftsLeft ==
    ASSUME Drawn(video), CursorOK, NEW n \in Nat
    PROVE  Drawn(delete_char(n))
<1> DEFINE w == delete_char(n)
<1>1. \A i \in Cells : w[i] = IF i \notin RestOfLine THEN video[i]
                              ELSE IF i + n \in RestOfLine THEN video[i + n] ELSE BLANK
  BY DEF delete_char
<1>2. DOMAIN w = Cells /\ w = [i \in Cells |-> w[i]]
  BY DEF delete_char
<1> HIDE DEF w
<1>3. /\ pos \in Int /\ pos >= 0 /\ y * COLUMNS + COLUMNS \in Int
      /\ y * COLUMNS + COLUMNS <= LINES * COLUMNS
      /\ RestOfLine = pos .. y * COLUMNS + COLUMNS - 1
  BY CursorFacts, Sizes
<1>4. \A i \in RestOfLine : i \in Cells
  BY LineOnScreen
<1>5. \A i \in Cells : i >= LINES * COLUMNS => i \notin RestOfLine
  BY LineOnScreen
<1>6. BLANK \in Characters /\ video \in [Cells -> Characters]
  BY DEF Drawn, Characters
<1>7. \A i \in Cells : w[i] \in Characters
  BY <1>1, <1>4, <1>6
<1>8. \A i \in Cells : i >= LINES * COLUMNS => w[i] = video[i]
  BY <1>1, <1>5
<1>9. Drawn(w)
  BY <1>2, <1>7, <1>8, Redrawn
<1> QED
  BY <1>9 DEF w

(* A line feed moves the cursor down or scrolls.                           *)
LEMMA LineFeedFacts ==
    ASSUME Drawn(video), CursorOK, RegionOK
    PROVE  /\ lf.y \in 0 .. LINES - 1 /\ lf.way \in {0, COLUMNS}
           /\ lf.y * COLUMNS = y * COLUMNS + lf.way
           /\ Drawn(lf.video)
           /\ lf.y = IF y + 1 < bottom THEN y + 1 ELSE y
           /\ lf.video = IF y + 1 < bottom THEN video ELSE scrup(top, bottom, 1)
<1>1. y \in Int /\ y >= 0 /\ y < LINES /\ y * COLUMNS \in Int
  BY CursorFacts
<1>2. /\ top \in Nat /\ bottom \in 0 .. LINES /\ bottom \in Int /\ bottom <= LINES
  BY Sizes DEF RegionOK
<1>3. CASE y + 1 < bottom
  <2>1. lf = [y |-> y + 1, way |-> COLUMNS, video |-> video]
    BY <1>3 DEF lf
  <2>2. (y + 1) * COLUMNS = y * COLUMNS + COLUMNS
    BY <1>1, RowStart
  <2> QED
    BY <1>1, <1>2, <1>3, <2>1, <2>2, Sizes
<1>4. CASE ~(y + 1 < bottom)
  <2>1. lf = [y |-> y, way |-> 0, video |-> scrup(top, bottom, 1)]
    BY <1>4 DEF lf
  <2>2. Drawn(scrup(top, bottom, 1))
    BY <1>2, ScrollsUp
  <2> QED
    BY <1>1, <1>4, <2>1, <2>2, Sizes
<1> QED
  BY <1>3, <1>4

(***************************************************************************)
(* The parser                                                              *)
(***************************************************************************)
ParserOK ==
    /\ state \in 0 .. 3
    /\ npar \in 0 .. NPAR - 1
    /\ par \in [0 .. NPAR - 1 -> Nat]

SavedOK == saved_x \in 0 .. COLUMNS /\ saved_y \in 0 .. LINES - 1

ScreenInv ==
    /\ Drawn(video)
    /\ cur_pos \in 0 .. LINES * COLUMNS
    /\ CursorOK /\ RegionOK /\ ParserOK /\ SavedOK

LEMMA DigitFacts ==
    ASSUME NEW c \in DOMAIN DigitValue
    PROVE  DigitValue[c] \in Nat
<1> DEFINE d == <<"0", "1", "2", "3", "4", "5", "6", "7", "8", "9">>
<1>1. c \in {"0", "1", "2", "3", "4", "5", "6", "7", "8", "9"}
  BY DEF DigitValue
<1>2. \E n \in 0 .. 9 : c = d[n + 1]
  <2>1. /\ d[0 + 1] = "0" /\ d[1 + 1] = "1" /\ d[2 + 1] = "2" /\ d[3 + 1] = "3" /\ d[4 + 1] = "4"
        /\ d[5 + 1] = "5" /\ d[6 + 1] = "6" /\ d[7 + 1] = "7" /\ d[8 + 1] = "8" /\ d[9 + 1] = "9"
    OBVIOUS
  <2> HIDE DEF d
  <2> QED
    BY <1>1, <2>1
<1>3. DigitValue[c] = CHOOSE n \in 0 .. 9 : c = d[n + 1]
  BY <1>1 DEF DigitValue
<1> HIDE DEF d
<1>4. DigitValue[c] \in 0 .. 9
  BY <1>2, <1>3
<1> QED
  BY <1>4

LEMMA ParameterFacts ==
    ASSUME ParserOK
    PROVE  /\ Pars \in [0 .. NPAR - 1 -> Nat] /\ Count \in 0 .. NPAR - 1
           /\ Number(0) \in Nat /\ Number(0) >= 1
           /\ Position(0) \in Nat /\ Position(1) \in Nat
           /\ Pars[0] \in Nat /\ Pars[1] \in Nat
           /\ \A m \in Nat : m >= 1 => Capped(m) \in 1 .. m
<1>1. Pars \in [0 .. NPAR - 1 -> Nat] /\ Count \in 0 .. NPAR - 1
  BY Sizes DEF ParserOK, Pars, Count
<1>2. Pars[0] \in Nat /\ Pars[1] \in Nat
  BY <1>1, Sizes
<1>3. Number(0) \in Nat /\ Number(0) >= 1 /\ Position(0) \in Nat /\ Position(1) \in Nat
  BY <1>2 DEF Number, Position
<1> QED
  BY <1>1, <1>2, <1>3 DEF Capped

LEMMA CappedFacts ==
    ASSUME ParserOK
    PROVE  /\ Capped(LINES) \in 1 .. LINES /\ Capped(COLUMNS) \in 1 .. COLUMNS
           /\ Capped(LINES) \in Nat /\ Capped(COLUMNS) \in Nat
<1>1. \A m \in Nat : m >= 1 => Capped(m) \in 1 .. m
  BY ParameterFacts
<1>2. LINES \in Nat /\ LINES >= 1 /\ COLUMNS \in Nat /\ COLUMNS >= 1
  BY Sizes
<1>3. Capped(LINES) \in 1 .. LINES
  BY <1>1, <1>2
<1>4. Capped(COLUMNS) \in 1 .. COLUMNS
  BY <1>1, <1>2
<1> QED
  BY <1>2, <1>3, <1>4

(* gotoxy: the cursor goes to a place of the screen, if it goes.           *)
LEMMA GoesTo ==
    ASSUME CursorOK, NEW new_x, NEW new_y, gotoxy(new_x, new_y)
    PROVE  CursorOK'
  BY DEF gotoxy, CursorOK, cursorVars

(***************************************************************************)
(* The steps                                                               *)
(***************************************************************************)
LEMMA PutCharStep ==
    ASSUME Drawn(video), CursorOK, RegionOK, NEW c, PutChar(c)
    PROVE  Drawn(video)' /\ CursorOK'
<1>1. c \in Characters
  BY DEF PutChar, Characters
<1>2. /\ x \in Int /\ x >= 0 /\ x <= COLUMNS /\ y * COLUMNS \in Int /\ y * COLUMNS >= 0
      /\ y * COLUMNS + COLUMNS <= LINES * COLUMNS /\ pos = y * COLUMNS + x /\ y \in 0 .. LINES - 1
  BY CursorFacts DEF CursorOK
<1>3. /\ lf.y \in 0 .. LINES - 1 /\ lf.way \in {0, COLUMNS}
      /\ lf.y * COLUMNS = y * COLUMNS + lf.way
      /\ Drawn(lf.video)
  BY LineFeedFacts
<1>4. CASE Full
  <2>1. x = COLUMNS
    BY <1>2, <1>4, Sizes DEF Full
  <2>2. /\ video' = [lf.video EXCEPT ![pos - COLUMNS + lf.way] = c]
        /\ pos' = pos - COLUMNS + lf.way + 1 /\ x' = x - COLUMNS + 1 /\ y' = lf.y
    BY <1>4 DEF PutChar
  <2>3. pos - COLUMNS + lf.way = lf.y * COLUMNS
    BY <1>2, <1>3, <2>1, Sizes
  <2>4. lf.y * COLUMNS + 0 \in 0 .. LINES * COLUMNS - 1 /\ lf.y * COLUMNS \in Nat
    BY <1>3, Sizes, CellFacts
  <2>5. Drawn([lf.video EXCEPT ![lf.y * COLUMNS] = c])
    BY <1>1, <1>3, <2>4, Written
  <2>6. x' = 1 /\ pos' = lf.y * COLUMNS + 1
    BY <1>2, <2>1, <2>2, <2>3, Sizes
  <2>7. CursorOK'
    BY <1>3, <2>2, <2>6, Sizes DEF CursorOK
  <2> QED
    BY <2>2, <2>3, <2>5, <2>7 DEF Drawn
<1>5. CASE ~Full
  <2>1. x < COLUMNS
    BY <1>2, <1>5, Sizes DEF Full
  <2>2. /\ video' = [video EXCEPT ![pos] = c]
        /\ pos' = pos + 1 /\ x' = x + 1 /\ y' = y
    BY <1>5 DEF PutChar
  <2>3. pos \in 0 .. LINES * COLUMNS - 1
    BY <1>2, <2>1, Sizes
  <2>4. Drawn([video EXCEPT ![pos] = c])
    BY <1>1, <2>3, Written
  <2>5. CursorOK'
    BY <1>2, <2>1, <2>2, Sizes DEF CursorOK
  <2> QED
    BY <2>2, <2>4, <2>5 DEF Drawn
<1> QED
  BY <1>4, <1>5

(* The next tabulator is on the line, or the cursor was behind it.         *)
LEMMA TabFacts ==
    ASSUME CursorOK
    PROVE  /\ x + TAB - (x % TAB) \in Int /\ x + TAB - (x % TAB) > x
           /\ x < COLUMNS => x + TAB - (x % TAB) <= COLUMNS
           /\ x = COLUMNS => x + TAB - (x % TAB) = COLUMNS + TAB
           /\ TAB <= COLUMNS
<1>1. /\ x \in Int /\ x >= 0 /\ x <= COLUMNS /\ COLUMNS % TAB = 0
      /\ TAB \in Nat \ {0} /\ COLUMNS \in Int /\ COLUMNS >= 4 /\ TAB \in Int /\ TAB >= 1
  BY CursorFacts, Sizes, ConsoleAssumption
<1>a. x \div TAB \in Int /\ x % TAB = x - (x \div TAB) * TAB /\ x % TAB \in 0 .. TAB - 1
  BY <1>1, DivBounds
<1>2. PICK q \in Int, r \in Int : q = x \div TAB /\ r = x % TAB
  BY <1>1, <1>a
<1>3. r = x - q * TAB /\ r >= 0 /\ r < TAB
  BY <1>1, <1>2, <1>a
<1>4. PICK k \in Int : COLUMNS = k * TAB
  <2>1. /\ COLUMNS \div TAB \in Int
        /\ COLUMNS % TAB = COLUMNS - (COLUMNS \div TAB) * TAB
    BY <1>1, DivBounds
  <2>2. PICK k \in Int : k = COLUMNS \div TAB
    BY <2>1
  <2>3. k * TAB \in Int
    BY <1>1, SMT
  <2>4. COLUMNS = k * TAB
    BY <1>1, <2>1, <2>2, <2>3
  <2> QED
    BY <2>4
<1>5. \A a, b, w \in Int : a < b /\ w >= 1 => (a + 1) * w <= b * w
  <2>1. \A a, b, w \in Int : w >= 1 /\ a <= b => a * w <= b * w
    OBVIOUS
  <2> QED
    BY <2>1
<1>6. (q + 1) * TAB = q * TAB + TAB /\ q * TAB \in Int
  BY <1>1, SMT
<1>7. x < COLUMNS => q < k
  BY <1>1, <1>2, <1>4, DivLess
<1>8. x < COLUMNS => q * TAB + TAB <= COLUMNS
  BY <1>1, <1>4, <1>5, <1>6, <1>7
<1>9. TAB <= COLUMNS
  <2>1. k >= 1
    <3>1. \A a, w \in Int : a <= 0 /\ w >= 1 => a * w <= 0
      OBVIOUS
    <3> QED
      BY <1>1, <1>4, <3>1
  <2>2. \A a, w \in Int : a >= 1 /\ w >= 1 => a * w >= w
    OBVIOUS
  <2> QED
    BY <1>1, <1>4, <2>1, <2>2
<1>10. x = COLUMNS => r = 0
  BY <1>1, <1>2
<1> QED
  BY <1>1, <1>2, <1>3, <1>6, <1>8, <1>9, <1>10

LEMMA TabulateStep ==
    ASSUME Drawn(video), CursorOK, RegionOK, NEW c, Tabulate(c)
    PROVE  Drawn(video)' /\ CursorOK'
<1>1. PICK next \in Int : next = x + TAB - (x % TAB)
  BY TabFacts
<1>2. next > x /\ (x < COLUMNS => next <= COLUMNS) /\ (x = COLUMNS => next = COLUMNS + TAB)
      /\ TAB <= COLUMNS
  BY <1>1, TabFacts
<1>3. /\ x' = IF next > COLUMNS THEN next - COLUMNS ELSE next
      /\ y' = IF next > COLUMNS THEN lf.y ELSE y
      /\ pos' = pos + next - x + (IF next > COLUMNS THEN lf.way - COLUMNS ELSE 0)
      /\ video' = IF next > COLUMNS THEN lf.video ELSE video
  BY <1>1 DEF Tabulate
<1>4. /\ lf.y \in 0 .. LINES - 1 /\ lf.way \in {0, COLUMNS}
      /\ lf.y * COLUMNS = y * COLUMNS + lf.way
      /\ Drawn(lf.video)
  BY LineFeedFacts
<1>5. /\ x \in Int /\ x >= 0 /\ x <= COLUMNS /\ y * COLUMNS \in Int
      /\ pos = y * COLUMNS + x /\ y \in 0 .. LINES - 1
  BY CursorFacts DEF CursorOK
<1>6. CASE next > COLUMNS
  <2>1. next = COLUMNS + TAB
    BY <1>2, <1>5, <1>6, Sizes
  <2>2. x' = TAB /\ y' = lf.y /\ video' = lf.video
    BY <1>3, <1>6, <2>1, Sizes
  <2>3. pos' = lf.y * COLUMNS + TAB
    <3>1. pos' = pos + next - x + (lf.way - COLUMNS) /\ lf.way \in Int
      BY <1>3, <1>4, <1>6, Sizes
    <3> QED
      BY <1>4, <1>5, <2>1, <3>1, Sizes
  <2> QED
    BY <1>2, <1>4, <2>2, <2>3, Sizes DEF CursorOK, Drawn
<1>7. CASE ~(next > COLUMNS)
  <2>1. x' = next /\ y' = y /\ video' = video /\ pos' = y * COLUMNS + next
    <3>1. pos' = pos + next - x + 0
      BY <1>3, <1>7
    <3> QED
      BY <1>3, <1>5, <1>7, <3>1
  <2> QED
    BY <1>2, <1>5, <1>7, <2>1, Sizes DEF CursorOK, Drawn
<1> QED
  BY <1>6, <1>7

LEMMA LineFeedStep ==
    ASSUME Drawn(video), CursorOK, RegionOK, LineFeed
    PROVE  Drawn(video)' /\ CursorOK'
<1>1. /\ lf.y \in 0 .. LINES - 1 /\ lf.way \in {0, COLUMNS}
      /\ lf.y * COLUMNS = y * COLUMNS + lf.way
      /\ Drawn(lf.video)
  BY LineFeedFacts
<1>2. x \in 0 .. COLUMNS /\ y * COLUMNS \in Int /\ pos = y * COLUMNS + x
  BY CursorFacts DEF CursorOK
<1>3. x' = x /\ y' = lf.y /\ video' = lf.video /\ pos' = pos + lf.way
  BY DEF LineFeed
<1>4. pos' = lf.y * COLUMNS + x
  BY <1>1, <1>2, <1>3, Sizes
<1> QED
  BY <1>1, <1>2, <1>3, <1>4 DEF CursorOK, Drawn

LEMMA ReverseStep ==
    ASSUME Drawn(video), CursorOK, RegionOK, ri
    PROVE  Drawn(video)' /\ CursorOK'
<1>1. /\ x \in 0 .. COLUMNS /\ y \in Int /\ y >= 0 /\ y < LINES /\ y * COLUMNS \in Int
      /\ pos = y * COLUMNS + x
  BY CursorFacts DEF CursorOK
<1>2. top \in Nat /\ bottom \in 0 .. LINES
  BY Sizes DEF RegionOK
<1>3. CASE y > top
  <2>1. x' = x /\ y' = y - 1 /\ pos' = pos - COLUMNS /\ video' = video
    BY <1>3 DEF ri
  <2>2. (y - 1) * COLUMNS = y * COLUMNS - COLUMNS
    BY <1>1, RowStart
  <2>3. y - 1 \in 0 .. LINES - 1
    BY <1>1, <1>2, <1>3, Sizes
  <2>4. pos' = (y - 1) * COLUMNS + x
    BY <1>1, <2>1, <2>2, Sizes
  <2> QED
    BY <1>1, <2>1, <2>3, <2>4 DEF CursorOK, Drawn
<1>4. CASE ~(y > top)
  <2>1. x' = x /\ y' = y /\ pos' = pos /\ video' = scrdown(top, bottom, 1)
    BY <1>4 DEF ri
  <2>2. Drawn(scrdown(top, bottom, 1))
    BY <1>2, ScrollsDown
  <2> QED
    BY <2>1, <2>2 DEF CursorOK, Drawn
<1> QED
  BY <1>3, <1>4

LEMMA BackStep ==
    ASSUME Drawn(video), CursorOK, NEW c, Back(c)
    PROVE  Drawn(video)' /\ CursorOK'
<1>1. /\ x \in Int /\ x >= 0 /\ x <= COLUMNS /\ y \in 0 .. LINES - 1
      /\ y * COLUMNS \in Int /\ y * COLUMNS >= 0
      /\ y * COLUMNS + COLUMNS <= LINES * COLUMNS /\ pos = y * COLUMNS + x
  BY CursorFacts DEF CursorOK
<1>2. CASE x = 0
  BY <1>2 DEF Back, cursorVars, CursorOK, Drawn
<1>3. CASE x # 0
  <2>1. /\ x' = x - 1 /\ pos' = pos - 1 /\ y' = y
        /\ video' = IF c = "DEL" THEN [video EXCEPT ![pos - 1] = BLANK] ELSE video
    BY <1>3 DEF Back
  <2>2. pos - 1 \in 0 .. LINES * COLUMNS - 1 /\ BLANK \in Characters
    BY <1>1, <1>3, Sizes DEF Characters
  <2>3. Drawn([video EXCEPT ![pos - 1] = BLANK])
    BY <2>2, Written
  <2>4. CursorOK'
    BY <1>1, <1>3, <2>1, Sizes DEF CursorOK
  <2> QED
    BY <2>1, <2>3, <2>4 DEF Drawn
<1> QED
  BY <1>2, <1>3

LEMMA TextStep ==
    ASSUME ScreenInv, NEW c, Text(c)
    PROVE  Drawn(video)' /\ CursorOK' /\ RegionOK' /\ ParserOK' /\ SavedOK'
<1>1. Drawn(video) /\ CursorOK /\ RegionOK /\ ParserOK /\ SavedOK
  BY DEF ScreenInv
<1>2. Drawn(video)' /\ CursorOK'
  <2>1. CASE PutChar(c)
    BY <1>1, <2>1, PutCharStep
  <2>2. CASE Tabulate(c)
    BY <1>1, <2>2, TabulateStep
  <2>3. CASE Back(c)
    BY <1>1, <2>3, BackStep
  <2>4. CASE LineFeed
    BY <1>1, <2>4, LineFeedStep
  <2>5. CASE cr
    <3>1. /\ x \in Int /\ y * COLUMNS \in Int /\ pos = y * COLUMNS + x /\ y \in 0 .. LINES - 1
      BY <1>1, CursorFacts DEF CursorOK
    <3>2. x' = 0 /\ y' = y /\ video' = video /\ pos' = y * COLUMNS + 0
      BY <2>5, <3>1 DEF cr
    <3> QED
      BY <1>1, <3>1, <3>2, Sizes DEF CursorOK, Drawn
  <2>6. CASE UNCHANGED <<video, cursorVars>>
    BY <1>1, <2>6 DEF cursorVars, CursorOK, Drawn
  <2> QED
    BY <2>1, <2>2, <2>3, <2>4, <2>5, <2>6 DEF Text
<1>3. UNCHANGED <<top, bottom, npar, par, saved_x, saved_y>> /\ state' \in 0 .. 3
  BY DEF Text, regionVars, parserVars, savedVars
<1> QED
  BY <1>1, <1>2, <1>3 DEF RegionOK, ParserOK, SavedOK

LEMMA EscapeStep ==
    ASSUME ScreenInv, NEW c, Escape(c)
    PROVE  Drawn(video)' /\ CursorOK' /\ RegionOK' /\ ParserOK' /\ SavedOK'
<1>1. Drawn(video) /\ CursorOK /\ RegionOK /\ ParserOK /\ SavedOK
  BY DEF ScreenInv
<1>2. UNCHANGED <<top, bottom, npar, par>> /\ state' \in 0 .. 3
  BY DEF Escape, regionVars, parserVars
<1>3. Drawn(video)' /\ CursorOK' /\ SavedOK'
  <2>1. CASE gotoxy(0, y + 1) /\ UNCHANGED <<video, savedVars>>
    BY <1>1, <2>1, GoesTo DEF Drawn, savedVars, SavedOK
  <2>2. CASE ri /\ UNCHANGED savedVars
    BY <1>1, <2>2, ReverseStep DEF savedVars, SavedOK
  <2>3. CASE LineFeed /\ UNCHANGED savedVars
    BY <1>1, <2>3, LineFeedStep DEF savedVars, SavedOK
  <2>4. CASE save_cur /\ UNCHANGED <<video, cursorVars>>
    BY <1>1, <2>4 DEF save_cur, cursorVars, CursorOK, SavedOK, Drawn
  <2>5. CASE restore_cur /\ UNCHANGED <<video, savedVars>>
    BY <1>1, <2>5, GoesTo DEF restore_cur, Drawn, savedVars, SavedOK
  <2>6. CASE UNCHANGED <<video, cursorVars, savedVars>>
    BY <1>1, <2>6 DEF cursorVars, CursorOK, savedVars, SavedOK, Drawn
  <2> QED
    BY <2>1, <2>2, <2>3, <2>4, <2>5, <2>6 DEF Escape
<1> QED
  BY <1>1, <1>2, <1>3 DEF RegionOK, ParserOK

LEMMA ParameterStep ==
    ASSUME ScreenInv, NEW c, Parameter(c)
    PROVE  Drawn(video)' /\ CursorOK' /\ RegionOK' /\ ParserOK' /\ SavedOK'
<1>1. Drawn(video) /\ CursorOK /\ RegionOK /\ ParserOK /\ SavedOK
  BY DEF ScreenInv
<1>2. UNCHANGED <<video, x, y, pos, top, bottom, saved_x, saved_y>>
  BY DEF Parameter, cursorVars, regionVars, savedVars
<1>3. Pars \in [0 .. NPAR - 1 -> Nat] /\ Count \in 0 .. NPAR - 1
  BY <1>1, ParameterFacts
<1>4. npar' \in 0 .. NPAR - 1
  <2>1. CASE Separates(c)
    <3>1. npar' = Count + 1 /\ Count < NPAR - 1
      BY <2>1 DEF Parameter, Separates
    <3> QED
      BY <1>3, <3>1, Sizes
  <2>2. CASE ~Separates(c)
    <3>1. npar' = Count
      BY <2>2 DEF Parameter
    <3> QED
      BY <1>3, <3>1
  <2> QED
    BY <2>1, <2>2
<1>5. par' \in [0 .. NPAR - 1 -> Nat]
  <2>1. CASE c \in DOMAIN DigitValue
    <3>1. par' = [Pars EXCEPT ![Count] = 10 * Pars[Count] + DigitValue[c]]
      BY <2>1 DEF Parameter
    <3>2. 10 * Pars[Count] + DigitValue[c] \in Nat
      BY <1>3, <2>1, DigitFacts
    <3> QED
      BY <1>3, <3>1, <3>2
  <2>2. CASE c \notin DOMAIN DigitValue
    BY <1>3, <2>2 DEF Parameter
  <2> QED
    BY <2>1, <2>2
<1>6. state' \in 0 .. 3
  BY DEF Parameter
<1> QED
  BY <1>1, <1>2, <1>4, <1>5, <1>6 DEF Drawn, CursorOK, RegionOK, ParserOK, SavedOK


(* A function's text                                                       *)
LEMMA ErasedAreas ==
    ASSUME CursorOK, NEW n
    PROVE  /\ \A i \in csi_J(n) : i < LINES * COLUMNS
           /\ \A i \in csi_K(n) : i < LINES * COLUMNS
<1>1. PICK a \in Int, l \in Int : a = y * COLUMNS /\ l = LINES * COLUMNS
  BY CursorFacts, Sizes
<1>2. /\ x \in Int /\ x >= 0 /\ x <= COLUMNS /\ COLUMNS \in Int /\ a + COLUMNS <= l
      /\ pos = a + x /\ RestOfLine = pos .. a + COLUMNS - 1
  BY <1>1, CursorFacts, Sizes
<1>3. csi_J(n) \in {pos .. l - 1, 0 .. pos - 1, 0 .. l - 1, {}}
  BY <1>1 DEF csi_J
<1>4. csi_K(n) \in {RestOfLine, pos - x .. pos - 1, pos - x .. pos - x + COLUMNS - 1, {}}
  BY DEF csi_K
<1>5. \A i \in csi_J(n) : i < l
  BY <1>2, <1>3
<1>6. \A i \in csi_K(n) : i < l
  BY <1>2, <1>4
<1> QED
  BY <1>1, <1>5, <1>6

LEMMA EditStep ==
    ASSUME ScreenInv, NEW c, Edit(c)
    PROVE  Drawn(video)'
<1>1. Drawn(video) /\ CursorOK /\ ParserOK
  BY DEF ScreenInv
<1>2. y \in Nat /\ LINES \in 0 .. LINES
  BY <1>1, CursorFacts, Sizes
<1>3. Capped(LINES) \in Nat /\ Capped(COLUMNS) \in Nat
  BY <1>1, CappedFacts
<1>4. PICK w : video' = w /\ Drawn(w)
  <2>1. CASE video' = Erased(csi_J(Pars[0]))
    BY <1>1, <2>1, ErasedAreas, ErasesScreen
  <2>2. CASE video' = Erased(csi_K(Pars[0]))
    BY <1>1, <2>2, ErasedAreas, ErasesScreen
  <2>3. CASE video' = scrdown(y, LINES, Capped(LINES))
    BY <1>1, <1>2, <1>3, <2>3, ScrollsDown
  <2>4. CASE video' = scrup(y, LINES, Capped(LINES))
    BY <1>1, <1>2, <1>3, <2>4, ScrollsUp
  <2>5. CASE video' = delete_char(Capped(COLUMNS))
    BY <1>1, <1>3, <2>5, ShiftsLeft
  <2>6. CASE video' = insert_char(Capped(COLUMNS))
    BY <1>1, <1>3, <2>6, ShiftsRight
  <2> QED
    BY <2>1, <2>2, <2>3, <2>4, <2>5, <2>6 DEF Edit
<1> QED
  BY <1>4 DEF Drawn

LEMMA RegionStep ==
    ASSUME ScreenInv, NEW c, SetRegion(c)
    PROVE  RegionOK'
<1>1. RegionOK /\ Position(0) \in Nat /\ Pars[1] \in Nat
  BY ParameterFacts DEF ScreenInv
<1>2. PICK first \in Nat, last \in Nat :
        /\ last > 0
        /\ IF first < last /\ last <= LINES
           THEN top' = first /\ bottom' = last
           ELSE UNCHANGED regionVars
  <2>1. (IF Pars[1] = 0 THEN LINES ELSE Pars[1]) \in Nat \ {0}
    BY <1>1, Sizes
  <2> QED
    BY <1>1, <2>1 DEF SetRegion
<1> QED
  BY <1>1, <1>2, Sizes DEF RegionOK, regionVars

LEMMA FunctionStep ==
    ASSUME ScreenInv, NEW c, Function(c)
    PROVE  Drawn(video)' /\ CursorOK' /\ RegionOK' /\ ParserOK' /\ SavedOK'
<1>1. Drawn(video) /\ CursorOK /\ RegionOK /\ ParserOK /\ SavedOK
  BY DEF ScreenInv
<1>2. ParserOK'
  <2>1. state' = 0 /\ npar' = Count /\ par' = Pars
    BY DEF Function
  <2> QED
    BY <1>1, <2>1, ParameterFacts DEF ParserOK
<1>3. Drawn(video)' /\ CursorOK' /\ RegionOK' /\ SavedOK'
  <2>1. CASE MoveCursor(c)
    <3>1. gotoxy(Moves[c][1], Moves[c][2]) /\ UNCHANGED <<video, regionVars, savedVars>>
      BY <2>1 DEF MoveCursor
    <3>2. CursorOK'
      BY <1>1, <3>1, GoesTo
    <3> QED
      BY <1>1, <3>1, <3>2 DEF Drawn, regionVars, RegionOK, savedVars, SavedOK
  <2>2. CASE Edit(c)
    <3>1. UNCHANGED <<cursorVars, regionVars, savedVars>>
      BY <2>2 DEF Edit
    <3>2. Drawn(video)'
      BY <2>2, EditStep
    <3> QED
      BY <1>1, <3>1, <3>2 DEF cursorVars, CursorOK, regionVars, RegionOK, savedVars, SavedOK
  <2>3. CASE SetRegion(c)
    <3>1. UNCHANGED <<video, cursorVars, savedVars>>
      BY <2>3 DEF SetRegion
    <3>2. RegionOK'
      BY <2>3, RegionStep
    <3> QED
      BY <1>1, <3>1, <3>2 DEF Drawn, cursorVars, CursorOK, savedVars, SavedOK
  <2>4. CASE save_cur /\ UNCHANGED <<video, cursorVars, regionVars>>
    BY <1>1, <2>4 DEF save_cur, Drawn, cursorVars, CursorOK, regionVars, RegionOK, SavedOK
  <2>5. CASE UNCHANGED <<video, cursorVars, regionVars, savedVars>>
    BY <1>1, <2>5 DEF Drawn, cursorVars, CursorOK, regionVars, RegionOK, savedVars, SavedOK
  <2> QED
    BY <2>1, <2>2, <2>3, <2>4, <2>5 DEF Function
<1> QED
  BY <1>2, <1>3

(* What is printed at once ends with its line at the latest.               *)
LEMMA BlanksFit ==
    ASSUME cur_pos \in 0 .. LINES * COLUMNS, NEW ch, ch \in {"LF", "CR", "TAB"}
    PROVE  Blanks(ch) \in 0 .. COLUMNS - (cur_pos % COLUMNS)
<1>1. /\ cur_pos \in Int /\ cur_pos >= 0 /\ COLUMNS \in Int /\ COLUMNS >= 4
      /\ COLUMNS \in Nat \ {0} /\ PRINT_TAB \in Nat
  BY Sizes, ConsoleAssumption
<1>a. /\ cur_pos \div COLUMNS \in Int
      /\ cur_pos % COLUMNS = cur_pos - (cur_pos \div COLUMNS) * COLUMNS
      /\ cur_pos % COLUMNS \in 0 .. COLUMNS - 1
  BY <1>1, DivBounds
<1>2. PICK q \in Int, r \in Int : q = cur_pos \div COLUMNS /\ r = cur_pos % COLUMNS
  BY <1>1, <1>a
<1>3. PICK e \in Int : /\ e = q * COLUMNS /\ cur_pos = e + r /\ r >= 0 /\ r < COLUMNS
  <2>1. cur_pos % COLUMNS = cur_pos - (cur_pos \div COLUMNS) * COLUMNS
        /\ cur_pos % COLUMNS \in 0 .. COLUMNS - 1
    BY <1>a
  <2>2. q * COLUMNS \in Int
    BY RowStart
  <2> QED
    BY <1>1, <1>2, <2>1, <2>2
<1>4. CASE ch \in {"LF", "CR"}
  <2>1. Blanks(ch) = COLUMNS - r
    BY <1>2, <1>4 DEF Blanks
  <2> QED
    BY <1>1, <1>2, <1>3, <2>1
<1>5. CASE ch = "TAB"
  <2>1. Blanks(ch) = IF q = (cur_pos + PRINT_TAB) \div COLUMNS THEN PRINT_TAB ELSE 0
    BY <1>2, <1>5 DEF Blanks
  <2>2. CASE q = (cur_pos + PRINT_TAB) \div COLUMNS
    <3>1. RowOf(cur_pos + PRINT_TAB) = q /\ cur_pos + PRINT_TAB \in Int
      BY <1>1, <2>2 DEF RowOf
    <3>2. cur_pos + PRINT_TAB < q * COLUMNS + COLUMNS
      BY <3>1, RowFacts
    <3> QED
      BY <1>1, <1>2, <1>3, <2>1, <2>2, <3>2
  <2>3. CASE q # (cur_pos + PRINT_TAB) \div COLUMNS
    BY <1>1, <1>2, <1>3, <2>1, <2>3
  <2> QED
    BY <2>2, <2>3
<1> QED
  BY <1>4, <1>5

(* So many characters are printed from there on.                           *)
PrintedAt(n) == IF BehindScreen /\ n > 0 THEN cur_pos - COLUMNS ELSE cur_pos
PrintedOn(n) == IF BehindScreen /\ n > 0 THEN scroll_down ELSE video

LEMMA PrintPlace ==
    ASSUME cur_pos \in 0 .. LINES * COLUMNS, NEW n \in 0 .. COLUMNS - (cur_pos % COLUMNS)
    PROVE  /\ BehindScreen <=> cur_pos = LINES * COLUMNS
           /\ PrintedAt(n) \in Int /\ PrintedAt(n) >= 0
           /\ n \in Int /\ n >= 0 /\ n <= COLUMNS
           /\ PrintedAt(n) + n <= LINES * COLUMNS
<1>1. PICK q \in Int, r \in Int, e \in Int, l \in Int :
        /\ q = cur_pos \div COLUMNS /\ r = cur_pos % COLUMNS /\ e = q * COLUMNS
        /\ l = LINES * COLUMNS /\ cur_pos = e + r /\ r >= 0 /\ r < COLUMNS
  <2>1. /\ cur_pos \in Int /\ COLUMNS \in Nat \ {0}
    BY Sizes, ConsoleAssumption
  <2>2. /\ cur_pos \div COLUMNS \in Int
        /\ cur_pos % COLUMNS = cur_pos - (cur_pos \div COLUMNS) * COLUMNS
        /\ cur_pos % COLUMNS \in 0 .. COLUMNS - 1
    BY <2>1, DivBounds
  <2>3. (cur_pos \div COLUMNS) * COLUMNS \in Int
    BY <2>2, RowStart
  <2> QED
    BY <2>1, <2>2, <2>3, Sizes
<1>2. n \in Int /\ n >= 0 /\ n <= COLUMNS - r /\ n <= COLUMNS
  BY <1>1, Sizes
<1>3. q < LINES => e + COLUMNS <= l
  BY <1>1, RowStart, Sizes
<1>4. BehindScreen <=> q >= LINES
  BY <1>1 DEF BehindScreen
<1>5. q >= LINES => cur_pos = l /\ r = 0
  <2>1. q >= LINES => l <= e
    BY <1>1, RowStart, Sizes
  <2> QED
    BY <1>1, <2>1
<1>6. l >= COLUMNS
  <2>1. 0 * COLUMNS + COLUMNS <= LINES * COLUMNS
    BY RowStart, Sizes
  <2> QED
    BY <1>1, <2>1, Sizes
<1>7. BehindScreen <=> cur_pos = l
  BY <1>1, <1>3, <1>4, <1>5, Sizes
<1>8. PrintedAt(n) \in Int /\ PrintedAt(n) >= 0 /\ PrintedAt(n) + n <= l
  <2>1. CASE BehindScreen /\ n > 0
    <3>1. PrintedAt(n) = l - COLUMNS
      BY <1>7, <2>1 DEF PrintedAt
    <3> QED
      BY <1>1, <1>2, <1>6, <3>1, Sizes
  <2>2. CASE ~(BehindScreen /\ n > 0)
    <3>1. PrintedAt(n) = cur_pos /\ (n = 0 \/ q < LINES)
      BY <1>1, <1>2, <1>4, <2>2, Sizes DEF PrintedAt
    <3> QED
      BY <1>1, <1>2, <1>3, <3>1, Sizes
  <2> QED
    BY <2>1, <2>2
<1> QED
  BY <1>1, <1>2, <1>7, <1>8

(* Scrolling for printf is scrup of all lines.                             *)
LEMMA ScrollIsUp ==
    ASSUME Drawn(video)
    PROVE  scroll_down = scrup(0, LINES, 1)
<1> DEFINE w == scrup(0, LINES, 1)
<1>1. \A i \in Cells : w[i] = IF RowOf(i) \notin 0 .. LINES - 1 THEN video[i]
                              ELSE IF RowOf(i) + 1 < LINES THEN video[i + 1 * COLUMNS] ELSE BLANK
  BY DEF scrup
<1>2. w = [i \in Cells |-> w[i]] /\ DOMAIN video = Cells
  BY DEF scrup, Drawn
<1> HIDE DEF w
<1>3. ASSUME NEW i \in Cells
      PROVE  w[i] = IF i < (LINES - 1) * COLUMNS THEN video[i + COLUMNS]
                    ELSE IF i < LINES * COLUMNS THEN BLANK ELSE video[i]
  <2>1. PICK k \in Int, e \in Int, l \in Int, m \in Int :
          /\ k = RowOf(i) /\ e = k * COLUMNS /\ l = LINES * COLUMNS /\ m = (LINES - 1) * COLUMNS
          /\ e <= i /\ i < e + COLUMNS /\ k >= 0 /\ (i < l <=> k < LINES)
    <3>1. i \in Int /\ i >= 0 /\ LINES - 1 \in Int
      BY Sizes DEF Cells
    <3>2. /\ RowOf(i) \in Int
          /\ RowOf(i) * COLUMNS <= i /\ i < RowOf(i) * COLUMNS + COLUMNS
          /\ i < LINES * COLUMNS <=> RowOf(i) < LINES
          /\ RowOf(i) >= 0
      BY <3>1, RowFacts
    <3> QED
      BY <3>1, <3>2, RowStart, Sizes
  <2>2. k + 1 < LINES => e + COLUMNS <= m
    BY <2>1, RowStart, Sizes
  <2>3. LINES - 1 <= k => m <= e
    BY <2>1, RowStart, Sizes
  <2>4. i < m <=> k + 1 < LINES
    BY <2>1, <2>2, <2>3, Sizes DEF Cells
  <2>5. 1 * COLUMNS = COLUMNS
    BY Sizes
  <2>6. k \in 0 .. LINES - 1 <=> i < l
    BY <2>1, Sizes
  <2>7. w[i] = IF ~(i < l) THEN video[i]
               ELSE IF i < m THEN video[i + COLUMNS] ELSE BLANK
    BY <1>1, <2>1, <2>4, <2>5, <2>6
  <2>8. i < m => i < l
    BY <2>1, <2>4, Sizes
  <2> QED
    BY <2>1, <2>7, <2>8
<1>4. scroll_down = w
  BY <1>2, <1>3 DEF scroll_down
<1> QED
  BY <1>4 DEF w

(* What put_char does, with what it prints and how often                    *)
LEMMA PutCharFacts ==
    ASSUME Drawn(video), cur_pos \in 0 .. LINES * COLUMNS, NEW ch \in PRINTED, put_char(ch)
    PROVE  \E n \in 0 .. COLUMNS - (cur_pos % COLUMNS), c \in Characters :
             /\ cur_pos' = PrintedAt(n) + n
             /\ video' = [i \in Cells |-> IF i \in PrintedAt(n) .. PrintedAt(n) + n - 1 THEN c
                                          ELSE PrintedOn(n)[i]]
<1> DEFINE n == IF ch \in {"LF", "CR", "TAB"} THEN Blanks(ch) ELSE 1
           c == IF ch \in {"LF", "CR", "TAB"} THEN BLANK ELSE ch
<1>1. /\ cur_pos' = PrintedAt(n) + n
      /\ video' = [i \in DOMAIN video |-> IF i \in PrintedAt(n) .. PrintedAt(n) + n - 1 THEN c
                                          ELSE PrintedOn(n)[i]]
  BY DEF put_char, PrintedAt, PrintedOn
<1>2. c \in Characters /\ DOMAIN video = Cells
  BY DEF Characters, Drawn
<1>3. n \in 0 .. COLUMNS - (cur_pos % COLUMNS)
  <2>1. cur_pos % COLUMNS \in 0 .. COLUMNS - 1
    BY Sizes, ConsoleAssumption, DivBounds
  <2>2. 1 \in 0 .. COLUMNS - (cur_pos % COLUMNS)
    BY <2>1, Sizes
  <2> QED
    BY <2>2, BlanksFit
<1> HIDE DEF n, c
<1> QED
  BY <1>1, <1>2, <1>3

LEMMA PrintStep ==
    ASSUME Drawn(video), cur_pos \in 0 .. LINES * COLUMNS, NEW ch \in PRINTED, put_char(ch)
    PROVE  Drawn(video)' /\ cur_pos' \in 0 .. LINES * COLUMNS
<1>1. PICK n \in 0 .. COLUMNS - (cur_pos % COLUMNS), c \in Characters :
             /\ cur_pos' = PrintedAt(n) + n
             /\ video' = [i \in Cells |-> IF i \in PrintedAt(n) .. PrintedAt(n) + n - 1 THEN c
                                          ELSE PrintedOn(n)[i]]
  BY PutCharFacts
<1>2. PICK at \in Int : /\ at = PrintedAt(n) /\ at >= 0 /\ n \in Int /\ n >= 0
                        /\ at + n <= LINES * COLUMNS
  BY PrintPlace
<1>3. PICK screen : screen = PrintedOn(n)
  OBVIOUS
<1>4. Drawn(screen)
  <2>1. Drawn(scrup(0, LINES, 1))
    BY Sizes, ScrollsUp
  <2> QED
    BY <1>3, <2>1, ScrollIsUp DEF PrintedOn
<1>5. PICK w : w = video'
  OBVIOUS
<1>6. w = [i \in Cells |-> IF i \in at .. at + n - 1 THEN c ELSE screen[i]]
  BY <1>1, <1>2, <1>3, <1>5
<1>7. \A i \in Cells : i >= LINES * COLUMNS => i \notin at .. at + n - 1
  BY <1>2, Sizes DEF Cells
<1>8. /\ DOMAIN w = Cells /\ w = [i \in Cells |-> w[i]]
      /\ \A i \in Cells : w[i] \in Characters
  BY <1>4, <1>6 DEF Drawn
<1>9. \A i \in Cells : i >= LINES * COLUMNS => w[i] = screen[i]
  BY <1>6, <1>7
<1>10. Drawn(w)
  BY <1>4, <1>8, <1>9, Redrawn
<1> QED
  BY <1>1, <1>2, <1>5, <1>10, Sizes DEF Drawn

(* What con_init finds and writes.                                         *)
LEMMA InitStep ==
    ASSUME Init
    PROVE  ScreenInv
<1> DEFINE name == <<"*", "C", "G", "A">>
<1>1. video = [i \in Cells |-> IF i \in COLUMNS - 4 .. COLUMNS - 1
                               THEN name[i - COLUMNS + 5] ELSE SCREEN[i]]
  BY DEF Init
<1>2. \A k \in 1 .. 4 : name[k] \in {"*", "C", "G", "A"}
  OBVIOUS
<1> HIDE DEF name
<1>3. \A i \in COLUMNS - 4 .. COLUMNS - 1 : i - COLUMNS + 5 \in 1 .. 4
  BY Sizes
<1>4. COLUMNS <= LINES * COLUMNS
  <2>1. 0 * COLUMNS + COLUMNS <= LINES * COLUMNS
    BY RowStart, Sizes
  <2> QED
    BY <2>1, Sizes
<1>5. video \in [Cells -> Characters]
  BY <1>1, <1>2, <1>3 DEF Characters
<1>6. \A i \in LINES * COLUMNS .. MEMORY - 1 : i \in Cells /\ i \notin COLUMNS - 4 .. COLUMNS - 1
  BY <1>4, Sizes DEF Cells
<1>7. Drawn(video)
  BY <1>1, <1>5, <1>6 DEF Drawn
<1>8. CursorOK
  <2>1. 0 * COLUMNS + 0 = 0
    BY Sizes
  <2> QED
    BY <2>1, Sizes DEF Init, CursorOK
<1>9. RegionOK /\ ParserOK /\ SavedOK
  BY Sizes DEF Init, RegionOK, ParserOK, SavedOK
<1>10. cur_pos \in 0 .. LINES * COLUMNS
  BY ConsoleAssumption DEF Init
<1> QED
  BY <1>7, <1>8, <1>9, <1>10 DEF ScreenInv

LEMMA NextScreen ==
    ASSUME ScreenInv, [Next]_vars
    PROVE  ScreenInv'
<1>1. Drawn(video) /\ CursorOK /\ RegionOK /\ ParserOK /\ SavedOK
      /\ cur_pos \in 0 .. LINES * COLUMNS
  BY DEF ScreenInv
<1>2. ASSUME UNCHANGED <<video, cur_pos, cursorVars, regionVars, state, parserVars, savedVars>>
      PROVE  ScreenInv'
  BY <1>1, <1>2 DEF ScreenInv, Drawn, cursorVars, CursorOK, regionVars, RegionOK,
     parserVars, ParserOK, savedVars, SavedOK
<1>3. CASE con_write
  <2>1. PICK c : (Text(c) \/ Escape(c) \/ Parameter(c) \/ Function(c)) /\ UNCHANGED cur_pos
    BY <1>3 DEF con_write
  <2>2. Drawn(video)' /\ CursorOK' /\ RegionOK' /\ ParserOK' /\ SavedOK'
    BY <2>1, TextStep, EscapeStep, ParameterStep, FunctionStep
  <2> QED
    BY <1>1, <2>1, <2>2 DEF ScreenInv
<1>4. ASSUME NEW b, keyboard_interrupt(b)
      PROVE  ScreenInv'
  BY <1>2, <1>4 DEF keyboard_interrupt
<1>5. CASE printf
  <2>1. PICK ch \in PRINTED : put_char(ch)
    BY <1>5 DEF printf
  <2>2. Drawn(video)' /\ (cur_pos \in 0 .. LINES * COLUMNS)'
    BY <1>1, <2>1, PrintStep
  <2>3. UNCHANGED <<cursorVars, regionVars, state, parserVars, savedVars>>
    BY <1>5 DEF printf
  <2> QED
    BY <1>1, <2>2, <2>3 DEF ScreenInv, cursorVars, CursorOK, regionVars, RegionOK,
       parserVars, ParserOK, savedVars, SavedOK
<1>6. CASE Idle
  BY <1>2, <1>6 DEF Idle, vars
<1>7. CASE UNCHANGED vars
  BY <1>2, <1>7 DEF vars
<1> QED
  BY <1>3, <1>4, <1>5, <1>6, <1>7 DEF Next, Character, Digit

(* The state of the console after any sequence of keys and prints.         *)
THEOREM ScreenInvariance == Spec => []ScreenInv
<1>1. Init => ScreenInv
  BY InitStep
<1>2. ScreenInv /\ [Next]_vars => ScreenInv'
  BY NextScreen
<1> QED
  BY <1>1, <1>2, PTL DEF Spec

(* Cursor, region, parameters and what is saved stay in their ranges.      *)
THEOREM ScreenTyped == Spec => []TypeOK
<1>1. ScreenInv => TypeOK
  BY DEF ScreenInv, Drawn, CursorOK, RegionOK, ParserOK, SavedOK, TypeOK
<1> QED
  BY <1>1, ScreenInvariance, PTL

(* pos is where x and y say, and what is behind the last line stays.       *)
THEOREM WritesStayOnScreen == Spec => []StaysOnScreen
<1>1. ScreenInv => StaysOnScreen
  BY DEF ScreenInv, Drawn, CursorOK, StaysOnScreen
<1> QED
  BY <1>1, ScreenInvariance, PTL

(***************************************************************************)
(* The console implements the terminal: the memory in rows                 *)
(***************************************************************************)
LEMMA RowsAre ==
    ASSUME NEW v, NEW r \in 0 .. LINES - 1
    PROVE  RowsOf(v)[r] = [c \in 0 .. COLUMNS - 1 |-> v[r * COLUMNS + c]]
  BY DEF RowsOf

LEMMA CellShown ==
    ASSUME NEW v, NEW r \in 0 .. LINES - 1, NEW c \in 0 .. COLUMNS - 1
    PROVE  RowsOf(v)[r][c] = v[r * COLUMNS + c]
  BY DEF RowsOf

(* Two cells of the screen are one when row and column agree.              *)
LEMMA CellsApart ==
    ASSUME NEW r \in 0 .. LINES - 1, NEW c \in 0 .. COLUMNS - 1,
           NEW s \in 0 .. LINES - 1, NEW d \in 0 .. COLUMNS - 1,
           r * COLUMNS + c = s * COLUMNS + d
    PROVE  r = s /\ c = d
<1>1. r = s
  BY CellFacts
<1>2. PICK e \in Int : e = r * COLUMNS
  BY Sizes, RowStart
<1> QED
  BY <1>1, <1>2, Sizes

LEMMA CellsWritten ==
    ASSUME NEW v, NEW w, NEW i,
           NEW s \in 0 .. LINES - 1, NEW d \in 0 .. COLUMNS - 1, i = s * COLUMNS + d,
           \A j \in Cells : j # i => w[j] = v[j]
    PROVE  \A r \in 0 .. LINES - 1 : \A c \in 0 .. COLUMNS - 1 :
              w[r * COLUMNS + c] = IF r = s /\ c = d THEN w[i] ELSE v[r * COLUMNS + c]
  BY CellFacts, CellsApart

LEMMA RowsUp ==
    ASSUME NEW t \in Nat, NEW b \in 0 .. LINES, NEW n \in Nat
    PROVE  RowsOf(scrup(t, b, n)) = Screen!Up(t, b, n)
<1> DEFINE w == scrup(t, b, n)
<1>1. \A i \in Cells : w[i] = IF RowOf(i) \notin t .. b - 1 THEN video[i]
                              ELSE IF RowOf(i) + n < b THEN video[i + n * COLUMNS] ELSE BLANK
  BY DEF scrup
<1> HIDE DEF w
<1>2. ASSUME NEW r \in 0 .. LINES - 1
      PROVE  RowsOf(w)[r] = IF r \notin t .. b - 1 THEN RowsOf(video)[r]
                            ELSE IF r + n < b THEN RowsOf(video)[r + n] ELSE Screen!BlankRow
  <2>1. \A c \in 0 .. COLUMNS - 1 :
           w[r * COLUMNS + c] = IF r \notin t .. b - 1 THEN video[r * COLUMNS + c]
                                ELSE IF r + n < b THEN video[r * COLUMNS + c + n * COLUMNS]
                                ELSE BLANK
    <3>1. TAKE c \in 0 .. COLUMNS - 1
    <3>2. PICK i \in Cells : i = r * COLUMNS + c /\ RowOf(i) = r
      BY CellFacts
    <3>3. w[i] = IF RowOf(i) \notin t .. b - 1 THEN video[i]
                 ELSE IF RowOf(i) + n < b THEN video[i + n * COLUMNS] ELSE BLANK
      BY <1>1
    <3> QED
      BY <3>2, <3>3, Zenon
  <2>2. RowsOf(w)[r] = [c \in 0 .. COLUMNS - 1 |-> w[r * COLUMNS + c]]
    BY RowsAre
  <2>3. CASE r \notin t .. b - 1
    <3>1. \A c \in 0 .. COLUMNS - 1 : w[r * COLUMNS + c] = video[r * COLUMNS + c]
      BY <2>1, <2>3
    <3>2. RowsOf(w)[r] = [c \in 0 .. COLUMNS - 1 |-> video[r * COLUMNS + c]]
      BY <2>2, <3>1
    <3> QED
      BY <2>3, <3>2, RowsAre
  <2>4. CASE r \in t .. b - 1 /\ r + n < b
    <3>1. r + n \in 0 .. LINES - 1
      BY <2>4, Sizes
    <3>2. \A c \in 0 .. COLUMNS - 1 : r * COLUMNS + c + n * COLUMNS = (r + n) * COLUMNS + c
      <4>a. r \in Int
        BY Sizes
      <4>1. PICK e \in Int, k \in Int :
              e = r * COLUMNS /\ k = n * COLUMNS /\ (r + n) * COLUMNS = e + k
        BY <4>a, RowSum
      <4> QED
        BY <4>1, Sizes
    <3>3. RowsOf(w)[r] = [c \in 0 .. COLUMNS - 1 |-> video[(r + n) * COLUMNS + c]]
      BY <2>1, <2>2, <2>4, <3>2
    <3> QED
      BY <2>4, <3>1, <3>3, RowsAre
  <2>5. CASE r \in t .. b - 1 /\ ~(r + n < b)
    BY <2>1, <2>2, <2>5 DEF Screen!BlankRow, Screen!Columns
  <2> QED
    BY <2>3, <2>4, <2>5
<1>3. RowsOf(w) = [r \in 0 .. LINES - 1 |-> RowsOf(w)[r]]
  BY DEF RowsOf
<1>4. RowsOf(w) = Screen!Up(t, b, n)
  BY <1>2, <1>3 DEF Screen!Up, Screen!Rows
<1> QED
  BY <1>4 DEF w

LEMMA RowsDown ==
    ASSUME NEW t \in Nat, NEW b \in 0 .. LINES, NEW n \in Nat
    PROVE  RowsOf(scrdown(t, b, n)) = Screen!Down(t, b, n)
<1> DEFINE w == scrdown(t, b, n)
<1>1. \A i \in Cells : w[i] = IF RowOf(i) \notin t .. b - 1 THEN video[i]
                              ELSE IF RowOf(i) - n >= t THEN video[i - n * COLUMNS] ELSE BLANK
  BY DEF scrdown
<1> HIDE DEF w
<1>2. ASSUME NEW r \in 0 .. LINES - 1
      PROVE  RowsOf(w)[r] = IF r \notin t .. b - 1 THEN RowsOf(video)[r]
                            ELSE IF r - n >= t THEN RowsOf(video)[r - n] ELSE Screen!BlankRow
  <2>1. \A c \in 0 .. COLUMNS - 1 :
           w[r * COLUMNS + c] = IF r \notin t .. b - 1 THEN video[r * COLUMNS + c]
                                ELSE IF r - n >= t THEN video[(r * COLUMNS + c) - n * COLUMNS]
                                ELSE BLANK
    <3>1. TAKE c \in 0 .. COLUMNS - 1
    <3>2. PICK i \in Cells : i = r * COLUMNS + c /\ RowOf(i) = r
      BY CellFacts
    <3>3. w[i] = IF RowOf(i) \notin t .. b - 1 THEN video[i]
                 ELSE IF RowOf(i) - n >= t THEN video[i - n * COLUMNS] ELSE BLANK
      BY <1>1
    <3> QED
      BY <3>2, <3>3, Zenon
  <2>2. RowsOf(w)[r] = [c \in 0 .. COLUMNS - 1 |-> w[r * COLUMNS + c]]
    BY RowsAre
  <2>3. CASE r \notin t .. b - 1
    <3>1. \A c \in 0 .. COLUMNS - 1 : w[r * COLUMNS + c] = video[r * COLUMNS + c]
      BY <2>1, <2>3
    <3>2. RowsOf(w)[r] = [c \in 0 .. COLUMNS - 1 |-> video[r * COLUMNS + c]]
      BY <2>2, <3>1
    <3> QED
      BY <2>3, <3>2, RowsAre
  <2>4. CASE r \in t .. b - 1 /\ r - n >= t
    <3>1. r - n \in 0 .. LINES - 1
      BY <2>4, Sizes
    <3>2. \A c \in 0 .. COLUMNS - 1 : (r * COLUMNS + c) - n * COLUMNS = (r - n) * COLUMNS + c
      <4>a. r \in Int
        BY Sizes
      <4>1. PICK e \in Int, k \in Int :
              e = r * COLUMNS /\ k = n * COLUMNS /\ (r - n) * COLUMNS = e - k
        BY <4>a, RowSum
      <4> QED
        BY <4>1, Sizes
    <3>3. RowsOf(w)[r] = [c \in 0 .. COLUMNS - 1 |-> video[(r - n) * COLUMNS + c]]
      BY <2>1, <2>2, <2>4, <3>2
    <3> QED
      BY <2>4, <3>1, <3>3, RowsAre
  <2>5. CASE r \in t .. b - 1 /\ ~(r - n >= t)
    BY <2>1, <2>2, <2>5 DEF Screen!BlankRow, Screen!Columns
  <2> QED
    BY <2>3, <2>4, <2>5
<1>3. RowsOf(w) = [r \in 0 .. LINES - 1 |-> RowsOf(w)[r]]
  BY DEF RowsOf
<1>4. RowsOf(w) = Screen!Down(t, b, n)
  BY <1>2, <1>3 DEF Screen!Down, Screen!Rows
<1> QED
  BY <1>4 DEF w

(* A cell is in front of the cursor when its row is, or its column is in   *)
(* the row of the cursor; its row is the cursor's when it is in the line.  *)
LEMMA CellBefore ==
    ASSUME CursorOK, NEW r \in 0 .. LINES - 1, NEW c \in 0 .. COLUMNS - 1
    PROVE  /\ r * COLUMNS + c < pos <=> r < y \/ (r = y /\ c < x)
           /\ r * COLUMNS + c < pos - x <=> r < y
           /\ r * COLUMNS + c < (pos - x) + COLUMNS <=> r <= y
           /\ r * COLUMNS + c \in RestOfLine <=> r = y /\ ~(c < x)
<1>1. PICK a \in Int, e \in Int : a = y * COLUMNS /\ e = r * COLUMNS
  BY Sizes, RowStart, CursorFacts
<1>2. /\ x \in Int /\ x >= 0 /\ x <= COLUMNS /\ y \in Int /\ COLUMNS \in Int /\ COLUMNS >= 4
      /\ pos = a + x /\ RestOfLine = pos .. a + COLUMNS - 1
  BY <1>1, CursorFacts, Sizes
<1>3. r \in Int /\ c \in Int /\ c >= 0 /\ c < COLUMNS
  BY Sizes
<1>4. r < y => e + COLUMNS <= a
  BY <1>1, <1>2, <1>3, RowStart
<1>5. y < r => a + COLUMNS <= e
  BY <1>1, <1>2, <1>3, RowStart
<1>6. r = y => e = a
  BY <1>1
<1>7. /\ e + c < pos <=> r < y \/ (r = y /\ c < x)
      /\ e + c < pos - x <=> r < y
      /\ e + c < (pos - x) + COLUMNS <=> r <= y
  BY <1>2, <1>3, <1>4, <1>5, <1>6
<1>8. e + c \in RestOfLine <=> r = y /\ ~(c < x)
  BY <1>2, <1>3, <1>4, <1>5, <1>6
<1> QED
  BY <1>1, <1>7, <1>8

LEMMA RowsShiftRight ==
    ASSUME CursorOK, NEW n \in Nat
    PROVE  RowsOf(insert_char(n)) =
              [RowsOf(video) EXCEPT ![y] =
                 [c \in Screen!Columns |->
                    IF c < x THEN RowsOf(video)[y][c]
                    ELSE IF c - n >= x THEN RowsOf(video)[y][c - n] ELSE BLANK]]
<1> DEFINE w == insert_char(n)
           right == [c \in 0 .. COLUMNS - 1 |->
                       IF c < x THEN RowsOf(video)[y][c]
                       ELSE IF c - n >= x THEN RowsOf(video)[y][c - n] ELSE BLANK]
<1>1. \A i \in Cells : w[i] = IF i \notin RestOfLine THEN video[i]
                              ELSE IF i - n >= pos THEN video[i - n] ELSE BLANK
  BY DEF insert_char
<1> HIDE DEF w
<1>2. y \in 0 .. LINES - 1 /\ x \in Int /\ x >= 0
  BY CursorFacts DEF CursorOK
<1>3. ASSUME NEW r \in 0 .. LINES - 1, r # y
      PROVE  RowsOf(w)[r] = RowsOf(video)[r]
  <2>1. \A c \in 0 .. COLUMNS - 1 : w[r * COLUMNS + c] = video[r * COLUMNS + c]
    BY <1>1, <1>3, CellFacts, CellBefore
  <2>2. /\ RowsOf(w)[r] = [c \in 0 .. COLUMNS - 1 |-> w[r * COLUMNS + c]]
        /\ RowsOf(video)[r] = [c \in 0 .. COLUMNS - 1 |-> video[r * COLUMNS + c]]
    BY RowsAre
  <2> QED
    BY <2>1, <2>2, Zenon
<1>4. RowsOf(w)[y] = right
  <2>1. ASSUME NEW c \in 0 .. COLUMNS - 1
        PROVE  w[y * COLUMNS + c] = right[c]
    <3>1. PICK a \in Int : a = y * COLUMNS /\ pos = a + x
      BY CursorFacts
    <3>2. a + c \in Cells /\ (a + c \in RestOfLine <=> ~(c < x))
      BY <1>2, <3>1, CellFacts, CellBefore
    <3>3. w[a + c] = IF c < x THEN video[a + c]
                     ELSE IF (a + c) - n >= pos THEN video[(a + c) - n] ELSE BLANK
      BY <1>1, <3>2
    <3>4. (a + c) - n >= pos <=> c - n >= x
      BY <1>2, <3>1, Sizes
    <3>5. CASE c < x
      <4>1. RowsOf(video)[y][c] = video[y * COLUMNS + c]
        BY <1>2, CellShown
      <4> QED
        BY <3>1, <3>3, <3>5, <4>1
    <3>6. CASE ~(c < x) /\ c - n >= x
      <4>1. c - n \in 0 .. COLUMNS - 1 /\ (a + c) - n = a + (c - n)
        BY <1>2, <3>1, <3>6, Sizes
      <4>2. RowsOf(video)[y][c - n] = video[a + (c - n)]
        <5>1. PICK k \in 0 .. COLUMNS - 1 : k = c - n
          BY <4>1
        <5>2. RowsOf(video)[y][k] = video[y * COLUMNS + k]
          BY <1>2, CellShown
        <5> QED
          BY <3>1, <5>1, <5>2
      <4> QED
        BY <3>1, <3>3, <3>4, <3>6, <4>1, <4>2
    <3>7. CASE ~(c < x) /\ ~(c - n >= x)
      BY <3>1, <3>3, <3>4, <3>7
    <3> QED
      BY <3>5, <3>6, <3>7
  <2>2. RowsOf(w)[y] = [c \in 0 .. COLUMNS - 1 |-> w[y * COLUMNS + c]]
    BY <1>2, RowsAre
  <2> QED
    BY <2>1, <2>2
<1> HIDE DEF right
<1>5. RowsOf(w) = [RowsOf(video) EXCEPT ![y] = right]
  <2>1. /\ RowsOf(w) = [r \in 0 .. LINES - 1 |-> RowsOf(w)[r]]
        /\ DOMAIN RowsOf(video) = 0 .. LINES - 1
    BY DEF RowsOf
  <2> QED
    BY <1>2, <1>3, <1>4, <2>1
<1> QED
  BY <1>5 DEF w, right, Screen!Columns

LEMMA RowsShiftLeft ==
    ASSUME CursorOK, NEW n \in Nat
    PROVE  RowsOf(delete_char(n)) =
              [RowsOf(video) EXCEPT ![y] =
                 [c \in Screen!Columns |->
                    IF c < x THEN RowsOf(video)[y][c]
                    ELSE IF c + n < COLUMNS THEN RowsOf(video)[y][c + n] ELSE BLANK]]
<1> DEFINE w == delete_char(n)
           left == [c \in 0 .. COLUMNS - 1 |->
                       IF c < x THEN RowsOf(video)[y][c]
                       ELSE IF c + n < COLUMNS THEN RowsOf(video)[y][c + n] ELSE BLANK]
<1>1. \A i \in Cells : w[i] = IF i \notin RestOfLine THEN video[i]
                              ELSE IF i + n \in RestOfLine THEN video[i + n] ELSE BLANK
  BY DEF delete_char
<1> HIDE DEF w
<1>2. y \in 0 .. LINES - 1 /\ x \in Int /\ x >= 0
  BY CursorFacts DEF CursorOK
<1>3. ASSUME NEW r \in 0 .. LINES - 1, r # y
      PROVE  RowsOf(w)[r] = RowsOf(video)[r]
  <2>1. \A c \in 0 .. COLUMNS - 1 : w[r * COLUMNS + c] = video[r * COLUMNS + c]
    BY <1>1, <1>3, CellFacts, CellBefore
  <2>2. /\ RowsOf(w)[r] = [c \in 0 .. COLUMNS - 1 |-> w[r * COLUMNS + c]]
        /\ RowsOf(video)[r] = [c \in 0 .. COLUMNS - 1 |-> video[r * COLUMNS + c]]
    BY RowsAre
  <2> QED
    BY <2>1, <2>2, Zenon
<1>4. RowsOf(w)[y] = left
  <2>1. ASSUME NEW c \in 0 .. COLUMNS - 1
        PROVE  w[y * COLUMNS + c] = left[c]
    <3>1. PICK a \in Int : /\ a = y * COLUMNS /\ pos = a + x
                           /\ RestOfLine = pos .. a + COLUMNS - 1
      BY CursorFacts
    <3>2. a + c \in Cells /\ (a + c \in RestOfLine <=> ~(c < x))
      BY <1>2, <3>1, CellFacts, CellBefore
    <3>3. w[a + c] = IF c < x THEN video[a + c]
                     ELSE IF (a + c) + n \in RestOfLine THEN video[(a + c) + n] ELSE BLANK
      BY <1>1, <3>2
    <3>4. ~(c < x) => ((a + c) + n \in RestOfLine <=> c + n < COLUMNS)
      BY <1>2, <3>1, Sizes
    <3>5. CASE c < x
      <4>1. RowsOf(video)[y][c] = video[y * COLUMNS + c]
        BY <1>2, CellShown
      <4> QED
        BY <3>1, <3>3, <3>5, <4>1
    <3>6. CASE ~(c < x) /\ c + n < COLUMNS
      <4>1. c + n \in 0 .. COLUMNS - 1 /\ (a + c) + n = a + (c + n)
        BY <1>2, <3>1, <3>6, Sizes
      <4>2. RowsOf(video)[y][c + n] = video[a + (c + n)]
        <5>1. PICK k \in 0 .. COLUMNS - 1 : k = c + n
          BY <4>1
        <5>2. RowsOf(video)[y][k] = video[y * COLUMNS + k]
          BY <1>2, CellShown
        <5> QED
          BY <3>1, <5>1, <5>2
      <4> QED
        BY <3>1, <3>3, <3>4, <3>6, <4>1, <4>2
    <3>7. CASE ~(c < x) /\ ~(c + n < COLUMNS)
      BY <3>1, <3>3, <3>4, <3>7
    <3> QED
      BY <3>5, <3>6, <3>7
  <2>2. RowsOf(w)[y] = [c \in 0 .. COLUMNS - 1 |-> w[y * COLUMNS + c]]
    BY <1>2, RowsAre
  <2> QED
    BY <2>1, <2>2
<1> HIDE DEF left
<1>5. RowsOf(w) = [RowsOf(video) EXCEPT ![y] = left]
  <2>1. /\ RowsOf(w) = [r \in 0 .. LINES - 1 |-> RowsOf(w)[r]]
        /\ DOMAIN RowsOf(video) = 0 .. LINES - 1
    BY DEF RowsOf
  <2> QED
    BY <1>2, <1>3, <1>4, <2>1
<1> QED
  BY <1>5 DEF w, left, Screen!Columns

(***************************************************************************)
(* The console implements the terminal: the steps                          *)
(***************************************************************************)
LEMMA PlaceOK ==
    ASSUME CursorOK'
    PROVE  [x |-> x', y |-> y'] \in Screen!Places
  BY DEF CursorOK, Screen!Places, Screen!Rows

LEMMA LineFeedRows ==
    ASSUME CursorOK, RegionOK
    PROVE  /\ RowsOf(lf.video) = IF y + 1 >= bottom THEN Screen!Up(top, bottom, 1)
                                 ELSE RowsOf(video)
           /\ lf.y = IF y + 1 >= bottom THEN y ELSE y + 1
<1>1. top \in Nat /\ bottom \in 0 .. LINES /\ bottom \in Int /\ y \in Int
  BY Sizes, CursorFacts DEF RegionOK
<1>2. RowsOf(scrup(top, bottom, 1)) = Screen!Up(top, bottom, 1)
  BY <1>1, RowsUp
<1>3. CASE y + 1 >= bottom
  <2>1. lf = [y |-> y, way |-> 0, video |-> scrup(top, bottom, 1)]
    BY <1>1, <1>3 DEF lf
  <2> QED
    BY <1>2, <1>3, <2>1
<1>4. CASE ~(y + 1 >= bottom)
  <2>1. lf = [y |-> y + 1, way |-> COLUMNS, video |-> video]
    BY <1>1, <1>4 DEF lf
  <2> QED
    BY <1>4, <2>1
<1> QED
  BY <1>3, <1>4

LEMMA WriteScreen ==
    ASSUME Drawn(video), CursorOK, RegionOK, NEW c, PutChar(c), UNCHANGED regionVars
    PROVE  Screen!Write
<1> DEFINE before == IF Full THEN RowsOf(lf.video) ELSE RowsOf(video)
           to == IF Full THEN lf.video ELSE video
           new == RowsOf(video')
<1>1. CursorOK' /\ [x |-> x', y |-> y'] \in Screen!Places
  BY PutCharStep, PlaceOK
<1>2. /\ x \in Int /\ x >= 0 /\ x <= COLUMNS /\ y * COLUMNS \in Int
      /\ pos = y * COLUMNS + x /\ (Full <=> x = COLUMNS)
  BY CursorFacts, Sizes DEF Full
<1>3. x' = IF x = COLUMNS THEN 1 ELSE x + 1
  BY <1>2, Sizes DEF PutChar
<1>4. IF x = COLUMNS
      THEN /\ before = IF y + 1 >= bottom THEN Screen!Up(top, bottom, 1) ELSE RowsOf(video)
           /\ y' = IF y + 1 >= bottom THEN y ELSE y + 1
      ELSE before = RowsOf(video) /\ y' = y
  BY <1>2, LineFeedRows DEF PutChar
<1>5. x' - 1 \in 0 .. COLUMNS - 1 /\ y' \in 0 .. LINES - 1 /\ y' * COLUMNS \in Int
  <2>1. y' \in 0 .. LINES - 1
    BY <1>1 DEF CursorOK
  <2>2. PICK k \in Int : k = y'
    BY <2>1
  <2>3. k * COLUMNS \in Int
    BY RowStart
  <2> QED
    BY <1>2, <1>3, <2>1, <2>2, <2>3, Sizes
<1>6. video' = [to EXCEPT ![y' * COLUMNS + (x' - 1)] = c]
  <2>1. pos' = y' * COLUMNS + x' /\ x' \in Int
    BY <1>1, <1>2, <1>3 DEF CursorOK
  <2>2. PICK at : pos' = at + 1 /\ video' = [to EXCEPT ![at] = c]
                  /\ (at = pos \/ at = pos - COLUMNS + lf.way)
    BY DEF PutChar
  <2>3. at \in Int
    <3>1. lf.way \in {0, COLUMNS}
      BY LineFeedFacts
    <3> QED
      BY <1>2, <2>2, <3>1, Sizes
  <2>4. at = y' * COLUMNS + (x' - 1)
    BY <1>5, <2>1, <2>2, <2>3
  <2> QED
    BY <2>2, <2>4
<1>7. DOMAIN to = Cells /\ RowsOf(to) = before
  BY LineFeedFacts DEF Drawn
<1> HIDE DEF to, before
<1>8. new = [before EXCEPT ![y'][x' - 1] = c]
  <2>1. PICK s \in 0 .. LINES - 1, d \in 0 .. COLUMNS - 1 : s = y' /\ d = x' - 1
    BY <1>5
  <2>2. PICK w : w = video'
    OBVIOUS
  <2>a. PICK i : i = s * COLUMNS + d
    OBVIOUS
  <2>3. w = [to EXCEPT ![i] = c] /\ i \in Cells
    BY <1>6, <2>1, <2>2, <2>a, CellFacts
  <2>b. w[i] = c /\ \A j \in Cells : j # i => w[j] = to[j]
    BY <1>7, <2>3
  <2>4. \A r \in 0 .. LINES - 1 : \A k \in 0 .. COLUMNS - 1 :
           w[r * COLUMNS + k] = IF r = s /\ k = d THEN c ELSE to[r * COLUMNS + k]
    <3>1. \A r \in 0 .. LINES - 1 : \A k \in 0 .. COLUMNS - 1 :
             w[r * COLUMNS + k] = IF r = s /\ k = d THEN w[i] ELSE to[r * COLUMNS + k]
      BY <2>a, <2>b, CellsWritten
    <3> QED
      BY <2>b, <3>1
  <2>5. RowsOf(w) = [RowsOf(to) EXCEPT ![s][d] = c]
    BY <2>4, ZenonT(30) DEF RowsOf
  <2> QED
    BY <1>7, <2>1, <2>2, <2>5 DEF new
<1>9. new[y'][x' - 1] = c
  <2>1. y' * COLUMNS + (x' - 1) \in Cells
    BY <1>5, CellFacts
  <2>2. video'[y' * COLUMNS + (x' - 1)] = c
    BY <1>6, <1>7, <2>1
  <2>3. PICK v : v = video'
    OBVIOUS
  <2>4. RowsOf(v)[y'][x' - 1] = v[y' * COLUMNS + (x' - 1)]
    BY <1>5, CellShown
  <2> QED
    BY <2>2, <2>3, <2>4
<1>10. new = [before EXCEPT ![y'][x' - 1] = new[y'][x' - 1]]
  BY <1>8, <1>9
<1> HIDE DEF new
<1>11. before \in {RowsOf(video), Screen!Up(top, bottom, 1)}
  BY <1>4
<1>12. /\ UNCHANGED [top |-> top, bottom |-> bottom]
       /\ RowsOf(video)' = new
  BY DEF regionVars, new
<1> QED
  BY <1>1, <1>3, <1>4, <1>10, <1>11, <1>12 DEF Screen!Write, Screen!LineFeed

LEMMA FeedScreen ==
    ASSUME Drawn(video), CursorOK, RegionOK, UNCHANGED regionVars, CursorOK',
           x' = x \/ x = COLUMNS, y' = lf.y, video' = lf.video
    PROVE  Screen!Feed
<1>1. [x |-> x', y |-> y'] \in Screen!Places
  BY PlaceOK
<1>2. /\ RowsOf(video') = IF y + 1 >= bottom THEN Screen!Up(top, bottom, 1)
                          ELSE RowsOf(video)
      /\ y' = IF y + 1 >= bottom THEN y ELSE y + 1
  BY LineFeedRows
<1>3. RowsOf(video)' = RowsOf(video')
  BY DEF RowsOf
<1>4. UNCHANGED [top |-> top, bottom |-> bottom]
  BY DEF regionVars
<1> QED
  BY <1>1, <1>2, <1>3, <1>4 DEF Screen!Feed, Screen!LineFeed

LEMMA MoveScreen ==
    ASSUME CursorOK', UNCHANGED <<video, regionVars>>
    PROVE  Screen!Move
<1>1. [x |-> x', y |-> y'] \in Screen!Places
  BY PlaceOK
<1>2. RowsOf(video)' = RowsOf(video) /\ UNCHANGED [top |-> top, bottom |-> bottom]
  BY DEF RowsOf, regionVars
<1> QED
  BY <1>1, <1>2 DEF Screen!Move

LEMMA TabulateScreen ==
    ASSUME Drawn(video), CursorOK, RegionOK, NEW c, Tabulate(c), UNCHANGED regionVars
    PROVE  Screen!Move \/ Screen!Feed
<1>1. CursorOK'
  BY TabulateStep
<1>2. PICK next \in Int : next = x + TAB - (x % TAB)
  BY TabFacts
<1>3. x < COLUMNS => next <= COLUMNS
  BY <1>2, TabFacts
<1>4. /\ y' = IF next > COLUMNS THEN lf.y ELSE y
      /\ video' = IF next > COLUMNS THEN lf.video ELSE video
  BY <1>2 DEF Tabulate
<1>5. next > COLUMNS => x = COLUMNS
  BY <1>3, CursorFacts, Sizes
<1>6. CASE next > COLUMNS
  BY <1>1, <1>4, <1>5, <1>6, FeedScreen
<1>7. CASE ~(next > COLUMNS)
  BY <1>1, <1>4, <1>7, MoveScreen
<1> QED
  BY <1>6, <1>7

LEMMA ReverseScreen ==
    ASSUME Drawn(video), CursorOK, RegionOK, ri, UNCHANGED regionVars
    PROVE  Screen!ReverseFeed
<1>1. top \in Nat /\ bottom \in 0 .. LINES
  BY Sizes DEF RegionOK
<1>2. RowsOf(scrdown(top, bottom, 1)) = Screen!Down(top, bottom, 1)
  BY <1>1, RowsDown
<1>3. /\ x' = x
      /\ y' = IF y > top THEN y - 1 ELSE y
      /\ RowsOf(video') = IF y > top THEN RowsOf(video) ELSE Screen!Down(top, bottom, 1)
  BY <1>2 DEF ri
<1>4. RowsOf(video)' = RowsOf(video') /\ UNCHANGED [top |-> top, bottom |-> bottom]
  BY DEF RowsOf, regionVars
<1> QED
  BY <1>3, <1>4 DEF Screen!ReverseFeed

LEMMA BackScreen ==
    ASSUME Drawn(video), CursorOK, NEW c, Back(c), UNCHANGED regionVars
    PROVE  Screen!Move \/ Screen!Delete
<1>1. CursorOK'
  BY BackStep
<1>2. CASE x = 0 \/ c # "DEL"
  <2>1. video' = video
    BY <1>2 DEF Back
  <2> QED
    BY <1>1, <2>1, MoveScreen
<1>3. CASE x # 0 /\ c = "DEL"
  <2>1. x' = x - 1 /\ y' = y /\ video' = [video EXCEPT ![pos - 1] = BLANK]
    BY <1>3 DEF Back
  <2>2. /\ x \in Int /\ x > 0 /\ x <= COLUMNS /\ y \in 0 .. LINES - 1
        /\ y * COLUMNS \in Int /\ pos = y * COLUMNS + x
    BY <1>3, CursorFacts DEF CursorOK
  <2>3. x - 1 \in 0 .. COLUMNS - 1 /\ pos - 1 = y * COLUMNS + (x - 1)
    BY <2>2, Sizes
  <2>4. DOMAIN video = Cells
    BY DEF Drawn
  <2>5. PICK k \in 0 .. COLUMNS - 1 : k = x - 1
    BY <2>3
  <2>6. PICK w, i : w = video' /\ i = y * COLUMNS + k /\ w = [video EXCEPT ![i] = BLANK]
    BY <2>1, <2>3, <2>5
  <2>7. RowsOf(video') = [RowsOf(video) EXCEPT ![y][x - 1] = BLANK]
    <3>1. \A r \in 0 .. LINES - 1 : \A m \in 0 .. COLUMNS - 1 :
             w[r * COLUMNS + m] = IF r = y /\ m = k THEN BLANK ELSE video[r * COLUMNS + m]
      <4>1. i \in Cells
        BY <2>2, <2>6, CellFacts
      <4>2. w[i] = BLANK /\ \A j \in Cells : j # i => w[j] = video[j]
        BY <2>4, <2>6, <4>1
      <4>3. PICK s \in 0 .. LINES - 1 : s = y
        BY <2>2
      <4>a. PICK v : v = video
        OBVIOUS
      <4>4. i = s * COLUMNS + k /\ \A j \in Cells : j # i => w[j] = v[j]
        BY <2>6, <4>2, <4>3, <4>a
      <4>5. \A r \in 0 .. LINES - 1 : \A m \in 0 .. COLUMNS - 1 :
               w[r * COLUMNS + m] = IF r = s /\ m = k THEN w[i] ELSE v[r * COLUMNS + m]
        BY <4>4, CellsWritten
      <4> QED
        BY <4>2, <4>3, <4>a, <4>5
    <3>2. RowsOf(w) = [RowsOf(video) EXCEPT ![y][k] = BLANK]
      BY <2>2, <3>1, ZenonT(30) DEF RowsOf
    <3> QED
      BY <2>5, <2>6, <3>2
  <2>8. RowsOf(video)' = RowsOf(video') /\ UNCHANGED [top |-> top, bottom |-> bottom]
    BY DEF RowsOf, regionVars
  <2> QED
    BY <2>1, <2>2, <2>7, <2>8 DEF Screen!Delete
<1> QED
  BY <1>2, <1>3

(* The areas that are erased                                               *)
LEMMA EraseScreen ==
    ASSUME CursorOK, UNCHANGED <<cursorVars, regionVars>>,
           NEW area, NEW part, NEW of \in {Screen!Cells, Screen!Line},
           part \in {of, of \cap Screen!BeforeCursor, of \ Screen!BeforeCursor},
           video' = Erased(area),
           \A r \in 0 .. LINES - 1 : \A c \in 0 .. COLUMNS - 1 :
              r * COLUMNS + c \in area <=> [x |-> c, y |-> r] \in part
    PROVE  Screen!Erase
<1>1. RowsOf(Erased(area)) =
         [r \in Screen!Rows |-> [c \in Screen!Columns |->
            IF [x |-> c, y |-> r] \in part THEN BLANK ELSE RowsOf(video)[r][c]]]
  <2>1. PICK w : /\ w = Erased(area)
                 /\ \A i \in Cells : w[i] = IF i \in area THEN BLANK ELSE video[i]
    BY DEF Erased
  <2>2. ASSUME NEW r \in 0 .. LINES - 1, NEW c \in 0 .. COLUMNS - 1
        PROVE  w[r * COLUMNS + c] =
                  IF [x |-> c, y |-> r] \in part THEN BLANK ELSE RowsOf(video)[r][c]
    <3>1. w[r * COLUMNS + c] = IF r * COLUMNS + c \in area THEN BLANK ELSE video[r * COLUMNS + c]
      BY <2>1, CellFacts
    <3>2. RowsOf(video)[r][c] = video[r * COLUMNS + c]
      BY CellShown
    <3> QED
      BY <3>1, <3>2
  <2> QED
    BY <2>1, <2>2 DEF RowsOf, Screen!Rows, Screen!Columns
<1>2. RowsOf(video)' =
         [r \in Screen!Rows |-> [c \in Screen!Columns |->
            IF [x |-> c, y |-> r] \in part THEN BLANK ELSE RowsOf(video)[r][c]]]
  <2>1. RowsOf(video)' = RowsOf(video')
    BY DEF RowsOf
  <2> QED
    BY <1>1, <2>1
<1>3. UNCHANGED <<[x |-> x, y |-> y], [top |-> top, bottom |-> bottom]>>
  BY DEF cursorVars, regionVars
<1> QED
  BY <1>2, <1>3 DEF Screen!Erase

LEMMA AreasOfScreen ==
    ASSUME CursorOK, NEW r \in 0 .. LINES - 1, NEW c \in 0 .. COLUMNS - 1
    PROVE  LET i == r * COLUMNS + c
               p == [x |-> c, y |-> r]
           IN  /\ i \in csi_J(0) <=> p \in Screen!Cells \ Screen!BeforeCursor
               /\ i \in csi_J(1) <=> p \in Screen!Cells \cap Screen!BeforeCursor
               /\ i \in csi_J(2) <=> p \in Screen!Cells
               /\ i \in csi_K(0) <=> p \in Screen!Line \ Screen!BeforeCursor
               /\ i \in csi_K(1) <=> p \in Screen!Line \cap Screen!BeforeCursor
               /\ i \in csi_K(2) <=> p \in Screen!Line
<1> DEFINE p == [x |-> c, y |-> r]
<1>1. PICK i \in Int, l \in Int : /\ i = r * COLUMNS + c /\ l = LINES * COLUMNS
                                  /\ i >= 0 /\ i < l
  BY CellFacts, Sizes
<1>2. /\ i < pos <=> r < y \/ (r = y /\ c < x)
      /\ i < pos - x <=> r < y
      /\ i < (pos - x) + COLUMNS <=> r <= y
      /\ i \in RestOfLine <=> r = y /\ ~(c < x)
  BY <1>1, CellBefore
<1>3. /\ x \in Int /\ y \in Int /\ pos \in Int /\ COLUMNS \in Int /\ r \in Int /\ c \in Int
  BY CursorFacts, Sizes
<1>4. /\ p \in Screen!Cells
      /\ p \in Screen!Line <=> r = y
      /\ p \in Screen!BeforeCursor <=> r < y \/ (r = y /\ c < x)
  BY DEF Screen!Cells, Screen!Line, Screen!BeforeCursor, Screen!Rows, Screen!Columns
<1>5. /\ csi_J(0) = pos .. l - 1 /\ csi_J(1) = 0 .. pos - 1 /\ csi_J(2) = 0 .. l - 1
      /\ csi_K(0) = RestOfLine /\ csi_K(1) = pos - x .. pos - 1
      /\ csi_K(2) = pos - x .. (pos - x) + COLUMNS - 1
  BY <1>1, <1>3 DEF csi_J, csi_K
<1> HIDE DEF p
<1>6. /\ i \in csi_J(0) <=> p \in Screen!Cells \ Screen!BeforeCursor
      /\ i \in csi_J(1) <=> p \in Screen!Cells \cap Screen!BeforeCursor
      /\ i \in csi_J(2) <=> p \in Screen!Cells
  BY <1>1, <1>2, <1>3, <1>4, <1>5
<1>7. /\ i \in csi_K(0) <=> p \in Screen!Line \ Screen!BeforeCursor
      /\ i \in csi_K(1) <=> p \in Screen!Line \cap Screen!BeforeCursor
      /\ i \in csi_K(2) <=> p \in Screen!Line
  BY <1>1, <1>2, <1>3, <1>4, <1>5
<1> QED
  BY <1>1, <1>6, <1>7 DEF p

LEMMA ErasedNothing ==
    ASSUME Drawn(video)
    PROVE  Erased({}) = video
  BY DEF Drawn, Erased

LEMMA EditScreen ==
    ASSUME ScreenInv, NEW c, Edit(c)
    PROVE  \/ Screen!Erase \/ Screen!ShiftLine \/ Screen!ShiftRows
           \/ UNCHANGED <<video, cursorVars, regionVars>>
<1>1. Drawn(video) /\ CursorOK /\ ParserOK
  BY DEF ScreenInv
<1>2. UNCHANGED <<cursorVars, regionVars>>
  BY DEF Edit
<1>3. /\ RowsOf(video)' = RowsOf(video')
      /\ UNCHANGED <<[x |-> x, y |-> y], [top |-> top, bottom |-> bottom]>>
  BY <1>2 DEF RowsOf, cursorVars, regionVars
<1>4. /\ Capped(LINES) \in 1 .. LINES /\ Capped(COLUMNS) \in 1 .. COLUMNS
      /\ Capped(LINES) \in Nat /\ Capped(COLUMNS) \in Nat
  BY <1>1, CappedFacts
<1>5. y \in Nat /\ LINES \in 0 .. LINES
  BY <1>1, CursorFacts, Sizes
<1>6. CASE video' = Erased(csi_J(Pars[0]))
  <2>1. CASE Pars[0] = 0
    BY <1>1, <1>2, <1>6, <2>1, AreasOfScreen, EraseScreen
  <2>2. CASE Pars[0] = 1
    BY <1>1, <1>2, <1>6, <2>2, AreasOfScreen, EraseScreen
  <2>3. CASE Pars[0] = 2
    BY <1>1, <1>2, <1>6, <2>3, AreasOfScreen, EraseScreen
  <2>4. CASE Pars[0] \notin {0, 1, 2}
    BY <1>1, <1>2, <1>6, <2>4, ErasedNothing DEF csi_J
  <2> QED
    BY <2>1, <2>2, <2>3, <2>4
<1>7. CASE video' = Erased(csi_K(Pars[0]))
  <2>1. CASE Pars[0] = 0
    BY <1>1, <1>2, <1>7, <2>1, AreasOfScreen, EraseScreen
  <2>2. CASE Pars[0] = 1
    BY <1>1, <1>2, <1>7, <2>2, AreasOfScreen, EraseScreen
  <2>3. CASE Pars[0] = 2
    BY <1>1, <1>2, <1>7, <2>3, AreasOfScreen, EraseScreen
  <2>4. CASE Pars[0] \notin {0, 1, 2}
    BY <1>1, <1>2, <1>7, <2>4, ErasedNothing DEF csi_K
  <2> QED
    BY <2>1, <2>2, <2>3, <2>4
<1>8. CASE video' = scrdown(y, LINES, Capped(LINES))
  <2>1. RowsOf(video') = Screen!Down(y, LINES, Capped(LINES))
    BY <1>4, <1>5, <1>8, RowsDown
  <2> QED
    BY <1>3, <1>4, <2>1 DEF Screen!ShiftRows
<1>9. CASE video' = scrup(y, LINES, Capped(LINES))
  <2>1. RowsOf(video') = Screen!Up(y, LINES, Capped(LINES))
    BY <1>4, <1>5, <1>9, RowsUp
  <2> QED
    BY <1>3, <1>4, <2>1 DEF Screen!ShiftRows
<1>10. CASE video' = delete_char(Capped(COLUMNS))
  <2>1. PICK n \in 1 .. COLUMNS : n = Capped(COLUMNS) /\ n \in Nat
    BY <1>4
  <2>2. RowsOf(video)' =
              [RowsOf(video) EXCEPT ![y] =
                 [k \in Screen!Columns |->
                    IF k < x THEN RowsOf(video)[y][k]
                    ELSE IF k + n < COLUMNS THEN RowsOf(video)[y][k + n] ELSE BLANK]]
    BY <1>1, <1>3, <1>10, <2>1, RowsShiftLeft
  <2> QED
    BY <1>3, <2>1, <2>2 DEF Screen!ShiftLine
<1>11. CASE video' = insert_char(Capped(COLUMNS))
  <2>1. PICK n \in 1 .. COLUMNS : n = Capped(COLUMNS) /\ n \in Nat
    BY <1>4
  <2>2. RowsOf(video)' =
              [RowsOf(video) EXCEPT ![y] =
                 [k \in Screen!Columns |->
                    IF k < x THEN RowsOf(video)[y][k]
                    ELSE IF k - n >= x THEN RowsOf(video)[y][k - n] ELSE BLANK]]
    BY <1>1, <1>3, <1>11, <2>1, RowsShiftRight
  <2> QED
    BY <1>3, <2>1, <2>2 DEF Screen!ShiftLine
<1> QED
  BY <1>6, <1>7, <1>8, <1>9, <1>10, <1>11 DEF Edit

(* Printed cells are new, the others are where they were or scrolled.      *)
LEMMA PrintScreen ==
    ASSUME Drawn(video), cur_pos \in 0 .. LINES * COLUMNS, NEW ch \in PRINTED, put_char(ch),
           UNCHANGED <<cursorVars, regionVars>>
    PROVE  Screen!PutChars \/ UNCHANGED <<video, cur_pos, cursorVars, regionVars>>
<1>1. PICK n \in 0 .. COLUMNS - (cur_pos % COLUMNS), c \in Characters :
             /\ cur_pos' = PrintedAt(n) + n
             /\ video' = [i \in Cells |-> IF i \in PrintedAt(n) .. PrintedAt(n) + n - 1 THEN c
                                          ELSE PrintedOn(n)[i]]
  BY PutCharFacts
<1>2. /\ BehindScreen <=> cur_pos = LINES * COLUMNS
      /\ PrintedAt(n) \in Int /\ n \in Int /\ n >= 0 /\ n <= COLUMNS
      /\ PrintedAt(n) + n <= LINES * COLUMNS
  BY PrintPlace
<1>3. CASE n = 0
  <2>1. PrintedAt(n) = cur_pos /\ PrintedOn(n) = video
    BY <1>3 DEF PrintedAt, PrintedOn
  <2>2. cur_pos' = cur_pos
    BY <1>1, <1>3, <2>1
  <2>3. video' = [i \in Cells |-> video[i]]
    <3>1. \A i \in Cells : i \notin cur_pos .. cur_pos + 0 - 1
      BY DEF Cells
    <3> QED
      BY <1>1, <1>3, <2>1, <3>1
  <2>4. video' = video
    BY <2>3 DEF Drawn
  <2> QED
    BY <2>2, <2>4
<1>4. CASE n > 0
  <2> DEFINE full == cur_pos = LINES * COLUMNS
             from == IF full THEN cur_pos - COLUMNS ELSE cur_pos
             before == IF full THEN Screen!Up(0, LINES, 1) ELSE RowsOf(video)
  <2>1. PrintedAt(n) = from
    BY <1>2, <1>4 DEF PrintedAt
  <2>2. RowsOf(PrintedOn(n)) = before
    <3>1. RowsOf(scrup(0, LINES, 1)) = Screen!Up(0, LINES, 1)
      BY Sizes, RowsUp
    <3> QED
      BY <1>2, <1>4, <3>1, ScrollIsUp DEF PrintedOn
  <2>3. cur_pos' = from + n /\ cur_pos' <= LINES * COLUMNS /\ n \in 1 .. COLUMNS
    BY <1>1, <1>2, <1>4, <2>1, Sizes
  <2>4. PICK w, screen, old : w = video' /\ screen = PrintedOn(n) /\ old = before
    OBVIOUS
  <2>5. \A i \in Cells : w[i] = IF i \in from .. cur_pos' - 1 THEN c ELSE screen[i]
    <3>1. PrintedAt(n) + n - 1 = cur_pos' - 1
      BY <1>1, <1>2
    <3>2. video' = [i \in Cells |-> IF i \in PrintedAt(n) .. cur_pos' - 1 THEN c
                                     ELSE PrintedOn(n)[i]]
      BY <1>1, <3>1
    <3> HIDE DEF from
    <3> QED
      BY <2>1, <2>4, <3>2
  <2> HIDE DEF from
  <2>6. ASSUME NEW r \in 0 .. LINES - 1, NEW k \in 0 .. COLUMNS - 1,
               r * COLUMNS + k \notin from .. cur_pos' - 1
        PROVE  RowsOf(w)[r][k] = old[r][k]
    <3>1. RowsOf(w)[r][k] = w[r * COLUMNS + k]
      BY CellShown
    <3>2. RowsOf(screen)[r][k] = screen[r * COLUMNS + k]
      BY CellShown
    <3>3. w[r * COLUMNS + k] = screen[r * COLUMNS + k]
      BY <2>5, <2>6, CellFacts
    <3> QED
      BY <2>2, <2>4, <3>1, <3>2, <3>3
  <2>7. RowsOf(w) = [r \in 0 .. LINES - 1 |-> [k \in 0 .. COLUMNS - 1 |->
                       IF r * COLUMNS + k \in from .. cur_pos' - 1 THEN RowsOf(w)[r][k]
                       ELSE old[r][k]]]
    <3>1. RowsOf(w) = [r \in 0 .. LINES - 1 |-> [k \in 0 .. COLUMNS - 1 |-> RowsOf(w)[r][k]]]
      BY DEF RowsOf
    <3> QED
      BY <2>6, <3>1
  <2>8. RowsOf(video)' = RowsOf(w)
    BY <2>4 DEF RowsOf
  <2>9. UNCHANGED <<[x |-> x, y |-> y], [top |-> top, bottom |-> bottom]>>
    BY DEF cursorVars, regionVars
  <2>10. RowsOf(video)' = [r \in Screen!Rows |-> [m \in Screen!Columns |->
                             IF r * COLUMNS + m \in from .. cur_pos' - 1
                             THEN RowsOf(video)'[r][m] ELSE before[r][m]]]
    BY <2>4, <2>7, <2>8 DEF Screen!Rows, Screen!Columns
  <2> HIDE DEF before
  <2>11. Screen!PutChars
    BY <2>3, <2>9, <2>10 DEF Screen!PutChars, from, before
  <2> QED
    BY <2>11
<1> QED
  BY <1>2, <1>3, <1>4

(* What changes rows, cursor and region in one step of the terminal         *)
Changes ==
    \/ Screen!Move \/ Screen!SetRegion \/ Screen!Write \/ Screen!Feed \/ Screen!ReverseFeed
    \/ Screen!Delete \/ Screen!Erase \/ Screen!ShiftLine \/ Screen!ShiftRows

LEMMA TextScreen ==
    ASSUME ScreenInv, NEW c, Text(c)
    PROVE  Changes
<1>1. Drawn(video) /\ CursorOK /\ RegionOK /\ UNCHANGED regionVars
  BY DEF ScreenInv, Text
<1>2. CursorOK'
  BY TextStep
<1>3. CASE PutChar(c)
  BY <1>1, <1>3, WriteScreen DEF Changes
<1>4. CASE Tabulate(c)
  BY <1>1, <1>4, TabulateScreen DEF Changes
<1>5. CASE Back(c)
  BY <1>1, <1>5, BackScreen DEF Changes
<1>6. CASE LineFeed
  BY <1>1, <1>2, <1>6, FeedScreen DEF LineFeed, Changes
<1>7. CASE cr
  BY <1>1, <1>2, <1>7, MoveScreen DEF cr, Changes
<1>8. CASE UNCHANGED <<video, cursorVars>>
  BY <1>1, <1>2, <1>8, MoveScreen DEF Changes
<1> QED
  BY <1>3, <1>4, <1>5, <1>6, <1>7, <1>8 DEF Text

LEMMA EscapeScreen ==
    ASSUME ScreenInv, NEW c, Escape(c)
    PROVE  Changes
<1>1. Drawn(video) /\ CursorOK /\ RegionOK /\ UNCHANGED regionVars
  BY DEF ScreenInv, Escape
<1>2. CursorOK'
  BY EscapeStep
<1>3. CASE ri
  BY <1>1, <1>3, ReverseScreen DEF Changes
<1>4. CASE LineFeed
  BY <1>1, <1>2, <1>4, FeedScreen DEF LineFeed, Changes
<1>5. CASE UNCHANGED video
  BY <1>1, <1>2, <1>5, MoveScreen DEF Changes
<1> QED
  BY <1>3, <1>4, <1>5 DEF Escape

LEMMA RegionScreen ==
    ASSUME ScreenInv, NEW c, SetRegion(c)
    PROVE  Changes
<1>1. CursorOK /\ RegionOK /\ UNCHANGED <<video, cursorVars>>
  BY DEF ScreenInv, SetRegion
<1>2. CASE UNCHANGED regionVars
  BY <1>1, <1>2, MoveScreen DEF Changes, CursorOK, cursorVars
<1>3. CASE ~UNCHANGED regionVars
  <2>1. RegionOK'
    BY RegionStep
  <2>2. /\ top' \in 0 .. LINES /\ bottom' \in 0 .. LINES /\ top' < bottom'
        /\ [top |-> top, bottom |-> bottom]' = [top |-> top', bottom |-> bottom']
    BY <2>1, Sizes DEF RegionOK
  <2>3. UNCHANGED <<RowsOf(video), [x |-> x, y |-> y]>>
    BY <1>1 DEF RowsOf, cursorVars
  <2> QED
    BY <2>2, <2>3 DEF Screen!SetRegion, Changes
<1> QED
  BY <1>2, <1>3

LEMMA FunctionScreen ==
    ASSUME ScreenInv, NEW c, Function(c)
    PROVE  Changes
<1>1. CursorOK'
  BY FunctionStep
<1>2. CASE MoveCursor(c)
  BY <1>1, <1>2, MoveScreen DEF MoveCursor, Changes
<1>3. CASE Edit(c)
  BY <1>1, <1>3, EditScreen, MoveScreen DEF Changes
<1>4. CASE SetRegion(c)
  BY <1>4, RegionScreen
<1>5. CASE UNCHANGED <<video, cursorVars, regionVars>>
  BY <1>1, <1>5, MoveScreen DEF Changes
<1> QED
  BY <1>2, <1>3, <1>4, <1>5 DEF Function

LEMMA InitScreen ==
    ASSUME Init
    PROVE  Screen!Init
<1>1. ScreenInv
  BY InitStep
<1>2. RowsOf(video) \in [Screen!Rows -> [Screen!Columns -> Characters]]
  <2>1. ASSUME NEW r \in 0 .. LINES - 1, NEW c \in 0 .. COLUMNS - 1
        PROVE  video[r * COLUMNS + c] \in Characters
    BY <1>1, CellFacts DEF ScreenInv, Drawn
  <2> QED
    BY <2>1 DEF RowsOf, Screen!Rows, Screen!Columns
<1>3. cur_pos \in 0 .. LINES * COLUMNS
  BY <1>1 DEF ScreenInv
<1> QED
  BY <1>2, <1>3 DEF Init, Screen!Init

LEMMA NextTerminal ==
    ASSUME ScreenInv, [Next]_vars
    PROVE  [Screen!Next]_(Screen!vars)
<1>1. ASSUME UNCHANGED <<video, cur_pos, cursorVars, regionVars>>
      PROVE  UNCHANGED Screen!vars
  BY <1>1 DEF Screen!vars, RowsOf, cursorVars, regionVars
<1>2. CASE con_write
  <2>1. PICK c : (Text(c) \/ Escape(c) \/ Parameter(c) \/ Function(c)) /\ UNCHANGED cur_pos
    BY <1>2 DEF con_write
  <2>2. CASE Parameter(c)
    BY <1>1, <2>1, <2>2 DEF Parameter
  <2>3. CASE Text(c) \/ Escape(c) \/ Function(c)
    <3>1. Changes
      BY <2>3, TextScreen, EscapeScreen, FunctionScreen
    <3> QED
      BY <2>1, <3>1 DEF Changes, Screen!Next
  <2> QED
    BY <2>1, <2>2, <2>3
<1>3. ASSUME NEW b, keyboard_interrupt(b)
      PROVE  UNCHANGED Screen!vars
  BY <1>1, <1>3 DEF keyboard_interrupt
<1>4. CASE printf
  <2>1. PICK ch \in PRINTED : put_char(ch) /\ UNCHANGED <<cursorVars, regionVars>>
    BY <1>4 DEF printf
  <2>2. Screen!PutChars \/ UNCHANGED <<video, cur_pos, cursorVars, regionVars>>
    BY <2>1, PrintScreen DEF ScreenInv
  <2> QED
    BY <1>1, <2>2 DEF Screen!Next
<1>5. CASE Idle \/ UNCHANGED vars
  BY <1>1, <1>5 DEF Idle, vars
<1> QED
  BY <1>2, <1>3, <1>4, <1>5 DEF Next, Character, Digit

(* Row by row, the video memory changes as a terminal says it does: every  *)
(* step of the console is one of the terminal, or changes nothing of it.   *)
THEOREM ConsoleIsTerminal == Spec => ImplementsTerminal
<1>1. Init => Screen!Init
  BY InitScreen
<1>2. ScreenInv /\ [Next]_vars => [Screen!Next]_(Screen!vars)
  BY NextTerminal
<1> QED
  BY <1>1, <1>2, ScreenInvariance, PTL DEF Spec, ImplementsTerminal, Screen!Spec

(***************************************************************************)
(* A cursor key is understood to its last byte                             *)
(***************************************************************************)
(* Flattening a sequence of three or four parts.                           *)
LEMMA Flatten3 ==
    ASSUME NEW s, Len(s) = 3
    PROVE  FlattenSeq(s) = (s[1] \o s[2]) \o s[3]
<1> DEFINE Flat(f) == f = [i \in 1 .. Len(s) |-> IF i = 1 THEN s[i] ELSE f[i - 1] \o s[i]]
           g == [i \in 1 .. 3 |->
                   IF i = 1 THEN s[1]
                   ELSE IF i = 2 THEN s[1] \o s[2]
                   ELSE (s[1] \o s[2]) \o s[3]]
<1>1. Flat(g)
  <2>1. ASSUME NEW i \in 1 .. 3
        PROVE  g[i] = IF i = 1 THEN s[i] ELSE g[i - 1] \o s[i]
    <3>1. CASE i = 1
      BY <3>1
    <3>2. CASE i = 2
      <4>1. i # 1 /\ i - 1 = 1 /\ g[1] = s[1] /\ g[2] = s[1] \o s[2]
        BY <3>2
      <4> HIDE DEF g
      <4> QED
        BY <3>2, <4>1, Zenon
    <3>3. CASE i = 3
      <4>1. i # 1 /\ i - 1 = 2 /\ g[2] = s[1] \o s[2] /\ g[3] = (s[1] \o s[2]) \o s[3]
        BY <3>3
      <4> HIDE DEF g
      <4> QED
        BY <3>3, <4>1, Zenon
    <3> QED
      BY <3>1, <3>2, <3>3
  <2> HIDE DEF g
  <2>2. DOMAIN g = 1 .. 3 /\ g = [i \in 1 .. 3 |-> g[i]]
    BY DEF g
  <2> QED
    BY <2>1, <2>2
<1>2. FlattenSeq(s) = (CHOOSE f : Flat(f))[3]
  BY DEF FlattenSeq
<1>3. PICK f : f = CHOOSE h : Flat(h)
  OBVIOUS
<1>4. Flat(f)
  <2> HIDE DEF Flat, g
  <2> QED
    BY <1>1, <1>3
<1>5. \A i \in 1 .. 3 : \A j : j = i - 1 => f[i] = IF i = 1 THEN s[i] ELSE f[j] \o s[i]
  BY <1>4
<1> HIDE DEF Flat
<1>6. f[1] = s[1]
  BY <1>5
<1>7. f[2] = f[1] \o s[2]
  <2>1. 2 \in 1 .. 3 /\ 1 = 2 - 1 /\ 2 # 1
    OBVIOUS
  <2> QED
    BY <1>5, <2>1, Zenon
<1>8. f[3] = f[2] \o s[3]
  <2>1. 3 \in 1 .. 3 /\ 2 = 3 - 1 /\ 3 # 1
    OBVIOUS
  <2> QED
    BY <1>5, <2>1, Zenon
<1> QED
  BY <1>2, <1>3, <1>6, <1>7, <1>8, Zenon

LEMMA Flatten4 ==
    ASSUME NEW s, Len(s) = 4
    PROVE  FlattenSeq(s) = ((s[1] \o s[2]) \o s[3]) \o s[4]
<1> DEFINE Flat(f) == f = [i \in 1 .. Len(s) |-> IF i = 1 THEN s[i] ELSE f[i - 1] \o s[i]]
           g == [i \in 1 .. 4 |->
                   IF i = 1 THEN s[1]
                   ELSE IF i = 2 THEN s[1] \o s[2]
                   ELSE IF i = 3 THEN (s[1] \o s[2]) \o s[3]
                   ELSE ((s[1] \o s[2]) \o s[3]) \o s[4]]
<1>1. Flat(g)
  <2>1. ASSUME NEW i \in 1 .. 4
        PROVE  g[i] = IF i = 1 THEN s[i] ELSE g[i - 1] \o s[i]
    <3>1. CASE i = 1
      BY <3>1
    <3>2. CASE i = 2
      <4>1. i # 1 /\ i - 1 = 1 /\ g[1] = s[1] /\ g[2] = s[1] \o s[2]
        BY <3>2
      <4> HIDE DEF g
      <4> QED
        BY <3>2, <4>1, Zenon
    <3>3. CASE i = 3
      <4>1. i # 1 /\ i - 1 = 2 /\ g[2] = s[1] \o s[2] /\ g[3] = (s[1] \o s[2]) \o s[3]
        BY <3>3
      <4> HIDE DEF g
      <4> QED
        BY <3>3, <4>1, Zenon
    <3>4. CASE i = 4
      <4>1. i # 1 /\ i - 1 = 3 /\ g[3] = (s[1] \o s[2]) \o s[3] /\ g[4] = ((s[1] \o s[2]) \o s[3]) \o s[4]
        BY <3>4
      <4> HIDE DEF g
      <4> QED
        BY <3>4, <4>1, Zenon
    <3> QED
      BY <3>1, <3>2, <3>3, <3>4
  <2> HIDE DEF g
  <2>2. DOMAIN g = 1 .. 4 /\ g = [i \in 1 .. 4 |-> g[i]]
    BY DEF g
  <2> QED
    BY <2>1, <2>2
<1>2. FlattenSeq(s) = (CHOOSE f : Flat(f))[4]
  BY DEF FlattenSeq
<1>3. PICK f : f = CHOOSE h : Flat(h)
  OBVIOUS
<1>4. Flat(f)
  <2> HIDE DEF Flat, g
  <2> QED
    BY <1>1, <1>3
<1>5. \A i \in 1 .. 4 : \A j : j = i - 1 => f[i] = IF i = 1 THEN s[i] ELSE f[j] \o s[i]
  BY <1>4
<1> HIDE DEF Flat
<1>6. f[1] = s[1]
  BY <1>5
<1>7. f[2] = f[1] \o s[2]
  <2>1. 2 \in 1 .. 4 /\ 1 = 2 - 1 /\ 2 # 1
    OBVIOUS
  <2> QED
    BY <1>5, <2>1, Zenon
<1>8. f[3] = f[2] \o s[3]
  <2>1. 3 \in 1 .. 4 /\ 2 = 3 - 1 /\ 3 # 1
    OBVIOUS
  <2> QED
    BY <1>5, <2>1, Zenon
<1>9. f[4] = f[3] \o s[4]
  <2>1. 4 \in 1 .. 4 /\ 3 = 4 - 1 /\ 4 # 1
    OBVIOUS
  <2> QED
    BY <1>5, <2>1, Zenon
<1> QED
  BY <1>2, <1>3, <1>6, <1>7, <1>8, <1>9, Zenon

(* A sequence with one element more.                                       *)
LEMMA OneMore ==
    ASSUME NEW S, NEW u \in Seq(S), NEW a \in S, NEW w \in Seq(S), Len(w) = Len(u) + 1,
           w[Len(u) + 1] = a, \A i \in 1 .. Len(u) : w[i] = u[i]
    PROVE  u \o <<a>> = w
<1>1. PICK p : p = Append(u, a) /\ p = u \o <<a>>
  BY AppendIsConcat
<1>2. /\ p \in Seq(S) /\ Len(p) = Len(u) + 1 /\ p[Len(u) + 1] = a
      /\ \A i \in 1 .. Len(u) : p[i] = u[i]
  BY <1>1, AppendProperties
<1>3. \A i \in 1 .. Len(p) : p[i] = w[i]
  BY <1>2
<1>4. p = w
  BY <1>2, <1>3, SeqEqual
<1> QED
  BY <1>1, <1>4

LEMMA Joined ==
    ASSUME NEW S, NEW a \in S, NEW b \in S, NEW c \in S, NEW d \in S
    PROVE  /\ <<a>> \o <<b>> = <<a, b>>
           /\ <<a, b>> \o <<c>> = <<a, b, c>>
           /\ <<a, b, c>> \o <<d>> = <<a, b, c, d>>
<1>1. PICK s, t, u, v : s = <<a>> /\ t = <<a, b>> /\ u = <<a, b, c>> /\ v = <<a, b, c, d>>
  OBVIOUS
<1>2. /\ s \in Seq(S) /\ t \in Seq(S) /\ Len(t) = Len(s) + 1 /\ t[Len(s) + 1] = b
      /\ \A i \in 1 .. Len(s) : t[i] = s[i]
  BY <1>1
<1>3. /\ u \in Seq(S) /\ Len(u) = Len(t) + 1 /\ u[Len(t) + 1] = c
      /\ \A i \in 1 .. Len(t) : u[i] = t[i]
  BY <1>1
<1>4. /\ v \in Seq(S) /\ Len(v) = Len(u) + 1 /\ v[Len(u) + 1] = d
      /\ \A i \in 1 .. Len(u) : v[i] = u[i]
  BY <1>1
<1>5. s \o <<b>> = t /\ t \o <<c>> = u /\ u \o <<d>> = v
  BY <1>2, <1>3, <1>4, OneMore
<1> QED
  BY <1>1, <1>5

(* What a cursor key puts in the queue is what the keyboard made of it.    *)
LEMMA KeyQueued ==
    /\ \A a, b, c : "CR" \notin {a, b, c} => cput_queue(<<a, b, c>>) = <<a, b, c>>
    /\ \A a, b, c, d : "CR" \notin {a, b, c, d} => cput_queue(<<a, b, c, d>>) = <<a, b, c, d>>
<1>1. ASSUME NEW a, NEW b, NEW c, "CR" \notin {a, b, c}
      PROVE  cput_queue(<<a, b, c>>) = <<a, b, c>>
  <2> DEFINE k == <<a, b, c>>
             s == [i \in 1 .. Len(k) |-> IF k[i] = "CR" THEN <<"CR", "CR">> ELSE <<k[i]>>]
  <2>1. Len(s) = 3 /\ s[1] = <<a>> /\ s[2] = <<b>> /\ s[3] = <<c>>
    BY <1>1
  <2>2. cput_queue(k) = FlattenSeq(s)
    BY DEF cput_queue
  <2> HIDE DEF s
  <2>3. FlattenSeq(s) = (<<a>> \o <<b>>) \o <<c>>
    BY <2>1, Flatten3
  <2>4. <<a>> \o <<b>> = <<a, b>> /\ <<a, b>> \o <<c>> = k
    <3>1. PICK S, d : S = {a, b, c} /\ d = c
      OBVIOUS
    <3>2. a \in S /\ b \in S /\ c \in S /\ d \in S
      BY <3>1
    <3> QED
      BY <3>2, Joined
  <2> QED
    BY <2>2, <2>3, <2>4
<1>2. ASSUME NEW a, NEW b, NEW c, NEW d, "CR" \notin {a, b, c, d}
      PROVE  cput_queue(<<a, b, c, d>>) = <<a, b, c, d>>
  <2> DEFINE k == <<a, b, c, d>>
             s == [i \in 1 .. Len(k) |-> IF k[i] = "CR" THEN <<"CR", "CR">> ELSE <<k[i]>>]
  <2>1. Len(s) = 4 /\ s[1] = <<a>> /\ s[2] = <<b>> /\ s[3] = <<c>> /\ s[4] = <<d>>
    BY <1>2
  <2>2. cput_queue(k) = FlattenSeq(s)
    BY DEF cput_queue
  <2> HIDE DEF s
  <2>3. FlattenSeq(s) = ((<<a>> \o <<b>>) \o <<c>>) \o <<d>>
    BY <2>1, Flatten4
  <2>4. /\ <<a>> \o <<b>> = <<a, b>> /\ <<a, b>> \o <<c>> = <<a, b, c>>
        /\ <<a, b, c>> \o <<d>> = k
    <3>1. PICK S : S = {a, b, c, d}
      OBVIOUS
    <3> QED
      BY <3>1, Joined
  <2> QED
    BY <2>2, <2>3, <2>4
<1> QED
  BY <1>1, <1>2

(* How far the console has come with a cursor key it found in state 0       *)
Understood ==
    LET two == {"H", "A", "D", "G", "C", "Y", "B"}
        num == {"5", "6", "2", "3"}
    IN  \/ write_q = key.bytes /\ state = 0
        \/ \E c \in two : \/ write_q = <<"[", c>> /\ state = 1
                          \/ write_q = <<c>> /\ state = 2
        \/ \E c \in num : \/ write_q = <<"[", c, "~">> /\ state = 1
                          \/ write_q = <<c, "~">> /\ state = 2
        \/ write_q = <<"~">> /\ state = 3

KeyInv ==
    write_q # <<>> /\ key.bytes \in cur_table /\ key.state = 0 => video = key.video /\ Understood

LEMMA KeyStep ==
    ASSUME write_q # <<>>, key.bytes \in cur_table, Understood, con_write
    PROVE  /\ video' = video
           /\ IF write_q' = <<>> THEN state' = 0 ELSE key' = key /\ Understood'
<1> DEFINE two == {"H", "A", "D", "G", "C", "Y", "B"}
           num == {"5", "6", "2", "3"}
<1>0. /\ write_q' = Tail(write_q) /\ key' = IF Len(write_q) = 1 THEN NoKey ELSE key
      /\ \E c : c = Head(write_q) /\ (Text(c) \/ Escape(c) \/ Parameter(c) \/ Function(c))
  BY DEF con_write
<1>1. CASE write_q = key.bytes /\ state = 0
  <2>1. Head(write_q) = "ESC"
    BY <1>1 DEF cur_table
  <2>2. Text("ESC")
    BY <1>0, <1>1, <2>1 DEF Escape, Parameter, Function
  <2>3. video' = video /\ state' = 1
    BY <2>2, GlyphsAssumption
       DEF Text, PutChar, Tabulate, Back, Printable, Controls, Functions, DigitValue
  <2>4. \/ \E c \in two : write_q = <<"ESC", "[", c>>
        \/ \E c \in num : write_q = <<"ESC", "[", c, "~">>
    BY <1>1 DEF cur_table
  <2>5. CASE \E c \in two : write_q = <<"ESC", "[", c>>
    <3>1. PICK c \in two : write_q = <<"ESC", "[", c>>
      BY <2>5
    <3>2. write_q' = <<"[", c>> /\ key' = key
      BY <1>0, <3>1
    <3> QED
      BY <2>3, <3>2 DEF Understood
  <2>6. CASE \E c \in num : write_q = <<"ESC", "[", c, "~">>
    <3>1. PICK c \in num : write_q = <<"ESC", "[", c, "~">>
      BY <2>6
    <3>2. write_q' = <<"[", c, "~">> /\ key' = key
      BY <1>0, <3>1
    <3> QED
      BY <2>3, <3>2 DEF Understood
  <2> QED
    BY <2>4, <2>5, <2>6
<1>2. ASSUME Head(write_q) = "[", state = 1
      PROVE  video' = video /\ state' = 2
  <2>1. Escape("[")
    BY <1>0, <1>2 DEF Text, Parameter, Function
  <2> QED
    BY <2>1 DEF Escape
<1>3. CASE \E c \in two : write_q = <<"[", c>> /\ state = 1
  <2>1. PICK c \in two : write_q = <<"[", c>> /\ state = 1
    BY <1>3
  <2>2. write_q' = <<c>> /\ key' = key /\ Head(write_q) = "["
    BY <1>0, <2>1
  <2> QED
    BY <1>2, <2>1, <2>2 DEF Understood
<1>4. CASE \E c \in num : write_q = <<"[", c, "~">> /\ state = 1
  <2>1. PICK c \in num : write_q = <<"[", c, "~">> /\ state = 1
    BY <1>4
  <2>2. write_q' = <<c, "~">> /\ key' = key /\ Head(write_q) = "["
    BY <1>0, <2>1
  <2> QED
    BY <1>2, <2>1, <2>2 DEF Understood
<1>5. CASE \E c \in two : write_q = <<c>> /\ state = 2
  <2>1. PICK c \in two : write_q = <<c>> /\ state = 2
    BY <1>5
  <2>a. write_q' = <<>> /\ Head(write_q) = c
    BY <1>0, <2>1
  <2>b. c \notin DOMAIN DigitValue /\ c # "?" /\ c # ";"
    BY <2>1 DEF DigitValue
  <2>c. ~Parameter(c)
    BY <2>b DEF Parameter, Question, Separates
  <2>2. Function(c) /\ write_q' = <<>>
    BY <1>0, <2>1, <2>a, <2>c DEF Text, Escape
  <2>3. ~Edit(c) /\ ~SetRegion(c)
    BY <2>1 DEF Edit, SetRegion
  <2>4. video' = video /\ state' = 0
    BY <2>2, <2>3 DEF Function, MoveCursor
  <2> QED
    BY <2>2, <2>4
<1>6. CASE \E c \in num : write_q = <<c, "~">> /\ state = 2
  <2>1. PICK c \in num : write_q = <<c, "~">> /\ state = 2
    BY <1>6
  <2>2. write_q' = <<"~">> /\ key' = key /\ Head(write_q) = c
    BY <1>0, <2>1
  <2>3. Parameter(c)
    BY <1>0, <2>1, <2>2 DEF Text, Escape, Function, DigitValue
  <2> QED
    BY <2>2, <2>3 DEF Parameter, Understood
<1>7. CASE write_q = <<"~">> /\ state = 3
  <2>1. Function("~") /\ write_q' = <<>>
    BY <1>0, <1>7 DEF Text, Escape, Parameter, Question, Separates, DigitValue
  <2> QED
    BY <2>1 DEF Function, MoveCursor, Edit, SetRegion, Moves
<1> QED
  BY <1>1, <1>3, <1>4, <1>5, <1>6, <1>7 DEF Understood

(* What is queued is written before the next key or print.                 *)
LEMMA KeyInvariance ==
    ASSUME KeyInv, [Next]_vars
    PROVE  KeyInv'
<1>1. CASE con_write
  <2>1. SUFFICES ASSUME write_q' # <<>>, key'.bytes \in cur_table, key'.state = 0
                 PROVE  video' = key'.video /\ Understood'
    BY DEF KeyInv, cur_table
  <2>2. write_q # <<>> /\ key' \in {key, NoKey}
    BY <1>1 DEF con_write
  <2>3. NoKey.bytes \notin cur_table
    BY DEF NoKey, cur_table
  <2>4. key' = key
    BY <2>1, <2>2, <2>3
  <2>5. video = key.video /\ Understood /\ key.bytes \in cur_table
    BY <2>1, <2>2, <2>4 DEF KeyInv
  <2>6. video' = video /\ Understood'
    BY <1>1, <2>1, <2>2, <2>5, KeyStep
  <2> QED
    BY <2>4, <2>5, <2>6
<1>2. ASSUME NEW b, keyboard_interrupt(b)
      PROVE  KeyInv'
  <2>1. /\ write_q' = cput_queue(b) /\ key' = [bytes |-> b, state |-> state, video |-> video]
        /\ video' = video /\ state' = state
    BY <1>2 DEF keyboard_interrupt
  <2>2. b \in cur_table => cput_queue(b) = b
    BY KeyQueued DEF cur_table
  <2>3. b \in cur_table /\ state = 0 => Understood'
    BY <2>1, <2>2 DEF Understood
  <2> QED
    BY <2>1, <2>3 DEF KeyInv
<1>3. CASE printf
  BY <1>3 DEF printf, KeyInv
<1>4. CASE Idle \/ UNCHANGED vars
  BY <1>4 DEF Idle, vars, KeyInv, Understood
<1> QED
  BY <1>1, <1>2, <1>3, <1>4 DEF Next, Character, Digit

(* The sequence of a cursor key that finds the console outside of one does *)
(* not change a cell, and leaves it outside of a sequence.                 *)
THEOREM KeysPrintNothing == Spec => CursorKeysPrintNothing
<1>1. Init => KeyInv
  BY DEF Init, KeyInv
<1>2. KeyInv /\ [Next]_vars => KeyInv'
  BY KeyInvariance
<1>3. KeyInv /\ [Next]_vars =>
        [write_q # <<>> /\ write_q' = <<>> /\ key.bytes \in cur_table /\ key.state = 0
           => state' = 0 /\ video' = key.video]_vars
  <2>1. SUFFICES ASSUME KeyInv, Next, write_q # <<>>, write_q' = <<>>,
                        key.bytes \in cur_table, key.state = 0
                 PROVE  state' = 0 /\ video' = key.video
    OBVIOUS
  <2>2. con_write
    BY <2>1 DEF Next, Character, Digit, keyboard_interrupt, printf, Idle
  <2> QED
    BY <2>1, <2>2, KeyStep DEF KeyInv
<1> QED
  BY <1>1, <1>2, <1>3, PTL DEF Spec, CursorKeysPrintNothing
=============================================================================
