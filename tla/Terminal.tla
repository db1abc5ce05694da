------------------------------ MODULE Terminal ------------------------------
(* A scrolling text terminal: what the display promises to whoever writes  *)
(* to the console.                                                         *)
EXTENDS Naturals

CONSTANTS Rows, Cols, Glyphs, Blank

VARIABLES
  cells,      \* cells[r][c] is the glyph at row r, column c
  row, col    \* the cursor

vars == <<cells, row, col>>

RowIndex == 0 .. Rows - 1
ColIndex == 0 .. Cols - 1

Init ==
  /\ cells \in [RowIndex -> [ColIndex -> Glyphs]]
  /\ row \in RowIndex
  /\ col \in ColIndex

(* To the start of the next line; at the bottom everything moves up.       *)
NextLine(text) ==
  /\ col' = 0
  /\ IF row < Rows - 1
       THEN row' = row + 1 /\ cells' = text
       ELSE /\ row' = row
            /\ cells' = [r \in RowIndex |->
                           IF r < Rows - 1 THEN text[r + 1]
                           ELSE [c \in ColIndex |-> Blank]]

Type(g) ==
  LET text == [cells EXCEPT ![row][col] = g]
  IN IF col < Cols - 1
       THEN col' = col + 1 /\ row' = row /\ cells' = text
       ELSE NextLine(text)

LineFeed == NextLine(cells)

CarriageReturn == col' = 0 /\ UNCHANGED <<cells, row>>

(* Back over the last glyph, on the line above if need be.                 *)
Erase ==
  IF row = 0 /\ col = 0 THEN UNCHANGED vars
  ELSE /\ IF col > 0 THEN col' = col - 1 /\ row' = row
                     ELSE col' = Cols - 1 /\ row' = row - 1
       /\ cells' = [cells EXCEPT ![row'][col'] = Blank]

Next == (\E g \in Glyphs : Type(g)) \/ LineFeed \/ CarriageReturn \/ Erase

Spec == Init /\ [][Next]_vars
=============================================================================
