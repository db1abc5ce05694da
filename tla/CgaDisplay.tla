----------------------------- MODULE CgaDisplay -----------------------------
(***************************************************************************)
(* The text display of kern/console.c: cga_putc keeps a linear buffer of   *)
(* character cells, a position in it and the hardware cursor.              *)
(*                                                                         *)
(* One action is one call of cga_putc, by the case of its switch, with the *)
(* scrolling and the cursor update that end it.  A tab is the exception:   *)
(* it calls cons_putc(' ') five times, each one a call that scrolls and    *)
(* moves the cursor by itself.  Attributes are left out: no caller passes  *)
(* one, so every cell has the default one.                                 *)
(***************************************************************************)
EXTENDS Naturals

CONSTANTS
  CRT_ROWS, CRT_COLS,
  Glyphs,     \* what a cell can hold
  Blank       \* the glyph of ' '

ASSUME ScreenAssumption ==
         /\ CRT_ROWS \in Nat \ {0} /\ CRT_COLS \in Nat \ {0}
         /\ Blank \in Glyphs

CRT_SIZE == CRT_ROWS * CRT_COLS
Cells == 0 .. CRT_SIZE - 1
TabWidth == 5

VARIABLES
  crt_buf, crt_pos,
  cursor,     \* registers 14 and 15 of the display controller
  tabs        \* spaces the current tab has still to write

vars == <<crt_buf, crt_pos, cursor, tabs>>

(* cga_init takes over the screen and the cursor of the BIOS, which is on  *)
(* the screen: the code would accept any 16 bits (console.c:143-150).      *)
Init ==
  /\ crt_buf \in [Cells -> Glyphs]
  /\ cursor \in Cells
  /\ crt_pos = cursor
  /\ tabs = 0

(* Mutant: the position may rest one past the end.                         *)
SettleLate(b, pos) ==
  /\ IF pos > CRT_SIZE
       THEN /\ crt_buf' = [k \in Cells |-> IF k < CRT_SIZE - CRT_COLS
                                           THEN b[k + CRT_COLS] ELSE Blank]
            /\ crt_pos' = pos - CRT_COLS
       ELSE /\ crt_buf' = b
            /\ crt_pos' = pos
  /\ cursor' = crt_pos'

(* The end of every call, given what the switch left: the lines move up if *)
(* the position ran off the screen, and the cursor follows.                *)
Settle(b, pos) ==
  /\ IF pos >= CRT_SIZE
       THEN /\ crt_buf' = [k \in Cells |-> IF k < CRT_SIZE - CRT_COLS
                                           THEN b[k + CRT_COLS] ELSE Blank]
            /\ crt_pos' = pos - CRT_COLS
       ELSE /\ crt_buf' = b
            /\ crt_pos' = pos
  /\ cursor' = crt_pos'

Glyph(g) == Settle([crt_buf EXCEPT ![crt_pos] = g], crt_pos + 1)

PutGlyph(g) == tabs = 0 /\ Glyph(g) /\ UNCHANGED tabs

PutBackspace ==
  /\ tabs = 0
  /\ IF crt_pos > 0
       THEN Settle([crt_buf EXCEPT ![crt_pos - 1] = Blank], crt_pos - 1)
       ELSE Settle(crt_buf, crt_pos)
  /\ UNCHANGED tabs

LineStart(pos) == pos - (pos % CRT_COLS)

(* Mutant: a newline goes down without going back to the first column.     *)
PutNewlineDown ==
  /\ tabs = 0
  /\ Settle(crt_buf, crt_pos + CRT_COLS)
  /\ UNCHANGED tabs

PutNewline ==
  /\ tabs = 0
  /\ Settle(crt_buf, LineStart(crt_pos + CRT_COLS))
  /\ UNCHANGED tabs

PutReturn ==
  /\ tabs = 0
  /\ Settle(crt_buf, LineStart(crt_pos))
  /\ UNCHANGED tabs

PutTab ==
  /\ tabs = 0
  /\ tabs' = TabWidth
  /\ UNCHANGED <<crt_buf, crt_pos, cursor>>

TabSpace ==
  /\ tabs > 0
  /\ Glyph(Blank)
  /\ tabs' = tabs - 1

Next ==
  \/ \E g \in Glyphs : PutGlyph(g)
  \/ PutBackspace \/ PutNewline \/ PutReturn \/ PutTab \/ TabSpace

Spec == Init /\ [][Next]_vars

-----------------------------------------------------------------------------

(* No call ever leaves the position off the screen, where the next one     *)
(* would write past the buffer (console.c:182, 187-194).                   *)
TypeOK ==
  /\ crt_buf \in [Cells -> Glyphs]
  /\ crt_pos \in Cells
  /\ cursor = crt_pos
  /\ tabs \in 0 .. TabWidth

(* The lines of a screen, from its linear buffer.                          *)
Lines(b) ==
  [r \in 0 .. CRT_ROWS - 1 |-> [c \in 0 .. CRT_COLS - 1 |-> b[r * CRT_COLS + c]]]

Screen == INSTANCE Terminal
  WITH Rows <- CRT_ROWS, Cols <- CRT_COLS,
       cells <- Lines(crt_buf),
       row <- cursor \div CRT_COLS,
       col <- cursor % CRT_COLS

(* The linear buffer behaves as a terminal of rows and columns: glyphs at  *)
(* the end of a line, newlines on the last one, tabs across both and       *)
(* backspaces over a line break do what they would there, and the cursor   *)
(* shown is where the next glyph goes (console.c:161-200).                 *)
RefinesTerminal == Screen!Spec
=============================================================================
