---------------------------- MODULE OutputProofs ----------------------------
(***************************************************************************)
(* What the kernel shows: the display of kern/console.c, and the formatted *)
(* text of lib/printfmt.c that cprintf puts on it.                         *)
(*                                                                         *)
(* CgaDisplay for screens of every size: no write ever falls outside the   *)
(* buffer, the position and the hardware cursor stay equal, and what is    *)
(* shown is what the terminal of rows and columns would show.              *)
(*                                                                         *)
(* PrintFmt for every format, argument, width of a word and buffer: its    *)
(* type invariant, what snprintf leaves in the buffer, what becomes of     *)
(* text that is no escape, and what each documented conversion of a string *)
(* or a number puts.  Five inductive invariants follow the call:           *)
(*   ReadInv      where it is in the format,                               *)
(*   BufferInv    what the buffer holds of the text,                       *)
(*   VerbatimInv  the text, if nothing of the format is an escape,         *)
(*   ParseInv     what the flags, width and precision read so far mean,    *)
(*   NumberInv    what printnum has put aside and what is left to divide.  *)
(***************************************************************************)
EXTENDS CgaDisplay, PrintFmt, WellFoundedInduction, TLAPS

-----------------------------------------------------------------------------
(* The display.                                                            *)

LEMMA SizeType ==
  /\ CRT_SIZE \in Nat \ {0}
  /\ CRT_COLS \in 1 .. CRT_SIZE
  <1>1. CRT_ROWS \in Nat /\ CRT_COLS \in Nat /\ CRT_ROWS >= 1 /\ CRT_COLS >= 1
    BY ScreenAssumption
  <1>2. CRT_ROWS * CRT_COLS \in Nat
    BY <1>1
  <1>3. CRT_ROWS * CRT_COLS >= 1 * CRT_COLS
    BY <1>1
  <1>4. QED
    BY <1>1, <1>2, <1>3 DEF CRT_SIZE

LEMMA DivMod ==
  ASSUME NEW p \in Nat, NEW c \in Nat \ {0}
  PROVE  /\ p \div c \in Nat
         /\ p % c \in 0 .. c - 1
         /\ p = c * (p \div c) + (p % c)
  OBVIOUS

(* The start of the line below the last one is the end of the buffer.      *)
LEMMA LineStartBound ==
  ASSUME NEW p \in Nat, p < CRT_SIZE + CRT_COLS
  PROVE  LineStart(p) \in 0 .. p /\ LineStart(p) <= CRT_SIZE
  <1>1. CRT_ROWS \in Nat /\ CRT_COLS \in Nat \ {0}
    BY ScreenAssumption
  <1>2. PICK q \in Nat : p = CRT_COLS * q + (p % CRT_COLS)
    BY <1>1, DivMod
  <1>3. p % CRT_COLS \in 0 .. CRT_COLS - 1
    BY <1>1, DivMod
  <1>4. LineStart(p) = CRT_COLS * q
    BY <1>1, <1>2, <1>3 DEF LineStart
  <1>5. CRT_COLS * q < CRT_COLS * (CRT_ROWS + 1)
    BY <1>1, <1>2, <1>3 DEF CRT_SIZE
  <1>6. q < CRT_ROWS + 1
    BY <1>1, <1>5
  <1>7. CRT_COLS * q <= CRT_COLS * CRT_ROWS
    BY <1>1, <1>6
  <1>8. QED
    BY <1>1, <1>2, <1>3, <1>4, <1>7 DEF CRT_SIZE

(* Whatever the switch leaves, up to a position one past the end, the end  *)
(* of the call brings back on the screen.                                  *)
LEMMA SettleType ==
  ASSUME NEW b \in [Cells -> Glyphs], NEW pos \in 0 .. CRT_SIZE, Settle(b, pos)
  PROVE  crt_buf' \in [Cells -> Glyphs] /\ crt_pos' \in Cells /\ cursor' = crt_pos'
  <1>1. CASE pos >= CRT_SIZE
    <2>1. crt_pos' \in Cells
      BY <1>1, SizeType DEF Settle, Cells
    <2>2. \A i \in Cells : i < CRT_SIZE - CRT_COLS => i + CRT_COLS \in Cells
      BY SizeType DEF Cells
    <2>3. crt_buf' \in [Cells -> Glyphs]
      BY <1>1, <2>2, ScreenAssumption DEF Settle
    <2>4. QED
      BY <2>1, <2>3 DEF Settle
  <1>2. CASE pos < CRT_SIZE
    BY <1>2, SizeType DEF Settle, Cells
  <1>3. QED
    BY <1>1, <1>2, SizeType

LEMMA GlyphType ==
  ASSUME TypeOK, NEW g \in Glyphs, Glyph(g)
  PROVE  crt_buf' \in [Cells -> Glyphs] /\ crt_pos' \in Cells /\ cursor' = crt_pos'
  <1>1. crt_pos + 1 \in 0 .. CRT_SIZE
    BY SizeType DEF TypeOK, Cells
  <1>2. [crt_buf EXCEPT ![crt_pos] = g] \in [Cells -> Glyphs]
    BY DEF TypeOK
  <1>3. QED
    BY <1>1, <1>2, SettleType DEF Glyph

LEMMA TypeStep == TypeOK /\ [Next]_vars => TypeOK'
  <1> SUFFICES ASSUME TypeOK, [Next]_vars PROVE TypeOK'
    OBVIOUS
  <1>0. crt_pos \in Nat /\ crt_pos < CRT_SIZE /\ crt_pos \in 0 .. CRT_SIZE
        /\ crt_buf \in [Cells -> Glyphs]
    BY SizeType DEF TypeOK, Cells
  <1>1. ASSUME NEW g \in Glyphs, PutGlyph(g) PROVE TypeOK'
    BY <1>1, GlyphType DEF PutGlyph, TypeOK
  <1>2. CASE PutBackspace
    <2>1. CASE crt_pos > 0
      <3>1. crt_pos - 1 \in 0 .. CRT_SIZE
        BY <1>0, <2>1, SizeType
      <3>2. [crt_buf EXCEPT ![crt_pos - 1] = Blank] \in [Cells -> Glyphs]
        BY <1>0, ScreenAssumption
      <3>3. QED
        BY <1>2, <2>1, <3>1, <3>2, SettleType DEF PutBackspace, TypeOK
    <2>2. CASE ~(crt_pos > 0)
      BY <1>0, <1>2, <2>2, SettleType DEF PutBackspace, TypeOK
    <2>3. QED
      BY <2>1, <2>2
  <1>3. CASE PutNewline
    <2>1. LineStart(crt_pos + CRT_COLS) \in 0 .. CRT_SIZE
      BY <1>0, SizeType, LineStartBound
    <2>2. QED
      BY <1>0, <1>3, <2>1, SettleType DEF PutNewline, TypeOK
  <1>4. CASE PutReturn
    <2>1. LineStart(crt_pos) \in 0 .. CRT_SIZE
      BY <1>0, SizeType, LineStartBound
    <2>2. QED
      BY <1>0, <1>4, <2>1, SettleType DEF PutReturn, TypeOK
  <1>5. CASE PutTab
    BY <1>5 DEF PutTab, TypeOK, TabWidth
  <1>6. CASE TabSpace
    <2>1. tabs' \in 0 .. TabWidth
      BY <1>6 DEF TabSpace, TypeOK, TabWidth
    <2>2. QED
      BY <1>6, <2>1, GlyphType, ScreenAssumption DEF TabSpace, TypeOK
  <1>7. CASE UNCHANGED vars
    BY <1>7 DEF vars, TypeOK
  <1>8. QED
    BY <1>1, <1>2, <1>3, <1>4, <1>5, <1>6, <1>7 DEF Next

(* For every screen size, every character that is put lands in the buffer. *)
THEOREM TypeCorrect == Spec => []TypeOK
  <1>1. Init => TypeOK
    BY DEF Init, TypeOK, TabWidth
  <1>2. QED
    BY <1>1, TypeStep, PTL DEF Spec

-----------------------------------------------------------------------------
(* The display is a terminal.  Rows and columns first.                     *)

LEMMA Screens ==
  /\ CRT_ROWS \in Nat \ {0} /\ CRT_COLS \in Nat \ {0} /\ CRT_SIZE \in Nat
  /\ CRT_SIZE = (CRT_ROWS - 1) * CRT_COLS + CRT_COLS
  BY ScreenAssumption, SizeType DEF CRT_SIZE

LEMMA FactorLess ==
  ASSUME NEW a \in Int, NEW b \in Int, NEW c \in Nat \ {0}, a * c < b * c
  PROVE  a < b
  <1>1. a >= b => a * c >= b * c
    OBVIOUS
  <1>2. a * c \in Int /\ b * c \in Int
    OBVIOUS
  <1>3. QED
    BY <1>1, <1>2

LEMMA FactorMono ==
  ASSUME NEW a \in Int, NEW b \in Int, NEW c \in Nat, a <= b
  PROVE  a * c <= b * c /\ a * c \in Int /\ b * c \in Int
  OBVIOUS

LEMMA Euclid ==
  ASSUME NEW c \in Nat \ {0}, NEW q \in Nat, NEW m \in 0 .. c - 1
  PROVE  (q * c + m) \div c = q /\ (q * c + m) % c = m
  <1> DEFINE n == q * c + m
             x == n \div c
  <1>1. q * c \in Nat /\ n \in Nat
    OBVIOUS
  <1>2. x \in Nat /\ n % c \in 0 .. c - 1 /\ n = c * x + (n % c)
    BY <1>1, DivMod
  <1>3. c * x = x * c /\ x * c \in Nat
    BY <1>2
  <1>4. (q + 1) * c = q * c + c /\ (x + 1) * c = x * c + c
    BY <1>2
  <1> HIDE DEF n, x
  <1>5. x * c < (q + 1) * c
    BY <1>1, <1>2, <1>3, <1>4 DEF n
  <1>6. q * c < (x + 1) * c
    BY <1>1, <1>2, <1>3, <1>4 DEF n
  <1>7. x < q + 1
    BY <1>2, <1>5, FactorLess
  <1>8. q < x + 1
    BY <1>2, <1>6, FactorLess
  <1>9. x = q
    BY <1>2, <1>7, <1>8
  <1>10. n % c = m
    BY <1>1, <1>2, <1>3, <1>9 DEF n
  <1>11. QED
    BY <1>9, <1>10 DEF n, x

(* Every row and column is a cell, and no two are the same one.            *)
LEMMA CellOf ==
  ASSUME NEW r \in 0 .. CRT_ROWS - 1, NEW c \in 0 .. CRT_COLS - 1
  PROVE  /\ r * CRT_COLS + c \in Cells
         /\ (r * CRT_COLS + c) \div CRT_COLS = r
         /\ (r * CRT_COLS + c) % CRT_COLS = c
  <1>1. r * CRT_COLS <= (CRT_ROWS - 1) * CRT_COLS
        /\ r * CRT_COLS \in Int /\ (CRT_ROWS - 1) * CRT_COLS \in Int
    BY Screens, FactorMono
  <1>2. 0 * CRT_COLS <= r * CRT_COLS /\ 0 * CRT_COLS = 0
    BY Screens, FactorMono
  <1>3. r * CRT_COLS + c \in Cells
    BY <1>1, <1>2, Screens DEF Cells
  <1>4. QED
    BY <1>3, Screens, Euclid

(* Every cell has a row and a column.                                      *)
LEMMA Place ==
  ASSUME NEW p \in Cells
  PROVE  /\ p \div CRT_COLS \in 0 .. CRT_ROWS - 1
         /\ p % CRT_COLS \in 0 .. CRT_COLS - 1
         /\ p = (p \div CRT_COLS) * CRT_COLS + (p % CRT_COLS)
         /\ (p \div CRT_COLS) * CRT_COLS \in Nat
  <1> DEFINE q == p \div CRT_COLS
  <1>1. p \in Nat /\ p < CRT_SIZE
    BY Screens DEF Cells
  <1>2. q \in Nat /\ p % CRT_COLS \in 0 .. CRT_COLS - 1
        /\ p = CRT_COLS * q + (p % CRT_COLS)
    BY <1>1, Screens, DivMod
  <1>3. CRT_COLS * q = q * CRT_COLS /\ q * CRT_COLS \in Nat
    BY <1>2, Screens
  <1> HIDE DEF q
  <1>4. q * CRT_COLS < CRT_ROWS * CRT_COLS
    BY <1>1, <1>2, <1>3, Screens DEF CRT_SIZE
  <1>5. q < CRT_ROWS
    BY <1>2, <1>4, Screens, FactorLess
  <1>6. QED
    BY <1>2, <1>3, <1>5, Screens DEF q

Written(b, p, g) == [b EXCEPT ![p] = g]
Overwritten(text, r, c, g) == [text EXCEPT ![r][c] = g]

(* Writing one cell writes one place of one line.                          *)
LEMMA LinesWrite ==
  ASSUME NEW b \in [Cells -> Glyphs], NEW p \in Cells, NEW g \in Glyphs
  PROVE  Lines(Written(b, p, g))
           = Overwritten(Lines(b), p \div CRT_COLS, p % CRT_COLS, g)
  <1> DEFINE q == p \div CRT_COLS
             m == p % CRT_COLS
             at(r, c) == r * CRT_COLS + c
  <1>1. q \in 0 .. CRT_ROWS - 1 /\ m \in 0 .. CRT_COLS - 1 /\ p = at(q, m)
    BY Place
  <1>2. ASSUME NEW r \in 0 .. CRT_ROWS - 1, NEW c \in 0 .. CRT_COLS - 1
        PROVE  /\ at(r, c) \in Cells
               /\ at(r, c) = p => r = q /\ c = m
    BY CellOf
  <1> HIDE DEF q, m
  <1>3. ASSUME NEW r \in 0 .. CRT_ROWS - 1, NEW c \in 0 .. CRT_COLS - 1
        PROVE  [b EXCEPT ![p] = g][at(r, c)]
                 = IF r = q /\ c = m THEN g ELSE b[at(r, c)]
    BY <1>1, <1>2
  <1> HIDE DEF at
  <1>4. \A f : Lines(f) = [r \in 0 .. CRT_ROWS - 1 |->
                              [c \in 0 .. CRT_COLS - 1 |-> f[at(r, c)]]]
    BY DEF Lines, at
  <1>5. ASSUME NEW r \in 0 .. CRT_ROWS - 1
        PROVE  Lines([b EXCEPT ![p] = g])[r] = [Lines(b) EXCEPT ![q][m] = g][r]
    <2>1. Lines([b EXCEPT ![p] = g])[r]
            = [c \in 0 .. CRT_COLS - 1 |-> IF r = q /\ c = m THEN g ELSE b[at(r, c)]]
      BY <1>3, <1>4
    <2>2. Lines(b)[r] = [c \in 0 .. CRT_COLS - 1 |-> b[at(r, c)]] /\ r \in DOMAIN Lines(b)
      BY <1>4
    <2>3. CASE r = q
      BY <1>1, <2>1, <2>2, <2>3
    <2>4. CASE r # q
      BY <2>1, <2>2, <2>4
    <2>5. QED
      BY <2>3, <2>4
  <1>6. Lines([b EXCEPT ![p] = g]) = [Lines(b) EXCEPT ![q][m] = g]
    BY <1>1, <1>4, <1>5
  <1>7. QED
    BY <1>6 DEF q, m, Written, Overwritten

Scrolled(b) ==
  [i \in Cells |-> IF i < CRT_SIZE - CRT_COLS THEN b[i + CRT_COLS] ELSE Blank]

(* Moving the buffer by one line moves every line up.                      *)
LEMMA LinesScroll ==
  ASSUME NEW b \in [Cells -> Glyphs]
  PROVE  Lines(Scrolled(b))
           = [r \in 0 .. CRT_ROWS - 1 |->
                IF r < CRT_ROWS - 1 THEN Lines(b)[r + 1]
                ELSE [c \in 0 .. CRT_COLS - 1 |-> Blank]]
  <1>1. ASSUME NEW r \in 0 .. CRT_ROWS - 1, NEW c \in 0 .. CRT_COLS - 1
        PROVE  Scrolled(b)[r * CRT_COLS + c]
                 = IF r < CRT_ROWS - 1 THEN b[(r + 1) * CRT_COLS + c] ELSE Blank
    <2>1. r * CRT_COLS + c \in Cells /\ r * CRT_COLS \in Int
      <3>1. r * CRT_COLS + c \in Cells
        BY CellOf
      <3>2. r <= r /\ r \in Int /\ CRT_COLS \in Nat
        BY Screens
      <3>3. r * CRT_COLS \in Int
        BY <3>2
      <3>4. QED
        BY <3>1, <3>3
    <2>2. (r + 1) * CRT_COLS = r * CRT_COLS + CRT_COLS
      BY Screens
    <2>3. CASE r < CRT_ROWS - 1
      <3>1. (r + 1) * CRT_COLS <= (CRT_ROWS - 1) * CRT_COLS
            /\ (CRT_ROWS - 1) * CRT_COLS \in Int
        BY <2>3, Screens, FactorMono
      <3>2. r * CRT_COLS + c < CRT_SIZE - CRT_COLS
        BY <2>1, <2>2, <3>1, Screens
      <3>3. (r * CRT_COLS + c) + CRT_COLS = (r + 1) * CRT_COLS + c
        BY <2>1, <2>2, Screens
      <3>4. QED
        BY <2>1, <2>3, <3>2, <3>3 DEF Scrolled
    <2>4. CASE r = CRT_ROWS - 1
      <3>1. ~(r * CRT_COLS + c < CRT_SIZE - CRT_COLS)
        BY <2>1, <2>4, Screens
      <3>2. QED
        BY <2>1, <2>4, <3>1, Screens DEF Scrolled
    <2>5. QED
      BY <2>3, <2>4, Screens
  <1>2. ASSUME NEW r \in 0 .. CRT_ROWS - 1
        PROVE  Lines(Scrolled(b))[r]
                 = IF r < CRT_ROWS - 1 THEN Lines(b)[r + 1]
                   ELSE [c \in 0 .. CRT_COLS - 1 |-> Blank]
    <2>1. Lines(Scrolled(b))[r]
            = [c \in 0 .. CRT_COLS - 1 |-> Scrolled(b)[r * CRT_COLS + c]]
      BY DEF Lines
    <2>2. CASE r < CRT_ROWS - 1
      <3>1. r + 1 \in 0 .. CRT_ROWS - 1
        BY <2>2, Screens
      <3>2. Lines(b)[r + 1] = [c \in 0 .. CRT_COLS - 1 |-> b[(r + 1) * CRT_COLS + c]]
        BY <3>1 DEF Lines
      <3>3. QED
        BY <1>1, <2>1, <2>2, <3>2
    <2>3. CASE ~(r < CRT_ROWS - 1)
      BY <1>1, <2>1, <2>3
    <2>4. QED
      BY <2>2, <2>3
  <1>3. QED
    BY <1>2 DEF Lines

(* A call that leaves the position on the screen keeps the lines; one that *)
(* leaves it at the end moves them up and goes to the start of the last.   *)
LEMMA SettleLines ==
  ASSUME NEW b \in [Cells -> Glyphs], NEW pos \in 0 .. CRT_SIZE, Settle(b, pos)
  PROVE  /\ pos \in Cells => Lines(crt_buf)' = Lines(b) /\ cursor' = pos
         /\ pos = CRT_SIZE => /\ Lines(crt_buf)' = Lines(Scrolled(b))
                              /\ cursor' = (CRT_ROWS - 1) * CRT_COLS
  <1>1. CASE pos \in Cells
    BY <1>1, Screens DEF Settle, Cells
  <1>2. CASE pos = CRT_SIZE
    BY <1>2, Screens DEF Settle, Scrolled, Cells
  <1>3. QED
    BY <1>1, <1>2

LEMMA LinesType ==
  ASSUME NEW b \in [Cells -> Glyphs]
  PROVE  Lines(b) \in [0 .. CRT_ROWS - 1 -> [0 .. CRT_COLS - 1 -> Glyphs]]
  <1>1. \A r \in 0 .. CRT_ROWS - 1, c \in 0 .. CRT_COLS - 1 :
          b[r * CRT_COLS + c] \in Glyphs
    BY CellOf
  <1>2. QED
    BY <1>1 DEF Lines

(* A call that leaves the position at a row and column of the screen.      *)
LEMMA MoveTo ==
  ASSUME NEW b \in [Cells -> Glyphs],
         NEW r \in 0 .. CRT_ROWS - 1, NEW c \in 0 .. CRT_COLS - 1,
         Settle(b, r * CRT_COLS + c)
  PROVE  /\ Lines(crt_buf)' = Lines(b)
         /\ (cursor \div CRT_COLS)' = r /\ (cursor % CRT_COLS)' = c
  <1>1. r * CRT_COLS + c \in Cells
    BY CellOf
  <1>2. r * CRT_COLS + c \in 0 .. CRT_SIZE
    BY <1>1, Screens DEF Cells
  <1>3. Lines(crt_buf)' = Lines(b) /\ cursor' = r * CRT_COLS + c
    BY <1>1, <1>2, SettleLines
  <1>4. QED
    BY <1>3, CellOf

(* A call that leaves it at the start of the line below, the one below the *)
(* last line included.                                                     *)
LEMMA MoveDown ==
  ASSUME NEW b \in [Cells -> Glyphs], NEW r \in 0 .. CRT_ROWS - 1,
         cursor \div CRT_COLS = r,
         Settle(b, (r + 1) * CRT_COLS)
  PROVE  Screen!NextLine(Lines(b))
  <1>1. (r + 1) * CRT_COLS \in Int
    BY Screens, FactorMono
  <1>2. CASE r < CRT_ROWS - 1
    <2>1. r + 1 \in 0 .. CRT_ROWS - 1 /\ 0 \in 0 .. CRT_COLS - 1
      BY <1>2, Screens
    <2>2. Settle(b, (r + 1) * CRT_COLS + 0)
      BY <1>1
    <2>3. /\ Lines(crt_buf)' = Lines(b)
          /\ (cursor \div CRT_COLS)' = r + 1 /\ (cursor % CRT_COLS)' = 0
      BY <2>1, <2>2, MoveTo
    <2>4. QED
      BY <1>2, <2>3 DEF Screen!NextLine
  <1>3. CASE r = CRT_ROWS - 1
    <2>1. (r + 1) * CRT_COLS = CRT_SIZE /\ CRT_SIZE \in 0 .. CRT_SIZE
      BY <1>3, Screens DEF CRT_SIZE
    <2>2. /\ Lines(crt_buf)' = Lines(Scrolled(b))
          /\ cursor' = (CRT_ROWS - 1) * CRT_COLS
      BY <2>1, SettleLines
    <2>3. (CRT_ROWS - 1) * CRT_COLS = r * CRT_COLS + 0
          /\ r \in 0 .. CRT_ROWS - 1 /\ 0 \in 0 .. CRT_COLS - 1
      BY <1>3, Screens, FactorMono
    <2>4. (cursor \div CRT_COLS)' = r /\ (cursor % CRT_COLS)' = 0
      BY <2>2, <2>3, CellOf
    <2>5. QED
      BY <1>3, <2>2, <2>4, LinesScroll
         DEF Screen!NextLine, Screen!RowIndex, Screen!ColIndex
  <1>4. QED
    BY <1>2, <1>3, Screens

LEMMA GlyphTypes ==
  ASSUME TypeOK, NEW g \in Glyphs, Glyph(g)
  PROVE  Screen!Type(g)
  <1> DEFINE b == [crt_buf EXCEPT ![crt_pos] = g]
             q == cursor \div CRT_COLS
             m == cursor % CRT_COLS
  <1>1. b \in [Cells -> Glyphs] /\ Settle(b, crt_pos + 1)
    BY DEF Glyph, TypeOK
  <1>2. /\ q \in 0 .. CRT_ROWS - 1 /\ m \in 0 .. CRT_COLS - 1
        /\ crt_pos = q * CRT_COLS + m /\ q * CRT_COLS \in Nat
    BY Place DEF TypeOK
  <1>3. Lines(b) = [Lines(crt_buf) EXCEPT ![q][m] = g]
    <2>1. crt_buf \in [Cells -> Glyphs] /\ crt_pos \in Cells /\ cursor = crt_pos
      BY DEF TypeOK
    <2>2. b = Written(crt_buf, crt_pos, g)
      BY DEF Written
    <2> HIDE DEF b
    <2>3. Lines(b) = Overwritten(Lines(crt_buf), q, m, g)
      BY <2>1, <2>2, LinesWrite
    <2>4. QED
      BY <2>3 DEF Overwritten
  <1> HIDE DEF b
  <1>4. CASE m < CRT_COLS - 1
    <2> HIDE DEF q, m
    <2>1. m + 1 \in 0 .. CRT_COLS - 1 /\ crt_pos + 1 = q * CRT_COLS + (m + 1)
      BY <1>2, <1>4, Screens
    <2>2. Settle(b, q * CRT_COLS + (m + 1))
      BY <1>1, <2>1
    <2>3. /\ Lines(crt_buf)' = Lines(b)
          /\ (cursor \div CRT_COLS)' = q /\ (cursor % CRT_COLS)' = m + 1
      BY <1>1, <1>2, <2>1, <2>2, MoveTo
    <2>4. QED
      BY <1>3, <1>4, <2>3 DEF Screen!Type, q, m
  <1>5. CASE ~(m < CRT_COLS - 1)
    <2>1. crt_pos + 1 = (q + 1) * CRT_COLS
      <3> HIDE DEF q, m
      <3>1. (q + 1) * CRT_COLS = q * CRT_COLS + CRT_COLS
        BY <1>2, Screens
      <3>2. QED
        BY <1>2, <1>5, <3>1, Screens
    <2>2. Screen!NextLine(Lines(b))
      BY <1>1, <1>2, <2>1, MoveDown
    <2>3. QED
      BY <1>3, <1>5, <2>2 DEF Screen!Type
  <1>6. QED
    BY <1>4, <1>5

LEMMA BackspaceErases ==
  ASSUME TypeOK, PutBackspace
  PROVE  Screen!Erase
  <1> DEFINE q == cursor \div CRT_COLS
             m == cursor % CRT_COLS
  <1>1. /\ q \in 0 .. CRT_ROWS - 1 /\ m \in 0 .. CRT_COLS - 1
        /\ crt_pos = q * CRT_COLS + m /\ q * CRT_COLS \in Nat
        /\ crt_pos \in Cells /\ cursor = crt_pos
        /\ crt_buf \in [Cells -> Glyphs]
    BY Place DEF TypeOK
  <1>2. CASE crt_pos = 0
    <2>1. 0 * CRT_COLS + 0 = 0 /\ 0 \in 0 .. CRT_ROWS - 1 /\ 0 \in 0 .. CRT_COLS - 1
      BY Screens
    <2>2. q = 0 /\ m = 0
      BY <1>1, <1>2, <2>1, CellOf
    <2>3. Settle(crt_buf, 0 * CRT_COLS + 0)
      BY <1>2, <2>1 DEF PutBackspace
    <2>4. /\ Lines(crt_buf)' = Lines(crt_buf)
          /\ (cursor \div CRT_COLS)' = 0 /\ (cursor % CRT_COLS)' = 0
      BY <1>1, <2>1, <2>3, MoveTo
    <2>5. QED
      BY <2>2, <2>4 DEF Screen!Erase, Screen!vars
  <1>3. CASE crt_pos > 0
    <2> DEFINE q1 == IF m > 0 THEN q ELSE q - 1
               m1 == IF m > 0 THEN m - 1 ELSE CRT_COLS - 1
               b == [crt_buf EXCEPT ![crt_pos - 1] = Blank]
    <2> HIDE DEF q, m
    <2>1. ~(q = 0 /\ m = 0) /\ (m = 0 => q > 0)
      BY <1>1, <1>3, Screens
    <2>2. q1 \in 0 .. CRT_ROWS - 1 /\ m1 \in 0 .. CRT_COLS - 1
      BY <1>1, <2>1, Screens
    <2>3. crt_pos - 1 = q1 * CRT_COLS + m1
      <3>1. (q - 1) * CRT_COLS = q * CRT_COLS - CRT_COLS
        BY <1>1, Screens
      <3>2. QED
        BY <1>1, <3>1, Screens
    <2>4. b \in [Cells -> Glyphs]
      BY <1>1, ScreenAssumption
    <2>5. Settle(b, q1 * CRT_COLS + m1)
      BY <1>3, <2>3 DEF PutBackspace
    <2>6. /\ crt_pos - 1 \in Cells
          /\ (crt_pos - 1) \div CRT_COLS = q1 /\ (crt_pos - 1) % CRT_COLS = m1
      BY <2>2, <2>3, CellOf
    <2> HIDE DEF q1, m1
    <2>7. Lines(b) = [Lines(crt_buf) EXCEPT ![q1][m1] = Blank]
      <3>1. b = Written(crt_buf, crt_pos - 1, Blank) /\ Blank \in Glyphs
        BY ScreenAssumption DEF Written
      <3> HIDE DEF b
      <3>2. Lines(b) = Overwritten(Lines(crt_buf), q1, m1, Blank)
        BY <1>1, <2>6, <3>1, LinesWrite
      <3>3. QED
        BY <3>2 DEF Overwritten
    <2> HIDE DEF b
    <2>8. /\ Lines(crt_buf)' = Lines(b)
          /\ (cursor \div CRT_COLS)' = q1 /\ (cursor % CRT_COLS)' = m1
      BY <2>2, <2>4, <2>5, MoveTo
    <2>9. Lines(crt_buf)' = [Lines(crt_buf) EXCEPT ![q1][m1] = Blank]
      BY <2>7, <2>8
    <2>10. QED
      BY <2>1, <2>8, <2>9 DEF Screen!Erase, q1, m1, q, m
  <1>4. QED
    BY <1>1, <1>2, <1>3, Screens DEF Cells

(* A newline goes to the start of the line below, a return to that of its  *)
(* own.                                                                    *)
LEMMA LineStarts ==
  ASSUME NEW p \in Cells
  PROVE  /\ LineStart(p) = (p \div CRT_COLS) * CRT_COLS + 0
         /\ LineStart(p + CRT_COLS) = (p \div CRT_COLS + 1) * CRT_COLS
  <1> DEFINE q == p \div CRT_COLS
             m == p % CRT_COLS
  <1>1. /\ q \in 0 .. CRT_ROWS - 1 /\ m \in 0 .. CRT_COLS - 1
        /\ p = q * CRT_COLS + m /\ q * CRT_COLS \in Nat
    BY Place
  <1>2. LineStart(p) = q * CRT_COLS + 0
    BY <1>1 DEF LineStart
  <1> HIDE DEF q, m
  <1>3. (q + 1) * CRT_COLS = q * CRT_COLS + CRT_COLS
    BY <1>1, Screens
  <1>4. p + CRT_COLS = (q + 1) * CRT_COLS + m
    BY <1>1, <1>3, Screens
  <1>5. (p + CRT_COLS) % CRT_COLS = m
    BY <1>1, <1>4, Screens, Euclid
  <1>6. LineStart(p + CRT_COLS) = (q + 1) * CRT_COLS
    BY <1>1, <1>3, <1>4, <1>5, Screens DEF LineStart
  <1>7. QED
    BY <1>2, <1>6 DEF q

LEMMA TerminalStep ==
  ASSUME TypeOK, [Next]_vars
  PROVE  [Screen!Next]_(Screen!vars)
  <1>0. /\ crt_pos \in Cells /\ cursor = crt_pos /\ crt_buf \in [Cells -> Glyphs]
        /\ cursor \div CRT_COLS \in 0 .. CRT_ROWS - 1
    BY Place DEF TypeOK
  <1>1. ASSUME NEW g \in Glyphs, PutGlyph(g) PROVE Screen!Next
    BY <1>1, GlyphTypes DEF PutGlyph, Screen!Next
  <1>2. CASE PutBackspace
    BY <1>2, BackspaceErases DEF Screen!Next
  <1>3. CASE PutNewline
    <2>1. Settle(crt_buf, (cursor \div CRT_COLS + 1) * CRT_COLS)
      BY <1>0, <1>3, LineStarts DEF PutNewline
    <2>2. Screen!NextLine(Lines(crt_buf))
      BY <1>0, <2>1, MoveDown
    <2>3. QED
      BY <2>2 DEF Screen!Next, Screen!LineFeed
  <1>4. CASE PutReturn
    <2>1. Settle(crt_buf, (cursor \div CRT_COLS) * CRT_COLS + 0)
      BY <1>0, <1>4, LineStarts DEF PutReturn
    <2>2. /\ Lines(crt_buf)' = Lines(crt_buf)
          /\ (cursor \div CRT_COLS)' = cursor \div CRT_COLS
          /\ (cursor % CRT_COLS)' = 0
      <3>1. 0 \in 0 .. CRT_COLS - 1
        BY Screens
      <3>2. QED
        BY <1>0, <2>1, <3>1, MoveTo
    <2>3. QED
      BY <2>2 DEF Screen!Next, Screen!CarriageReturn
  <1>5. CASE PutTab
    BY <1>5 DEF PutTab, Screen!vars
  <1>6. CASE TabSpace
    BY <1>6, GlyphTypes, ScreenAssumption DEF TabSpace, Screen!Next
  <1>7. CASE UNCHANGED vars
    BY <1>7 DEF vars, Screen!vars
  <1>8. QED
    BY <1>1, <1>2, <1>3, <1>4, <1>5, <1>6, <1>7 DEF Next

(* For every screen size, the linear buffer with its position behaves as   *)
(* the terminal of rows and columns: every call of cga_putc is one of its  *)
(* steps, or changes nothing that is shown.                                *)
THEOREM ImplementsTerminal == Spec => RefinesTerminal
  <1>1. Init => TypeOK
    BY DEF Init, TypeOK, TabWidth
  <1>2. Init => Screen!Init
    BY LinesType, Place DEF Init, Screen!Init, Screen!RowIndex, Screen!ColIndex
  <1>3. TypeOK /\ [Next]_vars => [Screen!Next]_(Screen!vars)
    BY TerminalStep
  <1>4. QED
    BY <1>1, <1>2, <1>3, TypeStep, PTL DEF Spec, RefinesTerminal, Screen!Spec

-----------------------------------------------------------------------------
(* Formatted output: type correctness.                                     *)

(* Where the call is in the format, and that nothing waits to be put while *)
(* it reads.                                                               *)
ReadInv ==
  /\ fmt \in Formats
  /\ pc \in {"text", "spec", "digits"} => todo = <<>>
  /\ pc \in {"spec", "digits"} =>
       start < k /\ fmt[start + 1] = "%" /\ mark = Len(out)

(* The words and the arguments are integers of their ranges.               *)
LEMMA FmtWords ==
  /\ INT_MAX \in Nat /\ LLONG_MAX \in Nat /\ INT_MAX <= LLONG_MAX
  /\ UINT \in Nat \ {0} /\ ULLONG \in Nat \ {0} /\ UINT <= ULLONG
  /\ \A v \in Ints : v \in Int /\ v >= -(INT_MAX + 1) /\ v <= INT_MAX
  /\ \A v \in LongLongs : v \in Int /\ v >= -(LLONG_MAX + 1) /\ v <= LLONG_MAX
  BY WordsAssumption DEF UINT, ULLONG

(* A character that is not NUL is read from inside the format.             *)
LEMMA FmtRead ==
  ASSUME FmtTypeOK, ReadInv
  PROVE  /\ fmt \in Seq(Chars) /\ Len(fmt) \in Nat /\ k \in 0 .. Len(fmt)
         /\ ch # NUL => k < Len(fmt) /\ k + 1 \in 1 .. Len(fmt) /\ ch = fmt[k + 1] /\ ch \in Chars
         /\ k < Len(fmt) => ch # NUL
  <1>1. fmt \in Seq(Chars) /\ NUL \notin Chars
    BY TextAssumption DEF ReadInv
  <1>2. k \in 0 .. Len(fmt) /\ Len(fmt) \in Nat
    BY <1>1 DEF FmtTypeOK
  <1>3. CASE k < Len(fmt)
    <2>1. k + 1 \in 1 .. Len(fmt)
      BY <1>2, <1>3
    <2>2. fmt[k + 1] \in Chars
      BY <1>1, <2>1
    <2>3. QED
      BY <1>1, <1>2, <1>3, <2>1, <2>2 DEF ch
  <1>4. CASE ~(k < Len(fmt))
    BY <1>1, <1>2, <1>4 DEF ch
  <1>5. QED
    BY <1>3, <1>4

(* What a table of sixteen is to the provers.                              *)
LEMMA DigitTable ==
  ASSUME NEW d \in 1 .. 16
  PROVE  digits[d] \in Chars
  BY TextAssumption

(* A digit has one value.                                                  *)
LEMMA DigitOf ==
  ASSUME NEW d \in 1 .. 16
  PROVE  DigitValue(digits[d]) = d - 1
  <1>1. \A i \in 1 .. 16 : digits[i] = digits[d] => i = d
    BY DEF digits
  <1>2. (CHOOSE i \in 1 .. 16 : digits[i] = digits[d]) = d
    BY <1>1
  <1>3. QED
    BY <1>2 DEF DigitValue

LEMMA DigitRange ==
  ASSUME NEW c, IsDigit(c)
  PROVE  DigitValue(c) \in 0 .. 9
  BY DigitOf DEF IsDigit

LEMMA DigitIsChar ==
  ASSUME NEW c, IsDigit(c)
  PROVE  c \in Chars /\ c # NUL
  BY DigitTable, TextAssumption DEF IsDigit

(* The remainder of a number just below zero is counted from above.        *)
LEMMA Wrap ==
  ASSUME NEW m \in Nat \ {0}, NEW v \in Int, v >= -m, v < m
  PROVE  v % m = (IF v < 0 THEN v + m ELSE v) % m
         /\ v % m \in 0 .. m - 1
         /\ v % m = (IF v < 0 THEN (IF v = -m THEN 0 ELSE v + m) ELSE v)
  OBVIOUS

(* n copies of a character, none if n is not positive.                     *)
LEMMA PadType ==
  ASSUME NEW n \in Int, NEW c \in Chars
  PROVE  /\ Times(n, c) \in Seq(Chars)
         /\ Len(Times(n, c)) = IF n > 0 THEN n ELSE 0
         /\ \A j \in 1 .. Len(Times(n, c)) : Times(n, c)[j] = c
  <1>1. CASE n > 0
    BY <1>1 DEF Times
  <1>2. CASE n <= 0
    <2>1. Times(n, c) = <<>>
      BY <1>2 DEF Times
    <2>2. QED
      BY <1>2, <2>1
  <1>3. QED
    BY <1>1, <1>2

(* How an action may go on: it reads on in the escape, it converts, or it  *)
(* puts.                                                                   *)
ReadsOn == Flag \/ Digit \/ DigitsDone \/ Dot \/ Sharp \/ Long \/ \E v \in Widths : Star(v)
Converts == Char \/ Error \/ String \/ Signed \/ Unsigned \/ Pointer \/ Escaped

LEMMA ReadsOnKind ==
  ASSUME FmtTypeOK, ReadInv, ReadsOn
  PROVE  /\ pc \in {"spec", "digits"} /\ pc' \in {"spec", "digits"}
         /\ k' = k \/ (k' = k + 1 /\ ch # NUL)
         /\ UNCHANGED <<fmt, number, todo, sink, start, mark>>
         /\ padc' \in {Space, "-", "0"} /\ width' \in Int /\ precision' \in Int
         /\ lflag' \in Nat /\ altflag' \in BOOLEAN
  <1> USE DEF FmtTypeOK, Case, number, sink, escape, history
  <1>1. CASE Flag
    BY <1>1 DEF Flag, NUL
  <1>2. CASE Digit
    <2>1. IsDigit(ch)
      BY <1>2 DEF Digit
    <2>2. DigitValue(ch) \in 0 .. 9 /\ ch # NUL
      BY <2>1, DigitRange, DigitIsChar
    <2>3. precision' \in Int
      <3>1. precision' = DigitValue(ch) \/ precision' = precision * 10 + DigitValue(ch)
        BY <1>2, Zenon DEF Digit
      <3>2. precision \in Int
        OBVIOUS
      <3> HIDE DEF FmtTypeOK, Case, number, sink, escape, history
      <3>3. QED
        BY <2>2, <3>1, <3>2
    <2>4. /\ pc \in {"spec", "digits"} /\ pc' = "digits" /\ k' = k + 1
          /\ UNCHANGED <<fmt, padc, width, lflag, altflag, number, todo, sink, start, mark>>
      BY <1>2 DEF Digit
    <2>5. QED
      BY <2>2, <2>3, <2>4
  <1>3. CASE DigitsDone
    BY <1>3 DEF DigitsDone, ProcessPrecision
  <1>4. CASE Dot
    BY <1>4 DEF Dot, NUL
  <1>5. CASE Sharp
    BY <1>5 DEF Sharp, NUL
  <1>6. CASE Long
    BY <1>6 DEF Long, NUL
  <1>7. ASSUME NEW v \in Widths, Star(v)
        PROVE  /\ pc \in {"spec", "digits"} /\ pc' \in {"spec", "digits"}
               /\ k' = k + 1 /\ ch # NUL
               /\ UNCHANGED <<fmt, number, todo, sink, start, mark>>
               /\ padc' \in {Space, "-", "0"} /\ width' \in Int /\ precision' \in Int
               /\ lflag' \in Nat /\ altflag' \in BOOLEAN
    BY <1>7, WordsAssumption DEF Star, ProcessPrecision, NUL
  <1>8. QED
    BY <1>1, <1>2, <1>3, <1>4, <1>5, <1>6, <1>7 DEF ReadsOn

(* Two texts and three, one behind the other.                              *)
LEMMA Join2 ==
  ASSUME NEW S, NEW a \in Seq(S), NEW b \in Seq(S)
  PROVE  /\ a \o b \in Seq(S)
         /\ Len(a \o b) = Len(a) + Len(b)
         /\ \A j \in 1 .. Len(a) : (a \o b)[j] = a[j]
         /\ \A j \in 1 .. Len(b) : (a \o b)[Len(a) + j] = b[j]
  OBVIOUS

LEMMA Join ==
  ASSUME NEW S, NEW a \in Seq(S), NEW b \in Seq(S), NEW c \in Seq(S)
  PROVE  /\ a \o b \o c \in Seq(S)
         /\ Len(a \o b \o c) = Len(a) + Len(b) + Len(c)
         /\ \A j \in 1 .. Len(a) : (a \o b \o c)[j] = a[j]
         /\ \A j \in 1 .. Len(b) : (a \o b \o c)[Len(a) + j] = b[j]
         /\ \A j \in 1 .. Len(c) : (a \o b \o c)[Len(a) + Len(b) + j] = c[j]
  <1> DEFINE ab == a \o b
  <1>1. ab \in Seq(S) /\ Len(ab) = Len(a) + Len(b)
    BY Join2
  <1>2. /\ \A j \in 1 .. Len(a) : ab[j] = a[j]
        /\ \A j \in 1 .. Len(b) : ab[Len(a) + j] = b[j]
    BY Join2
  <1>3. Len(a) \in Nat /\ Len(b) \in Nat /\ Len(c) \in Nat
    OBVIOUS
  <1> HIDE DEF ab
  <1>4. ab \o c \in Seq(S) /\ Len(ab \o c) = Len(ab) + Len(c)
    BY <1>1, Join2
  <1>5. /\ \A j \in 1 .. Len(ab) : (ab \o c)[j] = ab[j]
        /\ \A j \in 1 .. Len(c) : (ab \o c)[Len(ab) + j] = c[j]
    BY <1>1, Join2
  <1>6. /\ \A j \in 1 .. Len(a) : (ab \o c)[j] = a[j]
        /\ \A j \in 1 .. Len(b) : (ab \o c)[Len(a) + j] = b[j]
    BY <1>1, <1>2, <1>3, <1>5
  <1>7. QED
    BY <1>1, <1>4, <1>5, <1>6 DEF ab

(* What a string argument v puts: n of its characters, between padding.    *)
Argument(v) == IF v = Null THEN <<"(", "n", ")">> ELSE v
Shown(v) == IF precision < 0 \/ precision > Len(Argument(v)) THEN Len(Argument(v)) ELSE precision
Before(v) == IF width > 0 /\ padc # "-" THEN width - Shown(v) ELSE 0
After(v) == IF width > 0 /\ padc # "-" THEN 0 ELSE width - Shown(v)
Visible(c) == IF altflag /\ c \in Unprintable THEN "?" ELSE c

LEMMA ArgumentType ==
  ASSUME FmtTypeOK, NEW v \in Strings
  PROVE  /\ Argument(v) \in Seq(Chars)
         /\ Shown(v) \in 0 .. Len(Argument(v))
         /\ Before(v) \in Int /\ After(v) \in Int
  <1>1. Argument(v) \in Seq(Chars)
    BY TextAssumption DEF Argument
  <1>2. Len(Argument(v)) \in Nat
    BY <1>1
  <1>3. precision \in Int /\ width \in Int
    BY DEF FmtTypeOK
  <1>4. Shown(v) \in 0 .. Len(Argument(v))
    BY <1>2, <1>3 DEF Shown
  <1>5. QED
    BY <1>1, <1>2, <1>3, <1>4 DEF Before, After

(* The text of a string argument, by length and by place.                  *)
LEMMA StringTextIs ==
  ASSUME FmtTypeOK, NEW v \in Strings
  PROVE  /\ StringText(v) \in Seq(Chars)
         /\ Len(StringText(v)) = (IF Before(v) > 0 THEN Before(v) ELSE 0) + Shown(v)
                                   + (IF After(v) > 0 THEN After(v) ELSE 0)
         /\ \A j \in 1 .. Len(StringText(v)) :
              LET b == IF Before(v) > 0 THEN Before(v) ELSE 0
              IN StringText(v)[j] = IF j <= b THEN padc
                                    ELSE IF j <= b + Shown(v) THEN Visible(Argument(v)[j - b])
                                    ELSE Space
  <1> DEFINE a == Times(Before(v), padc)
             m == [j \in 1 .. Shown(v) |-> Visible(Argument(v)[j])]
             z == Times(After(v), Space)
  <1>1. StringText(v) = a \o m \o z
    BY DEF StringText, Argument, Shown, Before, After, Visible
  <1>2. /\ Argument(v) \in Seq(Chars)
        /\ Shown(v) \in 0 .. Len(Argument(v))
        /\ Before(v) \in Int /\ After(v) \in Int
    BY ArgumentType
  <1>3. padc \in Chars /\ Space \in Chars
    <2>1. {Space, "-"} \subseteq Chars
      BY TextAssumption DEF Known
    <2>2. digits[1] \in Chars
      BY DigitTable
    <2>3. QED
      BY <2>1, <2>2 DEF FmtTypeOK, digits
  <1>4. /\ a \in Seq(Chars) /\ Len(a) = (IF Before(v) > 0 THEN Before(v) ELSE 0)
        /\ \A j \in 1 .. Len(a) : a[j] = padc
    BY <1>2, <1>3, PadType
  <1>5. /\ z \in Seq(Chars) /\ Len(z) = (IF After(v) > 0 THEN After(v) ELSE 0)
        /\ \A j \in 1 .. Len(z) : z[j] = Space
    BY <1>2, <1>3, PadType
  <1>6. /\ m \in Seq(Chars) /\ Len(m) = Shown(v)
        /\ \A j \in 1 .. Len(m) : m[j] = Visible(Argument(v)[j])
    <2>1. \A j \in 1 .. Shown(v) : Argument(v)[j] \in Chars
      BY <1>2
    <2>2. "?" \in Chars
      BY TextAssumption DEF Known
    <2>3. \A j \in 1 .. Shown(v) : Visible(Argument(v)[j]) \in Chars
      BY <2>1, <2>2 DEF Visible
    <2>4. QED
      BY <1>2, <2>3
  <1> HIDE DEF a, m, z
  <1>7. /\ a \o m \o z \in Seq(Chars)
        /\ Len(a \o m \o z) = Len(a) + Len(m) + Len(z)
        /\ \A j \in 1 .. Len(a) : (a \o m \o z)[j] = a[j]
        /\ \A j \in 1 .. Len(m) : (a \o m \o z)[Len(a) + j] = m[j]
        /\ \A j \in 1 .. Len(z) : (a \o m \o z)[Len(a) + Len(m) + j] = z[j]
    <2>1. a \in Seq(Chars) /\ m \in Seq(Chars) /\ z \in Seq(Chars)
      BY <1>4, <1>5, <1>6
    <2>2. a \o m \o z \in Seq(Chars) /\ Len(a \o m \o z) = Len(a) + Len(m) + Len(z)
      BY <2>1, Join
    <2>3. \A j \in 1 .. Len(a) : (a \o m \o z)[j] = a[j]
      BY <2>1, Join
    <2>4. \A j \in 1 .. Len(m) : (a \o m \o z)[Len(a) + j] = m[j]
      BY <2>1, Join
    <2>5. \A j \in 1 .. Len(z) : (a \o m \o z)[Len(a) + Len(m) + j] = z[j]
      BY <2>1, Join
    <2>6. QED
      BY <2>2, <2>3, <2>4, <2>5
  <1>8. Len(a) \in Nat /\ Len(m) \in Nat /\ Len(z) \in Nat
    BY <1>4, <1>5, <1>6
  <1>9. ASSUME NEW j \in 1 .. Len(a \o m \o z)
        PROVE  (a \o m \o z)[j] = IF j <= Len(a) THEN padc
                                  ELSE IF j <= Len(a) + Len(m) THEN Visible(Argument(v)[j - Len(a)])
                                  ELSE Space
    <2>1. CASE j <= Len(a)
      BY <1>4, <1>7, <1>8, <2>1
    <2>2. CASE j > Len(a) /\ j <= Len(a) + Len(m)
      <3>1. j - Len(a) \in 1 .. Len(m) /\ j = Len(a) + (j - Len(a))
        BY <1>8, <2>2
      <3>2. QED
        BY <1>6, <1>7, <1>8, <2>2, <3>1
    <2>3. CASE j > Len(a) + Len(m)
      <3>1. j - Len(a) - Len(m) \in 1 .. Len(z) /\ j = Len(a) + Len(m) + (j - Len(a) - Len(m))
        BY <1>7, <1>8, <2>3
      <3>2. QED
        BY <1>5, <1>7, <1>8, <2>3, <3>1
    <2>4. QED
      BY <1>8, <2>1, <2>2, <2>3
  <1>10. QED
    BY <1>1, <1>4, <1>5, <1>6, <1>7, <1>9

LEMMA Modulo ==
  ASSUME NEW v \in Int, NEW m \in Nat \ {0}
  PROVE  v % m \in Nat /\ v % m < m
  OBVIOUS

(* What is printed is a natural number, whatever the argument.             *)
LEMMA ValueTypes ==
  ASSUME NEW v \in Int
  PROVE  SignedValue(v) \in Nat /\ getuint(v) \in Nat /\ PointerValue(v) \in Nat
  <1>1. UINT \in Nat \ {0} /\ ULLONG \in Nat \ {0}
    BY FmtWords
  <1>2. v % UINT \in Nat /\ v % ULLONG \in Nat
    BY <1>1, Modulo
  <1>3. (ULLONG - (v % ULLONG)) % ULLONG \in Nat
    <2>1. ULLONG - (v % ULLONG) \in Int
      BY <1>1, <1>2
    <2>2. QED
      BY <1>1, <2>1, Modulo
  <1>4. getint(v) = v % ULLONG
    BY DEF getint
  <1>5. Magnitude(getint(v)) = (ULLONG - (v % ULLONG)) % ULLONG
    BY <1>4, Zenon DEF Magnitude
  <1>6. getint(v) \in Nat /\ Magnitude(getint(v)) \in Nat
    BY <1>2, <1>3, <1>4, <1>5, Zenon
  <1>7. SignedValue(v) \in Nat
    BY <1>6 DEF SignedValue
  <1>8. getuint(v) \in Nat /\ PointerValue(v) \in Nat
    BY <1>2 DEF getuint, PointerValue
  <1>9. QED
    BY <1>7, <1>8

LEMMA Symbols ==
  ASSUME NEW c \in Known \union {Space, "?", "(", "n", ")", "error", "0"}
  PROVE  c \in Chars /\ <<c>> \in Seq(Chars)
  <1>1. digits[1] = "0"
    BY DEF digits
  <1>2. c \in Chars
    BY <1>1, TextAssumption, DigitTable
  <1>3. QED
    BY <1>2

(* What a number conversion leaves alone, and what it may leave behind.    *)
LEMMA ConvertNumberKind ==
  ASSUME FmtTypeOK, ReadInv,
         Signed \/ Unsigned \/ Pointer
  PROVE  /\ pc = "spec" /\ ch \in {"d", "u", "o", "x", "p"} /\ k' = k + 1 /\ pc' = "number"
         /\ UNCHANGED <<fmt, escape, todo, sink, start, mark>>
         /\ num' \in Nat /\ base' \in {8, 10, 16} /\ sign' \in Seq(Chars)
  <1>1. Numbers \subseteq Int /\ Ints \subseteq Int
    BY FmtWords DEF Numbers
  <1>2. <<>> \in Seq(Chars) /\ <<"-">> \in Seq(Chars) /\ <<"0", "x">> \in Seq(Chars)
    <2>1. "0" \in Chars /\ "x" \in Chars /\ "-" \in Chars
      BY Symbols DEF Known
    <2>2. QED
      BY <2>1
  <1>3. CASE Signed
    BY <1>1, <1>2, <1>3, ValueTypes DEF Signed, ConvertNumber, Case, Minus
  <1>4. CASE Unsigned
    BY <1>1, <1>2, <1>4, ValueTypes DEF Unsigned, ConvertNumber, Case, Nothing
  <1>5. CASE Pointer
    BY <1>1, <1>2, <1>5, ValueTypes DEF Pointer, ConvertNumber, Case, Hex
  <1>6. QED
    BY <1>3, <1>4, <1>5

(* The same for the error conversion, and for the texts.                   *)
LEMMA ErrorKind ==
  ASSUME FmtTypeOK, ReadInv, Error
  PROVE  /\ pc = "spec" /\ ch = "e" /\ k' = k + 1 /\ pc' \in {"number", "put"}
         /\ UNCHANGED <<fmt, precision, lflag, altflag, sink, start, mark>>
         /\ padc' \in {padc, Space} /\ width' \in {width, -1}
         /\ num' \in Nat /\ base' \in {8, 10, 16} /\ sign' \in Seq(Chars)
         /\ todo' \in Seq(Chars)
  <1>1. PICK v \in Ints \ {-(INT_MAX + 1)} :
          LET err == IF v < 0 THEN -v ELSE v
          IN IF err >= MAXERROR \/ error_string[err] = Null
               THEN /\ num' = err /\ base' = 10 /\ sign' = <<"error">>
                    /\ width' = -1 /\ padc' = Space
                    /\ pc' = "number"
                    /\ UNCHANGED todo
               ELSE /\ todo' = error_string[err]
                    /\ pc' = "put"
                    /\ UNCHANGED <<number, width, padc>>
    BY DEF Error
  <1> DEFINE err == IF v < 0 THEN -v ELSE v
  <1>2. err \in Nat
    BY FmtWords
  <1>3. todo \in Seq(Chars) /\ num \in Nat /\ base \in {8, 10, 16} /\ sign \in Seq(Chars)
    BY DEF FmtTypeOK
  <1>4. /\ pc = "spec" /\ ch = "e" /\ k' = k + 1
        /\ UNCHANGED <<fmt, precision, lflag, altflag, sink, start, mark>>
    BY DEF Error, Case
  <1>5. CASE err >= MAXERROR \/ error_string[err] = Null
    BY <1>1, <1>2, <1>3, <1>4, <1>5, Symbols
  <1>6. CASE ~(err >= MAXERROR \/ error_string[err] = Null)
    <2>1. MAXERROR \in Nat
      BY WordsAssumption
    <2>2. err \in 0 .. MAXERROR - 1
      BY <1>2, <1>6, <2>1
    <2>3. error_string[err] \in Seq(Chars)
      BY <1>6, <2>2, TextAssumption
    <2>4. QED
      BY <1>1, <1>3, <1>4, <1>6, <2>3 DEF number
  <1>7. QED
    BY <1>5, <1>6

LEMMA ConvertTextKind ==
  ASSUME FmtTypeOK, ReadInv, Char \/ String \/ Escaped
  PROVE  /\ pc = "spec" /\ ch \in {"c", "s", "%"} /\ k' = k + 1 /\ pc' = "put"
         /\ UNCHANGED <<fmt, escape, number, sink, start, mark>>
         /\ todo' \in Seq(Chars)
  <1>1. CASE Char
    <2>1. PICK v \in Initials : todo' = <<v>>
      BY <1>1 DEF Char, Convert, One
    <2>2. v \in Chars
      <3>1. PICK s \in Strings : s # Null /\ s # <<>> /\ v = s[1]
        BY DEF Initials
      <3>2. s \in Seq(Chars)
        BY <3>1, TextAssumption
      <3>3. QED
        BY <3>1, <3>2
    <2>3. QED
      BY <1>1, <2>1, <2>2 DEF Char, Convert, Case
  <1>2. CASE String
    <2>1. PICK v \in Strings : todo' = StringText(v)
      BY <1>2 DEF String, Convert
    <2>2. StringText(v) \in Seq(Chars)
      BY StringTextIs
    <2>3. QED
      BY <1>2, <2>1, <2>2 DEF String, Convert, Case
  <1>3. CASE Escaped
    BY <1>3, Symbols DEF Escaped, Case, history, Known
  <1>4. QED
    BY <1>1, <1>2, <1>3

LEMMA ConvertsKind ==
  ASSUME FmtTypeOK, ReadInv, Converts
  PROVE  /\ pc = "spec" /\ ch \in {"c", "e", "s", "d", "u", "o", "p", "x", "%"}
         /\ k' = k + 1 /\ pc' \in {"number", "put"}
         /\ UNCHANGED <<fmt, precision, lflag, altflag, sink, start, mark>>
         /\ padc' \in {padc, Space} /\ width' \in {width, -1}
         /\ num' \in Nat /\ base' \in {8, 10, 16} /\ sign' \in Seq(Chars)
         /\ todo' \in Seq(Chars)
  <1>1. /\ num \in Nat /\ base \in {8, 10, 16} /\ sign \in Seq(Chars)
        /\ todo \in Seq(Chars)
    BY DEF FmtTypeOK
  <1>2. CASE Signed \/ Unsigned \/ Pointer
    BY <1>1, <1>2, ConvertNumberKind DEF escape
  <1>3. CASE Error
    BY <1>3, ErrorKind
  <1>4. CASE Char \/ String \/ Escaped
    BY <1>1, <1>4, ConvertTextKind DEF escape, number
  <1>5. QED
    BY <1>2, <1>3, <1>4 DEF Converts

LEMMA DigitChar ==
  ASSUME FmtTypeOK
  PROVE  digits[(num % base) + 1] \in Chars /\ (num % base) + 1 \in 1 .. base
  <1>1. num \in Nat /\ base \in Nat \ {0} /\ base <= 16
    BY DEF FmtTypeOK
  <1>2. num % base \in 0 .. base - 1
    BY <1>1, DivMod
  <1>3. (num % base) + 1 \in 1 .. base /\ (num % base) + 1 \in 1 .. 16
    BY <1>1, <1>2
  <1>4. QED
    BY <1>3, DigitTable

LEMMA PadCharacter == ASSUME FmtTypeOK PROVE padc \in Chars
  BY Symbols DEF FmtTypeOK, Known

(* And for the two calls of printnum.                                      *)
LEMMA PrintnumKind ==
  ASSUME FmtTypeOK, ReadInv, PrintnumCalls \/ PrintnumPads
  PROVE  /\ pc = "number" /\ pc' \in {"number", "put"}
         /\ UNCHANGED <<fmt, k, padc, precision, lflag, altflag, base, sign, sink, history>>
         /\ width' \in Int /\ num' \in Nat
         /\ todo' \in Seq(Chars)
  <1>1. /\ num \in Nat /\ base \in Nat \ {0} /\ width \in Int
        /\ sign \in Seq(Chars) /\ todo \in Seq(Chars)
    BY DEF FmtTypeOK
  <1> DEFINE d == digits[(num % base) + 1]
  <1>2. <<d>> \in Seq(Chars)
    BY DigitChar
  <1> HIDE DEF d
  <1>3. CASE PrintnumCalls
    <2>1. todo' = <<d>> \o todo
      BY <1>3 DEF PrintnumCalls, d
    <2>2. todo' \in Seq(Chars)
      BY <1>1, <1>2, <2>1, Join2
    <2>3. num \div base \in Nat
      BY <1>1, DivMod
    <2>4. QED
      BY <1>1, <1>3, <2>2, <2>3 DEF PrintnumCalls
  <1>4. CASE PrintnumPads
    <2> DEFINE pad == Times(width - 1, padc)
    <2>1. todo' = sign \o pad \o <<d>> \o todo
      BY <1>4 DEF PrintnumPads, d
    <2>2. pad \in Seq(Chars)
      BY <1>1, PadCharacter, PadType
    <2> HIDE DEF pad
    <2>3. sign \o pad \o <<d>> \in Seq(Chars)
      BY <1>1, <1>2, <2>2, Join
    <2>4. todo' \in Seq(Chars)
      BY <1>1, <2>1, <2>3, Join2
    <2>5. QED
      BY <1>1, <1>4, <2>4 DEF PrintnumPads, escape, number
  <1>5. QED
    BY <1>3, <1>4

(* A store inside the buffer leaves its extent and its other places alone. *)
LEMMA StoredInside ==
  ASSUME NEW j \in DOMAIN buf, NEW c
  PROVE  /\ DOMAIN Stored(j, c) = DOMAIN buf /\ Stored(j, c)[j] = c
         /\ \A p \in DOMAIN buf : p # j => Stored(j, c)[p] = buf[p]
  BY DEF Stored

(* One character put: appended to what was put, and stored if there is     *)
(* room, which leaves one place for the NUL.                               *)
LEMMA PutchType ==
  ASSUME FmtTypeOK, NEW c \in Chars, putch(c), pc # "return"
  PROVE  /\ out' = Append(out, c) /\ out' \in Seq(Chars) /\ Len(out') = Len(out) + 1
         /\ Len(out) \in Nat
         /\ DOMAIN buf' = DOMAIN buf /\ cnt' \in 0 .. Len(out')
         /\ dest # Console => b_buf' \in DOMAIN buf'
         /\ UNCHANGED <<dest, result>>
  <1>1. out \in Seq(Chars) /\ Len(out) \in Nat /\ cnt \in 0 .. Len(out)
    BY DEF FmtTypeOK
  <1>2. /\ out' = Append(out, c) /\ out' \in Seq(Chars) /\ Len(out') = Len(out) + 1
    BY <1>1 DEF putch
  <1>3. DOMAIN buf' = DOMAIN buf /\ (dest # Console => b_buf' \in DOMAIN buf')
    <2>1. dest # Console => b_buf \in DOMAIN buf
      BY DEF FmtTypeOK
    <2>2. CASE Room
      <3>1. /\ dest # Console /\ b_buf < dest - 1
            /\ buf' = Stored(b_buf, c) /\ b_buf' = b_buf + 1
        BY <2>2 DEF Room, putch
      <3>2. DOMAIN buf' = DOMAIN buf
        BY <2>1, <3>1, StoredInside
      <3>3. dest \in Nat /\ DOMAIN buf = 0 .. dest - 1
        BY <3>1, WordsAssumption DEF FmtTypeOK
      <3>4. b_buf + 1 \in 0 .. dest - 1
        BY <2>1, <3>1, <3>3
      <3>5. QED
        BY <3>1, <3>2, <3>3, <3>4
    <2>3. CASE ~Room
      BY <2>1, <2>3 DEF putch
    <2>4. QED
      BY <2>2, <2>3
  <1>4. cnt' \in 0 .. Len(out')
    BY <1>1, <1>2 DEF putch, Counted
  <1>5. QED
    BY <1>1, <1>2, <1>3, <1>4 DEF putch

(* A call begins at the beginning of its format.                           *)
LEMMA FmtInitOK == FmtInit => FmtTypeOK /\ ReadInv
  <1> SUFFICES ASSUME FmtInit PROVE FmtTypeOK /\ ReadInv
    OBVIOUS
  <1>1. fmt \in Seq(Chars) /\ Len(fmt) \in Nat
    BY TextAssumption DEF FmtInit
  <1>2. Len(<<>>) = 0 /\ <<>> \in Seq(Chars)
    OBVIOUS
  <1>3. ReadInv
    BY DEF FmtInit, ReadInv
  <1>4. DOMAIN buf = 0 .. (IF dest = Console THEN 0 ELSE dest) - 1
    BY DEF FmtInit
  <1>4a. pc # "return" /\ dest # Console => b_buf \in DOMAIN buf
    <2>1. SUFFICES ASSUME pc # "return", dest # Console PROVE 0 \in 0 .. dest - 1
      BY <1>4 DEF FmtInit
    <2>2. dest \in Nat /\ ~(dest < 1)
      BY <2>1, WordsAssumption DEF FmtInit
    <2>3. QED
      BY <2>2
  <1>5. /\ padc \in {Space, "-", "0"} /\ width \in Int /\ precision \in Int
        /\ lflag \in Nat
        /\ num \in Nat /\ base \in {8, 10, 16}
        /\ pc \in {"text", "spec", "digits", "number", "put", "return"}
    <2>1. /\ padc = Space /\ width = -1 /\ precision = -1 /\ lflag = 0 /\ num = 0 /\ base = 10
          /\ pc \in {"text", "return"}
      BY DEF FmtInit
    <2>2. QED
      BY <2>1
  <1>6. altflag \in BOOLEAN
    BY Zenon DEF FmtInit
  <1>7. /\ sign \in Seq(Chars) /\ todo \in Seq(Chars) /\ out \in Seq(Chars)
        /\ k \in 0 .. Len(fmt) /\ cnt \in 0 .. Len(out)
        /\ mark \in 0 .. Len(out) /\ start \in 0 .. Len(fmt)
        /\ dest \in {Console} \union Sizes
    BY <1>1, <1>2 DEF FmtInit
  <1>8. QED
    BY <1>3, <1>4, <1>4a, <1>5, <1>6, <1>7, Zenon DEF FmtTypeOK

(* Every step keeps the types and the place in the format.                 *)
LEMMA FmtNextOK ==
  ASSUME FmtTypeOK, ReadInv, [FmtNext]_fmtvars
  PROVE  FmtTypeOK' /\ ReadInv'
  <1> USE FmtRead
  <1>1. /\ out \in Seq(Chars) /\ Len(out) \in Nat /\ fmt \in Formats
        /\ start \in 0 .. Len(fmt) /\ mark \in 0 .. Len(out) /\ k \in 0 .. Len(fmt)
    BY DEF FmtTypeOK, ReadInv
  <1>2. CASE Literal
    <2>1. ch \in Chars /\ putch(ch) /\ k' = k + 1 /\ k < Len(fmt) /\ pc = "text"
      BY <1>2 DEF Literal
    <2>2. /\ out' \in Seq(Chars) /\ Len(out') = Len(out) + 1
          /\ DOMAIN buf' = DOMAIN buf /\ cnt' \in 0 .. Len(out')
          /\ dest # Console => b_buf' \in DOMAIN buf'
          /\ UNCHANGED <<dest, result>>
      BY <2>1, PutchType
    <2>3. UNCHANGED <<fmt, pc, escape, number, todo, history>>
      BY <1>2 DEF Literal
    <2>4. FmtTypeOK'
      BY <1>1, <2>1, <2>2, <2>3 DEF FmtTypeOK, escape, number, history
    <2>5. QED
      BY <2>1, <2>3, <2>4 DEF ReadInv
  <1>3. CASE Percent
    <2>1. k < Len(fmt) /\ fmt[k + 1] = "%" /\ pc = "text"
      BY <1>3 DEF Percent, NUL
    <2>2. /\ padc' = Space /\ width' = -1 /\ precision' = -1 /\ lflag' = 0 /\ altflag' = FALSE
          /\ pc' = "spec" /\ k' = k + 1 /\ start' = k /\ mark' = Len(out)
          /\ UNCHANGED <<fmt, number, todo, sink>>
      BY <1>3 DEF Percent
    <2>3. k' \in 0 .. Len(fmt') /\ start' \in 0 .. Len(fmt') /\ mark' \in 0 .. Len(out')
      BY <1>1, <2>1, <2>2 DEF sink
    <2>4. altflag' \in BOOLEAN
      BY <2>2, Zenon
    <2>5. padc' \in {Space, "-", "0"} /\ width' \in Int /\ precision' \in Int /\ lflag' \in Nat
          /\ pc' \in {"text", "spec", "digits", "number", "put", "return"}
      BY <2>2
    <2>5a. dest' # Console => b_buf' \in DOMAIN buf'
      BY <2>1, <2>2 DEF FmtTypeOK, sink
    <2>6. FmtTypeOK'
      BY <2>2, <2>3, <2>4, <2>5, <2>5a, Zenon DEF FmtTypeOK, number, sink
    <2>7. QED
      BY <1>1, <1>3, <2>1, <2>6 DEF Percent, ReadInv, sink
  <1>4. CASE EndOfFormat
    <2>1. DOMAIN buf' = DOMAIN buf
      <3>1. dest # Console => b_buf \in DOMAIN buf
        BY <1>4 DEF EndOfFormat, FmtTypeOK
      <3>2. QED
        BY <1>4, <3>1, StoredInside DEF EndOfFormat
    <2>2. FmtTypeOK'
      BY <1>1, <1>4, <2>1 DEF EndOfFormat, FmtTypeOK, escape, number, history
    <2>3. QED
      BY <1>4, <2>2 DEF EndOfFormat, ReadInv
  <1>5. CASE ReadsOn
    <2>1. /\ pc \in {"spec", "digits"} /\ pc' \in {"spec", "digits"}
          /\ k' = k \/ (k' = k + 1 /\ ch # NUL)
          /\ UNCHANGED <<fmt, number, todo, sink, start, mark>>
          /\ padc' \in {Space, "-", "0"} /\ width' \in Int /\ precision' \in Int
          /\ lflag' \in Nat /\ altflag' \in BOOLEAN
      BY <1>5, ReadsOnKind
    <2>2. k' \in 0 .. Len(fmt) /\ start < k'
      BY <1>1, <2>1 DEF ReadInv
    <2>3. FmtTypeOK'
      BY <1>1, <2>1, <2>2 DEF FmtTypeOK, number, sink
    <2>4. QED
      BY <1>1, <2>1, <2>2, <2>3 DEF ReadInv, sink
  <1>6. CASE Converts
    <2>1. /\ pc = "spec" /\ ch # NUL
          /\ k' = k + 1 /\ pc' \in {"number", "put"}
          /\ UNCHANGED <<fmt, precision, lflag, altflag, sink, start, mark>>
          /\ padc' \in {padc, Space} /\ width' \in {width, -1}
          /\ num' \in Nat /\ base' \in {8, 10, 16} /\ sign' \in Seq(Chars)
          /\ todo' \in Seq(Chars)
      BY <1>6, ConvertsKind DEF NUL
    <2>2. k' \in 0 .. Len(fmt)
      BY <1>1, <2>1
    <2>3. FmtTypeOK'
      <3>1. padc' \in {Space, "-", "0"} /\ width' \in Int
        BY <2>1 DEF FmtTypeOK
      <3>2. /\ UNCHANGED <<fmt, precision, lflag, altflag, out, dest, buf, b_buf, cnt, mark, start>>
            /\ pc # "return"
            /\ pc' \in {"number", "put"}
            /\ num' \in Nat /\ base' \in {8, 10, 16} /\ sign' \in Seq(Chars)
            /\ todo' \in Seq(Chars)
        BY <2>1 DEF sink
      <3>3. QED
        BY <2>2, <3>1, <3>2 DEF FmtTypeOK
    <2>4. QED
      BY <1>1, <2>1, <2>3 DEF ReadInv
  <1>7. CASE PrintnumCalls \/ PrintnumPads
    <2>1. /\ pc' \in {"number", "put"}
          /\ UNCHANGED <<fmt, k, padc, precision, lflag, altflag, base, sign, sink, history>>
          /\ width' \in Int /\ num' \in Nat
          /\ todo' \in Seq(Chars)
      BY <1>7, PrintnumKind
    <2>2. pc # "return"
      BY <1>7 DEF PrintnumCalls, PrintnumPads
    <2>3. FmtTypeOK'
      BY <2>1, <2>2 DEF FmtTypeOK, sink, history
    <2>4. QED
      BY <1>1, <2>1, <2>3 DEF ReadInv
  <1>8. CASE Unknown
    <2>1. /\ pc = "spec" /\ k' = start + 1 /\ todo' = <<"%">> /\ pc' = "put"
          /\ UNCHANGED <<fmt, escape, number, sink, history>>
      BY <1>8 DEF Unknown
    <2>2. k' \in 0 .. Len(fmt)
      BY <1>1, <2>1 DEF ReadInv
    <2>3. todo' \in Seq(Chars)
      BY <2>1, Symbols DEF Known
    <2>4. FmtTypeOK'
      BY <2>1, <2>2, <2>3 DEF FmtTypeOK, escape, number, sink, history
    <2>5. QED
      BY <1>1, <2>1, <2>4 DEF ReadInv
  <1>9. CASE Put
    <2>1. pc = "put" /\ UNCHANGED <<fmt, k, escape, number, history>>
      BY <1>9 DEF Put
    <2>2. CASE todo = <<>>
      <3>1. pc' = "text" /\ UNCHANGED <<todo, sink>>
        BY <1>9, <2>2 DEF Put
      <3>2. FmtTypeOK'
        BY <2>1, <3>1 DEF FmtTypeOK, escape, number, sink, history
      <3>3. QED
        BY <1>1, <2>1, <2>2, <3>1, <3>2 DEF ReadInv
    <2>3. CASE todo # <<>>
      <3>1. putch(Head(todo)) /\ todo' = Tail(todo) /\ pc' = pc
        BY <1>9, <2>3 DEF Put
      <3>2. todo \in Seq(Chars)
        BY DEF FmtTypeOK
      <3>3. Head(todo) \in Chars /\ todo' \in Seq(Chars)
        BY <2>3, <3>1, <3>2
      <3>4. /\ out' \in Seq(Chars) /\ Len(out') = Len(out) + 1
            /\ DOMAIN buf' = DOMAIN buf /\ cnt' \in 0 .. Len(out')
            /\ dest # Console => b_buf' \in DOMAIN buf'
            /\ UNCHANGED <<dest, result>>
        BY <2>1, <3>1, <3>3, PutchType
      <3>5. FmtTypeOK'
        BY <1>1, <2>1, <3>1, <3>3, <3>4 DEF FmtTypeOK, escape, number, history
      <3>6. QED
        BY <1>1, <2>1, <3>1, <3>5 DEF ReadInv
    <2>4. QED
      BY <2>2, <2>3
  <1>10. CASE UNCHANGED fmtvars
    <2>1. UNCHANGED <<fmt, k, pc, escape, number, todo, sink, history>>
      BY <1>10 DEF fmtvars
    <2>2. QED
      BY <2>1 DEF FmtTypeOK, ReadInv, escape, number, sink, history
  <1>11. QED
    BY <1>2, <1>3, <1>4, <1>5, <1>6, <1>7, <1>8, <1>9, <1>10 DEF FmtNext, ReadsOn, Converts

(* Formatted output of any format, with any arguments: the format is never *)
(* read past its NUL, nothing is stored outside a buffer of any size, and  *)
(* b.buf stays in it (printfmt.c:84-99, 262-283).                          *)
THEOREM FmtTypeCorrect == FmtSpec => []FmtTypeOK
  <1>1. FmtInit => FmtTypeOK /\ ReadInv
    BY FmtInitOK
  <1>2. (FmtTypeOK /\ ReadInv) /\ [FmtNext]_fmtvars => (FmtTypeOK /\ ReadInv)'
    BY FmtNextOK
  <1>3. QED
    BY <1>1, <1>2, PTL DEF FmtSpec

(* What a step does to the text put so far: nothing, one character more,   *)
(* or its end.                                                             *)
LEMMA SinkKinds ==
  ASSUME FmtTypeOK, ReadInv, [FmtNext]_fmtvars
  PROVE  \/ UNCHANGED sink /\ (pc = "return" <=> pc' = "return")
         \/ pc # "return" /\ pc' # "return" /\ \E c \in Chars : putch(c)
         \/ EndOfFormat
  <1>1. CASE Literal
    BY <1>1, FmtRead DEF Literal
  <1>2. CASE Percent \/ Unknown
    BY <1>2 DEF Percent, Unknown
  <1>3. CASE ReadsOn
    BY <1>3, ReadsOnKind
  <1>4. CASE Converts
    BY <1>4, ConvertsKind
  <1>5. CASE PrintnumCalls \/ PrintnumPads
    BY <1>5, PrintnumKind
  <1>6. CASE Put
    <2>1. CASE todo = <<>>
      BY <1>6, <2>1 DEF Put
    <2>2. CASE todo # <<>>
      <3>1. Head(todo) \in Chars
        BY <2>2 DEF FmtTypeOK
      <3>2. QED
        BY <1>6, <2>2, <3>1 DEF Put
    <2>3. QED
      BY <2>1, <2>2
  <1>7. CASE UNCHANGED fmtvars
    BY <1>7 DEF fmtvars
  <1>8. QED
    BY <1>1, <1>2, <1>3, <1>4, <1>5, <1>6, <1>7 DEF FmtNext, ReadsOn, Converts

-----------------------------------------------------------------------------
(* The buffer of snprintf.                                                 *)

(* The buffer holds what was put, as far as it has places before the last; *)
(* the count goes on behind that.                                          *)
BufferInv ==
  dest # Console =>
    IF dest < 1 THEN pc = "return" /\ result = -E_INVAL /\ out = <<>>
    ELSE /\ cnt = Len(out)
         /\ b_buf = IF Len(out) < dest THEN Len(out) ELSE dest - 1
         /\ \A j \in 1 .. Len(out) : j < dest => buf[j - 1] = out[j]
         /\ pc = "return" =>
              result = cnt /\ buf[IF Len(out) < dest THEN Len(out) ELSE dest - 1] = NUL

LEMMA BufferType ==
  ASSUME FmtTypeOK, dest # Console
  PROVE  /\ out \in Seq(Chars) /\ Len(out) \in Nat
         /\ dest \in Nat /\ DOMAIN buf = 0 .. dest - 1
  <1>1. out \in Seq(Chars) /\ dest \in Sizes
    BY DEF FmtTypeOK
  <1>2. DOMAIN buf = 0 .. dest - 1
    BY DEF FmtTypeOK
  <1>3. QED
    BY <1>1, <1>2, WordsAssumption

LEMMA BufferInit == FmtInit => BufferInv
  <1> SUFFICES ASSUME FmtInit, dest # Console, ~(dest < 1) PROVE BufferInv
    BY DEF FmtInit, BufferInv
  <1>1. dest \in Nat /\ dest >= 1
    <2>1. dest \in Sizes
      BY DEF FmtInit
    <2>2. dest \in Nat
      BY <2>1, WordsAssumption
    <2>3. QED
      BY <2>2
  <1>2. Len(out) = 0 /\ cnt = 0 /\ b_buf = 0 /\ pc = "text"
    BY DEF FmtInit
  <1>3. QED
    BY <1>1, <1>2 DEF BufferInv

(* A character put is stored if it has a place before the last.            *)
LEMMA BufferPut ==
  ASSUME FmtTypeOK, BufferInv, dest # Console, dest >= 1,
         NEW c \in Chars, putch(c), pc # "return", pc' # "return"
  PROVE  BufferInv'
  <1>1. /\ out' = Append(out, c) /\ out' \in Seq(Chars) /\ Len(out') = Len(out) + 1
        /\ Len(out) \in Nat /\ UNCHANGED <<dest, result>>
    BY PutchType
  <1>2. out \in Seq(Chars) /\ dest \in Nat /\ DOMAIN buf = 0 .. dest - 1
    BY BufferType
  <1>3. cnt = Len(out) /\ cnt' = Len(out')
    BY <1>1 DEF BufferInv, putch, Counted
  <1>4. /\ b_buf = IF Len(out) < dest THEN Len(out) ELSE dest - 1
        /\ \A j \in 1 .. Len(out) : j < dest => buf[j - 1] = out[j]
    BY <1>2 DEF BufferInv
  <1>5. /\ b_buf' = IF Len(out') < dest THEN Len(out') ELSE dest - 1
        /\ \A j \in 1 .. Len(out') : j < dest => buf'[j - 1] = out'[j]
    <2>1. CASE Room
      <3>1. /\ b_buf = Len(out) /\ Len(out) < dest - 1 /\ Len(out) \in DOMAIN buf
        BY <1>1, <1>2, <1>4, <2>1 DEF Room
      <3>2. buf' = Stored(Len(out), c) /\ b_buf' = Len(out')
        BY <1>1, <2>1, <3>1 DEF putch
      <3>3. buf'[Len(out)] = c /\ \A p \in 0 .. dest - 1 : p # Len(out) => buf'[p] = buf[p]
        BY <1>2, <3>1, <3>2, StoredInside
      <3>4. ASSUME NEW j \in 1 .. Len(out'), j < dest
            PROVE  buf'[j - 1] = out'[j]
        <4>1. CASE j = Len(out) + 1
          <5>1. j - 1 = Len(out) /\ out'[j] = c
            BY <1>1, <1>2, <4>1
          <5>2. QED
            BY <3>3, <5>1
        <4>2. CASE j \in 1 .. Len(out)
          <5>1. out'[j] = out[j] /\ buf[j - 1] = out[j]
            BY <1>1, <1>2, <1>4, <3>4, <4>2
          <5>2. j - 1 \in 0 .. dest - 1 /\ j - 1 # Len(out)
            BY <1>1, <1>2, <3>4, <4>2
          <5>3. QED
            BY <3>3, <5>1, <5>2
        <4>3. QED
          BY <1>1, <4>1, <4>2
      <3>5. Len(out') < dest
        BY <1>1, <1>2, <3>1
      <3>6. QED
        BY <3>2, <3>4, <3>5
    <2>2. CASE ~Room
      <3>1. UNCHANGED <<buf, b_buf>>
        BY <2>2 DEF putch
      <3>2. b_buf = dest - 1 /\ ~(Len(out) + 1 < dest)
        BY <1>1, <1>2, <1>4, <2>2 DEF Room
      <3>3. \A j \in 1 .. Len(out') : j < dest => j \in 1 .. Len(out) /\ out'[j] = out[j]
        BY <1>1, <1>2, <3>2
      <3>4. QED
        BY <1>1, <1>4, <3>1, <3>2, <3>3
    <2>3. QED
      BY <2>1, <2>2
  <1>6. QED
    BY <1>1, <1>3, <1>5 DEF BufferInv

(* The NUL goes behind the text, or in the last place.                     *)
LEMMA BufferEnd ==
  ASSUME FmtTypeOK, BufferInv, dest # Console, dest >= 1, EndOfFormat
  PROVE  BufferInv'
  <1>1. out \in Seq(Chars) /\ Len(out) \in Nat /\ dest \in Nat /\ DOMAIN buf = 0 .. dest - 1
    BY BufferType
  <1>2. /\ cnt = Len(out) /\ \A j \in 1 .. Len(out) : j < dest => buf[j - 1] = out[j]
        /\ b_buf = IF Len(out) < dest THEN Len(out) ELSE dest - 1
    BY <1>1 DEF BufferInv
  <1>3. b_buf \in DOMAIN buf
    BY <1>1, <1>2
  <1>4. /\ buf' = Stored(b_buf, NUL) /\ result' = cnt /\ pc' = "return"
        /\ UNCHANGED <<out, dest, b_buf, cnt>>
    BY DEF EndOfFormat
  <1>5. buf'[b_buf] = NUL /\ \A p \in 0 .. dest - 1 : p # b_buf => buf'[p] = buf[p]
    BY <1>1, <1>3, <1>4, StoredInside
  <1>6. ASSUME NEW j \in 1 .. Len(out), j < dest
        PROVE  buf'[j - 1] = out[j]
    <2>1. j - 1 # b_buf /\ j - 1 \in 0 .. dest - 1
      BY <1>1, <1>2, <1>6
    <2>2. QED
      BY <1>2, <1>5, <1>6, <2>1
  <1>7. /\ cnt' = Len(out') /\ result' = cnt'
        /\ b_buf' = IF Len(out') < dest' THEN Len(out') ELSE dest' - 1
        /\ \A j \in 1 .. Len(out') : j < dest' => buf'[j - 1] = out'[j]
        /\ buf'[IF Len(out') < dest' THEN Len(out') ELSE dest' - 1] = NUL
    BY <1>2, <1>4, <1>5, <1>6
  <1>8. QED
    BY <1>1, <1>4, <1>7 DEF BufferInv

LEMMA BufferNext ==
  ASSUME FmtTypeOK, ReadInv, BufferInv, [FmtNext]_fmtvars
  PROVE  BufferInv'
  <1>1. CASE UNCHANGED sink /\ (pc = "return" <=> pc' = "return")
    BY <1>1 DEF BufferInv, sink
  <1>2. ASSUME pc # "return", pc' # "return", NEW c \in Chars, putch(c)
        PROVE  BufferInv'
    <2>1. CASE dest = Console
      BY <1>2, <2>1 DEF putch, BufferInv
    <2>2. CASE dest # Console
      <3>1. dest \in Nat
        BY <2>2, WordsAssumption DEF FmtTypeOK
      <3>2. dest >= 1
        BY <1>2, <2>2, <3>1 DEF BufferInv
      <3>3. QED
        BY <1>2, <2>2, <3>2, BufferPut
    <2>3. QED
      BY <2>1, <2>2
  <1>3. CASE EndOfFormat
    <2>1. CASE dest = Console
      BY <1>3, <2>1 DEF EndOfFormat, BufferInv
    <2>2. CASE dest # Console
      <3>1. dest \in Nat
        BY <2>2, WordsAssumption DEF FmtTypeOK
      <3>2. dest >= 1
        BY <1>3, <2>2, <3>1 DEF BufferInv, EndOfFormat
      <3>3. QED
        BY <1>3, <2>2, <3>2, BufferEnd
    <2>3. QED
      BY <2>1, <2>2
  <1>4. QED
    BY <1>1, <1>2, <1>3, SinkKinds

(* At the return this is what snprintf promises.                           *)
LEMMA BufferContract ==
  ASSUME FmtTypeOK, BufferInv
  PROVE  SnprintfContract
  <1> SUFFICES ASSUME pc = "return", dest # Console, ~(dest < 1)
               PROVE  LET n == IF Len(out) < dest THEN Len(out) ELSE dest - 1
                      IN /\ result = Len(out)
                         /\ \A j \in 1 .. n : buf[j - 1] = out[j]
                         /\ buf[n] = NUL
    BY DEF SnprintfContract, BufferInv
  <1>1. Len(out) \in Nat /\ dest \in Nat
    BY BufferType
  <1>2. QED
    BY <1>1 DEF BufferInv

(* Whatever the size of its buffer, snprintf leaves a string in it and     *)
(* returns the length of the whole text (printfmt.c:262-283).              *)
THEOREM SnprintfCorrect == FmtSpec => []SnprintfContract
  <1>1. FmtInit => FmtTypeOK /\ ReadInv /\ BufferInv
    <2>1. QED
      BY BufferInit, FmtInitOK
  <1>2. (FmtTypeOK /\ ReadInv /\ BufferInv) /\ [FmtNext]_fmtvars
          => (FmtTypeOK /\ ReadInv /\ BufferInv)'
    BY FmtNextOK, BufferNext
  <1>3. FmtTypeOK /\ ReadInv /\ BufferInv => SnprintfContract
    BY BufferContract
  <1>4. QED
    BY <1>1, <1>2, <1>3, PTL DEF FmtSpec

-----------------------------------------------------------------------------
(* What is no escape.                                                      *)

LEMMA SubSeqType ==
  ASSUME NEW S, NEW s \in Seq(S), NEW a \in Nat \ {0}, NEW b \in 0 .. Len(s), a <= b + 1
  PROVE  /\ SubSeq(s, a, b) \in Seq(S) /\ Len(SubSeq(s, a, b)) = b - a + 1
         /\ \A j \in 1 .. b - a + 1 : SubSeq(s, a, b)[j] = s[a + j - 1]
  OBVIOUS

LEMMA SeqEqual ==
  ASSUME NEW S, NEW s \in Seq(S), NEW t \in Seq(S), Len(s) = Len(t),
         \A j \in 1 .. Len(s) : s[j] = t[j]
  PROVE  s = t
  OBVIOUS

LEMMA SubSeqNext ==
  ASSUME NEW S, NEW s \in Seq(S), NEW a \in Nat \ {0}, NEW b \in 0 .. Len(s), a <= b + 1,
         b < Len(s)
  PROVE  SubSeq(s, a, b + 1) = Append(SubSeq(s, a, b), s[b + 1])
  <1> DEFINE t == SubSeq(s, a, b)
             u == SubSeq(s, a, b + 1)
             v == Append(t, s[b + 1])
  <1>1. /\ t \in Seq(S) /\ Len(t) = b - a + 1
        /\ \A j \in 1 .. b - a + 1 : t[j] = s[a + j - 1]
    BY SubSeqType
  <1>2. /\ u \in Seq(S) /\ Len(u) = b + 1 - a + 1
        /\ \A j \in 1 .. b + 1 - a + 1 : u[j] = s[a + j - 1]
    <2>1. b + 1 \in 0 .. Len(s) /\ a <= (b + 1) + 1
      OBVIOUS
    <2>2. QED
      BY <2>1, SubSeqType
  <1>3. s[b + 1] \in S /\ Len(s) \in Nat
    OBVIOUS
  <1> HIDE DEF t, u
  <1>4. /\ v \in Seq(S) /\ Len(v) = Len(t) + 1 /\ v[Len(t) + 1] = s[b + 1]
        /\ \A j \in 1 .. Len(t) : v[j] = t[j]
    BY <1>1, <1>3
  <1> HIDE DEF v
  <1>5. ASSUME NEW j \in 1 .. Len(u)
        PROVE  u[j] = v[j]
    <2>1. CASE j \in 1 .. Len(t)
      BY <1>1, <1>2, <1>4, <2>1
    <2>2. CASE j \notin 1 .. Len(t)
      <3>1. j = Len(t) + 1 /\ a + j - 1 = b + 1
        BY <1>1, <1>2, <2>2
      <3>2. QED
        BY <1>2, <1>4, <3>1
    <2>3. QED
      BY <2>1, <2>2
  <1>6. Len(u) = Len(v)
    BY <1>1, <1>2, <1>4
  <1>7. u = v
    BY <1>2, <1>4, <1>5, <1>6, SeqEqual
  <1>8. QED
    BY <1>7 DEF t, u, v

LEMMA SubSeqWhole ==
  ASSUME NEW S, NEW s \in Seq(S)
  PROVE  SubSeq(s, 1, Len(s)) = s
  OBVIOUS

(* The format has one '%', at j, and no conversion.                        *)
Lone(j) == fmt[j] = "%" /\ \A i \in DOMAIN fmt \ {j} : fmt[i] \notin Conversions

(* What is put is the format as far as it is read, less the escape while   *)
(* that is read; behind its '%' reading starts again.                      *)
VerbatimInv ==
  dest = Console \/ dest >= 1 => \A j \in DOMAIN fmt : Lone(j) =>
    /\ pc # "number"
    /\ pc = "text" => out = SubSeq(fmt, 1, k)
    /\ pc \in {"spec", "digits"} => start = j - 1 /\ out = SubSeq(fmt, 1, j - 1)
    /\ pc = "put" => /\ k = j
                    /\ \/ todo = <<"%">> /\ out = SubSeq(fmt, 1, j - 1)
                       \/ todo = <<>> /\ out = SubSeq(fmt, 1, j)
    /\ pc = "return" => out = fmt

LEMMA VerbatimInit == FmtInit => VerbatimInv
  <1> SUFFICES ASSUME FmtInit PROVE VerbatimInv
    OBVIOUS
  <1>1. fmt \in Seq(Chars)
    BY TextAssumption DEF FmtInit
  <1>2. SubSeq(fmt, 1, 0) = <<>>
    BY <1>1
  <1>3. k = 0 /\ out = <<>> /\ (dest = Console \/ dest >= 1 => pc = "text")
    <2>1. dest = Console \/ dest \in Nat
      BY WordsAssumption DEF FmtInit
    <2>2. QED
      BY <2>1 DEF FmtInit
  <1>4. QED
    BY <1>2, <1>3 DEF VerbatimInv

(* No step puts anything but the format, which has no conversion that      *)
(* could.                                                                  *)
LEMMA VerbatimNext ==
  ASSUME FmtTypeOK, ReadInv, VerbatimInv, FmtNext
  PROVE  VerbatimInv'
  <1>1. /\ fmt \in Seq(Chars) /\ Len(fmt) \in Nat /\ k \in 0 .. Len(fmt)
        /\ ch # NUL => k < Len(fmt) /\ ch = fmt[k + 1]
        /\ k < Len(fmt) => ch # NUL
    BY FmtRead
  <1>2. fmt' = fmt /\ dest' = dest
    <2>1. CASE ReadsOn
      BY <2>1, ReadsOnKind DEF sink
    <2>2. CASE Converts
      BY <2>2, ConvertsKind DEF sink
    <2>3. CASE PrintnumCalls \/ PrintnumPads
      BY <2>3, PrintnumKind DEF sink
    <2>4. CASE Literal \/ Percent \/ EndOfFormat \/ Unknown \/ Put
      BY <2>4 DEF Literal, Percent, EndOfFormat, Unknown, Put, putch, sink
    <2>5. QED
      BY <2>1, <2>2, <2>3, <2>4 DEF FmtNext, ReadsOn, Converts
  <1> SUFFICES ASSUME dest = Console \/ dest >= 1, NEW j \in 1 .. Len(fmt), Lone(j)
               PROVE  /\ pc' # "number"
                      /\ pc' = "text" => out' = SubSeq(fmt, 1, k')
                      /\ pc' \in {"spec", "digits"} =>
                           start' = j - 1 /\ out' = SubSeq(fmt, 1, j - 1)
                      /\ pc' = "put" => /\ k' = j
                                       /\ \/ todo' = <<"%">> /\ out' = SubSeq(fmt, 1, j - 1)
                                          \/ todo' = <<>> /\ out' = SubSeq(fmt, 1, j)
                      /\ pc' = "return" => out' = fmt
    BY <1>1, <1>2 DEF VerbatimInv, Lone
  <1>3. /\ pc # "number"
        /\ pc = "text" => out = SubSeq(fmt, 1, k)
        /\ pc \in {"spec", "digits"} => start = j - 1 /\ out = SubSeq(fmt, 1, j - 1)
        /\ pc = "put" => /\ k = j
                        /\ \/ todo = <<"%">> /\ out = SubSeq(fmt, 1, j - 1)
                           \/ todo = <<>> /\ out = SubSeq(fmt, 1, j)
        /\ pc = "return" => out = fmt
    BY <1>1 DEF VerbatimInv
  <1>4. CASE Literal
    <2>1. pc = "text" /\ pc' = "text" /\ ch # NUL /\ k' = k + 1 /\ out' = Append(out, ch)
      BY <1>4 DEF Literal, putch
    <2>2. out' = SubSeq(fmt, 1, k + 1)
      BY <1>1, <1>3, <2>1, SubSeqNext
    <2>3. QED
      BY <2>1, <2>2
  <1>5. CASE Percent
    <2>1. /\ pc = "text" /\ pc' = "spec" /\ ch = "%" /\ ch # NUL
          /\ start' = k /\ k' = k + 1 /\ out' = out
      BY <1>5 DEF Percent, sink, NUL
    <2>2. k + 1 = j
      BY <1>1, <2>1 DEF Lone, Conversions
    <2>3. QED
      BY <1>1, <1>3, <2>1, <2>2
  <1>6. CASE EndOfFormat
    <2>1. pc = "text" /\ pc' = "return" /\ ch = NUL /\ out' = out
      BY <1>6 DEF EndOfFormat
    <2>2. k = Len(fmt)
      BY <1>1, <2>1
    <2>3. QED
      BY <1>1, <1>3, <2>1, <2>2, SubSeqWhole
  <1>7. CASE ReadsOn
    <2>1. /\ pc \in {"spec", "digits"} /\ pc' \in {"spec", "digits"}
          /\ start' = start /\ out' = out
      BY <1>7, ReadsOnKind DEF sink
    <2>2. QED
      BY <1>3, <2>1
  <1>8. CASE Converts
    <2>1. pc = "spec" /\ ch \in Conversions /\ ch # NUL
      BY <1>8, ConvertsKind DEF Conversions, NUL
    <2>2. start = j - 1 /\ start < k
      BY <1>3, <2>1 DEF ReadInv
    <2>3. k + 1 \in DOMAIN fmt \ {j} /\ fmt[k + 1] \in Conversions
      BY <1>1, <2>1, <2>2
    <2>4. QED
      BY <2>3 DEF Lone
  <1>9. CASE PrintnumCalls \/ PrintnumPads
    BY <1>3, <1>9, PrintnumKind
  <1>10. CASE Unknown
    <2>1. pc = "spec" /\ k' = start + 1 /\ todo' = <<"%">> /\ pc' = "put" /\ out' = out
      BY <1>10 DEF Unknown, sink
    <2>2. QED
      BY <1>3, <2>1
  <1>11. CASE Put
    <2>1. pc = "put" /\ k' = k
      BY <1>11 DEF Put
    <2>2. CASE todo = <<>>
      <3>1. pc' = "text" /\ out' = out
        BY <1>11, <2>2 DEF Put, sink
      <3>2. <<>> # <<"%">>
        OBVIOUS
      <3>3. QED
        BY <1>3, <2>1, <2>2, <3>1, <3>2
    <2>3. CASE todo # <<>>
      <3>1. todo = <<"%">> /\ out = SubSeq(fmt, 1, j - 1) /\ k = j
        BY <1>3, <2>1, <2>3
      <3>2. pc' = "put" /\ todo' = <<>> /\ out' = Append(out, "%")
        BY <1>11, <2>1, <2>3, <3>1 DEF Put, putch
      <3>3. out' = SubSeq(fmt, 1, j)
        <4>1. j - 1 \in 0 .. Len(fmt) /\ j - 1 < Len(fmt) /\ (j - 1) + 1 = j /\ fmt[j] = "%"
          BY <1>1 DEF Lone
        <4>2. SubSeq(fmt, 1, (j - 1) + 1) = Append(SubSeq(fmt, 1, j - 1), fmt[(j - 1) + 1])
          BY <1>1, <4>1, SubSeqNext
        <4>3. QED
          BY <3>1, <3>2, <4>1, <4>2
      <3>4. QED
        BY <2>1, <3>1, <3>2, <3>3
    <2>4. QED
      BY <2>2, <2>3
  <1>12. QED
    BY <1>4, <1>5, <1>6, <1>7, <1>8, <1>9, <1>10, <1>11 DEF FmtNext, ReadsOn, Converts

(* A format with no escape in it comes out as it stands, whatever looks    *)
(* like one behind its '%' (printfmt.c:237-242).                           *)
THEOREM VerbatimCorrect == FmtSpec => []UnknownVerbatim
  <1> DEFINE Inv == FmtTypeOK /\ ReadInv /\ BufferInv /\ VerbatimInv
  <1>1. FmtInit => Inv
    <2>1. QED
      BY BufferInit, FmtInitOK, VerbatimInit
  <1>2. Inv /\ [FmtNext]_fmtvars => Inv'
    <2>1. ASSUME VerbatimInv, UNCHANGED fmtvars PROVE VerbatimInv'
      <3>1. UNCHANGED <<fmt, k, pc, todo, out, dest, start>>
        BY <2>1 DEF fmtvars, sink, history
      <3>2. QED
        BY <2>1, <3>1 DEF VerbatimInv, Lone
    <2>2. QED
      BY <2>1, FmtNextOK, BufferNext, VerbatimNext
  <1>3. Inv => UnknownVerbatim
    <2> SUFFICES ASSUME Inv, pc = "return", result # -E_INVAL, NEW j \in DOMAIN fmt, Lone(j)
                 PROVE  out = fmt
      BY DEF UnknownVerbatim, Lone
    <2>1. dest = Console \/ dest >= 1
      <3>1. dest # Console => dest \in Nat
        BY BufferType
      <3>2. QED
        BY <3>1 DEF BufferInv
    <2>2. QED
      BY <2>1 DEF VerbatimInv
  <1> HIDE DEF Inv
  <1>4. QED
    BY <1>1, <1>2, <1>3, PTL DEF FmtSpec

-----------------------------------------------------------------------------
(* What an escape looks like, and what it looked like one character        *)
(* earlier.                                                                *)

Front(t) == SubSeq(t, 1, Len(t) - 1)
DecimalDigits == {digits[d] : d \in 1 .. 10}
NumeralTexts == {w \in Seq(DecimalDigits) : w # <<>> /\ w[1] # "0"}
FlagTexts == {<<>>, <<"-">>, <<"0">>, <<"#">>}
WTexts == {<<>>, <<"*">>} \union NumeralTexts
PTexts == {<<>>} \union {<<".">> \o x : x \in WTexts}
LTexts == {<<>>, <<"l">>, <<"l", "l">>}

(* An escape up to its conversion.                                         *)
Opening(flag, w, p, l) == <<"%">> \o flag \o w \o p \o l

(* Sequences, taken apart at their last element.                           *)
LEMMA FrontType ==
  ASSUME NEW S, NEW t \in Seq(S), t # <<>>
  PROVE  /\ Front(t) \in Seq(S) /\ Len(Front(t)) = Len(t) - 1 /\ Len(t) \in Nat \ {0}
         /\ t = Append(Front(t), t[Len(t)]) /\ t[Len(t)] \in S
         /\ \A j \in 1 .. Len(t) - 1 : Front(t)[j] = t[j]
  <1> DEFINE f == Front(t)
  <1>1. Len(t) \in Nat \ {0}
    OBVIOUS
  <1>2. /\ f \in Seq(S) /\ Len(f) = Len(t) - 1
        /\ \A j \in 1 .. Len(t) - 1 : f[j] = t[j]
    <2>1. Len(t) - 1 \in 0 .. Len(t) /\ 1 <= (Len(t) - 1) + 1 /\ (Len(t) - 1) - 1 + 1 = Len(t) - 1
      BY <1>1
    <2>2. /\ SubSeq(t, 1, Len(t) - 1) \in Seq(S)
          /\ Len(SubSeq(t, 1, Len(t) - 1)) = (Len(t) - 1) - 1 + 1
          /\ \A j \in 1 .. (Len(t) - 1) - 1 + 1 : SubSeq(t, 1, Len(t) - 1)[j] = t[1 + j - 1]
      BY <2>1, SubSeqType
    <2>3. \A j \in 1 .. Len(t) - 1 : 1 + j - 1 = j
      BY <1>1
    <2>4. QED
      BY <2>1, <2>2, <2>3 DEF Front
  <1>3. t[Len(t)] \in S
    BY <1>1
  <1> HIDE DEF f
  <1> DEFINE g == Append(f, t[Len(t)])
  <1>4. g \in Seq(S) /\ Len(g) = Len(t) /\ \A j \in 1 .. Len(g) : g[j] = t[j]
    BY <1>1, <1>2, <1>3
  <1> HIDE DEF g
  <1>5. g = t
    BY <1>4, SeqEqual
  <1>6. QED
    BY <1>1, <1>2, <1>3, <1>5 DEF f, g

LEMMA LastOf ==
  ASSUME NEW S, NEW s \in Seq(S), NEW t \in Seq(S), t # <<>>, NEW e \in Seq(S), NEW c \in S,
         Append(e, c) = s \o t
  PROVE  c = t[Len(t)] /\ e = s \o Front(t)
  <1> DEFINE f == Front(t)
             g == s \o f
  <1>1. /\ f \in Seq(S) /\ Len(f) = Len(t) - 1 /\ Len(t) \in Nat \ {0}
        /\ \A j \in 1 .. Len(t) - 1 : f[j] = t[j]
    BY FrontType
  <1> HIDE DEF f
  <1>2. Len(e) = Len(s) + Len(t) - 1 /\ Len(e) \in Nat /\ Len(s) \in Nat
    BY <1>1
  <1>3. c = t[Len(t)]
    <2>1. (s \o t)[Len(s) + Len(t)] = t[Len(t)]
      BY <1>1, Join2
    <2>2. Append(e, c)[Len(e) + 1] = c
      OBVIOUS
    <2>3. QED
      BY <1>1, <1>2, <2>1, <2>2
  <1>4. /\ g \in Seq(S) /\ Len(g) = Len(e)
        /\ \A j \in 1 .. Len(s) : g[j] = s[j]
        /\ \A j \in 1 .. Len(f) : g[Len(s) + j] = f[j]
    <2>1. /\ g \in Seq(S) /\ Len(g) = Len(s) + Len(f)
          /\ \A j \in 1 .. Len(s) : g[j] = s[j]
          /\ \A j \in 1 .. Len(f) : g[Len(s) + j] = f[j]
      BY <1>1, Join2
    <2> HIDE DEF g
    <2>2. QED
      BY <1>1, <1>2, <2>1
  <1> HIDE DEF g
  <1>5. ASSUME NEW j \in 1 .. Len(e)
        PROVE  e[j] = g[j]
    <2>1. e[j] = (s \o t)[j]
      OBVIOUS
    <2>2. CASE j \in 1 .. Len(s)
      BY <1>4, <2>1, <2>2
    <2>3. CASE j \notin 1 .. Len(s)
      <3>1. j - Len(s) \in 1 .. Len(f) /\ j - Len(s) \in 1 .. Len(t) /\ j = Len(s) + (j - Len(s))
        BY <1>1, <1>2, <2>3
      <3>2. e[j] = t[j - Len(s)]
        BY <2>1, <3>1, Join2
      <3>3. g[j] = f[j - Len(s)]
        BY <1>4, <3>1
      <3>4. QED
        BY <1>1, <3>1, <3>2, <3>3
    <2>4. QED
      BY <2>2, <2>3
  <1>6. e = g
    BY <1>4, <1>5, SeqEqual
  <1>7. QED
    BY <1>3, <1>6 DEF g, f

LEMMA CatEmpty ==
  ASSUME NEW S, NEW s \in Seq(S)
  PROVE  s \o <<>> = s /\ <<>> \o s = s
  OBVIOUS

LEMMA CatAppend ==
  ASSUME NEW S, NEW s \in Seq(S), NEW y \in Seq(S), NEW c \in S
  PROVE  s \o Append(y, c) = Append(s \o y, c)
  OBVIOUS

LEMMA CatOne ==
  ASSUME NEW S, NEW s \in Seq(S), NEW c \in S
  PROVE  s \o <<c>> = Append(s, c)
  OBVIOUS

LEMMA FrontAppend ==
  ASSUME NEW S, NEW y \in Seq(S), NEW c \in S
  PROVE  LET t == Append(y, c)
         IN t \in Seq(S) /\ t # <<>> /\ Front(t) = y /\ t[Len(t)] = c /\ Len(t) = Len(y) + 1
  <1> DEFINE t == Append(y, c)
  <1>1. t \in Seq(S) /\ t # <<>> /\ <<>> \in Seq(S) /\ Len(t) = Len(y) + 1
    OBVIOUS
  <1>2. t = <<>> \o t
    BY <1>1, CatEmpty
  <1>3. Append(y, c) = t
    OBVIOUS
  <1> HIDE DEF t
  <1>4. c = t[Len(t)] /\ y = <<>> \o Front(t)
    BY <1>1, <1>2, <1>3, LastOf
  <1>5. Front(t) \in Seq(S)
    BY <1>1, FrontType
  <1>6. QED
    BY <1>1, <1>4, <1>5, CatEmpty DEF t

LEMMA NumeralType ==
  ASSUME NEW w \in NumeralTexts
  PROVE  /\ w \in Seq(Chars) /\ w \in Seq(DecimalDigits) /\ w # <<>> /\ w[1] # "0"
         /\ \A j \in 1 .. Len(w) : IsDigit(w[j])
  <1>1. w \in Seq(DecimalDigits) /\ w # <<>> /\ w[1] # "0"
    BY DEF NumeralTexts
  <1>2. \A c \in DecimalDigits : c \in Chars /\ IsDigit(c)
    BY DigitTable DEF DecimalDigits, IsDigit
  <1>3. \A j \in 1 .. Len(w) : IsDigit(w[j]) /\ w[j] \in Chars
    BY <1>1, <1>2
  <1>4. w \in Seq(Chars)
    BY <1>1, <1>3
  <1>5. QED
    BY <1>1, <1>3, <1>4

(* The parts of an escape are texts.                                       *)
LEMMA TextTypes ==
  /\ \A flag \in FlagTexts : flag \in Seq(Chars)
  /\ \A w \in WTexts : w \in Seq(Chars)
  /\ \A p \in PTexts : p \in Seq(Chars)
  /\ \A l \in LTexts : l \in Seq(Chars)
  <1>1. /\ <<>> \in Seq(Chars) /\ "l" \in Chars
        /\ <<"-">> \in Seq(Chars) /\ <<"0">> \in Seq(Chars) /\ <<"#">> \in Seq(Chars)
        /\ <<"*">> \in Seq(Chars) /\ <<".">> \in Seq(Chars) /\ <<"l">> \in Seq(Chars)
    BY Symbols DEF Known
  <1>2. \A flag \in FlagTexts : flag \in Seq(Chars)
    BY <1>1, Zenon DEF FlagTexts
  <1>3. \A w \in WTexts : w \in Seq(Chars)
    BY <1>1, NumeralType, Zenon DEF WTexts
  <1>4. \A l \in LTexts : l \in Seq(Chars)
    <2>1. <<"l", "l">> \in Seq(Chars)
      BY <1>1
    <2>2. QED
      BY <1>1, <2>1, Zenon DEF LTexts
  <1>5. ASSUME NEW p \in PTexts PROVE p \in Seq(Chars)
    <2>1. CASE p = <<>>
      BY <2>1
    <2>2. ASSUME NEW x \in WTexts, p = <<".">> \o x PROVE p \in Seq(Chars)
      <3>1. <<".">> \in Seq(Chars) /\ x \in Seq(Chars)
        BY <1>1, <1>3
      <3>2. QED
        BY <2>2, <3>1, Join2
    <2>3. QED
      BY <2>1, <2>2 DEF PTexts
  <1>6. QED
    BY <1>2, <1>3, <1>4, <1>5

LEMMA OpeningType ==
  ASSUME NEW flag \in FlagTexts, NEW w \in WTexts, NEW p \in PTexts, NEW l \in LTexts
  PROVE  /\ Opening(flag, w, p, l) \in Seq(Chars)
         /\ <<"%">> \in Seq(Chars)
         /\ <<"%">> \o flag \in Seq(Chars)
         /\ <<"%">> \o flag \o w \in Seq(Chars)
         /\ <<"%">> \o flag \o w \o p \in Seq(Chars)
         /\ Len(Opening(flag, w, p, l)) = 1 + Len(flag) + Len(w) + Len(p) + Len(l)
         /\ flag \in Seq(Chars) /\ w \in Seq(Chars) /\ p \in Seq(Chars) /\ l \in Seq(Chars)
  <1>1. flag \in Seq(Chars) /\ w \in Seq(Chars) /\ p \in Seq(Chars) /\ l \in Seq(Chars)
    BY TextTypes
  <1>2. <<"%">> \in Seq(Chars) /\ Len(<<"%">>) = 1
    BY Symbols DEF Known
  <1>3. <<"%">> \o flag \in Seq(Chars) /\ Len(<<"%">> \o flag) = 1 + Len(flag)
    BY <1>1, <1>2, Join2
  <1>4. <<"%">> \o flag \o w \in Seq(Chars) /\ Len(<<"%">> \o flag \o w) = 1 + Len(flag) + Len(w)
    BY <1>1, <1>3, Join2
  <1>5. /\ <<"%">> \o flag \o w \o p \in Seq(Chars)
        /\ Len(<<"%">> \o flag \o w \o p) = 1 + Len(flag) + Len(w) + Len(p)
    BY <1>1, <1>4, Join2
  <1>6. /\ <<"%">> \o flag \o w \o p \o l \in Seq(Chars)
        /\ Len(<<"%">> \o flag \o w \o p \o l) = 1 + Len(flag) + Len(w) + Len(p) + Len(l)
    BY <1>1, <1>5, Join2
  <1>7. QED
    BY <1>1, <1>2, <1>3, <1>4, <1>5, <1>6 DEF Opening

(* How an opening that ends with c comes about: c is the last of its parts *)
(* or the last character of that, and e what was read before.              *)
Longer(e, c, flag, w, p, l) ==
  \/ \E m \in LTexts : c = "l" /\ l = Append(m, c) /\ Len(l) = Len(m) + 1
                       /\ e = Opening(flag, w, p, m)
  \/ l = <<>> /\ p = <<".">> /\ c = "." /\ e = Opening(flag, w, <<>>, <<>>)
  \/ l = <<>> /\ p = <<".">> \o <<"*">> /\ c = "*" /\ e = Opening(flag, w, <<".">>, <<>>)
  \/ \E y \in {<<>>} \union NumeralTexts :
       /\ l = <<>> /\ IsDigit(c) /\ Append(y, c) \in NumeralTexts
       /\ p = <<".">> \o Append(y, c) /\ e = Opening(flag, w, <<".">> \o y, <<>>)
  \/ l = <<>> /\ p = <<>> /\ w = <<"*">> /\ c = "*" /\ e = Opening(flag, <<>>, <<>>, <<>>)
  \/ \E y \in {<<>>} \union NumeralTexts :
       /\ l = <<>> /\ p = <<>> /\ IsDigit(c) /\ Append(y, c) \in NumeralTexts
       /\ w = Append(y, c) /\ e = Opening(flag, y, <<>>, <<>>)
  \/ /\ l = <<>> /\ p = <<>> /\ w = <<>> /\ flag = <<c>> /\ c \in {"-", "0", "#"}
     /\ e = Opening(<<>>, <<>>, <<>>, <<>>)

(* Only the cases of Longer.                                               *)
LEMMA OpeningLast ==
  ASSUME NEW flag \in FlagTexts, NEW w \in WTexts, NEW p \in PTexts, NEW l \in LTexts,
         NEW e \in Seq(Chars), e # <<>>, NEW c \in Chars,
         Append(e, c) = Opening(flag, w, p, l)
  PROVE  Longer(e, c, flag, w, p, l)
  <1> USE DEF Longer
  <1> DEFINE pct == <<"%">>
  <1>1. /\ pct \in Seq(Chars) /\ pct \o flag \in Seq(Chars)
        /\ pct \o flag \o w \in Seq(Chars) /\ pct \o flag \o w \o p \in Seq(Chars)
        /\ flag \in Seq(Chars) /\ w \in Seq(Chars) /\ p \in Seq(Chars) /\ l \in Seq(Chars)
    BY OpeningType
  <1>2. Append(e, c) = pct \o flag \o w \o p \o l
    BY DEF Opening
  <1>3. ASSUME NEW x \in NumeralTexts
        PROVE  \E y \in {<<>>} \union NumeralTexts :
                 x = Append(y, x[Len(x)]) /\ y = Front(x) /\ IsDigit(x[Len(x)])
    <2>1. x \in Seq(DecimalDigits) /\ x # <<>> /\ x[1] # "0" /\ \A j \in 1 .. Len(x) : IsDigit(x[j])
      BY NumeralType
    <2> DEFINE y == Front(x)
    <2>2. /\ y \in Seq(DecimalDigits) /\ Len(y) = Len(x) - 1 /\ Len(x) \in Nat \ {0}
          /\ x = Append(y, x[Len(x)])
          /\ \A j \in 1 .. Len(x) - 1 : y[j] = x[j]
      BY <2>1, FrontType
    <2>3. IsDigit(x[Len(x)])
      BY <2>1, <2>2
    <2>4. y = <<>> \/ y[1] # "0"
      <3>1. CASE Len(x) = 1
        BY <2>2, <3>1
      <3>2. CASE Len(x) > 1
        <4>1. 1 \in 1 .. Len(x) - 1
          BY <2>2, <3>2
        <4>2. QED
          BY <2>1, <2>2, <4>1
      <3>3. QED
        BY <2>2, <3>1, <3>2
    <2>5. y \in {<<>>} \union NumeralTexts
      BY <2>2, <2>4 DEF NumeralTexts
    <2> HIDE DEF y
    <2>6. y = Front(x)
      BY DEF y
    <2>7. QED
      BY <2>2, <2>3, <2>5, <2>6
  <1>4. CASE l # <<>>
    <2>1. c = l[Len(l)] /\ e = (pct \o flag \o w \o p) \o Front(l)
      BY <1>1, <1>2, <1>4, LastOf
    <2>2. \E m \in LTexts : /\ l = Append(m, "l") /\ Len(l) = Len(m) + 1
                           /\ Front(l) = m /\ l[Len(l)] = "l"
      <3>1. "l" \in Chars /\ <<"l">> \in Seq(Chars) /\ <<>> \in Seq(Chars)
        BY Symbols DEF Known
      <3>2. <<>> \in LTexts /\ <<"l">> \in LTexts
        BY DEF LTexts
      <3>3. CASE l = <<"l">>
        <4>1. l = Append(<<>>, "l") /\ Len(<<>>) = 0
          BY <3>3
        <4>2. Front(l) = <<>> /\ l[Len(l)] = "l" /\ Len(l) = Len(<<>>) + 1
          BY <3>1, <4>1, FrontAppend
        <4>3. QED
          BY <3>2, <4>1, <4>2, Zenon
      <3>4. CASE l = <<"l", "l">>
        <4>1. l = Append(<<"l">>, "l")
          BY <3>4
        <4>2. Front(l) = <<"l">> /\ l[Len(l)] = "l" /\ Len(l) = Len(<<"l">>) + 1
          BY <3>1, <4>1, FrontAppend
        <4>3. QED
          BY <3>2, <4>1, <4>2, Zenon
      <3>5. QED
        BY <1>4, <3>3, <3>4 DEF LTexts
    <2>3. PICK m \in LTexts : /\ l = Append(m, "l") /\ Len(l) = Len(m) + 1
                             /\ Front(l) = m /\ l[Len(l)] = "l"
      BY <2>2
    <2>4. e = Opening(flag, w, p, m) /\ c = "l"
      BY <2>1, <2>3 DEF Opening
    <2>5. QED
      BY <2>3, <2>4
  <1>5. CASE l = <<>> /\ p # <<>>
    <2>1. Append(e, c) = (pct \o flag \o w) \o p
      BY <1>1, <1>2, <1>5, CatEmpty
    <2>2. c = p[Len(p)] /\ e = (pct \o flag \o w) \o Front(p)
      BY <1>1, <1>5, <2>1, LastOf
    <2>3. PICK x \in WTexts : p = <<".">> \o x
      BY <1>5 DEF PTexts
    <2>4. "." \in Chars /\ <<".">> \in Seq(Chars) /\ x \in Seq(Chars)
      BY <2>3, Symbols, TextTypes DEF Known
    <2>5. \A q \in PTexts : Opening(flag, w, q, <<>>) = (pct \o flag \o w) \o q
      <3> SUFFICES ASSUME NEW q \in PTexts
                   PROVE  Opening(flag, w, q, <<>>) = (pct \o flag \o w) \o q
        OBVIOUS
      <3>1. (pct \o flag \o w) \o q \in Seq(Chars)
        BY <1>1, TextTypes, Join2
      <3>2. QED
        BY <3>1, CatEmpty DEF Opening
    <2>6. CASE x = <<>>
      <3>1. p = <<".">>
        BY <2>3, <2>4, <2>6, CatEmpty
      <3>2. Front(p) = <<>> /\ p[Len(p)] = "."
        BY <3>1 DEF Front
      <3>3. <<>> \in PTexts
        BY DEF PTexts
      <3>4. QED
        BY <1>5, <2>2, <2>5, <3>1, <3>2, <3>3
    <2>7. CASE x = <<"*">>
      <3>1. p = Append(<<".">>, "*") /\ "*" \in Chars
        <4>1. "*" \in Chars
          BY Symbols DEF Known
        <4>2. QED
          BY <2>3, <2>4, <2>7, <4>1, CatOne
      <3>2. Front(p) = <<".">> /\ p[Len(p)] = "*"
        BY <2>4, <3>1, FrontAppend
      <3>3. <<".">> \in PTexts
        <4>1. <<".">> \o <<>> = <<".">>
          OBVIOUS
        <4>2. QED
          BY <4>1 DEF PTexts, WTexts
      <3>4. QED
        BY <1>5, <2>2, <2>3, <2>5, <2>7, <3>2, <3>3
    <2>8. CASE x \in NumeralTexts
      <3>1. PICK y \in {<<>>} \union NumeralTexts :
              x = Append(y, x[Len(x)]) /\ y = Front(x) /\ IsDigit(x[Len(x)])
        BY <1>3, <2>8
      <3>2. y \in WTexts /\ y \in Seq(Chars) /\ <<".">> \o y \in PTexts /\ x[Len(x)] \in Chars
        BY <3>1, DigitIsChar, TextTypes DEF WTexts, PTexts
      <3> DEFINE d == x[Len(x)]
                 dot == <<".">>
                 z == dot \o y
      <3>3. p = Append(z, d) /\ z \in Seq(Chars) /\ d \in Chars
        <4>1. dot \in Seq(Chars) /\ y \in Seq(Chars) /\ d \in Chars
          BY <2>4, <3>2
        <4>2. p = dot \o Append(y, d)
          BY <2>3, <3>1
        <4> HIDE DEF dot, d
        <4>3. dot \o Append(y, d) = Append(dot \o y, d)
          BY <4>1, CatAppend
        <4>4. dot \o y \in Seq(Chars)
          BY <4>1, Join2
        <4>5. QED
          BY <4>1, <4>2, <4>3, <4>4
      <3>4. d = p[Len(p)] /\ Front(p) = z
        <4> HIDE DEF d, z
        <4>1. QED
          BY <3>3, FrontAppend
      <3>5. c = x[Len(x)] /\ e = Opening(flag, w, <<".">> \o y, <<>>)
        BY <2>2, <2>5, <3>2, <3>4
      <3>6. QED
        BY <1>5, <2>3, <2>8, <3>1, <3>5
    <2>9. QED
      BY <2>3, <2>6, <2>7, <2>8 DEF WTexts
  <1>6. CASE l = <<>> /\ p = <<>> /\ w # <<>>
    <2>1. Append(e, c) = (pct \o flag) \o w
      BY <1>1, <1>2, <1>6, CatEmpty
    <2>2. c = w[Len(w)] /\ e = (pct \o flag) \o Front(w)
      BY <1>1, <1>6, <2>1, LastOf
    <2>3. \A q \in WTexts : Opening(flag, q, <<>>, <<>>) = (pct \o flag) \o q
      <3> SUFFICES ASSUME NEW q \in WTexts
                   PROVE  Opening(flag, q, <<>>, <<>>) = (pct \o flag) \o q
        OBVIOUS
      <3>1. (pct \o flag) \o q \in Seq(Chars)
        BY <1>1, TextTypes, Join2
      <3>2. QED
        BY <3>1, CatEmpty DEF Opening
    <2>4. CASE w = <<"*">>
      <3>1. Front(w) = <<>> /\ w[Len(w)] = "*"
        BY <2>4 DEF Front
      <3>2. QED
        BY <1>6, <2>2, <2>3, <2>4, <3>1 DEF WTexts
    <2>5. CASE w \in NumeralTexts
      <3>1. PICK y \in {<<>>} \union NumeralTexts :
              w = Append(y, w[Len(w)]) /\ y = Front(w) /\ IsDigit(w[Len(w)])
        BY <1>3, <2>5
      <3>2. y \in WTexts
        BY <3>1 DEF WTexts
      <3>3. QED
        BY <1>6, <2>2, <2>3, <2>5, <3>1, <3>2
    <2>6. QED
      BY <1>6, <2>4, <2>5 DEF WTexts
  <1>7. CASE l = <<>> /\ p = <<>> /\ w = <<>>
    <2>1. Append(e, c) = pct \o flag
      BY <1>1, <1>2, <1>7, CatEmpty
    <2>2. flag # <<>>
      BY <1>1, <2>1
    <2>3. c = flag[Len(flag)] /\ e = pct \o Front(flag)
      BY <1>1, <2>1, <2>2, LastOf
    <2>4. Front(flag) = <<>> /\ flag = <<flag[Len(flag)]>> /\ flag[Len(flag)] \in {"-", "0", "#"}
      BY <2>2 DEF FlagTexts, Front
    <2>5. Opening(<<>>, <<>>, <<>>, <<>>) = pct /\ e = pct
      BY <1>1, <2>3, <2>4, CatEmpty DEF Opening
    <2>6. QED
      BY <1>7, <2>3, <2>4, <2>5
  <1>8. QED
    BY <1>4, <1>5, <1>6, <1>7

-----------------------------------------------------------------------------
(* What a numeral stands for.  The definition of Value is recursive; a     *)
(* table of its values exists for every numeral because a shortest one     *)
(* without a table would have one after all.                               *)

(* The number m with the numeral s behind it, in base b.                   *)
Horner(m, s, b) ==
  LET v[j \in 0 .. Len(s)] == IF j = 0 THEN m ELSE v[j - 1] * b + DigitValue(s[j])
  IN v[Len(s)]

IsHorner(h, m, s, b) ==
  /\ h \in [0 .. Len(s) -> Nat] /\ h[0] = m
  /\ \A j \in 1 .. Len(s) : h[j] = h[j - 1] * b + DigitValue(s[j])

(* A table h of these numbers for the beginnings of s gives the value of   *)
(* s; one exists, for a minimal counterexample has one.                    *)
LEMMA HornerIs ==
  ASSUME NEW S, NEW s \in Seq(S), NEW m, NEW b, NEW h, IsHorner(h, m, s, b)
  PROVE  Horner(m, s, b) = h[Len(s)]
  <1> DEFINE F(v) == v = [j \in 0 .. Len(s) |->
                            IF j = 0 THEN m ELSE v[j - 1] * b + DigitValue(s[j])]
             N == Len(s)
  <1>1. N \in Nat
    OBVIOUS
  <1>2. /\ h = [j \in 0 .. N |-> h[j]] /\ h[0] = m
        /\ \A j \in 1 .. N : h[j] = h[j - 1] * b + DigitValue(s[j])
    BY DEF IsHorner
  <1>3. F(h)
    <2>1. ASSUME NEW j \in 0 .. N
          PROVE  h[j] = IF j = 0 THEN m ELSE h[j - 1] * b + DigitValue(s[j])
      <3>1. CASE j = 0
        BY <1>2, <3>1
      <3>2. CASE j # 0
        <4>1. j \in 1 .. N
          BY <1>1, <3>2
        <4>2. QED
          BY <1>2, <3>2, <4>1
      <3>3. QED
        BY <3>1, <3>2
    <2>2. [j \in 0 .. N |-> h[j]]
            = [j \in 0 .. N |-> IF j = 0 THEN m ELSE h[j - 1] * b + DigitValue(s[j])]
      BY <2>1
    <2>3. QED
      BY <1>2, <2>2, Zenon
  <1>4. ASSUME NEW v, F(v) PROVE v[N] = h[N]
    <2>1. v[0] = m /\ \A j \in 1 .. N : v[j] = v[j - 1] * b + DigitValue(s[j])
      BY <1>1, <1>4
    <2> DEFINE D == {j \in 0 .. N : v[j] # h[j]}
    <2>2. D \subseteq Nat
      OBVIOUS
    <2>3. ASSUME D # {} PROVE FALSE
      <3>1. PICK d \in D : \A x \in D : <<x, d>> \notin OpToRel(<, Nat)
        BY <2>2, <2>3, NatLessThanWellFounded, WFMin
      <3>2. \A x \in D : ~(x < d)
        BY <2>2, <3>1 DEF OpToRel
      <3>3. d \in 1 .. N
        BY <1>1, <1>2, <2>1
      <3>4. d - 1 \in 0 .. N /\ d - 1 < d
        BY <1>1, <3>3
      <3>5. v[d - 1] = h[d - 1]
        BY <3>2, <3>4
      <3>6. v[d] = h[d]
        BY <1>2, <2>1, <3>3, <3>5
      <3>7. QED
        BY <3>6
    <2>4. QED
      BY <1>1, <2>3
  <1>5. Horner(m, s, b) = (CHOOSE v : F(v))[N]
    BY DEF Horner
  <1> HIDE DEF F
  <1>6. F(CHOOSE v : F(v))
    BY <1>3
  <1>7. QED
    BY <1>4, <1>5, <1>6

Digits == {digits[d] : d \in 1 .. 16}

LEMMA DigitNat ==
  ASSUME NEW c \in Digits
  PROVE  DigitValue(c) \in Nat /\ c \in Chars
  BY DigitOf, DigitTable DEF Digits

LEMMA HornerStep ==
  ASSUME NEW h, NEW m \in Nat, NEW b \in Nat, NEW s \in Seq(Digits), NEW c \in Digits,
         IsHorner(h, m, s, b)
  PROVE  \E g : /\ IsHorner(g, m, Append(s, c), b)
                /\ g[Len(s) + 1] = h[Len(s)] * b + DigitValue(c)
  <1> DEFINE t == Append(s, c)
             N == Len(s)
             z == h[N] * b + DigitValue(c)
             g == [j \in 0 .. N + 1 |-> IF j = N + 1 THEN z ELSE h[j]]
  <1>1. /\ Len(t) = N + 1 /\ t[N + 1] = c /\ N \in Nat
        /\ \A j \in 1 .. N : t[j] = s[j]
    OBVIOUS
  <1>2. /\ h \in [0 .. N -> Nat] /\ h[0] = m
        /\ \A j \in 1 .. N : h[j] = h[j - 1] * b + DigitValue(s[j])
    BY DEF IsHorner
  <1>3. DigitValue(c) \in Nat
    BY DigitNat
  <1>4. h[N] \in Nat
    BY <1>1, <1>2
  <1>5. z \in Nat
    BY <1>3, <1>4
  <1> HIDE DEF z, t, N
  <1>6. g \in [0 .. N + 1 -> Nat] /\ g[0] = m /\ g[N + 1] = z /\ g[N] = h[N]
    BY <1>1, <1>2, <1>5
  <1>7. ASSUME NEW j \in 1 .. N + 1
        PROVE  g[j] = g[j - 1] * b + DigitValue(t[j])
    <2>1. CASE j = N + 1
      <3>1. g[j] = z /\ g[j - 1] = h[N] /\ t[j] = c
        BY <1>1, <1>6, <2>1
      <3>2. QED
        BY <3>1 DEF z
    <2>2. CASE j \in 1 .. N
      <3>1. g[j] = h[j] /\ g[j - 1] = h[j - 1] /\ t[j] = s[j]
        BY <1>1, <2>2
      <3>2. QED
        BY <1>2, <2>2, <3>1
    <2>3. QED
      BY <1>1, <2>1, <2>2
  <1> HIDE DEF g
  <1>8. IsHorner(g, m, t, b)
    BY <1>1, <1>6, <1>7 DEF IsHorner
  <1>9. QED
    BY <1>6, <1>8 DEF t, z, N

LEMMA HornerExists ==
  ASSUME NEW m \in Nat, NEW b \in Nat, NEW s \in Seq(Digits)
  PROVE  \E h : IsHorner(h, m, s, b)
  <1> DEFINE D == {n \in Nat : \E t \in Seq(Digits) : Len(t) = n /\ ~ \E h : IsHorner(h, m, t, b)}
  <1>1. ASSUME D # {} PROVE FALSE
    <2>1. PICK d \in D : \A x \in D : <<x, d>> \notin OpToRel(<, Nat)
      BY <1>1, NatLessThanWellFounded, WFMin
    <2>2. d \in Nat /\ \A x \in D : ~(x < d)
      BY <2>1 DEF OpToRel
    <2>3. PICK t \in Seq(Digits) : Len(t) = d /\ ~ \E h : IsHorner(h, m, t, b)
      BY <2>1
    <2>4. CASE t = <<>>
      <3> DEFINE h == [j \in 0 .. 0 |-> m]
      <3>1. h \in [0 .. 0 -> Nat] /\ h[0] = m /\ Len(t) = 0
        BY <2>4
      <3>2. IsHorner(h, m, t, b)
        BY <3>1 DEF IsHorner
      <3>3. QED
        BY <2>3, <3>2
    <2>5. CASE t # <<>>
      <3> DEFINE f == Front(t)
                 c == t[Len(t)]
      <3>1. f \in Seq(Digits) /\ Len(f) = d - 1 /\ d - 1 \in Nat /\ t = Append(f, c) /\ c \in Digits
        BY <2>3, <2>5, FrontType
      <3> HIDE DEF f, c
      <3>2. d - 1 \notin D
        BY <2>2, <3>1
      <3>3. PICK h : IsHorner(h, m, f, b)
        BY <3>1, <3>2
      <3>4. \E g : IsHorner(g, m, Append(f, c), b)
        BY <3>1, <3>3, HornerStep
      <3>5. QED
        BY <2>3, <3>1, <3>4
    <2>6. QED
      BY <2>4, <2>5
  <1>2. Len(s) \in Nat
    OBVIOUS
  <1>3. QED
    BY <1>1, <1>2

LEMMA HornerEmpty ==
  ASSUME NEW m \in Nat, NEW b \in Nat
  PROVE  Horner(m, <<>>, b) = m
  <1>1. <<>> \in Seq(Digits) /\ Len(<<>>) = 0
    OBVIOUS
  <1>2. PICK h : IsHorner(h, m, <<>>, b)
    BY <1>1, HornerExists
  <1>3. Horner(m, <<>>, b) = h[0]
    BY <1>1, <1>2, HornerIs
  <1>4. QED
    BY <1>2, <1>3 DEF IsHorner

(* The numeral read from its left, as a width is, and from its right, as   *)
(* printnum makes it.                                                      *)
LEMMA HornerAppend ==
  ASSUME NEW m \in Nat, NEW b \in Nat, NEW s \in Seq(Digits), NEW c \in Digits
  PROVE  /\ Horner(m, s, b) \in Nat
         /\ Horner(m, Append(s, c), b) = Horner(m, s, b) * b + DigitValue(c)
  <1>1. Append(s, c) \in Seq(Digits) /\ Len(Append(s, c)) = Len(s) + 1 /\ Len(s) \in Nat
    OBVIOUS
  <1>2. PICK h : IsHorner(h, m, s, b)
    BY HornerExists
  <1>3. PICK g : /\ IsHorner(g, m, Append(s, c), b)
                 /\ g[Len(s) + 1] = h[Len(s)] * b + DigitValue(c)
    BY <1>2, HornerStep
  <1>4. Horner(m, s, b) = h[Len(s)] /\ h[Len(s)] \in Nat
    <2>1. h \in [0 .. Len(s) -> Nat]
      BY <1>2 DEF IsHorner
    <2>2. QED
      BY <1>1, <1>2, <2>1, HornerIs
  <1>5. Horner(m, Append(s, c), b) = g[Len(s) + 1]
    BY <1>1, <1>3, HornerIs
  <1>6. QED
    BY <1>3, <1>4, <1>5

LEMMA HornerCons ==
  ASSUME NEW m \in Nat, NEW b \in Nat, NEW s \in Seq(Digits), NEW c \in Digits
  PROVE  Horner(m, <<c>> \o s, b) = Horner(m * b + DigitValue(c), s, b)
  <1> DEFINE t == <<c>> \o s
             z == m * b + DigitValue(c)
             N == Len(s)
  <1>1. N \in Nat /\ z \in Nat
    BY DigitNat
  <1>2. t \in Seq(Digits) /\ Len(t) = N + 1 /\ t[1] = c /\ \A j \in 1 .. N : t[1 + j] = s[j]
    <2>1. <<c>> \in Seq(Digits) /\ Len(<<c>>) = 1 /\ <<c>>[1] = c
      OBVIOUS
    <2>2. QED
      BY <2>1, Join2
  <1> HIDE DEF t
  <1>3. PICK h : IsHorner(h, z, s, b)
    BY <1>1, HornerExists
  <1>4. /\ h \in [0 .. N -> Nat] /\ h[0] = z
        /\ \A j \in 1 .. N : h[j] = h[j - 1] * b + DigitValue(s[j])
    BY <1>3 DEF IsHorner
  <1> DEFINE g == [j \in 0 .. N + 1 |-> IF j = 0 THEN m ELSE h[j - 1]]
  <1>5. ASSUME NEW j \in 1 .. N + 1
        PROVE  g[j] = h[j - 1] /\ h[j - 1] \in Nat
    <2>1. j \in 0 .. N + 1 /\ j # 0 /\ j - 1 \in 0 .. N
      BY <1>1
    <2>2. g[j] = h[j - 1]
      BY <2>1
    <2>3. QED
      BY <1>4, <2>1, <2>2
  <1>6. g \in [0 .. N + 1 -> Nat] /\ g[0] = m
    <2>1. ASSUME NEW j \in 0 .. N + 1 PROVE (IF j = 0 THEN m ELSE h[j - 1]) \in Nat
      <3>1. CASE j = 0
        BY <3>1
      <3>2. CASE j # 0
        <4>1. j \in 1 .. N + 1
          BY <1>1, <3>2
        <4>2. QED
          BY <1>5, <3>2, <4>1
      <3>3. QED
        BY <3>1, <3>2
    <2>2. QED
      BY <1>1, <2>1
  <1>7. ASSUME NEW j \in 1 .. N + 1
        PROVE  g[j] = g[j - 1] * b + DigitValue(t[j])
    <2>1. CASE j = 1
      <3>1. g[j] = z /\ g[j - 1] = m /\ t[j] = c
        BY <1>1, <1>2, <1>4, <1>5, <1>6, <2>1
      <3>2. QED
        BY <3>1
    <2>2. CASE j # 1
      <3>1. j - 1 \in 1 .. N /\ j = 1 + (j - 1) /\ j - 1 \in 1 .. N + 1
        BY <1>1, <2>2
      <3>2. t[j] = s[j - 1]
        BY <1>2, <3>1
      <3>3. g[j] = h[j - 1] /\ g[j - 1] = h[(j - 1) - 1]
        BY <1>5, <3>1
      <3>4. QED
        BY <1>4, <3>1, <3>2, <3>3
    <2>3. QED
      BY <2>1, <2>2
  <1> HIDE DEF g
  <1>8. IsHorner(g, m, t, b)
    BY <1>2, <1>6, <1>7 DEF IsHorner
  <1>9. Horner(m, t, b) = g[N + 1] /\ Horner(z, s, b) = h[N]
    BY <1>2, <1>3, <1>8, HornerIs
  <1>10. QED
    BY <1>1, <1>5, <1>9 DEF t

LEMMA ValueIs ==
  ASSUME NEW s, NEW b
  PROVE  Value(s, b) = Horner(0, s, b)
  BY DEF Value, Horner

-----------------------------------------------------------------------------
(* What is read of an escape, one character at a time.                     *)

(* What a flag says of the padding, and how many arguments a text takes.   *)
PadOf(flag) == IF flag \in {<<"-">>, <<"0">>} THEN flag[1] ELSE Space
Stars(t) == IF t = <<"*">> THEN 1 ELSE 0

(* What has been read of an escape, and what was made of it.               *)
Parsed(flag, w, p, l) ==
  /\ padc = PadOf(flag) /\ (altflag <=> flag = <<"#">>) /\ lflag = Len(l)
  /\ Len(args) = Stars(w) + (IF p = <<>> THEN 0 ELSE Stars(Tail(p)))

(* The width and the precision behind their numbers, and while a number    *)
(* is read.                                                                *)
ParsedSpec(w, p, l) ==
  /\ width = (IF p # <<>> /\ Asked(w, 1) < 0 THEN 0 ELSE Asked(w, 1))
  /\ precision = (IF p = <<>> THEN -1 ELSE Asked(Tail(p), Len(args)))
  /\ l = <<>> /\ (IF p = <<>> THEN w ELSE Tail(p)) \in NumeralTexts => ~IsDigit(ch)
ParsedDigits(w, p, l) ==
  /\ l = <<>> /\ (IF p = <<>> THEN w ELSE Tail(p)) \in NumeralTexts
  /\ width = (IF p = <<>> THEN -1 ELSE IF Asked(w, 1) < 0 THEN 0 ELSE Asked(w, 1))
  /\ precision = Value(IF p = <<>> THEN w ELSE Tail(p), 10)

(* Whatever flags, numbers and stars an escape so far may be read as,      *)
(* the variables hold what they mean.                                      *)
ParseInv ==
  pc \in {"spec", "digits"} =>
    /\ args \in Seq(Int)
    /\ \A flag \in FlagTexts, w \in WTexts, p \in PTexts, l \in LTexts :
         EscapeText = Opening(flag, w, p, l) =>
           /\ Parsed(flag, w, p, l)
           /\ pc = "spec" => ParsedSpec(w, p, l)
           /\ pc = "digits" => ParsedDigits(w, p, l)

LEMMA NotDigits ==
  \A c \in {"-", "*", ".", "#", "l", "c", "e", "s", "d", "u", "o", "p", "x", "%"} : ~IsDigit(c)
  <1>1. ASSUME NEW c, IsDigit(c)
        PROVE  c \in {"0", "1", "2", "3", "4", "5", "6", "7", "8", "9"}
    <2>1. PICK i \in 1 .. 10 : digits[i] = c
      BY <1>1 DEF IsDigit
    <2>2. i \in {1, 2, 3, 4, 5, 6, 7, 8, 9, 10}
      OBVIOUS
    <2>3. QED
      BY <2>1, <2>2 DEF digits
  <1>2. QED
    BY <1>1

(* A width or a precision, one digit longer.                               *)
LEMMA NumeralValue ==
  /\ \A w \in NumeralTexts : w # <<>> /\ w # <<"*">> /\ Value(w, 10) \in Nat
  /\ \A w \in NumeralTexts, c \in Chars : IsDigit(c) =>
       Value(Append(w, c), 10) = Value(w, 10) * 10 + DigitValue(c)
  /\ \A c \in Chars : IsDigit(c) => Value(Append(<<>>, c), 10) = DigitValue(c)
  <1>1. \A c : IsDigit(c) => c \in Digits
    BY DEF IsDigit, Digits
  <1>2. ASSUME NEW w \in NumeralTexts PROVE w \in Seq(Digits) /\ w # <<>> /\ w # <<"*">>
    <2>1. w \in Seq(Chars) /\ w # <<>> /\ \A j \in 1 .. Len(w) : IsDigit(w[j])
      BY NumeralType
    <2>2. w \in Seq(Digits)
      BY <1>1, <2>1
    <2>3. CASE w = <<"*">>
      <3>1. 1 \in 1 .. Len(w) /\ w[1] = "*"
        BY <2>3
      <3>2. IsDigit("*")
        BY <2>1, <3>1
      <3>3. QED
        BY <3>2, NotDigits
    <2>4. QED
      BY <2>1, <2>2, <2>3
  <1>3. ASSUME NEW w \in NumeralTexts PROVE Value(w, 10) \in Nat
    <2>1. w \in Seq(Digits) /\ "0" \in Digits
      BY <1>2 DEF Digits, digits
    <2>2. Horner(0, w, 10) \in Nat
      BY <2>1, HornerAppend
    <2>3. QED
      BY <2>2, ValueIs
  <1>4. ASSUME NEW w \in NumeralTexts, NEW c, IsDigit(c)
        PROVE  Value(Append(w, c), 10) = Value(w, 10) * 10 + DigitValue(c)
    <2>1. w \in Seq(Digits) /\ c \in Digits
      BY <1>1, <1>2, <1>4
    <2>2. Horner(0, Append(w, c), 10) = Horner(0, w, 10) * 10 + DigitValue(c)
      BY <2>1, HornerAppend
    <2>3. QED
      BY <2>2, ValueIs
  <1>5. ASSUME NEW c, IsDigit(c) PROVE Value(Append(<<>>, c), 10) = DigitValue(c)
    <2>1. <<>> \in Seq(Digits) /\ c \in Digits
      BY <1>1, <1>5
    <2>2. /\ Horner(0, Append(<<>>, c), 10) = Horner(0, <<>>, 10) * 10 + DigitValue(c)
          /\ Horner(0, <<>>, 10) = 0
      BY <2>1, HornerAppend, HornerEmpty
    <2>3. DigitValue(c) \in Nat
      BY <2>1, DigitNat
    <2>4. QED
      BY <2>2, <2>3, ValueIs
  <1>6. QED
    BY <1>2, <1>3, <1>4, <1>5

(* What a text asks for: nothing, an argument, or the number it is.        *)
LEMMA AskedIs ==
  ASSUME NEW w \in WTexts, NEW i
  PROVE  /\ w = <<>> => Asked(w, i) = -1
         /\ w = <<"*">> => Asked(w, i) = args[i]
         /\ w \in NumeralTexts => Asked(w, i) = Value(w, 10) /\ Asked(w, i) \in Nat
         /\ args \in Seq(Int) /\ i \in Int /\ (w = <<"*">> => i \in 1 .. Len(args))
              => Asked(w, i) \in Int
  <1>1. CASE w = <<>>
    <2>1. w \notin NumeralTexts /\ w # <<"*">>
      BY <1>1, NumeralValue
    <2>2. QED
      BY <1>1, <2>1 DEF Asked
  <1>2. CASE w = <<"*">>
    <2>1. w \notin NumeralTexts /\ w # <<>>
      BY <1>2, NumeralValue
    <2>2. Asked(w, i) = args[i]
      BY <1>2, <2>1, Zenon DEF Asked
    <2>3. args \in Seq(Int) /\ i \in 1 .. Len(args) => args[i] \in Int
      OBVIOUS
    <2>4. QED
      BY <1>2, <2>1, <2>2, <2>3
  <1>3. CASE w \in NumeralTexts
    <2>1. w # <<>> /\ w # <<"*">> /\ Value(w, 10) \in Nat
      BY <1>3, NumeralValue
    <2>2. Asked(w, i) = Value(w, 10)
      BY <2>1, Zenon DEF Asked
    <2>3. QED
      BY <2>1, <2>2
  <1>4. QED
    BY <1>1, <1>2, <1>3 DEF WTexts

(* An argument taken later changes no number asked for earlier.            *)
LEMMA AskedKeeps ==
  ASSUME NEW w, NEW i, \/ args' = args
                       \/ /\ args \in Seq(Int) /\ \E v \in Int : args' = Append(args, v)
                          /\ w = <<"*">> => i \in 1 .. Len(args)
  PROVE  Asked(w, i)' = Asked(w, i)
  <1>1. CASE args' = args
    BY <1>1 DEF Asked
  <1>2. ASSUME NEW v \in Int, args \in Seq(Int), args' = Append(args, v),
               w = <<"*">> => i \in 1 .. Len(args)
        PROVE  Asked(w, i)' = Asked(w, i)
    <2>1. CASE w = <<"*">>
      <3>1. args'[i] = args[i] /\ w # <<>>
        BY <1>2, <2>1
      <3>2. QED
        BY <2>1, <3>1, Zenon DEF Asked
    <2>2. CASE w # <<"*">>
      BY <2>2, Zenon DEF Asked
    <2>3. QED
      BY <2>1, <2>2
  <1>3. QED
    BY <1>1, <1>2

LEMMA Dotted ==
  ASSUME NEW x \in Seq(Chars)
  PROVE  /\ <<".">> \o x # <<>> /\ Tail(<<".">> \o x) = x
  <1>1. "." \in Chars
    BY Symbols DEF Known
  <1>2. QED
    BY <1>1

(* A character read makes the escape one character longer.                 *)
LEMMA EscapeGrows ==
  ASSUME FmtTypeOK, ReadInv, pc \in {"spec", "digits"}, ch # NUL,
         fmt' = fmt, start' = start, k' = k + 1
  PROVE  /\ EscapeText \in Seq(Chars) /\ EscapeText # <<>> /\ ch \in Chars
         /\ EscapeText' = Append(EscapeText, ch)
  <1>1. /\ fmt \in Seq(Chars) /\ Len(fmt) \in Nat /\ k \in 0 .. Len(fmt)
        /\ k < Len(fmt) /\ ch = fmt[k + 1] /\ ch \in Chars
    BY FmtRead
  <1>2. start \in 0 .. Len(fmt) /\ start < k
    BY DEF FmtTypeOK, ReadInv
  <1>3. start + 1 \in Nat \ {0} /\ start + 1 <= k + 1
    BY <1>1, <1>2
  <1>4. /\ SubSeq(fmt, start + 1, k) \in Seq(Chars)
        /\ Len(SubSeq(fmt, start + 1, k)) = k - (start + 1) + 1
    BY <1>1, <1>3, SubSeqType
  <1>5. SubSeq(fmt, start + 1, k + 1) = Append(SubSeq(fmt, start + 1, k), fmt[k + 1])
    BY <1>1, <1>3, SubSeqNext
  <1>6. k - (start + 1) + 1 # 0 /\ Len(<<>>) = 0
    BY <1>1, <1>2
  <1>7. EscapeText = SubSeq(fmt, start + 1, k) /\ EscapeText' = SubSeq(fmt, start + 1, k + 1)
    BY DEF EscapeText
  <1>8. QED
    BY <1>1, <1>4, <1>5, <1>6, <1>7, Zenon

(* The escape that Percent begins has nothing behind its '%'.              *)
LEMMA OpeningEmpty ==
  ASSUME NEW flag \in FlagTexts, NEW w \in WTexts, NEW p \in PTexts, NEW l \in LTexts,
         Opening(flag, w, p, l) = <<"%">>
  PROVE  flag = <<>> /\ w = <<>> /\ p = <<>> /\ l = <<>>
  <1>1. /\ Len(Opening(flag, w, p, l)) = 1 + Len(flag) + Len(w) + Len(p) + Len(l)
        /\ flag \in Seq(Chars) /\ w \in Seq(Chars) /\ p \in Seq(Chars) /\ l \in Seq(Chars)
    BY OpeningType
  <1>2. Len(flag) = 0 /\ Len(w) = 0 /\ Len(p) = 0 /\ Len(l) = 0
    BY <1>1
  <1>3. QED
    BY <1>1, <1>2

(* Nothing but the '%' is read.                                            *)
LEMMA ParsePercent ==
  ASSUME FmtTypeOK, ReadInv, Percent
  PROVE  ParseInv'
  <1>1. /\ fmt \in Seq(Chars) /\ Len(fmt) \in Nat /\ k \in 0 .. Len(fmt)
        /\ k < Len(fmt) /\ fmt[k + 1] = "%"
    BY FmtRead DEF Percent, NUL
  <1>2. /\ padc' = Space /\ width' = -1 /\ precision' = -1 /\ lflag' = 0 /\ altflag' = FALSE
        /\ pc' = "spec" /\ k' = k + 1 /\ start' = k /\ args' = <<>> /\ fmt' = fmt
    BY DEF Percent
  <1>3. EscapeText' = <<"%">>
    <2>1. SubSeq(fmt, k + 1, k + 1) = <<fmt[k + 1]>>
      <3>1. k + 1 \in Nat \ {0} /\ k + 1 <= k + 1
        BY <1>1
      <3>2. SubSeq(fmt, k + 1, k) \in Seq(Chars) /\ Len(SubSeq(fmt, k + 1, k)) = k - (k + 1) + 1
        BY <1>1, <3>1, SubSeqType
      <3>3. SubSeq(fmt, k + 1, k) = <<>>
        BY <1>1, <3>2
      <3>4. SubSeq(fmt, k + 1, k + 1) = Append(SubSeq(fmt, k + 1, k), fmt[k + 1])
        BY <1>1, <3>1, SubSeqNext
      <3>5. Append(<<>>, "%") = <<"%">>
        OBVIOUS
      <3>6. QED
        BY <1>1, <3>3, <3>4, <3>5, Zenon
    <2>2. QED
      BY <1>1, <1>2, <2>1 DEF EscapeText
  <1>4. ASSUME NEW flag \in FlagTexts, NEW w \in WTexts, NEW p \in PTexts, NEW l \in LTexts,
               EscapeText' = Opening(flag, w, p, l)
        PROVE  Parsed(flag, w, p, l)' /\ ParsedSpec(w, p, l)'
    <2>1. flag = <<>> /\ w = <<>> /\ p = <<>> /\ l = <<>>
      BY <1>3, <1>4, OpeningEmpty
    <2>2. w \notin NumeralTexts
      BY <2>1, NumeralValue
    <2>3. Asked(w, 1)' = -1
      BY <2>1 DEF Asked
    <2>4. PadOf(flag) = Space /\ Stars(w) = 0 /\ flag # <<"#">> /\ Len(l) = 0
      BY <2>1 DEF PadOf, Stars
    <2>5. ~altflag' /\ Len(args') = 0
      BY <1>2
    <2>6. Parsed(flag, w, p, l)'
      BY <1>2, <2>1, <2>4, <2>5 DEF Parsed
    <2>7. ParsedSpec(w, p, l)'
      BY <1>2, <2>1, <2>2, <2>3 DEF ParsedSpec
    <2>8. QED
      BY <2>6, <2>7
  <1>5. args' \in Seq(Int)
    BY <1>2
  <1>6. QED
    BY <1>2, <1>4, <1>5 DEF ParseInv

(* What was parsed before the character ch is read, and what escape is one *)
(* character longer.                                                       *)
LEMMA ParseBefore ==
  ASSUME FmtTypeOK, ReadInv, ParseInv, pc \in {"spec", "digits"}, ch # NUL,
         fmt' = fmt, start' = start, k' = k + 1,
         NEW flag \in FlagTexts, NEW w \in WTexts, NEW p \in PTexts, NEW l \in LTexts,
         EscapeText' = Opening(flag, w, p, l)
  PROVE  LET Is(f, x, y, z) == /\ Parsed(f, x, y, z)
                               /\ pc = "spec" => ParsedSpec(x, y, z)
                               /\ pc = "digits" => ParsedDigits(x, y, z)
         IN \/ \E m \in LTexts : ch = "l" /\ l = Append(m, ch) /\ Len(l) = Len(m) + 1
                                 /\ Is(flag, w, p, m)
            \/ l = <<>> /\ p = <<".">> /\ ch = "." /\ Is(flag, w, <<>>, <<>>)
            \/ l = <<>> /\ p = <<".">> \o <<"*">> /\ ch = "*" /\ Is(flag, w, <<".">>, <<>>)
            \/ \E y \in {<<>>} \union NumeralTexts :
                 /\ l = <<>> /\ IsDigit(ch) /\ Append(y, ch) \in NumeralTexts
                 /\ p = <<".">> \o Append(y, ch) /\ Is(flag, w, <<".">> \o y, <<>>)
            \/ l = <<>> /\ p = <<>> /\ w = <<"*">> /\ ch = "*" /\ Is(flag, <<>>, <<>>, <<>>)
            \/ \E y \in {<<>>} \union NumeralTexts :
                 /\ l = <<>> /\ p = <<>> /\ IsDigit(ch) /\ Append(y, ch) \in NumeralTexts
                 /\ w = Append(y, ch) /\ Is(flag, y, <<>>, <<>>)
            \/ /\ l = <<>> /\ p = <<>> /\ w = <<>> /\ flag = <<ch>> /\ ch \in {"-", "0", "#"}
               /\ Is(<<>>, <<>>, <<>>, <<>>)
  <1> DEFINE Is(f, x, y, z) == /\ Parsed(f, x, y, z)
                               /\ pc = "spec" => ParsedSpec(x, y, z)
                               /\ pc = "digits" => ParsedDigits(x, y, z)
             e == EscapeText
  <1>1. e \in Seq(Chars) /\ e # <<>> /\ ch \in Chars /\ Append(e, ch) = Opening(flag, w, p, l)
    BY EscapeGrows
  <1>2. \A f \in FlagTexts, x \in WTexts, y \in PTexts, z \in LTexts :
          e = Opening(f, x, y, z) => Is(f, x, y, z)
    BY DEF ParseInv
  <1>3. /\ <<>> \in FlagTexts /\ <<>> \in WTexts /\ <<>> \in LTexts /\ <<>> \in PTexts
        /\ \A x \in {<<>>} \union NumeralTexts : x \in WTexts /\ <<".">> \o x \in PTexts
    BY DEF FlagTexts, WTexts, LTexts, PTexts
  <1>4. <<".">> \in PTexts
    <2>1. <<".">> \o <<>> = <<".">>
      OBVIOUS
    <2>2. QED
      BY <1>3, <2>1
  <1> HIDE DEF Is, e
  <1>5. CASE \E m \in LTexts : ch = "l" /\ l = Append(m, ch) /\ Len(l) = Len(m) + 1
                               /\ e = Opening(flag, w, p, m)
    BY <1>2, <1>5 DEF Is
  <1>6. CASE l = <<>> /\ p = <<".">> /\ ch = "." /\ e = Opening(flag, w, <<>>, <<>>)
    BY <1>2, <1>3, <1>6 DEF Is
  <1>7. CASE l = <<>> /\ p = <<".">> \o <<"*">> /\ ch = "*" /\ e = Opening(flag, w, <<".">>, <<>>)
    BY <1>2, <1>3, <1>4, <1>7 DEF Is
  <1>8. CASE \E y \in {<<>>} \union NumeralTexts :
               /\ l = <<>> /\ IsDigit(ch) /\ Append(y, ch) \in NumeralTexts
               /\ p = <<".">> \o Append(y, ch) /\ e = Opening(flag, w, <<".">> \o y, <<>>)
    BY <1>2, <1>3, <1>8 DEF Is
  <1>9. CASE l = <<>> /\ p = <<>> /\ w = <<"*">> /\ ch = "*" /\ e = Opening(flag, <<>>, <<>>, <<>>)
    BY <1>2, <1>3, <1>9 DEF Is
  <1>10. CASE \E y \in {<<>>} \union NumeralTexts :
                /\ l = <<>> /\ p = <<>> /\ IsDigit(ch) /\ Append(y, ch) \in NumeralTexts
                /\ w = Append(y, ch) /\ e = Opening(flag, y, <<>>, <<>>)
    BY <1>2, <1>3, <1>10 DEF Is
  <1>11. CASE /\ l = <<>> /\ p = <<>> /\ w = <<>> /\ flag = <<ch>> /\ ch \in {"-", "0", "#"}
              /\ e = Opening(<<>>, <<>>, <<>>, <<>>)
    BY <1>2, <1>3, <1>11 DEF Is
  <1>12. Longer(e, ch, flag, w, p, l)
    BY <1>1, OpeningLast
  <1>13. QED
    BY <1>5, <1>6, <1>7, <1>8, <1>9, <1>10, <1>11, <1>12, Zenon DEF Longer

(* The characters of an escape that only one action reads.                 *)
LEMMA ParseLong ==
  ASSUME FmtTypeOK, ReadInv, ParseInv, Long
  PROVE  ParseInv'
  <1>1. /\ pc = "spec" /\ ch = "l" /\ lflag' = lflag + 1 /\ k' = k + 1
        /\ UNCHANGED <<fmt, pc, padc, width, precision, altflag, start, args>>
    BY DEF Long, Case, history
  <1>2. ~IsDigit("l")
    BY NotDigits
  <1>3. args' \in Seq(Int)
    BY <1>1 DEF ParseInv
  <1>4. ASSUME NEW flag \in FlagTexts, NEW w \in WTexts, NEW p \in PTexts, NEW l \in LTexts,
               EscapeText' = Opening(flag, w, p, l)
        PROVE  Parsed(flag, w, p, l)' /\ ParsedSpec(w, p, l)'
    <2>1. \E m \in LTexts : /\ l = Append(m, ch) /\ Len(l) = Len(m) + 1
                            /\ Parsed(flag, w, p, m) /\ ParsedSpec(w, p, m)
      BY <1>1, <1>2, <1>4, ParseBefore DEF NUL
    <2>2. PICK m \in LTexts : /\ l = Append(m, ch) /\ Len(l) = Len(m) + 1
                              /\ Parsed(flag, w, p, m) /\ ParsedSpec(w, p, m)
      BY <2>1
    <2>3. m \in Seq(Chars) /\ ch \in Chars
      BY <1>1, TextTypes, Symbols DEF Known
    <2>4. l # <<>>
      BY <2>2, <2>3
    <2>5. Parsed(flag, w, p, l)'
      BY <1>1, <2>2 DEF Parsed
    <2>6. ParsedSpec(w, p, l)'
      BY <1>1, <2>2, <2>4, AskedKeeps DEF ParsedSpec
    <2>7. QED
      BY <2>5, <2>6
  <1>5. QED
    BY <1>1, <1>3, <1>4 DEF ParseInv

LEMMA ParseDot ==
  ASSUME FmtTypeOK, ReadInv, ParseInv, Dot
  PROVE  ParseInv'
  <1>1. /\ pc = "spec" /\ ch = "." /\ k' = k + 1
        /\ width' = (IF width < 0 THEN 0 ELSE width)
        /\ UNCHANGED <<fmt, pc, padc, precision, lflag, altflag, start, args>>
    BY DEF Dot, Case, history
  <1>2. ~IsDigit(".")
    BY NotDigits
  <1>3. args' \in Seq(Int)
    BY <1>1 DEF ParseInv
  <1>4. ASSUME NEW flag \in FlagTexts, NEW w \in WTexts, NEW p \in PTexts, NEW l \in LTexts,
               EscapeText' = Opening(flag, w, p, l)
        PROVE  Parsed(flag, w, p, l)' /\ ParsedSpec(w, p, l)'
    <2>1. l = <<>> /\ p = <<".">> /\ Parsed(flag, w, <<>>, <<>>) /\ ParsedSpec(w, <<>>, <<>>)
      BY <1>1, <1>2, <1>4, ParseBefore DEF NUL
    <2>2. p # <<>> /\ Tail(p) = <<>>
      BY <2>1
    <2>3. <<>> \notin NumeralTexts /\ Stars(<<>>) = 0 /\ Asked(<<>>, Len(args')) = -1
      BY NumeralValue DEF Stars, Asked
    <2>4. Asked(<<>>, Len(args))' = -1
      BY DEF Asked
    <2>5. Parsed(flag, w, p, l)'
      BY <1>1, <2>1, <2>2, <2>3 DEF Parsed
    <2>6. ParsedSpec(w, p, l)'
      BY <1>1, <2>1, <2>2, <2>3, <2>4, AskedKeeps DEF ParsedSpec
    <2>7. QED
      BY <2>5, <2>6
  <1>5. QED
    BY <1>1, <1>3, <1>4 DEF ParseInv

LEMMA ParseFlag ==
  ASSUME FmtTypeOK, ReadInv, ParseInv, Flag \/ Sharp
  PROVE  ParseInv'
  <1>1. /\ pc = "spec" /\ k' = k + 1
        /\ \/ ch \in {"-", "0"} /\ padc' = ch /\ UNCHANGED altflag
           \/ ch = "#" /\ altflag' = TRUE /\ UNCHANGED padc
        /\ UNCHANGED <<fmt, pc, width, precision, lflag, start, args>>
    BY Zenon DEF Flag, Sharp, Case, history
  <1>2. ~IsDigit("-") /\ ~IsDigit("#")
    BY NotDigits
  <1>3. args' \in Seq(Int)
    BY <1>1 DEF ParseInv
  <1>4. ASSUME NEW flag \in FlagTexts, NEW w \in WTexts, NEW p \in PTexts, NEW l \in LTexts,
               EscapeText' = Opening(flag, w, p, l)
        PROVE  Parsed(flag, w, p, l)' /\ ParsedSpec(w, p, l)'
    <2>1. ASSUME NEW y, y = <<>>
          PROVE  Append(y, "0") \notin NumeralTexts
      <3>1. Append(y, "0")[1] = "0"
        BY <2>1
      <3>2. QED
        BY <3>1, NumeralType
    <2>2. ASSUME NEW y \in NumeralTexts
          PROVE  /\ ParsedSpec(y, <<>>, <<>>) => ~IsDigit(ch)
                 /\ ParsedSpec(w, <<".">> \o y, <<>>) => ~IsDigit(ch)
      <3>1. <<".">> \o y # <<>> /\ Tail(<<".">> \o y) = y
        BY NumeralType, Dotted
      <3>2. QED
        BY <3>1 DEF ParsedSpec
    <2>3. /\ l = <<>> /\ p = <<>> /\ w = <<>> /\ flag = <<ch>>
          /\ Parsed(<<>>, <<>>, <<>>, <<>>) /\ ParsedSpec(<<>>, <<>>, <<>>)
      BY <1>1, <1>2, <1>4, <2>1, <2>2, ParseBefore DEF NUL
    <2>4. PadOf(<<>>) = Space /\ <<>> # <<"#">>
      BY DEF PadOf
    <2>5. padc' = PadOf(flag) /\ (altflag' <=> flag = <<"#">>)
      <3>1. CASE ch \in {"-", "0"} /\ padc' = ch /\ UNCHANGED altflag
        <4>1. flag \in {<<"-">>, <<"0">>} /\ flag # <<"#">> /\ flag[1] = ch
          BY <2>3, <3>1
        <4>2. QED
          BY <2>3, <2>4, <3>1, <4>1 DEF PadOf, Parsed
      <3>2. CASE ch = "#" /\ altflag' = TRUE /\ UNCHANGED padc
        <4>1. flag \notin {<<"-">>, <<"0">>} /\ flag = <<"#">>
          BY <2>3, <3>2
        <4>2. QED
          BY <2>3, <2>4, <3>2, <4>1 DEF PadOf, Parsed
      <3>3. QED
        BY <1>1, <3>1, <3>2
    <2>6. Parsed(flag, w, p, l)'
      BY <1>1, <2>3, <2>5 DEF Parsed
    <2>7. <<>> \notin NumeralTexts
      BY NumeralValue
    <2>8. ParsedSpec(w, p, l)'
      BY <1>1, <2>3, <2>7, AskedKeeps DEF ParsedSpec
    <2>9. QED
      BY <2>6, <2>8
  <1>5. QED
    BY <1>1, <1>3, <1>4 DEF ParseInv

(* A star, a digit, and the character behind the last digit.               *)
LEMMA ParseStar ==
  ASSUME FmtTypeOK, ReadInv, ParseInv, NEW v \in Widths, Star(v)
  PROVE  ParseInv'
  <1>1. /\ pc = "spec" /\ ch = "*" /\ k' = k + 1 /\ ProcessPrecision(v) /\ args' = Append(args, v)
        /\ UNCHANGED <<fmt, pc, padc, lflag, altflag, start>>
    BY DEF Star, Case
  <1>2. ~IsDigit("*")
    BY NotDigits
  <1>3. v \in Int /\ args \in Seq(Int)
    BY <1>1, WordsAssumption DEF ParseInv
  <1>4. /\ args' \in Seq(Int) /\ Len(args') = Len(args) + 1 /\ args'[Len(args) + 1] = v
        /\ Len(args) \in Nat
    BY <1>1, <1>3
  <1>5. /\ <<"*">> \in WTexts /\ <<>> \in WTexts
        /\ <<"*">> \notin NumeralTexts /\ <<>> \notin NumeralTexts
    BY NumeralValue DEF WTexts
  <1>6. \A i : Asked(<<"*">>, i)' = args'[i] /\ Asked(<<>>, i) = -1
    <2>1. <<"*">> # <<>>
      OBVIOUS
    <2>2. QED
      BY <2>1, Zenon DEF Asked
  <1>7. Stars(<<"*">>) = 1 /\ Stars(<<>>) = 0
    BY DEF Stars
  <1>8. ASSUME NEW flag \in FlagTexts, NEW w \in WTexts, NEW p \in PTexts, NEW l \in LTexts,
               EscapeText' = Opening(flag, w, p, l)
        PROVE  Parsed(flag, w, p, l)' /\ ParsedSpec(w, p, l)'
    <2>1. \/ /\ l = <<>> /\ p = <<".">> \o <<"*">>
             /\ Parsed(flag, w, <<".">>, <<>>) /\ ParsedSpec(w, <<".">>, <<>>)
          \/ /\ l = <<>> /\ p = <<>> /\ w = <<"*">>
             /\ Parsed(flag, <<>>, <<>>, <<>>) /\ ParsedSpec(<<>>, <<>>, <<>>)
      BY <1>1, <1>2, <1>8, ParseBefore DEF NUL
    <2>2. CASE /\ l = <<>> /\ p = <<>> /\ w = <<"*">>
               /\ Parsed(flag, <<>>, <<>>, <<>>) /\ ParsedSpec(<<>>, <<>>, <<>>)
      <3>1. Len(args) = 0 /\ width = -1
        BY <1>6, <1>7, <2>2 DEF Parsed, ParsedSpec
      <3>2. width' = v /\ precision' = -1 /\ args'[1] = v
        BY <1>1, <1>4, <3>1 DEF ProcessPrecision
      <3>3. Parsed(flag, w, p, l)'
        BY <1>1, <1>4, <1>7, <2>2, <3>1 DEF Parsed
      <3>4. ParsedSpec(w, p, l)'
        BY <1>5, <1>6, <2>2, <3>2 DEF ParsedSpec
      <3>5. QED
        BY <3>3, <3>4
    <2>3. CASE /\ l = <<>> /\ p = <<".">> \o <<"*">>
               /\ Parsed(flag, w, <<".">>, <<>>) /\ ParsedSpec(w, <<".">>, <<>>)
      <3>1. p # <<>> /\ Tail(p) = <<"*">> /\ <<".">> # <<>> /\ Tail(<<".">>) = <<>>
        <4>1. <<"*">> \in Seq(Chars)
          BY Symbols DEF Known
        <4>2. p # <<>> /\ Tail(p) = <<"*">>
          BY <2>3, <4>1, Dotted
        <4>3. <<".">> # <<>> /\ Tail(<<".">>) = <<>>
          OBVIOUS
        <4>4. QED
          BY <4>2, <4>3
      <3>2. Len(args) = Stars(w)
        BY <1>7, <2>3, <3>1 DEF Parsed, Stars
      <3>3. w = <<"*">> => 1 \in 1 .. Len(args)
        BY <1>7, <3>2
      <3>4. Asked(w, 1)' = Asked(w, 1) /\ Asked(w, 1) \in Int
        BY <1>1, <1>3, <3>3, AskedKeeps, AskedIs
      <3>5. width = (IF Asked(w, 1) < 0 THEN 0 ELSE Asked(w, 1)) /\ ~(width < 0)
        BY <2>3, <3>1, <3>4 DEF ParsedSpec
      <3>6. width' = width /\ precision' = v
        BY <1>1, <3>5 DEF ProcessPrecision
      <3>7. Parsed(flag, w, p, l)'
        BY <1>1, <1>4, <1>7, <2>3, <3>1, <3>2 DEF Parsed, Stars
      <3>8. ParsedSpec(w, p, l)'
        BY <1>4, <1>5, <1>6, <2>3, <3>1, <3>4, <3>5, <3>6 DEF ParsedSpec
      <3>9. QED
        BY <3>7, <3>8
    <2>4. QED
      BY <2>1, <2>2, <2>3
  <1>9. QED
    BY <1>1, <1>4, <1>8 DEF ParseInv

LEMMA ParseDigit ==
  ASSUME FmtTypeOK, ReadInv, ParseInv, Digit
  PROVE  ParseInv'
  <1>1. /\ IsDigit(ch) /\ k' = k + 1 /\ pc' = "digits"
        /\ \/ pc = "spec" /\ ch # "0" /\ precision' = DigitValue(ch)
           \/ pc = "digits" /\ precision' = precision * 10 + DigitValue(ch)
        /\ UNCHANGED <<fmt, padc, width, lflag, altflag, start, args>>
    BY DEF Digit, history
  <1>2. ch \in Chars /\ ch # NUL /\ ch \notin {"-", "#", "l", ".", "*"}
    BY <1>1, NotDigits, DigitIsChar
  <1>3. args' \in Seq(Int) /\ args' = args
    BY <1>1 DEF ParseInv
  <1>4. \A i \in Int, w \in WTexts : Asked(w, i)' = Asked(w, i)
    BY <1>3, AskedKeeps
  (* The number that goes on: what it is from behind the '%' or the '.'. *)
  <1>5. ASSUME NEW y \in {<<>>} \union NumeralTexts,
               pc = "digits" => y \in NumeralTexts /\ precision = Value(y, 10),
               pc = "spec" => y \notin NumeralTexts
        PROVE  precision' = Value(Append(y, ch), 10)
    <2>1. CASE y = <<>>
      <3>1. y \notin NumeralTexts
        BY <2>1, NumeralValue
      <3>2. QED
        BY <1>1, <1>2, <1>5, <2>1, <3>1, NumeralValue
    <2>2. CASE y \in NumeralTexts
      BY <1>1, <1>2, <1>5, <2>2, NumeralValue
    <2>3. QED
      BY <2>1, <2>2
  <1>6. ASSUME NEW flag \in FlagTexts, NEW w \in WTexts, NEW p \in PTexts, NEW l \in LTexts,
               EscapeText' = Opening(flag, w, p, l)
        PROVE  Parsed(flag, w, p, l)' /\ ParsedDigits(w, p, l)'
    <2> DEFINE Is(f, x, y, z) == /\ Parsed(f, x, y, z)
                                 /\ pc = "spec" => ParsedSpec(x, y, z)
                                 /\ pc = "digits" => ParsedDigits(x, y, z)
    <2>1. \/ \E y \in {<<>>} \union NumeralTexts :
               /\ l = <<>> /\ Append(y, ch) \in NumeralTexts
               /\ p = <<".">> \o Append(y, ch) /\ Is(flag, w, <<".">> \o y, <<>>)
          \/ \E y \in {<<>>} \union NumeralTexts :
               /\ l = <<>> /\ p = <<>> /\ Append(y, ch) \in NumeralTexts
               /\ w = Append(y, ch) /\ Is(flag, y, <<>>, <<>>)
          \/ ch = "0" /\ Is(<<>>, <<>>, <<>>, <<>>)
      BY <1>1, <1>2, <1>6, ParseBefore
    <2> HIDE DEF Is
    <2>2. CASE ch = "0" /\ Is(<<>>, <<>>, <<>>, <<>>)
      <3>1. pc = "digits" /\ ParsedDigits(<<>>, <<>>, <<>>)
        BY <1>1, <2>2 DEF Is
      <3>2. QED
        BY <3>1, NumeralValue DEF ParsedDigits
    <2>3. ASSUME NEW y \in {<<>>} \union NumeralTexts,
                 l = <<>>, p = <<>>, Append(y, ch) \in NumeralTexts, w = Append(y, ch),
                 Is(flag, y, <<>>, <<>>)
          PROVE  Parsed(flag, w, p, l)' /\ ParsedDigits(w, p, l)'
      <3>1. /\ pc = "digits" => y \in NumeralTexts /\ precision = Value(y, 10) /\ width = -1
            /\ pc = "spec" => y \notin NumeralTexts /\ width = Asked(y, 1)
        BY <1>1, <2>3 DEF Is, ParsedSpec, ParsedDigits
      <3>2. precision' = Value(w, 10)
        BY <1>5, <2>3, <3>1
      <3>3. width' = -1
        <4>1. pc = "spec" => y = <<>>
          BY <3>1
        <4>2. y = <<>> => Asked(y, 1) = -1
          BY DEF Asked
        <4>3. QED
          BY <1>1, <3>1, <4>1, <4>2
      <3>4. Stars(w) = 0 /\ Stars(y) = 0
        <4>1. w \in NumeralTexts
          BY <2>3
        <4>2. w # <<"*">> /\ (y \in NumeralTexts => y # <<"*">>) /\ <<>> # <<"*">>
          BY <4>1, NumeralValue
        <4>3. QED
          BY <4>2 DEF Stars
      <3>5. Parsed(flag, w, p, l)'
        BY <1>1, <2>3, <3>4 DEF Is, Parsed
      <3>6. ParsedDigits(w, p, l)'
        BY <2>3, <3>2, <3>3 DEF ParsedDigits
      <3>7. QED
        BY <3>5, <3>6
    <2>4. ASSUME NEW y \in {<<>>} \union NumeralTexts,
                 l = <<>>, Append(y, ch) \in NumeralTexts, p = <<".">> \o Append(y, ch),
                 Is(flag, w, <<".">> \o y, <<>>)
          PROVE  Parsed(flag, w, p, l)' /\ ParsedDigits(w, p, l)'
      <3> DEFINE q == <<".">> \o y
                 x == Append(y, ch)
      <3>1. q # <<>> /\ Tail(q) = y /\ p # <<>> /\ Tail(p) = x
        <4>1. <<>> \in Seq(Chars)
          OBVIOUS
        <4>2. y \in Seq(Chars) /\ x \in Seq(Chars)
          BY <2>4, <4>1, NumeralType
        <4>3. QED
          BY <2>4, <4>2, Dotted
      <3>2. Is(flag, w, q, <<>>) /\ x \in NumeralTexts
        BY <2>4
      <3> HIDE DEF q, x
      <3>3. /\ pc = "digits" => /\ y \in NumeralTexts /\ precision = Value(y, 10)
                                /\ width = (IF Asked(w, 1) < 0 THEN 0 ELSE Asked(w, 1))
            /\ pc = "spec" => /\ y \notin NumeralTexts
                              /\ width = (IF Asked(w, 1) < 0 THEN 0 ELSE Asked(w, 1))
        BY <1>1, <3>1, <3>2 DEF Is, ParsedSpec, ParsedDigits
      <3>4. precision' = Value(x, 10)
        BY <1>5, <3>3 DEF x
      <3>5. width' = (IF Asked(w, 1)' < 0 THEN 0 ELSE Asked(w, 1)')
        BY <1>1, <1>4, <3>3
      <3>6. Stars(x) = 0 /\ Stars(y) = 0
        BY <3>2, NumeralValue DEF Stars
      <3>7. Parsed(flag, w, p, l)'
        BY <1>1, <2>4, <3>1, <3>2, <3>6 DEF Is, Parsed
      <3>8. ParsedDigits(w, p, l)'
        BY <2>4, <3>1, <3>2, <3>4, <3>5 DEF ParsedDigits
      <3>9. QED
        BY <3>7, <3>8
    <2>5. QED
      BY <2>1, <2>2, <2>3, <2>4
  <1>7. QED
    BY <1>1, <1>3, <1>6 DEF ParseInv

LEMMA ParseDigitsDone ==
  ASSUME FmtTypeOK, ReadInv, ParseInv, DigitsDone
  PROVE  ParseInv'
  <1>1. /\ pc = "digits" /\ ~IsDigit(ch) /\ ProcessPrecision(precision) /\ pc' = "spec"
        /\ UNCHANGED <<fmt, k, padc, lflag, altflag, start, args>>
    BY DEF DigitsDone, history
  <1>2. ch' = ch /\ EscapeText' = EscapeText /\ args' = args
    BY <1>1 DEF ch, EscapeText
  <1>3. args \in Seq(Int)
    BY <1>1 DEF ParseInv
  <1>4. ASSUME NEW flag \in FlagTexts, NEW w \in WTexts, NEW p \in PTexts, NEW l \in LTexts,
               EscapeText = Opening(flag, w, p, l)
        PROVE  Parsed(flag, w, p, l)' /\ ParsedSpec(w, p, l)'
    <2>1. Parsed(flag, w, p, l) /\ ParsedDigits(w, p, l)
      BY <1>1, <1>4 DEF ParseInv
    <2>2. Parsed(flag, w, p, l)'
      BY <1>1, <2>1 DEF Parsed
    <2>3. CASE p = <<>>
      <3>1. w \in NumeralTexts /\ width = -1 /\ precision = Value(w, 10)
        BY <2>1, <2>3 DEF ParsedDigits
      <3>2. width' = Asked(w, 1) /\ precision' = -1
        BY <1>1, <3>1, AskedIs DEF ProcessPrecision
      <3>3. Asked(w, 1)' = Asked(w, 1)
        BY <1>2, AskedKeeps
      <3>4. ParsedSpec(w, p, l)'
        BY <1>1, <1>2, <2>3, <3>2, <3>3 DEF ParsedSpec
      <3>5. QED
        BY <2>2, <3>4
    <2>4. CASE p # <<>>
      <3> DEFINE x == Tail(p)
      <3>1. /\ x \in NumeralTexts /\ width = (IF Asked(w, 1) < 0 THEN 0 ELSE Asked(w, 1))
            /\ precision = Value(x, 10)
        BY <2>1, <2>4 DEF ParsedDigits
      <3> HIDE DEF x
      <3>2. x \in WTexts
        BY <3>1 DEF WTexts
      <3>3. w = <<"*">> => 1 \in 1 .. Len(args)
        BY <2>1, <2>4, <3>1, NumeralValue DEF Parsed, Stars, x
      <3>4. Asked(w, 1) \in Int
        BY <1>3, <3>3, AskedIs
      <3>5. width' = width /\ precision' = precision
        BY <1>1, <3>1, <3>4 DEF ProcessPrecision
      <3>6. /\ Asked(w, 1)' = Asked(w, 1)
            /\ Asked(x, Len(args))' = Value(x, 10)
        <4>1. Asked(x, Len(args)) = Value(x, 10)
          BY <3>1, <3>2, AskedIs
        <4>2. Asked(x, Len(args))' = Asked(x, Len(args))
          BY <1>2, Zenon DEF Asked
        <4>3. QED
          BY <1>2, <4>1, <4>2, AskedKeeps
      <3>7. ParsedSpec(w, p, l)'
        BY <1>1, <1>2, <2>4, <3>1, <3>5, <3>6 DEF ParsedSpec, x
      <3>8. QED
        BY <2>2, <3>7
    <2>5. QED
      BY <2>3, <2>4
  <1>5. QED
    BY <1>1, <1>2, <1>3, <1>4 DEF ParseInv

(* Every step keeps what was read to what it means.                        *)
LEMMA ParseNext ==
  ASSUME FmtTypeOK, ReadInv, ParseInv, [FmtNext]_fmtvars
  PROVE  ParseInv'
  <1>1. CASE ReadsOn
    BY <1>1, ParseLong, ParseDot, ParseFlag, ParseStar, ParseDigit, ParseDigitsDone DEF ReadsOn
  <1>2. CASE Percent
    BY <1>2, ParsePercent
  <1>3. CASE Literal \/ EndOfFormat \/ Unknown \/ Put
    <2>1. pc' \notin {"spec", "digits"}
      BY <1>3 DEF Literal, EndOfFormat, Unknown, Put
    <2>2. QED
      BY <2>1 DEF ParseInv
  <1>4. CASE Converts
    <2>1. pc' \notin {"spec", "digits"}
      BY <1>4, ConvertsKind
    <2>2. QED
      BY <2>1 DEF ParseInv
  <1>5. CASE PrintnumCalls \/ PrintnumPads
    <2>1. pc' \notin {"spec", "digits"}
      BY <1>5, PrintnumKind
    <2>2. QED
      BY <2>1 DEF ParseInv
  <1>6. CASE UNCHANGED fmtvars
    <2>1. UNCHANGED <<fmt, k, pc, padc, width, precision, lflag, altflag, start, args>>
      BY <1>6 DEF fmtvars, escape, history
    <2>2. ch' = ch /\ EscapeText' = EscapeText
      BY <2>1 DEF ch, EscapeText
    <2>3. ASSUME NEW flag, NEW w, NEW p, NEW l
          PROVE  /\ Parsed(flag, w, p, l) => Parsed(flag, w, p, l)'
                 /\ ParsedSpec(w, p, l) => ParsedSpec(w, p, l)'
                 /\ ParsedDigits(w, p, l) => ParsedDigits(w, p, l)'
      <3>1. Parsed(flag, w, p, l) => Parsed(flag, w, p, l)'
        BY <2>1, Zenon DEF Parsed
      <3>2. ParsedSpec(w, p, l) => ParsedSpec(w, p, l)'
        BY <2>1, <2>2, Zenon DEF ParsedSpec, Asked
      <3>3. ParsedDigits(w, p, l) => ParsedDigits(w, p, l)'
        BY <2>1, Zenon DEF ParsedDigits, Asked
      <3>4. QED
        BY <3>1, <3>2, <3>3
    <2>4. QED
      BY <2>1, <2>2, <2>3, Zenon DEF ParseInv
  <1>7. QED
    BY <1>1, <1>2, <1>3, <1>4, <1>5, <1>6 DEF FmtNext, ReadsOn, Converts

-----------------------------------------------------------------------------
(* An escape and its conversion.                                           *)

LEMMA AppendAt ==
  ASSUME NEW S, NEW s \in Seq(S), NEW v
  PROVE  /\ Len(Append(s, v)) = Len(s) + 1 /\ Append(s, v)[Len(s) + 1] = v
         /\ Len(s) \in Nat
         /\ \A i \in 1 .. Len(s) : Append(s, v)[i] = s[i]
  <1>1. s \in Seq(S \union {v}) /\ v \in S \union {v}
    OBVIOUS
  <1>2. QED
    BY <1>1

(* The documented widths and precisions are among those read.              *)
LEMMA DocumentedTexts ==
  /\ Numerals \subseteq NumeralTexts /\ WidthTexts \subseteq WTexts
  /\ PrecisionTexts \subseteq PTexts
  /\ {<<>>, <<"-">>, <<"#">>} \subseteq FlagTexts /\ {<<>>, <<"0">>} \subseteq FlagTexts
  /\ <<>> \in LTexts /\ {<<>>, <<"l">>, <<"l", "l">>} \subseteq LTexts
  <1>1. Numerals \subseteq NumeralTexts
    BY TextAssumption, Zenon DEF NumeralTexts, DecimalDigits
  <1>2. WidthTexts \subseteq WTexts
    BY <1>1 DEF WidthTexts, WTexts
  <1>3. PrecisionTexts \subseteq PTexts
    BY <1>1, Zenon DEF PrecisionTexts, PTexts, WTexts
  <1>4. QED
    BY <1>1, <1>2, <1>3 DEF FlagTexts, LTexts

(* The conversion of an escape is its last character.                      *)
LEMMA EscapeIs ==
  ASSUME NEW flag \in FlagTexts, NEW w \in WTexts, NEW p \in PTexts, NEW l \in LTexts,
         NEW c \in Chars, NEW e \in Seq(Chars), NEW x \in Chars,
         Append(e, x) = Escape(flag, w, p, l, c)
  PROVE  x = c /\ e = Opening(flag, w, p, l)
  <1> DEFINE o == Opening(flag, w, p, l)
  <1>1. o \in Seq(Chars)
    BY OpeningType
  <1>2. Escape(flag, w, p, l, c) = o \o <<c>>
    BY DEF Escape, Opening
  <1> HIDE DEF o
  <1>3. Append(e, x) = Append(o, c)
    BY <1>1, <1>2, CatOne
  <1>4. x = c /\ e = o
    <2>1. Front(Append(e, x)) = e /\ Append(e, x)[Len(Append(e, x))] = x
      BY FrontAppend
    <2>2. Front(Append(o, c)) = o /\ Append(o, c)[Len(Append(o, c))] = c
      BY <1>1, FrontAppend
    <2>3. QED
      BY <1>3, <2>1, <2>2
  <1>5. QED
    BY <1>4 DEF o

(* Which action converts is told by the character it reads.                *)
LEMMA ConversionIs ==
  ASSUME FmtTypeOK, ReadInv, pc \in {"spec", "digits"}, ch # NUL,
         fmt' = fmt, start' = start, k' = k + 1,
         NEW flag \in FlagTexts, NEW w \in WTexts, NEW p \in PTexts, NEW l \in LTexts,
         NEW c \in Chars, EscapeText' = Escape(flag, w, p, l, c)
  PROVE  ch = c /\ EscapeText = Opening(flag, w, p, l)
  <1> DEFINE e == EscapeText
  <1>1. e \in Seq(Chars) /\ ch \in Chars /\ Append(e, ch) = Escape(flag, w, p, l, c)
    BY EscapeGrows
  <1> HIDE DEF e
  <1>2. QED
    BY <1>1, EscapeIs DEF e

(* A number is printed for one of five conversions, or an error.           *)
NumberRead ==
  pc = "number" =>
    mark = Len(out) /\ start + 1 < k /\ fmt[k] \in {"e", "d", "u", "o", "x", "p"}

(* In `put' everywhere: the escape that was read ends with fmt[k].         *)
LEMMA LastIs ==
  ASSUME FmtTypeOK, ReadInv, start + 1 < k,
         NEW flag \in FlagTexts, NEW w \in WTexts, NEW p \in PTexts, NEW l \in LTexts,
         NEW c \in Chars, EscapeText = Escape(flag, w, p, l, c)
  PROVE  fmt[k] = c
  <1>1. /\ fmt \in Seq(Chars) /\ Len(fmt) \in Nat /\ k \in 0 .. Len(fmt)
    BY FmtRead
  <1>2. start \in 0 .. Len(fmt)
    BY DEF FmtTypeOK
  <1> DEFINE n == k - 1
             e == SubSeq(fmt, start + 1, n)
  <1>3. /\ n \in 0 .. Len(fmt) /\ n < Len(fmt) /\ n + 1 = k
        /\ start + 1 \in Nat \ {0} /\ start + 1 <= n + 1
    BY <1>1, <1>2
  <1> HIDE DEF n
  <1>4. e \in Seq(Chars) /\ SubSeq(fmt, start + 1, n + 1) = Append(e, fmt[n + 1])
    BY <1>1, <1>3, SubSeqType, SubSeqNext
  <1>5. fmt[k] \in Chars
    BY <1>1, <1>2
  <1> HIDE DEF e
  <1>6. Append(e, fmt[k]) = Escape(flag, w, p, l, c)
    BY <1>3, <1>4 DEF EscapeText
  <1>7. QED
    BY <1>4, <1>5, <1>6, EscapeIs

(* What the escapes of the properties do not look like.                    *)
LEMMA EscapeLong ==
  ASSUME NEW flag \in FlagTexts, NEW w \in WTexts, NEW p \in PTexts, NEW l \in LTexts,
         NEW c \in Chars
  PROVE  Escape(flag, w, p, l, c) # <<"%">>
  <1> DEFINE o == Opening(flag, w, p, l)
  <1>1. o \in Seq(Chars)
    BY OpeningType
  <1>2. Len(o) = 1 + Len(flag) + Len(w) + Len(p) + Len(l)
    BY OpeningType
  <1>3. flag \in Seq(Chars) /\ w \in Seq(Chars) /\ p \in Seq(Chars) /\ l \in Seq(Chars)
    BY TextTypes
  <1>4. Len(o) \in Nat /\ Len(o) >= 1
    BY <1>2, <1>3
  <1>5. Escape(flag, w, p, l, c) = o \o <<c>>
    BY DEF Escape, Opening
  <1> HIDE DEF o
  <1>6. Len(o \o <<c>>) = Len(o) + 1
    BY <1>1
  <1>7. Len(<<"%">>) = 1
    OBVIOUS
  <1>8. QED
    BY <1>4, <1>5, <1>6, <1>7

LEMMA NumberReadNext ==
  ASSUME FmtTypeOK, ReadInv, NumberRead, [FmtNext]_fmtvars
  PROVE  NumberRead'
  <1>1. CASE Converts
    <2>1. /\ pc = "spec" /\ ch # NUL /\ k' = k + 1 /\ fmt' = fmt /\ start' = start /\ mark' = mark
          /\ out' = out /\ ch \in {"c", "e", "s", "d", "u", "o", "p", "x", "%"}
      BY <1>1, ConvertsKind DEF NUL, sink
    <2>2. fmt[k + 1] = ch /\ start < k /\ mark = Len(out) /\ k \in Nat /\ start \in Nat
      BY <2>1, FmtRead DEF ReadInv, FmtTypeOK
    <2>3. CASE pc' = "number"
      <3>1. ch \in {"e", "d", "u", "o", "x", "p"}
        <4>1. ~(Char \/ String \/ Escaped)
          BY <2>3, ConvertTextKind
        <4>2. QED
          BY <1>1, <4>1, ConvertNumberKind, ErrorKind DEF Converts
      <3>2. QED
        BY <2>1, <2>2, <3>1 DEF NumberRead
    <2>4. QED
      BY <2>3 DEF NumberRead
  <1>2. CASE PrintnumCalls \/ PrintnumPads
    BY <1>2, PrintnumKind DEF NumberRead, sink, history
  <1>3. CASE ReadsOn
    <2>1. pc' # "number"
      BY <1>3, ReadsOnKind
    <2>2. QED
      BY <2>1 DEF NumberRead
  <1>4. CASE Literal \/ EndOfFormat \/ Unknown \/ Put \/ Percent
    <2>1. pc' # "number"
      BY <1>4 DEF Literal, EndOfFormat, Unknown, Put, Percent
    <2>2. QED
      BY <2>1 DEF NumberRead
  <1>5. CASE UNCHANGED fmtvars
    BY <1>5 DEF fmtvars, sink, history, NumberRead
  <1>6. QED
    BY <1>1, <1>2, <1>3, <1>4, <1>5 DEF FmtNext, ReadsOn, Converts

(* Putting a character of a conversion leaves its text what it was.        *)
LEMMA PutKeeps ==
  ASSUME FmtTypeOK, ReadInv, Put, pc' = "put"
  PROVE  Text' = Text /\ EscapeText' = EscapeText /\ args' = args
  <1>1. /\ todo # <<>> /\ putch(Head(todo)) /\ todo' = Tail(todo) /\ pc # "return"
        /\ UNCHANGED <<fmt, k, start, mark, args>>
    BY DEF Put, history
  <1>2. todo \in Seq(Chars) /\ out \in Seq(Chars) /\ mark \in 0 .. Len(out)
    BY DEF FmtTypeOK
  <1> DEFINE h == Head(todo)
             t == Tail(todo)
             a == SubSeq(out, mark + 1, Len(out))
             b == SubSeq(out', mark + 1, Len(out) + 1)
  <1>3. h \in Chars /\ t \in Seq(Chars) /\ todo = <<h>> \o t
    BY <1>1, <1>2
  <1>4. out' = Append(out, h) /\ out' \in Seq(Chars) /\ Len(out') = Len(out) + 1 /\ Len(out) \in Nat
    BY <1>1, <1>3, PutchType
  <1>5. a \in Seq(Chars) /\ b = Append(a, h)
    <2>1. mark + 1 \in Nat \ {0} /\ Len(out) \in 0 .. Len(out') /\ mark + 1 <= Len(out) + 1
          /\ Len(out) < Len(out')
      BY <1>2, <1>4
    <2>2. b = Append(SubSeq(out', mark + 1, Len(out)), out'[Len(out) + 1])
      BY <1>4, <2>1, SubSeqNext
    <2>3. out'[Len(out) + 1] = h /\ \A j \in 1 .. Len(out) : out'[j] = out[j]
      BY <1>2, <1>4, AppendAt
    <2>4. SubSeq(out', mark + 1, Len(out)) = a
      <3>1. /\ a \in Seq(Chars) /\ Len(a) = Len(out) - (mark + 1) + 1
            /\ \A j \in 1 .. Len(out) - (mark + 1) + 1 : a[j] = out[mark + 1 + j - 1]
        BY <1>2, <1>4, <2>1, SubSeqType
      <3> DEFINE g == SubSeq(out', mark + 1, Len(out))
      <3>2. /\ g \in Seq(Chars) /\ Len(g) = Len(out) - (mark + 1) + 1
            /\ \A j \in 1 .. Len(out) - (mark + 1) + 1 : g[j] = out'[mark + 1 + j - 1]
        BY <1>2, <1>4, <2>1, SubSeqType
      <3> HIDE DEF a, g
      <3>3. ASSUME NEW j \in 1 .. Len(a)
            PROVE  a[j] = g[j]
        <4>1. j \in 1 .. Len(out) - (mark + 1) + 1 /\ mark + 1 + j - 1 \in 1 .. Len(out)
          BY <1>2, <1>4, <3>1
        <4>2. QED
          BY <2>3, <3>1, <3>2, <4>1
      <3>4. a = g
        BY <3>1, <3>2, <3>3, SeqEqual
      <3>5. QED
        BY <3>4 DEF g
    <2>5. a \in Seq(Chars)
      BY <1>2, <1>4, <2>1, SubSeqType
    <2>6. QED
      BY <2>2, <2>3, <2>4, <2>5
  <1> HIDE DEF h, t, a, b
  <1>6. Append(a, h) \o t = a \o (<<h>> \o t)
    BY <1>3, <1>5
  <1>7. Text = a \o todo /\ Text' = b \o t
    BY <1>1, <1>4 DEF Text, a, b, t
  <1>8. QED
    BY <1>1, <1>3, <1>5, <1>6, <1>7 DEF EscapeText

(* What the String step makes of its escape.                               *)
LEMMA StringStep ==
  ASSUME FmtTypeOK, ReadInv, ParseInv, String,
         NEW flag \in {<<>>, <<"-">>, <<"#">>}, NEW w \in WidthTexts, NEW p \in PrecisionTexts,
         EscapeText' = Escape(flag, w, p, <<>>, "s")
  PROVE  \E v \in Strings :
           /\ args'[Len(args')] = v /\ Text' = StringText(v)
           /\ padc = (IF flag = <<"-">> THEN "-" ELSE Space) /\ (altflag <=> flag = <<"#">>)
           /\ width = (IF p # <<>> /\ Asked(w, 1)' < 0 THEN 0 ELSE Asked(w, 1)')
           /\ precision = (IF p = <<>> THEN -1 ELSE Asked(Tail(p), Len(args) - 1)')
           /\ Asked(w, 1)' \in Int
  <1>1. PICK v \in Strings : todo' = StringText(v) /\ args' = Append(args, v)
    BY DEF String, Convert
  <1>2. /\ pc = "spec" /\ ch = "s" /\ k' = k + 1 /\ UNCHANGED <<fmt, start, mark, out>>
    BY DEF String, Convert, Case, sink
  <1>3. /\ flag \in FlagTexts /\ w \in WTexts /\ p \in PTexts /\ <<>> \in LTexts /\ "s" \in Chars
    BY DocumentedTexts, Symbols DEF Known
  <1>4. EscapeText = Opening(flag, w, p, <<>>)
    BY <1>2, <1>3, ConversionIs DEF NUL
  <1>5. args \in Seq(Int) /\ Parsed(flag, w, p, <<>>) /\ ParsedSpec(w, p, <<>>)
    BY <1>2, <1>3, <1>4 DEF ParseInv
  <1>6. /\ Len(args') = Len(args) + 1 /\ args'[Len(args) + 1] = v /\ Len(args) \in Nat
        /\ \A i \in 1 .. Len(args) : args'[i] = args[i] /\ args[i] \in Int
    BY <1>1, <1>5, AppendAt
  <1>7. Text' = todo'
    <2>1. mark = Len(out) /\ out \in Seq(Chars) /\ Len(out) \in Nat
      BY <1>2 DEF ReadInv, FmtTypeOK
    <2>2. SubSeq(out, mark + 1, Len(out)) = <<>>
      BY <2>1
    <2>3. todo' \in Seq(Chars)
      BY <1>1, StringTextIs
    <2>4. Text' = SubSeq(out, mark + 1, Len(out)) \o todo'
      BY <1>2 DEF Text
    <2>5. QED
      BY <2>2, <2>3, <2>4, CatEmpty
  <1>8. padc = (IF flag = <<"-">> THEN "-" ELSE Space) /\ (altflag <=> flag = <<"#">>)
    <2>1. /\ <<"-">>[1] = "-" /\ <<>> # <<"-">> /\ <<"#">> # <<"-">>
          /\ <<>> # <<"0">> /\ <<"#">> # <<"0">>
      OBVIOUS
    <2>2. padc = PadOf(flag) /\ (altflag <=> flag = <<"#">>)
      BY <1>5, Zenon DEF Parsed
    <2>3. padc = (IF flag = <<"-">> THEN "-" ELSE Space)
      BY <2>1, <2>2 DEF PadOf
    <2>4. QED
      BY <2>2, <2>3, Zenon
  <1>9. Asked(w, 1)' = Asked(w, 1) /\ Asked(w, 1) \in Int
    <2>1. w = <<"*">> => 1 \in 1 .. Len(args)
      <3>1. p # <<>> => Stars(Tail(p)) \in {0, 1}
        BY DEF Stars
      <3>2. QED
        BY <1>5, <1>6, <3>1 DEF Parsed, Stars
    <2>2. w = <<"*">> => args'[1] = args[1]
      BY <1>6, <2>1
    <2>3. Asked(w, 1)' = Asked(w, 1)
      BY <2>2, Zenon DEF Asked
    <2>4. QED
      BY <1>3, <1>5, <2>1, <2>3, AskedIs
  <1>10. p # <<>> => Asked(Tail(p), Len(args) - 1)' = Asked(Tail(p), Len(args))
    <2> SUFFICES ASSUME p # <<>>
                 PROVE  Asked(Tail(p), Len(args) - 1)' = Asked(Tail(p), Len(args))
      OBVIOUS
    <2> DEFINE t == Tail(p)
    <2>1. t = <<"*">> => Len(args) \in 1 .. Len(args)
      <3>1. Stars(w) \in {0, 1}
        BY DEF Stars
      <3>2. QED
        BY <1>5, <1>6, <3>1 DEF Parsed, Stars
    <2> HIDE DEF t
    <2>2. Len(args') - 1 = Len(args)
      BY <1>6
    <2>3. t = <<"*">> => args'[Len(args') - 1] = args[Len(args)]
      BY <1>6, <2>1, <2>2
    <2>4. Asked(t, Len(args) - 1)' = Asked(t, Len(args))
      BY <2>3, Zenon DEF Asked, t
    <2>5. QED
      BY <2>4 DEF t
  <1>11. /\ width = (IF p # <<>> /\ Asked(w, 1) < 0 THEN 0 ELSE Asked(w, 1))
         /\ precision = (IF p = <<>> THEN -1 ELSE Asked(Tail(p), Len(args)))
    BY <1>5 DEF ParsedSpec
  <1>12. args'[Len(args')] = v
    BY <1>6
  <1>13. precision = (IF p = <<>> THEN -1 ELSE Asked(Tail(p), Len(args) - 1)')
    BY <1>10, <1>11
  <1>14. width = (IF p # <<>> /\ Asked(w, 1)' < 0 THEN 0 ELSE Asked(w, 1)')
    BY <1>9, <1>11
  <1>15. QED
    BY <1>1, <1>7, <1>8, <1>9, <1>12, <1>13, <1>14

-----------------------------------------------------------------------------
(* Strings.                                                                *)

(* The text of a string, in the field its width and flag ask for.          *)
LEMMA StringField ==
  ASSUME FmtTypeOK, NEW v \in Strings, NEW flag \in {<<>>, <<"-">>, <<"#">>}, NEW wv \in Int,
         padc = (IF flag = <<"-">> THEN "-" ELSE Space), altflag <=> flag = <<"#">>,
         width = wv \/ (wv < 0 /\ width = 0)
  PROVE  LET t == StringText(v)
             s == Argument(v)
             n == Shown(v)
             from == IF flag = <<"-">> \/ wv <= n THEN 1 ELSE wv - n + 1
         IN /\ Len(t) = (IF wv > n THEN wv ELSE n)
            /\ \A j \in 1 .. Len(t) :
                 IF j \in from .. from + n - 1
                   THEN IF flag = <<"#">> /\ s[j - from + 1] \in Unprintable
                          THEN t[j] = "?" ELSE t[j] = s[j - from + 1]
                   ELSE t[j] = Space
  <1> DEFINE t == StringText(v)
             s == Argument(v)
             n == Shown(v)
             from == IF flag = <<"-">> \/ wv <= n THEN 1 ELSE wv - n + 1
             b == IF Before(v) > 0 THEN Before(v) ELSE 0
             a == IF After(v) > 0 THEN After(v) ELSE 0
  <1>1. s \in Seq(Chars) /\ n \in Nat /\ Before(v) \in Int /\ After(v) \in Int
    BY ArgumentType
  <1>2. /\ Len(t) = b + n + a
        /\ \A j \in 1 .. Len(t) :
             t[j] = IF j <= b THEN padc ELSE IF j <= b + n THEN Visible(s[j - b]) ELSE Space
    BY StringTextIs
  <1>3. padc = "-" <=> flag = <<"-">>
    BY DEF Space
  <1>4. /\ Before(v) = (IF width > 0 /\ flag # <<"-">> THEN width - n ELSE 0)
        /\ After(v) = (IF width > 0 /\ flag # <<"-">> THEN 0 ELSE width - n)
    BY <1>3 DEF Before, After
  <1> HIDE DEF t, s, n
  <1>5. width \in Int
    BY DEF FmtTypeOK
  <1>6. b \in Nat /\ from = b + 1 /\ b + n + a = (IF wv > n THEN wv ELSE n) /\ a \in Nat
    BY <1>1, <1>4, <1>5
  <1>7. b > 0 => padc = Space
    BY <1>4
  <1>8. \A c : Visible(c) = IF flag = <<"#">> /\ c \in Unprintable THEN "?" ELSE c
    BY Zenon DEF Visible
  <1> HIDE DEF b, a, from
  <1>9. ASSUME NEW j \in 1 .. Len(t)
        PROVE  IF j \in from .. from + n - 1
                 THEN IF flag = <<"#">> /\ s[j - from + 1] \in Unprintable
                        THEN t[j] = "?" ELSE t[j] = s[j - from + 1]
                 ELSE t[j] = Space
    <2>1. CASE j <= b
      <3>1. t[j] = Space /\ j \notin from .. from + n - 1
        BY <1>1, <1>2, <1>6, <1>7, <2>1
      <3>2. QED
        BY <3>1
    <2>2. CASE j > b /\ j <= b + n
      <3>1. j \in from .. from + n - 1 /\ j - from + 1 = j - b /\ t[j] = Visible(s[j - b])
        BY <1>1, <1>2, <1>6, <2>2
      <3>2. QED
        BY <1>8, <3>1
    <2>3. CASE j > b + n
      <3>1. t[j] = Space /\ j \notin from .. from + n - 1
        BY <1>1, <1>2, <1>6, <2>3
      <3>2. QED
        BY <3>1
    <2>4. QED
      BY <1>1, <1>6, <2>1, <2>2, <2>3
  <1>10. Len(t) = (IF wv > n THEN wv ELSE n)
    BY <1>2, <1>6
  <1>11. QED
    BY <1>9, <1>10 DEF t, s, n, from

(* The text t is what a string v is to look like.                          *)
StringShown(t, v, flag, wv, pv) ==
  LET s == IF v = Null THEN <<"(", "n", ")">> ELSE v
      n == IF pv < 0 \/ pv > Len(s) THEN Len(s) ELSE pv
      from == IF flag = <<"-">> \/ wv <= n THEN 1 ELSE wv - n + 1
  IN /\ Len(t) = (IF wv > n THEN wv ELSE n)
     /\ \A j \in 1 .. Len(t) :
          IF j \in from .. from + n - 1
            THEN IF flag = <<"#">> /\ s[j - from + 1] \in Unprintable
                   THEN t[j] = "?" ELSE t[j] = s[j - from + 1]
            ELSE t[j] = Space

(* n characters of s stand at place `from' of t, among spaces.             *)
StringPlaced(t, s, n, from, wv, flag) ==
  /\ Len(t) = (IF wv > n THEN wv ELSE n)
  /\ \A j \in 1 .. Len(t) :
       IF j \in from .. from + n - 1
         THEN IF flag = <<"#">> /\ s[j - from + 1] \in Unprintable
                THEN t[j] = "?" ELSE t[j] = s[j - from + 1]
         ELSE t[j] = Space

LEMMA StringShownIs ==
  ASSUME NEW t, NEW v, NEW flag, NEW wv, NEW pv, NEW s, NEW n, NEW from,
         s = (IF v = Null THEN <<"(", "n", ")">> ELSE v),
         n = (IF pv < 0 \/ pv > Len(s) THEN Len(s) ELSE pv),
         from = (IF flag = <<"-">> \/ wv <= n THEN 1 ELSE wv - n + 1),
         StringPlaced(t, s, n, from, wv, flag)
  PROVE  StringShown(t, v, flag, wv, pv)
  BY DEF StringShown, StringPlaced

(* A string is put as it was documented.                                   *)
LEMMA StringsString ==
  ASSUME FmtTypeOK, ReadInv, ParseInv, String
  PROVE  StringsRight'
  <1> SUFFICES ASSUME NEW flag \in {<<>>, <<"-">>, <<"#">>}, NEW w \in WidthTexts,
                      NEW p \in PrecisionTexts,
                      EscapeText' = Escape(flag, w, p, <<>>, "s")
               PROVE  StringShown(Text', args'[Len(args')], flag, Asked(w, 1)',
                        IF p = <<>> THEN -1 ELSE Asked(Tail(p), Len(args) - 1)')
    BY Zenon DEF StringsRight, StringShown
  <1>1. PICK v \in Strings :
           /\ args'[Len(args')] = v /\ Text' = StringText(v)
           /\ padc = (IF flag = <<"-">> THEN "-" ELSE Space) /\ (altflag <=> flag = <<"#">>)
           /\ width = (IF p # <<>> /\ Asked(w, 1)' < 0 THEN 0 ELSE Asked(w, 1)')
           /\ precision = (IF p = <<>> THEN -1 ELSE Asked(Tail(p), Len(args) - 1)')
           /\ Asked(w, 1)' \in Int
    BY StringStep
  <1> DEFINE s == Argument(v)
             n == Shown(v)
             wv == Asked(w, 1)'
             pv == IF p = <<>> THEN -1 ELSE Asked(Tail(p), Len(args) - 1)'
             t == StringText(v)
             from == IF flag = <<"-">> \/ wv <= n THEN 1 ELSE wv - n + 1
  <1>2. StringPlaced(t, s, n, from, wv, flag)
    BY <1>1, StringField DEF StringPlaced
  <1>3. n = (IF pv < 0 \/ pv > Len(s) THEN Len(s) ELSE pv)
    BY <1>1 DEF Shown
  <1>4. s = IF v = Null THEN <<"(", "n", ")">> ELSE v
    BY DEF Argument
  <1>5. StringShown(t, v, flag, wv, pv)
    <2> HIDE DEF s, n, wv, pv, t, from
    <2>1. from = IF flag = <<"-">> \/ wv <= n THEN 1 ELSE wv - n + 1
      BY DEF from
    <2>2. QED
      BY <1>2, <1>3, <1>4, <2>1, StringShownIs
  <1>6. QED
    BY <1>1, <1>5

(* Where the text of a conversion can come from.                           *)
LEMMA PutFrom ==
  ASSUME FmtTypeOK, ReadInv, FmtNext, pc' = "put"
  PROVE  \/ Converts
         \/ PrintnumPads
         \/ Unknown
         \/ Put
  <1>1. ~(Literal \/ Percent \/ EndOfFormat \/ PrintnumCalls)
    BY DEF Literal, Percent, EndOfFormat, PrintnumCalls
  <1>2. ~ReadsOn
    BY ReadsOnKind
  <1>3. QED
    BY <1>1, <1>2 DEF FmtNext, ReadsOn, Converts

(* What is no escape is not taken for a documented one.                    *)
LEMMA UnknownEscape ==
  ASSUME FmtTypeOK, ReadInv, Unknown
  PROVE  EscapeText' = <<"%">>
  <1>1. /\ fmt \in Seq(Chars) /\ Len(fmt) \in Nat /\ k \in 0 .. Len(fmt)
    BY FmtRead
  <1>2. /\ k' = start + 1 /\ fmt' = fmt /\ start' = start
        /\ start \in Nat /\ start < k /\ fmt[start + 1] = "%"
    BY <1>1 DEF Unknown, history, ReadInv, FmtTypeOK
  <1> DEFINE n == start + 1
  <1>3. n \in Nat \ {0} /\ start \in 0 .. Len(fmt) /\ start < Len(fmt)
    BY <1>1, <1>2
  <1>4. SubSeq(fmt, n, start) \in Seq(Chars) /\ Len(SubSeq(fmt, n, start)) = start - n + 1
    BY <1>1, <1>3, SubSeqType
  <1>5. SubSeq(fmt, n, start + 1) = Append(SubSeq(fmt, n, start), fmt[start + 1])
    BY <1>1, <1>3, SubSeqNext
  <1>6. SubSeq(fmt, n, start) = <<>>
    BY <1>3, <1>4
  <1>7. Append(<<>>, "%") = <<"%">>
    OBVIOUS
  <1>8. QED
    BY <1>2, <1>5, <1>6, <1>7, Zenon DEF EscapeText

(* While a conversion is put its text stays right.                         *)
LEMMA StringsKeep ==
  ASSUME StringsRight, pc = "put", Text' = Text, EscapeText' = EscapeText, args' = args
  PROVE  StringsRight'
  <1> SUFFICES ASSUME NEW flag \in {<<>>, <<"-">>, <<"#">>}, NEW w \in WidthTexts,
                      NEW p \in PrecisionTexts,
                      EscapeText' = Escape(flag, w, p, <<>>, "s")
               PROVE  StringShown(Text', args'[Len(args')], flag, Asked(w, 1)',
                        IF p = <<>> THEN -1 ELSE Asked(Tail(p), Len(args) - 1)')
    BY Zenon DEF StringsRight, StringShown
  <1>1. EscapeText = Escape(flag, w, p, <<>>, "s")
    OBVIOUS
  <1>2. StringShown(Text, args[Len(args)], flag, Asked(w, 1),
                    IF p = <<>> THEN -1 ELSE Asked(Tail(p), Len(args) - 1))
    <2>1. \A f \in {<<>>, <<"-">>, <<"#">>}, x \in WidthTexts, y \in PrecisionTexts :
            EscapeText = Escape(f, x, y, <<>>, "s")
              => StringShown(Text, args[Len(args)], f, Asked(x, 1),
                             IF y = <<>> THEN -1 ELSE Asked(Tail(y), Len(args) - 1))
      BY Zenon DEF StringsRight, StringShown
    <2>2. QED
      BY <1>1, <2>1, Zenon
  <1>3. Asked(w, 1)' = Asked(w, 1)
    BY Zenon DEF Asked
  <1>4. Asked(Tail(p), Len(args) - 1)' = Asked(Tail(p), Len(args) - 1)
    BY Zenon DEF Asked
  <1>5. QED
    BY <1>2, <1>3, <1>4

LEMMA StringsNext ==
  ASSUME FmtTypeOK, ReadInv, ParseInv, NumberRead, StringsRight, [FmtNext]_fmtvars
  PROVE  StringsRight'
  <1>1. CASE String
    BY <1>1, StringsString
  <1>2. CASE Put /\ pc' = "put"
    <2>1. pc = "put"
      BY <1>2 DEF Put
    <2>2. Text' = Text /\ EscapeText' = EscapeText /\ args' = args
      BY <1>2, PutKeeps
    <2>3. QED
      BY <2>1, <2>2, StringsKeep
  <1>3. ASSUME pc' = "put",
               \A flag \in FlagTexts, w \in WTexts, p \in PTexts :
                 EscapeText' # Escape(flag, w, p, <<>>, "s")
        PROVE  StringsRight'
    <2> SUFFICES ASSUME NEW flag \in {<<>>, <<"-">>, <<"#">>}, NEW w \in WidthTexts,
                        NEW p \in PrecisionTexts,
                        EscapeText' = Escape(flag, w, p, <<>>, "s")
                 PROVE  StringShown(Text', args'[Len(args')], flag, Asked(w, 1)',
                          IF p = <<>> THEN -1 ELSE Asked(Tail(p), Len(args) - 1)')
      BY Zenon DEF StringsRight, StringShown
    <2>1. flag \in FlagTexts /\ w \in WTexts /\ p \in PTexts
      BY DocumentedTexts
    <2>2. QED
      BY <1>3, <2>1
  <1>4. CASE Converts /\ ~String
    <2>1. /\ pc = "spec" /\ ch # NUL /\ k' = k + 1 /\ UNCHANGED <<fmt, start>>
          /\ ch \in {"c", "e", "s", "d", "u", "o", "p", "x", "%"}
      BY <1>4, ConvertsKind DEF NUL
    <2>2. ch # "s"
      BY <1>4 DEF Converts, Char, Escaped, Convert, Case, Error, Signed, Unsigned, Pointer,
                  ConvertNumber
    <2>3. "s" \in Chars /\ <<>> \in LTexts
      BY Symbols, DocumentedTexts DEF Known
    <2>4. \A flag \in FlagTexts, w \in WTexts, p \in PTexts :
            EscapeText' # Escape(flag, w, p, <<>>, "s")
      BY <2>1, <2>2, <2>3, ConversionIs
    <2>5. CASE pc' # "put"
      BY <2>5 DEF StringsRight
    <2>6. QED
      BY <1>3, <2>4, <2>5
  <1>5. CASE PrintnumPads
    <2>1. /\ pc = "number" /\ UNCHANGED <<fmt, k, start>>
      BY <1>5 DEF PrintnumPads, history
    <2>2. EscapeText' = EscapeText /\ start + 1 < k /\ fmt[k] # "s"
      BY <2>1 DEF EscapeText, NumberRead
    <2>3. "s" \in Chars /\ <<>> \in LTexts
      BY Symbols, DocumentedTexts DEF Known
    <2>4. \A flag \in FlagTexts, w \in WTexts, p \in PTexts :
            EscapeText' # Escape(flag, w, p, <<>>, "s")
      BY <2>2, <2>3, LastIs
    <2>5. pc' = "put"
      BY <1>5 DEF PrintnumPads
    <2>6. QED
      BY <1>3, <2>4, <2>5
  <1>6. CASE Unknown
    <2>1. EscapeText' = <<"%">> /\ "s" \in Chars /\ <<>> \in LTexts
      BY <1>6, UnknownEscape, Symbols, DocumentedTexts DEF Known
    <2>2. \A flag \in FlagTexts, w \in WTexts, p \in PTexts :
            EscapeText' # Escape(flag, w, p, <<>>, "s")
      BY <2>1, EscapeLong
    <2>3. pc' = "put"
      BY <1>6 DEF Unknown
    <2>4. QED
      BY <1>3, <2>2, <2>3
  <1>7. CASE pc' # "put"
    BY <1>7 DEF StringsRight
  <1>8. CASE UNCHANGED fmtvars
    <2>1. UNCHANGED <<pc, fmt, k, out, todo, start, mark, args>>
      BY <1>8 DEF fmtvars, sink, history
    <2>2. Text' = Text /\ EscapeText' = EscapeText /\ args' = args
      BY <2>1 DEF Text, EscapeText
    <2>3. QED
      BY <1>7, <2>1, <2>2, StringsKeep
  <1>9. QED
    BY <1>1, <1>2, <1>4, <1>5, <1>6, <1>7, <1>8, PutFrom

LEMMA StringsInit == FmtInit => ParseInv /\ NumberRead /\ StringsRight
  <1> SUFFICES ASSUME FmtInit PROVE ParseInv /\ NumberRead /\ StringsRight
    OBVIOUS
  <1>1. pc \in {"text", "return"}
    BY DEF FmtInit
  <1>2. QED
    BY <1>1 DEF ParseInv, NumberRead, StringsRight

(* Every documented string comes out right, for every format, argument,    *)
(* width and precision (printfmt.c:176-191).                               *)
THEOREM StringsCorrect == FmtSpec => []StringsRight
  <1> DEFINE Inv == FmtTypeOK /\ ReadInv /\ ParseInv /\ NumberRead /\ StringsRight
  <1>1. FmtInit => Inv
    BY FmtInitOK, StringsInit
  <1>2. Inv /\ [FmtNext]_fmtvars => Inv'
    BY FmtNextOK, ParseNext, NumberReadNext, StringsNext
  <1>3. Inv => StringsRight
    OBVIOUS
  <1> HIDE DEF Inv
  <1>4. QED
    BY <1>1, <1>2, <1>3, PTL DEF FmtSpec

-----------------------------------------------------------------------------
(* Numbers.                                                                *)

(* What a number v, converted by c with l before it, is printed as: behind *)
(* which sign, which number, in which base.                                *)
IsNegative(v, c) == c = "d" /\ v < 0
PrintedSign(v, c) == IF IsNegative(v, c) THEN <<"-">> ELSE IF c = "p" THEN <<"0", "x">> ELSE <<>>
PrintedNumber(v, l, c) ==
  LET values == IF l = <<"l", "l">> /\ c # "p" THEN ULLONG ELSE UINT
  IN IF IsNegative(v, c) THEN -v ELSE IF v < 0 THEN v + values ELSE v
PrintedBase(c) == IF c \in {"d", "u"} THEN 10 ELSE IF c = "o" THEN 8 ELSE 16

(* The number of a negative argument wraps twice, the least one's too.     *)
LEMMA SignedIs ==
  ASSUME NEW v \in Ints \union LongLongs, NEW l
  PROVE  /\ SignedValue(v) = PrintedNumber(v, l, "d") /\ SignedValue(v) \in Nat
         /\ Minus(v) = PrintedSign(v, "d")
  <1>1. /\ v \in Int /\ v >= -(LLONG_MAX + 1) /\ v <= LLONG_MAX /\ LLONG_MAX \in Nat
    BY FmtWords
  <1>2. ULLONG = 2 * (LLONG_MAX + 1) /\ ULLONG \in Nat \ {0}
    BY <1>1 DEF ULLONG
  <1> DEFINE g == v % ULLONG
  <1>3. g = (IF v < 0 THEN v + ULLONG ELSE v)
    <2>1. v >= -ULLONG /\ v < ULLONG /\ v # -ULLONG
      BY <1>1, <1>2
    <2>2. QED
      BY <1>1, <1>2, <2>1, Wrap
  <1> HIDE DEF g
  <1>4. Negative(g) <=> v < 0
    BY <1>1, <1>2, <1>3 DEF Negative
  <1>5. v < 0 => (ULLONG - g) % ULLONG = -v
    <2> SUFFICES ASSUME v < 0 PROVE (ULLONG - g) % ULLONG = -v
      OBVIOUS
    <2>1. ULLONG - g = -v /\ -v \in Int /\ -v >= 0 /\ -v < ULLONG
      BY <1>1, <1>2, <1>3
    <2> DEFINE z == ULLONG - g
    <2>2. z \in Int /\ z >= 0 /\ z < ULLONG /\ z = -v
      BY <2>1
    <2> HIDE DEF z
    <2>3. z % ULLONG = z
      BY <1>2, <2>2, Wrap
    <2>4. QED
      BY <2>2, <2>3 DEF z
  <1>6. getint(v) = g
    BY DEF getint, g
  <1>7. SignedValue(v) = IF v < 0 THEN (ULLONG - g) % ULLONG ELSE g
    BY <1>4, <1>6, Zenon DEF SignedValue, Magnitude
  <1>8. Minus(v) = IF v < 0 THEN <<"-">> ELSE <<>>
    BY <1>4, <1>6, Zenon DEF Minus
  <1>9. SignedValue(v) = IF v < 0 THEN -v ELSE v
    BY <1>3, <1>5, <1>7
  <1>10. "d" # "p"
    OBVIOUS
  <1>11. QED
    BY <1>1, <1>8, <1>9, <1>10 DEF PrintedNumber, PrintedSign, IsNegative

(* An unsigned argument and a pointer are what they are modulo a word.     *)
LEMMA UnsignedIs ==
  ASSUME FmtTypeOK, NEW l \in LTexts, lflag = Len(l), NEW v \in Numbers, NEW c \in {"u", "o", "x"}
  PROVE  /\ getuint(v) = PrintedNumber(v, l, c) /\ getuint(v) \in Nat
         /\ Nothing(v) = PrintedSign(v, c)
  <1>1. lflag >= 2 <=> l = <<"l", "l">>
    BY DEF LTexts
  <1> DEFINE values == IF l = <<"l", "l">> THEN ULLONG ELSE UINT
  <1>2. /\ v \in Int /\ values \in Nat \ {0} /\ v >= -values /\ v < values /\ v # -values
    BY <1>1, FmtWords DEF Numbers, UINT, ULLONG
  <1>3. getuint(v) = v % values
    BY <1>1, Zenon DEF getuint
  <1> HIDE DEF values
  <1>4. getuint(v) = (IF v < 0 THEN v + values ELSE v)
    BY <1>2, <1>3, Wrap
  <1>5. c # "d" /\ c # "p"
    OBVIOUS
  <1>6. PrintedNumber(v, l, c) = IF v < 0 THEN v + values ELSE v
    BY <1>5, Zenon DEF PrintedNumber, IsNegative, values
  <1>7. PrintedSign(v, c) = <<>>
    BY <1>5, Zenon DEF PrintedSign, IsNegative
  <1>8. QED
    BY <1>2, <1>4, <1>6, <1>7 DEF Nothing

LEMMA PointerIs ==
  ASSUME NEW v \in Ints, NEW l
  PROVE  /\ PointerValue(v) = PrintedNumber(v, l, "p") /\ PointerValue(v) \in Nat
         /\ Hex(v) = PrintedSign(v, "p")
  <1>1. /\ v \in Int /\ UINT \in Nat \ {0} /\ v >= -UINT /\ v < UINT /\ v # -UINT
    BY FmtWords DEF UINT
  <1>2. PointerValue(v) = (IF v < 0 THEN v + UINT ELSE v)
    BY <1>1, Wrap DEF PointerValue
  <1>3. "p" # "d"
    OBVIOUS
  <1>4. PrintedNumber(v, l, "p") = IF v < 0 THEN v + UINT ELSE v
    BY <1>3, Zenon DEF PrintedNumber, IsNegative
  <1>5. PrintedSign(v, "p") = <<"0", "x">>
    BY <1>3, Zenon DEF PrintedSign, IsNegative
  <1>6. QED
    BY <1>1, <1>2, <1>4, <1>5 DEF Hex

(* While a number is printed: its last digits wait to be put, those before *)
(* them are the number that is left.                                       *)
Pending(flag, w, l, c) ==
  LET v == args[Len(args)]
  IN /\ base = PrintedBase(c) /\ sign = PrintedSign(v, c)
     /\ padc = (IF flag = <<>> THEN Space ELSE "0")
     /\ width + Len(todo) = Asked(w, 1)
     /\ \A j \in 1 .. Len(todo) : \E d \in 1 .. base : digits[d] = todo[j]
     /\ todo # <<>> => num >= 1
     /\ Horner(num, todo, base) = PrintedNumber(v, l, c)

(* This holds for whatever documented number the escape is.                *)
NumberInv ==
  pc = "number" => \A flag \in {<<>>, <<"0">>}, w \in WTexts, l \in LTexts,
                      c \in {"d", "u", "o", "x", "p"} :
    EscapeText = Escape(flag, w, <<>>, l, c) => Pending(flag, w, l, c)

(* What a number conversion begins with.                                   *)
LEMMA NumberBegins ==
  ASSUME FmtTypeOK, ReadInv, ParseInv,
         Signed \/ Unsigned \/ Pointer
  PROVE  NumberInv'
  <1>1. /\ pc = "spec" /\ ch \in {"d", "u", "o", "x", "p"} /\ k' = k + 1 /\ pc' = "number"
        /\ UNCHANGED <<fmt, escape, todo, sink, start, mark>>
    BY ConvertNumberKind
  <1> SUFFICES ASSUME NEW flag \in {<<>>, <<"0">>}, NEW w \in WTexts, NEW l \in LTexts,
                      NEW c \in {"d", "u", "o", "x", "p"},
                      EscapeText' = Escape(flag, w, <<>>, l, c)
               PROVE  Pending(flag, w, l, c)'
    BY DEF NumberInv
  <1>2. flag \in FlagTexts /\ <<>> \in PTexts /\ c \in Chars
    BY Symbols DEF FlagTexts, PTexts, Known
  <1>3. ch = c /\ EscapeText = Opening(flag, w, <<>>, l)
    BY <1>1, <1>2, ConversionIs DEF NUL
  <1>4. args \in Seq(Int) /\ Parsed(flag, w, <<>>, l) /\ ParsedSpec(w, <<>>, l)
    BY <1>1, <1>2, <1>3 DEF ParseInv
  <1>5. /\ padc = PadOf(flag) /\ lflag = Len(l) /\ Len(args) = Stars(w) /\ width = Asked(w, 1)
    <2>1. padc = PadOf(flag) /\ lflag = Len(l) /\ Len(args) = Stars(w) + 0
      BY <1>4 DEF Parsed
    <2>2. Stars(w) + 0 = Stars(w)
      BY DEF Stars
    <2>3. width = Asked(w, 1)
      BY <1>4 DEF ParsedSpec
    <2>4. QED
      BY <2>1, <2>2, <2>3
  <1>6. todo = <<>>
    BY <1>1 DEF ReadInv
  <1>7. \E v : /\ args' = Append(args, v) /\ num' \in Nat /\ base' = PrintedBase(c)
               /\ num' = PrintedNumber(v, l, c) /\ sign' = PrintedSign(v, c)
    <2>1. CASE Signed
      <3>1. PICK v \in Numbers : /\ num' = SignedValue(v) /\ sign' = Minus(v)
                                 /\ args' = Append(args, v)
        BY <2>1 DEF Signed, ConvertNumber
      <3>2. v \in Ints \union LongLongs /\ c = "d" /\ base' = 10
        BY <1>3, <2>1, <3>1 DEF Signed, ConvertNumber, Case, Numbers
      <3>3. QED
        BY <3>1, <3>2, SignedIs DEF PrintedBase
    <2>2. CASE Unsigned
      <3>1. PICK v \in Numbers : num' = getuint(v) /\ sign' = Nothing(v) /\ args' = Append(args, v)
        BY <2>2 DEF Unsigned, ConvertNumber
      <3>2. c \in {"u", "o", "x"} /\ base' = PrintedBase(c)
        BY <1>3, <2>2 DEF Unsigned, ConvertNumber, Case, PrintedBase
      <3>3. QED
        BY <1>5, <3>1, <3>2, UnsignedIs
    <2>3. CASE Pointer
      <3>1. PICK v \in Ints : num' = PointerValue(v) /\ sign' = Hex(v) /\ args' = Append(args, v)
        BY <2>3 DEF Pointer, ConvertNumber
      <3>2. c = "p" /\ base' = 16
        BY <1>3, <2>3 DEF Pointer, ConvertNumber, Case
      <3>3. QED
        BY <3>1, <3>2, PointerIs DEF PrintedBase
    <2>4. QED
      BY <2>1, <2>2, <2>3
  <1>8. PICK v : /\ args' = Append(args, v) /\ num' \in Nat /\ base' = PrintedBase(c)
                 /\ num' = PrintedNumber(v, l, c) /\ sign' = PrintedSign(v, c)
    BY <1>7
  <1>9. /\ args'[Len(args')] = v /\ Len(args) \in Nat
        /\ \A i \in 1 .. Len(args) : args'[i] = args[i]
    BY <1>4, <1>8, AppendAt
  <1>10. Asked(w, 1)' = Asked(w, 1) /\ Asked(w, 1) \in Int
    <2>1. w = <<"*">> => 1 \in 1 .. Len(args)
      BY <1>5 DEF Stars
    <2>2. w = <<"*">> => args'[1] = args[1]
      BY <1>9, <2>1
    <2>3. Asked(w, 1)' = Asked(w, 1)
      BY <2>2, Zenon DEF Asked
    <2>4. QED
      BY <1>4, <2>1, <2>3, AskedIs
  <1>11. /\ todo' = <<>> /\ Len(todo') = 0 /\ width' = width /\ padc' = padc
    BY <1>1, <1>6 DEF escape
  <1>12. padc' = (IF flag = <<>> THEN Space ELSE "0")
    BY <1>5, <1>11 DEF PadOf
  <1>13. base' \in Nat
    BY <1>8 DEF PrintedBase
  <1>14. Horner(num', todo', base') = PrintedNumber(v, l, c)
    BY <1>8, <1>11, <1>13, HornerEmpty
  <1>15. width' + Len(todo') = Asked(w, 1)'
    BY <1>5, <1>10, <1>11
  <1>16. \A j \in 1 .. Len(todo') : \E d \in 1 .. base' : digits[d] = todo'[j]
    BY <1>11
  <1>17. todo' # <<>> => num' >= 1
    BY <1>11
  <1>18. QED
    BY <1>8, <1>9, <1>12, <1>14, <1>15, <1>16, <1>17, Zenon DEF Pending

(* One digit is taken off the number and put before those that wait.       *)
LEMMA NumberCalls ==
  ASSUME FmtTypeOK, ReadInv, NumberInv, PrintnumCalls
  PROVE  NumberInv'
  <1>1. /\ pc = "number" /\ num >= base /\ num' = num \div base /\ width' = width - 1
        /\ UNCHANGED <<fmt, k, padc, base, sign, start, args>>
    BY DEF PrintnumCalls, history
  <1>2. num \in Nat /\ base \in Nat \ {0} /\ base <= 16 /\ width \in Int /\ todo \in Seq(Chars)
    BY DEF FmtTypeOK
  <1> DEFINE r == num % base
             q == num \div base
             d == digits[r + 1]
  <1>3. q \in Nat /\ r \in 0 .. base - 1 /\ num = base * q + r
    BY <1>2, DivMod
  <1>4. r + 1 \in 1 .. base /\ r + 1 \in 1 .. 16 /\ r \in Nat /\ (r + 1) - 1 = r
    BY <1>2, <1>3
  <1> HIDE DEF r, q
  <1>5. d \in Digits /\ d \in Chars /\ DigitValue(d) = r
    BY <1>4, DigitOf, DigitTable DEF Digits
  <1>6. todo' = <<d>> \o todo
    BY DEF PrintnumCalls, d, r
  <1> HIDE DEF d
  <1>7. /\ todo' \in Seq(Chars) /\ Len(todo') = 1 + Len(todo) /\ todo'[1] = d
        /\ \A j \in 1 .. Len(todo) : todo'[1 + j] = todo[j]
        /\ Len(todo) \in Nat
    <2>1. <<d>> \in Seq(Chars) /\ Len(<<d>>) = 1 /\ <<d>>[1] = d
      BY <1>5
    <2> HIDE DEF d
    <2>2. QED
      BY <1>2, <1>6, <2>1, Join2
  <1>8. q >= 1
    <2>1. CASE q = 0
      BY <1>1, <1>2, <1>3, <2>1
    <2>2. QED
      BY <1>3, <2>1
  <1>9. num' = q
    BY <1>1 DEF q
  <1> SUFFICES ASSUME NEW flag \in {<<>>, <<"0">>}, NEW w \in WTexts, NEW l \in LTexts,
                      NEW c \in {"d", "u", "o", "x", "p"},
                      EscapeText' = Escape(flag, w, <<>>, l, c)
               PROVE  Pending(flag, w, l, c)'
    BY DEF NumberInv
  <1>10. EscapeText' = EscapeText
    BY <1>1 DEF EscapeText
  <1>11. Pending(flag, w, l, c)
    BY <1>1, <1>10 DEF NumberInv
  <1>12. Asked(w, 1)' = Asked(w, 1)
    BY <1>1, Zenon DEF Asked
  <1>13. width' + Len(todo') = Asked(w, 1)'
    BY <1>1, <1>2, <1>7, <1>11, <1>12 DEF Pending
  <1>14. ASSUME NEW j \in 1 .. Len(todo')
         PROVE  \E i \in 1 .. base : digits[i] = todo'[j]
    <2>1. CASE j = 1
      BY <1>4, <1>7, <2>1 DEF d
    <2>2. CASE j # 1
      <3>1. j - 1 \in 1 .. Len(todo) /\ j = 1 + (j - 1)
        BY <1>7, <2>2
      <3>2. todo'[j] = todo[j - 1]
        BY <1>7, <3>1
      <3>3. \E i \in 1 .. base : digits[i] = todo[j - 1]
        BY <1>11, <3>1 DEF Pending
      <3>4. QED
        BY <3>2, <3>3
    <2>3. QED
      BY <2>1, <2>2
  <1>15. todo \in Seq(Digits)
    <2>1. \A j \in 1 .. Len(todo) : todo[j] \in Digits
      <3>1. \A j \in 1 .. Len(todo) : \E i \in 1 .. base : digits[i] = todo[j]
        BY <1>11 DEF Pending
      <3>2. 1 .. base \subseteq 1 .. 16
        BY <1>2
      <3>3. QED
        BY <3>1, <3>2 DEF Digits
    <2>2. QED
      BY <1>2, <2>1
  <1>16. Horner(q, todo', base) = Horner(num, todo, base)
    <2>1. Horner(q, <<d>> \o todo, base) = Horner(q * base + DigitValue(d), todo, base)
      BY <1>2, <1>3, <1>5, <1>15, HornerCons
    <2>2. q * base + DigitValue(d) = num
      BY <1>2, <1>3, <1>5
    <2>3. QED
      BY <1>6, <2>1, <2>2
  <1>17. QED
    BY <1>1, <1>8, <1>9, <1>11, <1>13, <1>14, <1>16, Zenon DEF Pending

(* Where the parts of the text of a number are.                            *)
LEMMA CatParts ==
  ASSUME NEW S, NEW a \in Seq(S), NEW b \in Seq(S)
  PROVE  /\ SubSeq(a \o b, 1, Len(a)) = a
         /\ SubSeq(a \o b, Len(a) + 1, Len(a \o b)) = b
  <1> DEFINE t == a \o b
             x == SubSeq(t, 1, Len(a))
             y == SubSeq(t, Len(a) + 1, Len(t))
  <1>1. /\ t \in Seq(S) /\ Len(t) = Len(a) + Len(b) /\ Len(a) \in Nat /\ Len(b) \in Nat
        /\ \A j \in 1 .. Len(a) : t[j] = a[j]
        /\ \A j \in 1 .. Len(b) : t[Len(a) + j] = b[j]
    BY Join2
  <1> HIDE DEF t
  <1>2. /\ x \in Seq(S) /\ Len(x) = Len(a) - 1 + 1
        /\ \A j \in 1 .. Len(a) - 1 + 1 : x[j] = t[1 + j - 1]
    BY <1>1, SubSeqType
  <1>3. /\ y \in Seq(S) /\ Len(y) = Len(t) - (Len(a) + 1) + 1
        /\ \A j \in 1 .. Len(t) - (Len(a) + 1) + 1 : y[j] = t[Len(a) + 1 + j - 1]
    <2>1. Len(a) + 1 \in Nat \ {0} /\ Len(t) \in 0 .. Len(t) /\ Len(a) + 1 <= Len(t) + 1
      BY <1>1
    <2>2. QED
      BY <1>1, <2>1, SubSeqType
  <1> HIDE DEF x, y
  <1>4. x = a
    <2>1. Len(x) = Len(a) /\ \A j \in 1 .. Len(x) : x[j] = a[j]
      BY <1>1, <1>2
    <2>2. QED
      BY <1>2, <2>1, SeqEqual
  <1>5. y = b
    <2>1. Len(y) = Len(b) /\ \A j \in 1 .. Len(y) : y[j] = b[j]
      BY <1>1, <1>3
    <2>2. QED
      BY <1>3, <2>1, SeqEqual
  <1>6. QED
    BY <1>4, <1>5 DEF t, x, y

(* The text t is what a number v is to look like.                          *)
NumberShown(t, v, flag, wv, l, c) ==
  LET negative == c = "d" /\ v < 0
      values == IF l = <<"l", "l">> /\ c # "p" THEN ULLONG ELSE UINT
      n == IF negative THEN -v ELSE IF v < 0 THEN v + values ELSE v
      before == IF negative THEN <<"-">> ELSE IF c = "p" THEN <<"0", "x">> ELSE <<>>
      b == IF c \in {"d", "u"} THEN 10 ELSE IF c = "o" THEN 8 ELSE 16
      field == SubSeq(t, Len(before) + 1, Len(t))
  IN /\ SubSeq(t, 1, Len(before)) = before
     /\ IsField(field, n, b, wv, IF flag = <<>> THEN Space ELSE "0")

LEMMA NumberShownIs ==
  ASSUME NEW t, NEW v, NEW flag, NEW wv, NEW l, NEW c,
         LET s == PrintedSign(v, c)
         IN /\ SubSeq(t, 1, Len(s)) = s
            /\ IsField(SubSeq(t, Len(s) + 1, Len(t)), PrintedNumber(v, l, c), PrintedBase(c), wv,
                       IF flag = <<>> THEN Space ELSE "0")
  PROVE  NumberShown(t, v, flag, wv, l, c)
  BY Zenon DEF NumberShown, PrintedSign, PrintedNumber, PrintedBase, IsNegative

LEMMA SmallRemainder ==
  ASSUME NEW m \in Nat, NEW n \in Nat \ {0}, m < n
  PROVE  m % n = m
  OBVIOUS

(* The last call of printnum: what its digit and the padding make of the   *)
(* digits that wait.                                                       *)
LEMMA PadsField ==
  ASSUME FmtTypeOK, num < base, NEW n, NEW wv \in Int,
         width + Len(todo) = wv,
         \A j \in 1 .. Len(todo) : \E d \in 1 .. base : digits[d] = todo[j],
         todo # <<>> => num >= 1,
         Horner(num, todo, base) = n
  PROVE  LET f == Times(width - 1, padc) \o <<digits[(num % base) + 1]>> \o todo
         IN f \in Seq(Chars) /\ IsField(f, n, base, wv, padc)
  <1> DEFINE r == num % base
             d == digits[r + 1]
             p == Times(width - 1, padc)
             s == <<d>> \o todo
             f == p \o s
  <1>1. num \in Nat /\ base \in Nat \ {0} /\ base <= 16 /\ width \in Int /\ todo \in Seq(Chars)
    BY DEF FmtTypeOK
  <1>2. r = num
    BY <1>1, SmallRemainder
  <1>3. r + 1 \in 1 .. base /\ r + 1 \in 1 .. 16 /\ r \in Nat /\ (r + 1) - 1 = r
    BY <1>1, <1>2
  <1> HIDE DEF r
  <1>4. d \in Digits /\ d \in Chars /\ DigitValue(d) = r
    BY <1>3, DigitOf, DigitTable DEF Digits
  <1>5. r >= 1 => d # "0"
    <2>1. "0" = digits[1] /\ 1 \in 1 .. 16
      BY DEF digits
    <2>2. DigitValue("0") = 0
      BY <2>1, DigitOf
    <2>3. QED
      BY <1>3, <1>4, <2>2
  <1>6. /\ p \in Seq(Chars) /\ Len(p) = (IF width - 1 > 0 THEN width - 1 ELSE 0)
        /\ \A j \in 1 .. Len(p) : p[j] = padc
    <2>1. width - 1 \in Int /\ padc \in Chars
      BY <1>1, PadCharacter
    <2>2. QED
      BY <2>1, PadType
  <1>7. \E i \in 1 .. base : digits[i] = d
    BY <1>3
  <1> HIDE DEF d, p
  <1>8. <<d>> \in Seq(Chars) /\ Len(<<d>>) = 1 /\ <<d>>[1] = d
    BY <1>4
  <1>9. /\ s \in Seq(Chars) /\ Len(s) = 1 + Len(todo) /\ s[1] = d /\ Len(todo) \in Nat
        /\ \A j \in 1 .. Len(todo) : s[1 + j] = todo[j]
    BY <1>1, <1>8, Join2
  <1>10. p \o <<d>> \o todo = f
    <2> DEFINE e == <<d>>
    <2>1. p \in Seq(Chars) /\ e \in Seq(Chars) /\ todo \in Seq(Chars)
      BY <1>1, <1>6, <1>8
    <2> HIDE DEF e
    <2>2. (p \o e) \o todo = p \o (e \o todo)
      BY <2>1
    <2>3. QED
      BY <2>2, Zenon DEF e
  <1>11. Value(s, base) = n
    <2>1. todo \in Seq(Digits)
      <3>1. \A j \in 1 .. Len(todo) : todo[j] \in Digits
        <4>1. 1 .. base \subseteq 1 .. 16
          BY <1>1
        <4>2. QED
          BY <4>1 DEF Digits
      <3>2. QED
        BY <1>1, <3>1
    <2>2. Horner(0, <<d>> \o todo, base) = Horner(0 * base + DigitValue(d), todo, base)
      BY <1>1, <1>4, <2>1, HornerCons
    <2>3. 0 * base + DigitValue(d) = num
      BY <1>1, <1>2, <1>4
    <2>4. QED
      BY <2>2, <2>3, ValueIs
  <1> HIDE DEF s
  <1>12. IsNumeral(s, n, base)
    <2>1. s # <<>>
      BY <1>9
    <2>2. ASSUME NEW j \in DOMAIN s PROVE \E i \in 1 .. base : digits[i] = s[j]
      <3>1. j \in 1 .. Len(s)
        BY <1>9
      <3>2. CASE j = 1
        BY <1>7, <1>9, <3>2
      <3>3. CASE j # 1
        <4>1. j - 1 \in 1 .. Len(todo) /\ j = 1 + (j - 1)
          BY <1>9, <3>1, <3>3
        <4>2. s[j] = todo[j - 1]
          BY <1>9, <4>1
        <4>3. QED
          BY <4>1, <4>2
      <3>4. QED
        BY <3>2, <3>3
    <2>3. Len(s) > 1 => s[1] # "0"
      <3>1. Len(s) > 1 => todo # <<>>
        BY <1>1, <1>9
      <3>2. QED
        BY <1>2, <1>5, <1>9, <3>1
    <2>4. QED
      BY <1>11, <2>1, <2>2, <2>3 DEF IsNumeral
  <1>13. /\ f \in Seq(Chars) /\ Len(f) = Len(p) + Len(s)
         /\ \A j \in 1 .. Len(p) : f[j] = p[j]
         /\ SubSeq(f, Len(p) + 1, Len(f)) = s
    <2>1. p \in Seq(Chars) /\ s \in Seq(Chars)
      BY <1>6, <1>9
    <2>2. /\ f \in Seq(Chars) /\ Len(f) = Len(p) + Len(s)
          /\ \A j \in 1 .. Len(p) : f[j] = p[j]
      BY <2>1, Join2
    <2>3. SubSeq(f, Len(p) + 1, Len(f)) = s
      BY <2>1, CatParts
    <2>4. QED
      BY <2>2, <2>3
  <1> HIDE DEF f
  <1>14. IsField(f, n, base, wv, padc)
    <2>1. Len(p) \in 0 .. Len(f) - 1
      BY <1>6, <1>9, <1>13
    <2>2. \A j \in 1 .. Len(p) : f[j] = padc
      BY <1>6, <1>13
    <2>3. Len(p) > 0 => Len(f) = wv
      BY <1>1, <1>6, <1>9, <1>13
    <2>4. Len(p) = 0 => Len(f) >= wv
      BY <1>1, <1>6, <1>9, <1>13
    <2>5. QED
      BY <1>12, <1>13, <2>1, <2>2, <2>3, <2>4 DEF IsField
  <1>15. QED
    BY <1>10, <1>13, <1>14 DEF p, d, r

(* A number is put as it was documented.                                   *)
LEMMA NumbersPads ==
  ASSUME FmtTypeOK, ReadInv, NumberRead, NumberInv, PrintnumPads
  PROVE  NumbersRight'
  <1>1. /\ pc = "number" /\ num < base /\ UNCHANGED <<fmt, k, start, mark, args, out>>
        /\ todo' = sign \o Times(width - 1, padc) \o <<digits[(num % base) + 1]>> \o todo
    BY DEF PrintnumPads, history, sink
  <1> SUFFICES ASSUME NEW flag \in {<<>>, <<"0">>}, NEW w \in WidthTexts,
                      NEW l \in {<<>>, <<"l">>, <<"l", "l">>}, NEW c \in {"d", "u", "o", "x", "p"},
                      EscapeText' = Escape(flag, w, <<>>, l, c)
               PROVE  NumberShown(Text', args'[Len(args')], flag, Asked(w, 1)', l, c)
    BY Zenon DEF NumbersRight, NumberShown
  <1>2. w \in WTexts /\ l \in LTexts
    BY DocumentedTexts
  <1>3. EscapeText' = EscapeText /\ Asked(w, 1)' = Asked(w, 1) /\ args' = args
    <2>1. Asked(w, 1)' = Asked(w, 1)
      BY <1>1, Zenon DEF Asked
    <2>2. QED
      BY <1>1, <2>1 DEF EscapeText
  <1>4. Pending(flag, w, l, c)
    BY <1>1, <1>2, <1>3 DEF NumberInv
  <1> DEFINE v == args[Len(args)]
             wv == Asked(w, 1)
             n == PrintedNumber(v, l, c)
             p == Times(width - 1, padc)
             d == digits[(num % base) + 1]
             f == p \o <<d>> \o todo
  <1>5. /\ base = PrintedBase(c) /\ sign = PrintedSign(v, c)
        /\ padc = (IF flag = <<>> THEN Space ELSE "0")
        /\ width + Len(todo) = wv
        /\ \A j \in 1 .. Len(todo) : \E i \in 1 .. base : digits[i] = todo[j]
        /\ todo # <<>> => num >= 1
        /\ Horner(num, todo, base) = n
    BY <1>4 DEF Pending
  <1>6. sign \in Seq(Chars) /\ todo \in Seq(Chars) /\ p \in Seq(Chars) /\ <<d>> \in Seq(Chars)
    <2>1. width - 1 \in Int /\ padc \in Chars /\ d \in Chars
      BY PadCharacter, DigitChar DEF FmtTypeOK
    <2>2. p \in Seq(Chars)
      BY <2>1, PadType
    <2> HIDE DEF p, d
    <2>3. QED
      BY <2>1, <2>2 DEF FmtTypeOK
  <1>7. wv \in Int
    <2>1. width \in Int /\ Len(todo) \in Int
      BY <1>6 DEF FmtTypeOK
    <2> HIDE DEF wv
    <2>2. QED
      BY <1>5, <2>1
  <1> HIDE DEF v, wv, n
  <1>8. f \in Seq(Chars) /\ IsField(f, n, base, wv, padc)
    BY <1>1, <1>5, <1>7, PadsField
  <1> HIDE DEF p, d
  <1>9. todo' = sign \o f
    <2> DEFINE e == <<d>>
               g == p \o e
    <2>1. todo' = ((sign \o p) \o e) \o todo /\ f = g \o todo
      BY <1>1 DEF p, d
    <2> HIDE DEF e, f
    <2>2. e \in Seq(Chars)
      BY <1>6 DEF e
    <2>3. (sign \o p) \o e = sign \o g /\ g \in Seq(Chars)
      <3> USE <1>6, <2>2
      <3> QED
        OBVIOUS
    <2> HIDE DEF g
    <2>4. (sign \o g) \o todo = sign \o (g \o todo)
      BY <1>6, <2>3
    <2>5. QED
      BY <2>1, <2>3, <2>4
  <1> HIDE DEF f
  <1>10. Text' = sign \o f
    <2>1. mark = Len(out) /\ out \in Seq(Chars) /\ Len(out) \in Nat
      BY <1>1 DEF NumberRead, FmtTypeOK
    <2>2. SubSeq(out, mark + 1, Len(out)) = <<>>
      BY <2>1
    <2>3. Text' = SubSeq(out, mark + 1, Len(out)) \o todo'
      BY <1>1 DEF Text
    <2>4. sign \o f \in Seq(Chars)
      BY <1>6, <1>8, Join2
    <2>5. QED
      BY <1>9, <2>2, <2>3, <2>4, CatEmpty
  <1> DEFINE t == sign \o f
  <1>11. SubSeq(t, 1, Len(sign)) = sign /\ SubSeq(t, Len(sign) + 1, Len(t)) = f
    BY <1>6, <1>8, CatParts
  <1> HIDE DEF t
  <1>12. NumberShown(t, v, flag, wv, l, c)
    BY <1>5, <1>8, <1>11, NumberShownIs DEF n
  <1>13. QED
    BY <1>3, <1>10, <1>12 DEF v, wv, t

(* Every step keeps the number it is printing.                             *)
LEMMA NumberInvNext ==
  ASSUME FmtTypeOK, ReadInv, ParseInv, NumberInv, [FmtNext]_fmtvars
  PROVE  NumberInv'
  <1>1. CASE Signed \/ Unsigned \/ Pointer
    BY <1>1, NumberBegins
  <1>2. CASE Error
    <2>1. /\ pc = "spec" /\ ch = "e" /\ k' = k + 1 /\ UNCHANGED <<fmt, start>>
      BY <1>2, ErrorKind
    <2>2. \A flag \in FlagTexts, w \in WTexts, l \in LTexts, c \in {"d", "u", "o", "x", "p"} :
            EscapeText' # Escape(flag, w, <<>>, l, c)
      <3> SUFFICES ASSUME NEW flag \in FlagTexts, NEW w \in WTexts, NEW l \in LTexts,
                          NEW c \in {"d", "u", "o", "x", "p"},
                          EscapeText' = Escape(flag, w, <<>>, l, c)
                   PROVE  FALSE
        OBVIOUS
      <3>1. <<>> \in PTexts /\ c \in Chars
        BY Symbols DEF PTexts, Known
      <3>2. ch = c
        BY <2>1, <3>1, ConversionIs DEF NUL
      <3>3. QED
        BY <2>1, <3>2
    <2>3. {<<>>, <<"0">>} \subseteq FlagTexts
      BY DocumentedTexts
    <2>4. QED
      BY <2>2, <2>3 DEF NumberInv
  <1>3. CASE PrintnumCalls
    BY <1>3, NumberCalls
  <1>4. CASE pc' # "number"
    BY <1>4 DEF NumberInv
  <1>5. CASE UNCHANGED fmtvars
    <2>1. UNCHANGED <<pc, fmt, k, start, args, base, sign, padc, width, todo, num>>
      BY <1>5 DEF fmtvars, escape, number, history
    <2>2. EscapeText' = EscapeText
      BY <2>1 DEF EscapeText
    <2>3. ASSUME NEW flag, NEW w, NEW l, NEW c, Pending(flag, w, l, c)
          PROVE  Pending(flag, w, l, c)'
      BY <2>1, <2>3, Zenon DEF Pending, Asked
    <2>4. QED
      BY <2>1, <2>2, <2>3, Zenon DEF NumberInv
  <1>6. ASSUME ReadsOn PROVE pc' # "number"
    BY <1>6, ReadsOnKind
  <1>7. ASSUME Char \/ String \/ Escaped PROVE pc' # "number"
    BY <1>7, ConvertTextKind
  <1>8. ASSUME Literal \/ Percent \/ EndOfFormat \/ PrintnumPads \/ Unknown \/ Put
        PROVE  pc' # "number"
    BY <1>8 DEF Literal, Percent, EndOfFormat, PrintnumPads, Unknown, Put
  <1>9. QED
    BY <1>1, <1>2, <1>3, <1>4, <1>5, <1>6, <1>7, <1>8 DEF FmtNext, ReadsOn

(* While a conversion is put its text stays right.                         *)
LEMMA NumbersKeep ==
  ASSUME NumbersRight, pc = "put", Text' = Text, EscapeText' = EscapeText, args' = args
  PROVE  NumbersRight'
  <1> SUFFICES ASSUME NEW flag \in {<<>>, <<"0">>}, NEW w \in WidthTexts,
                      NEW l \in {<<>>, <<"l">>, <<"l", "l">>}, NEW c \in {"d", "u", "o", "x", "p"},
                      EscapeText' = Escape(flag, w, <<>>, l, c)
               PROVE  NumberShown(Text', args'[Len(args')], flag, Asked(w, 1)', l, c)
    BY Zenon DEF NumbersRight, NumberShown
  <1>1. EscapeText = Escape(flag, w, <<>>, l, c)
    OBVIOUS
  <1>2. NumberShown(Text, args[Len(args)], flag, Asked(w, 1), l, c)
    <2>1. \A f \in {<<>>, <<"0">>}, x \in WidthTexts,
             y \in {<<>>, <<"l">>, <<"l", "l">>}, z \in {"d", "u", "o", "x", "p"} :
            EscapeText = Escape(f, x, <<>>, y, z)
              => NumberShown(Text, args[Len(args)], f, Asked(x, 1), y, z)
      BY Zenon DEF NumbersRight, NumberShown
    <2> QED
      BY <1>1, <2>1, Zenon
  <1>3. Asked(w, 1)' = Asked(w, 1)
    BY Zenon DEF Asked
  <1>4. QED
    BY <1>2, <1>3

LEMMA NumbersNext ==
  ASSUME FmtTypeOK, ReadInv, NumberRead, NumberInv, NumbersRight, [FmtNext]_fmtvars
  PROVE  NumbersRight'
  <1>1. CASE PrintnumPads
    BY <1>1, NumbersPads
  <1>2. CASE Put /\ pc' = "put"
    <2>1. pc = "put"
      BY <1>2 DEF Put
    <2>2. Text' = Text /\ EscapeText' = EscapeText /\ args' = args
      BY <1>2, PutKeeps
    <2>3. QED
      BY <2>1, <2>2, NumbersKeep
  <1>3. ASSUME \A flag \in FlagTexts, w \in WTexts, l \in LTexts, c \in {"d", "u", "o", "x", "p"} :
                 EscapeText' # Escape(flag, w, <<>>, l, c)
        PROVE  NumbersRight'
    <2> SUFFICES ASSUME NEW flag \in {<<>>, <<"0">>}, NEW w \in WidthTexts,
                        NEW l \in {<<>>, <<"l">>, <<"l", "l">>},
                        NEW c \in {"d", "u", "o", "x", "p"},
                        EscapeText' = Escape(flag, w, <<>>, l, c)
                 PROVE  NumberShown(Text', args'[Len(args')], flag, Asked(w, 1)', l, c)
      BY Zenon DEF NumbersRight, NumberShown
    <2>1. flag \in FlagTexts /\ w \in WTexts /\ l \in LTexts
      BY DocumentedTexts
    <2>2. QED
      BY <1>3, <2>1
  <1>4. CASE Converts
    <2>1. CASE pc' = "put"
      <3>1. /\ pc = "spec" /\ ch # NUL /\ k' = k + 1 /\ UNCHANGED <<fmt, start>>
        BY <1>4, ConvertsKind DEF NUL
      <3>2. ch \in {"c", "s", "%", "e"}
        BY <1>4, <2>1, ConvertNumberKind, ErrorKind, ConvertTextKind DEF Converts
      <3>3. ASSUME NEW flag \in FlagTexts, NEW w \in WTexts, NEW l \in LTexts,
                   NEW c \in {"d", "u", "o", "x", "p"}, EscapeText' = Escape(flag, w, <<>>, l, c)
            PROVE  FALSE
        <4>1. <<>> \in PTexts /\ c \in Chars
          BY Symbols DEF PTexts, Known
        <4>2. ch = c
          BY <3>1, <3>3, <4>1, ConversionIs
        <4>3. QED
          BY <3>2, <4>2
      <3>4. QED
        BY <1>3, <3>3
    <2>2. CASE pc' # "put"
      BY <2>2 DEF NumbersRight
    <2>3. QED
      BY <2>1, <2>2
  <1>5. CASE Unknown
    <2>1. EscapeText' = <<"%">> /\ <<>> \in PTexts
      BY <1>5, UnknownEscape DEF PTexts
    <2>2. \A c \in {"d", "u", "o", "x", "p"} : c \in Chars
      BY Symbols DEF Known
    <2>3. QED
      BY <1>3, <2>1, <2>2, EscapeLong
  <1>6. CASE pc' # "put"
    BY <1>6 DEF NumbersRight
  <1>7. CASE UNCHANGED fmtvars
    <2>1. UNCHANGED <<pc, fmt, k, out, todo, start, mark, args>>
      BY <1>7 DEF fmtvars, sink, history
    <2>2. Text' = Text /\ EscapeText' = EscapeText /\ args' = args
      BY <2>1 DEF Text, EscapeText
    <2>3. QED
      BY <1>6, <2>1, <2>2, NumbersKeep
  <1>8. QED
    BY <1>1, <1>2, <1>4, <1>5, <1>6, <1>7, PutFrom

(* Every documented number comes out right, for every width of a word and  *)
(* every argument (printfmt.c:193-230).                                    *)
THEOREM NumbersCorrect == FmtSpec => []NumbersRight
  <1> DEFINE Inv == /\ FmtTypeOK /\ ReadInv /\ ParseInv /\ NumberRead
                    /\ NumberInv /\ NumbersRight
  <1>1. FmtInit => Inv
    <2>1. ASSUME FmtInit PROVE NumberInv /\ NumbersRight
      <3>1. pc \in {"text", "return"}
        BY <2>1 DEF FmtInit
      <3>2. QED
        BY <3>1 DEF NumberInv, NumbersRight
    <2>2. QED
      BY <2>1, FmtInitOK, StringsInit
  <1>2. Inv /\ [FmtNext]_fmtvars => Inv'
    BY FmtNextOK, ParseNext, NumberReadNext, NumberInvNext, NumbersNext
  <1>3. Inv => NumbersRight
    OBVIOUS
  <1> HIDE DEF Inv
  <1>4. QED
    BY <1>1, <1>2, <1>3, PTL DEF FmtSpec
=============================================================================
