--------------------------- MODULE MonitorProofs ---------------------------
(***************************************************************************)
(* For every size of the line and of the argument vector, and whatever is  *)
(* typed: readline and runcmd stay within both, 7F is in a line only at    *)
(* its beginning, and the arguments of a command are the words on the      *)
(* display; a line is refused only if it has too many of them.             *)
(***************************************************************************)
EXTENDS Monitor, WellFoundedInduction, FiniteSetTheorems, SequenceTheorems, TLAPS

(* A set of numbers has a least one.                                       *)
LEMMA Least ==
  ASSUME NEW T, T \subseteq Nat, T # {}
  PROVE  \E x \in T : \A y \in T : x <= y
<1>1. \E x \in T : \A y \in T : ~ (<<y, x>> \in OpToRel(<, Nat))
  BY NatLessThanWellFounded, WFMin
<1>2. PICK x \in T : \A y \in T : ~ (<<y, x>> \in OpToRel(<, Nat))
  BY <1>1
<1>3. \A y \in T : ~(y < x)
  BY <1>2 DEF OpToRel
<1>4. QED
  BY <1>3

(* Looking for the characters of S from k on stops at the first of them.   *)
LEMMA ScanFinds ==
  ASSUME TypeOK, NEW k \in Nat, NEW S, NEW q \in k .. BUFLEN - 1, buf[q] \in S
  PROVE  /\ Scan(k, S) \in k .. q /\ buf[Scan(k, S)] \in S
         /\ \A j \in k .. Scan(k, S) - 1 : buf[j] \notin S
<1>1. BUFLEN \in Nat
  BY SizesAssumption
<1>. DEFINE T == {j \in k .. BUFLEN - 1 : buf[j] \in S}
            First(m) == buf[m] \in S /\ \A j \in k .. m - 1 : buf[j] \notin S
<1>2. \E m \in T : \A j \in T : m <= j
  <2>1. T \subseteq Nat /\ q \in T
    BY <1>1
  <2>. HIDE DEF T
  <2>2. QED
    BY <2>1, Least
<1>3. \E m \in k .. BUFLEN - 1 : First(m)
  <2>1. PICK m \in T : \A j \in T : m <= j
    BY <1>2
  <2>2. m \in k .. BUFLEN - 1 /\ buf[m] \in S
    OBVIOUS
  <2>3. \A j \in k .. m - 1 : j \in k .. BUFLEN - 1 /\ ~(m <= j)
    BY <1>1, <2>2
  <2>4. \A j \in k .. m - 1 : buf[j] \notin S
    BY <2>1, <2>3
  <2>5. QED
    BY <2>2, <2>4
<1>4. Scan(k, S) \in k .. BUFLEN - 1 /\ First(Scan(k, S))
  <2>1. Scan(k, S) = CHOOSE m \in k .. BUFLEN - 1 : First(m)
    BY DEF Scan
  <2>. HIDE DEF First
  <2>2. QED
    BY <1>3, <2>1
<1>5. Scan(k, S) <= q
  <2>. DEFINE m == Scan(k, S)
  <2>1. m \in k .. BUFLEN - 1 /\ \A j \in k .. m - 1 : buf[j] \notin S
    BY <1>4
  <2>. HIDE DEF m
  <2>2. ~(m <= q) => q \in k .. m - 1
    BY <1>1, <2>1
  <2>3. m <= q
    BY <2>1, <2>2
  <2>4. QED
    BY <2>3 DEF m
<1>6. QED
  BY <1>1, <1>4, <1>5

(* While runcmd parses, a NUL lies ahead: readline has put it there.       *)
Terminated == pc = "parse" => \E q \in p .. BUFLEN - 1 : buf[q] = NUL

LineInv == TypeOK /\ DelOnlyFirst /\ Terminated

LEMMA LineInvInit == Init => LineInv
<1>. SUFFICES ASSUME Init PROVE LineInv
  OBVIOUS
<1>1. BUFLEN \in Nat /\ BUFLEN >= 2 /\ MAXARGS \in Nat /\ MAXARGS >= 2
  BY SizesAssumption
<1>2. TypeOK
  BY <1>1 DEF Init, TypeOK
<1>3. DelOnlyFirst
  BY DEF Init, DelOnlyFirst, NUL, Del
<1>4. QED
  BY <1>2, <1>3 DEF Init, Terminated, LineInv

(* readline leaves a place for the NUL, and stores 7F only in the first.   *)
LEMMA ReadlineKeeps ==
  ASSUME LineInv, readline
  PROVE  LineInv'
<1>1. BUFLEN \in Nat /\ BUFLEN >= 2 /\ MAXARGS \in Nat /\ MAXARGS >= 2
  BY SizesAssumption
<1>2. TypeOK /\ DelOnlyFirst /\ Terminated
  BY DEF LineInv
<1>3. ASSUME NEW c \in Chars, Erase(c)
      PROVE  LineInv'
  <2>1. i' \in 0 .. BUFLEN - 1
    BY <1>1, <1>2, <1>3 DEF Erase, Erases, TypeOK
  <2>2. screen' \in Seq(Printable)
    BY <1>2, <1>3 DEF Erase, TypeOK, Front
  <2>3. QED
    BY <1>2, <1>3, <2>1, <2>2
    DEF Erase, parser, LineInv, TypeOK, DelOnlyFirst, Terminated
<1>4. ASSUME NEW c \in Chars, Store(c)
      PROVE  LineInv'
  <2>1. /\ c \in Printable /\ i \in Nat /\ i < BUFLEN - 1 /\ i' = i + 1
        /\ buf' = [buf EXCEPT ![i] = c] /\ screen' = Append(screen, c)
        /\ c = Del => i = 0
    BY <1>1, <1>2, <1>4 DEF Store, Stores, Erases, TypeOK
  <2>2. i' \in 0 .. BUFLEN - 1 /\ i \in 0 .. BUFLEN - 1
    BY <1>1, <2>1
  <2>3. screen' \in Seq(Printable)
    BY <1>2, <2>1 DEF TypeOK
  <2>4. buf' \in [0 .. BUFLEN - 1 -> Printable \union {NUL}]
    BY <1>2, <2>1, <2>2 DEF TypeOK
  <2>5. DelOnlyFirst'
    BY <1>2, <2>1, <2>2 DEF DelOnlyFirst, TypeOK
  <2>6. QED
    BY <1>2, <1>4, <2>2, <2>3, <2>4, <2>5 DEF Store, parser, LineInv, TypeOK, Terminated
<1>5. ASSUME NEW c \in Chars, Enter(c)
      PROVE  LineInv'
  <2>1. buf' = [buf EXCEPT ![i] = NUL] /\ i \in 0 .. BUFLEN - 1 /\ p' = 0
    BY <1>2, <1>5 DEF Enter, TypeOK
  <2>2. buf' \in [0 .. BUFLEN - 1 -> Printable \union {NUL}] /\ buf'[i] = NUL
    BY <1>2, <2>1 DEF TypeOK
  <2>3. DelOnlyFirst'
    BY <1>2, <2>1 DEF DelOnlyFirst, TypeOK, NUL, Del
  <2>4. argv' \in [0 .. MAXARGS - 1 -> -1 .. BUFLEN - 2]
    <3>1. -1 \in -1 .. BUFLEN - 2
      BY <1>1
    <3>2. QED
      BY <1>2, <1>5, <3>1 DEF Enter, TypeOK
  <2>5. 0 \in 0 .. BUFLEN - 1 /\ 0 \in 0 .. MAXARGS - 1
    BY <1>1
  <2>6. TypeOK'
    BY <1>2, <1>5, <2>2, <2>4, <2>5 DEF Enter, TypeOK
  <2>7. QED
    BY <2>1, <2>2, <2>3, <2>6 DEF LineInv, Terminated
<1>6. ASSUME NEW c \in Chars, Ignore(c)
      PROVE  LineInv'
  BY <1>2, <1>6
  DEF Ignore, vars, reader, parser, LineInv, TypeOK, DelOnlyFirst, Terminated
<1>7. QED
  BY <1>3, <1>4, <1>5, <1>6 DEF readline

(* What the white space ends at, and what is left after it is overwritten. *)
LEMMA GobbleKeeps ==
  ASSUME LineInv, pc = "parse", Gobble
  PROVE  /\ AfterSpace \in p .. BUFLEN - 1
         /\ buf[AfterSpace] # NUL =>
              \E q \in AfterSpace + 1 .. BUFLEN - 1 : buf[q] = NUL
         /\ buf' \in [0 .. BUFLEN - 1 -> Printable \union {NUL}]
         /\ \A j \in 0 .. BUFLEN - 1 : buf[j] = NUL => buf'[j] = NUL
         /\ DelOnlyFirst'
<1>1. BUFLEN \in Nat
  BY SizesAssumption
<1>2. TypeOK /\ DelOnlyFirst /\ p \in Nat
  BY DEF LineInv, TypeOK
<1>3. PICK q \in p .. BUFLEN - 1 : buf[q] = NUL
  BY DEF LineInv, Terminated
<1>4. buf[q] \in NonSpace
  BY <1>3 DEF NonSpace, NUL, Space
<1>5. AfterSpace \in p .. q
  BY <1>2, <1>4, ScanFinds DEF AfterSpace
<1>6. AfterSpace \in p .. BUFLEN - 1
  BY <1>1, <1>2, <1>5
<1>7. buf[AfterSpace] # NUL => q \in AfterSpace + 1 .. BUFLEN - 1
  <2>1. buf[AfterSpace] # NUL => AfterSpace # q
    BY <1>3
  <2>2. QED
    BY <1>1, <1>2, <1>5, <2>1
<1>8. \A j \in 0 .. BUFLEN - 1 : buf'[j] = NUL \/ buf'[j] = buf[j]
  BY <1>2 DEF Gobble, TypeOK
<1>9. buf' \in [0 .. BUFLEN - 1 -> Printable \union {NUL}]
  <2>1. DOMAIN buf = 0 .. BUFLEN - 1
    BY <1>2 DEF TypeOK
  <2>2. \A j \in 0 .. BUFLEN - 1 : buf'[j] \in Printable \union {NUL}
    BY <1>2, <1>8 DEF TypeOK
  <2>3. QED
    BY <2>1, <2>2 DEF Gobble
<1>10. DelOnlyFirst'
  BY <1>2, <1>8 DEF DelOnlyFirst, NUL, Del
<1>11. QED
  BY <1>3, <1>6, <1>7, <1>8, <1>9, <1>10

(* runcmd never looks past the NUL, and keeps a place of argv for null.    *)
LEMMA RuncmdKeeps ==
  ASSUME LineInv, runcmd
  PROVE  LineInv'
<1>1. BUFLEN \in Nat /\ BUFLEN >= 2 /\ MAXARGS \in Nat /\ MAXARGS >= 2
  BY SizesAssumption
<1>2. TypeOK /\ DelOnlyFirst /\ Terminated /\ p \in Nat /\ argc \in 0 .. MAXARGS - 1
  BY DEF LineInv, TypeOK
<1>3. CASE SaveArg
  <2>1. pc = "parse" /\ Gobble /\ buf[AfterSpace] # NUL /\ argc # MAXARGS - 1
    BY <1>3 DEF SaveArg, Full
  <2>2. /\ AfterSpace \in p .. BUFLEN - 1
        /\ buf' \in [0 .. BUFLEN - 1 -> Printable \union {NUL}]
        /\ \A j \in 0 .. BUFLEN - 1 : buf[j] = NUL => buf'[j] = NUL
        /\ DelOnlyFirst'
    BY <2>1, GobbleKeeps
  <2>3. PICK q \in AfterSpace + 1 .. BUFLEN - 1 : buf[q] = NUL
    BY <2>1, GobbleKeeps
  <2>4. AfterSpace \in Nat /\ AfterSpace \in -1 .. BUFLEN - 2
        /\ q \in AfterSpace .. BUFLEN - 1 /\ q \in 0 .. BUFLEN - 1
    BY <1>1, <1>2, <2>2, <2>3
  <2>5. p' \in AfterSpace .. q
    BY <1>2, <1>3, <2>3, <2>4, ScanFinds DEF SaveArg
  <2>6. p' \in 0 .. BUFLEN - 1 /\ q \in p' .. BUFLEN - 1
    BY <1>1, <2>4, <2>5
  <2>7. argc' \in 0 .. MAXARGS - 1
    BY <1>1, <1>2, <1>3, <2>1 DEF SaveArg
  <2>8. argv' \in [0 .. MAXARGS - 1 -> -1 .. BUFLEN - 2]
    BY <1>2, <1>3, <2>4 DEF SaveArg, TypeOK
  <2>9. TypeOK'
    BY <1>2, <1>3, <2>2, <2>6, <2>7, <2>8 DEF SaveArg, TypeOK
  <2>10. buf'[q] = NUL
    BY <2>2, <2>3, <2>4
  <2>11. QED
    BY <2>2, <2>6, <2>9, <2>10 DEF LineInv, Terminated
<1>4. CASE TooMany \/ EndOfLine
  <2>1. pc = "parse" /\ Gobble /\ p' = AfterSpace /\ pc' \in {"done", "lookup"}
        /\ UNCHANGED <<i, screen, argc>> /\ result' \in {result, "toomany"}
    BY <1>4 DEF TooMany, EndOfLine
  <2>2. /\ p' \in p .. BUFLEN - 1 /\ DelOnlyFirst'
        /\ buf' \in [0 .. BUFLEN - 1 -> Printable \union {NUL}]
    BY <2>1, GobbleKeeps
  <2>3. p' \in 0 .. BUFLEN - 1
    BY <1>1, <1>2, <2>2
  <2>4. argv' \in [0 .. MAXARGS - 1 -> -1 .. BUFLEN - 2]
    <3>1. -1 \in -1 .. BUFLEN - 2
      BY <1>1
    <3>2. QED
      BY <1>2, <1>4, <3>1 DEF TooMany, EndOfLine, TypeOK
  <2>5. TypeOK'
    BY <1>2, <2>1, <2>2, <2>3, <2>4 DEF TypeOK
  <2>6. QED
    BY <2>1, <2>2, <2>5 DEF LineInv, Terminated
<1>5. CASE Lookup
  <2>1. result' \in {"none", "run", "unknown"} /\ pc' = "done"
        /\ UNCHANGED <<buf, i, screen, p, argc, argv>>
    BY <1>5 DEF Lookup, reader, parser
  <2>2. QED
    BY <1>2, <2>1 DEF LineInv, TypeOK, DelOnlyFirst, Terminated
<1>6. QED
  BY <1>3, <1>4, <1>5 DEF runcmd

LEMMA LineInvNext ==
  ASSUME LineInv, [Next]_vars
  PROVE  LineInv'
<1>1. BUFLEN \in Nat /\ BUFLEN >= 2
  BY SizesAssumption
<1>2. CASE Prompt
  <2>1. i' \in 0 .. BUFLEN - 1 /\ screen' \in Seq(Printable)
    BY <1>1, <1>2 DEF Prompt
  <2>2. QED
    BY <1>2, <2>1 DEF Prompt, parser, LineInv, TypeOK, DelOnlyFirst, Terminated
<1>3. CASE UNCHANGED vars
  BY <1>3 DEF vars, reader, parser, LineInv, TypeOK, DelOnlyFirst, Terminated
<1>4. QED
  BY <1>2, <1>3, ReadlineKeeps, RuncmdKeeps DEF Next

(* Whatever is typed, every index readline and runcmd use is within the    *)
(* line or the argument vector: runcmd's loops stop at the NUL that        *)
(* readline left, and argc leaves a place for the null pointer             *)
(* (readline.c:17-35, monitor.c:103-122).                                  *)
THEOREM TypeCorrect == Spec => []TypeOK
<1>1. LineInv => TypeOK
  BY DEF LineInv
<1>2. LineInv /\ [Next]_vars => LineInv'
  BY LineInvNext
<1>3. QED
  BY <1>1, <1>2, LineInvInit, PTL DEF Spec

(* For a line of any size, 7F is a character of it only at its beginning   *)
(* (readline.c:21-28).                                                     *)
THEOREM DelOnlyFirstCorrect == Spec => []DelOnlyFirst
<1>1. LineInv => DelOnlyFirst
  BY DEF LineInv
<1>2. LineInv /\ [Next]_vars => LineInv'
  BY LineInvNext
<1>3. QED
  BY <1>1, <1>2, LineInvInit, PTL DEF Spec

-----------------------------------------------------------------------------
(* Words of a line.                                                        *)

(* What the white space overwritten so far has left of character k.        *)
Cut(k) == IF k < p /\ screen[k + 1] = Space THEN NUL ELSE screen[k + 1]

Edited == Len(screen) = i /\ (pc = "read" => \A k \in 1 .. i : buf[k - 1] = screen[k])

Found == { argv[n] + 1 : n \in 0 .. argc - 1 }

Parsed ==
  pc \in {"parse", "lookup"} =>
    /\ p <= i /\ buf[i] = NUL
    /\ \A k \in 0 .. i - 1 : buf[k] = Cut(k)
    /\ p \in {0, i} \/ screen[p + 1] = Space
    /\ \A m, n \in 0 .. argc - 1 : m < n => argv[m] < argv[n]
    /\ Found = { b \in Begins(screen) : b <= p }

Ended == pc = "lookup" => p = i /\ argv[argc] = -1

Judged == pc # "done" => result = "none"

ShownInv == Edited /\ Parsed /\ Ended /\ Judged /\ RefusesOnlyLong

LEMMA PrintableChars ==
  /\ NUL \notin Printable /\ NUL # Space
  /\ Printable \subseteq Chars /\ Printable \ {Space} \subseteq NonSpace
BY LettersAssumption DEF Printable, Chars, NonSpace, NUL, Space, Del

(* A list of different things has as many of them as places.               *)
LEMMA Counted ==
  ASSUME NEW n \in Nat, NEW B, IsFiniteSet(B), NEW f \in [0 .. n - 1 -> B]
  PROVE  /\ (\A x \in B : \E k \in 0 .. n - 1 : f[k] = x) => Cardinality(B) <= n
         /\ (\A k, l \in 0 .. n - 1 : k < l => f[k] # f[l]) => n <= Cardinality(B)
<1>. DEFINE D == 0 .. n - 1
<1>1. IsFiniteSet(D) /\ Cardinality(D) = n
  BY FS_Interval
<1>2. ASSUME \A x \in B : \E k \in D : f[k] = x PROVE Cardinality(B) <= n
  <2>1. f \in Surjection(D, B)
    BY <1>2 DEF Surjection
  <2>. HIDE DEF D
  <2> QED BY <1>1, <2>1, FS_Surjection
<1>3. ASSUME \A k, l \in D : k < l => f[k] # f[l] PROVE n <= Cardinality(B)
  <2>1. \A k, l \in D : f[k] = f[l] => k = l
    BY <1>3
  <2>2. f \in Injection(D, B)
    BY <2>1 DEF Injection, IsInjective
  <2>. HIDE DEF D
  <2> QED BY <1>1, <2>2, FS_Injection
<1> QED BY <1>2, <1>3

(* A line has finitely many words.                                         *)
LEMMA BeginsFinite ==
  ASSUME NEW s, Len(s) \in Nat
  PROVE  IsFiniteSet(Begins(s)) /\ Begins(s) \subseteq 1 .. Len(s)
<1>1. Begins(s) \subseteq 1 .. Len(s)
  BY DEF Begins
<1>2. IsFiniteSet(1 .. Len(s))
  BY FS_Interval
<1> QED BY <1>1, <1>2, FS_Subset

(* Behind white space from p on lies the end of the line or the beginning  *)
(* of the next word.                                                       *)
LEMMA GobbleFinds ==
  ASSUME LineInv, ShownInv, pc = "parse", Gobble
  PROVE  /\ AfterSpace \in p .. i /\ buf[i] = NUL
         /\ \A k \in p .. AfterSpace - 1 : screen[k + 1] = Space
         /\ \A k \in 0 .. i - 1 : buf'[k] = IF k < AfterSpace /\ screen[k + 1] = Space
                                            THEN NUL ELSE screen[k + 1]
         /\ buf'[i] = NUL
         /\ \A b \in Begins(screen) : b <= AfterSpace => b <= p
         /\ buf[AfterSpace] = NUL => AfterSpace = i
         /\ buf[AfterSpace] # NUL =>
              /\ AfterSpace < i /\ screen[AfterSpace + 1] # Space
              /\ AfterSpace + 1 \in Begins(screen)
<1>. DEFINE q == AfterSpace
<1>1. /\ BUFLEN \in Nat /\ i \in 0 .. BUFLEN - 1 /\ p \in Nat /\ p <= i /\ i \in Nat
      /\ Len(screen) = i /\ screen \in Seq(Printable) /\ buf[i] = NUL
      /\ \A k \in 0 .. i - 1 : buf[k] = Cut(k)
      /\ p \in {0, i} \/ screen[p + 1] = Space
      /\ buf \in [0 .. BUFLEN - 1 -> Printable \union {NUL}]
  BY SizesAssumption DEF LineInv, TypeOK, ShownInv, Edited, Parsed
<1>2. \A k \in 1 .. i : screen[k] \in Printable
  BY <1>1
<1>3. \A k \in p .. i - 1 : buf[k] = screen[k + 1]
  BY <1>1 DEF Cut
<1>4. /\ q \in p .. i /\ buf[q] \in NonSpace
      /\ \A j \in p .. q - 1 : buf[j] \notin NonSpace
  <2>1. i \in p .. BUFLEN - 1 /\ buf[i] \in NonSpace
    BY <1>1, PrintableChars DEF NonSpace
  <2> QED BY <1>1, <2>1, ScanFinds DEF AfterSpace, LineInv
<1>5. q \in Nat
  BY <1>1, <1>4
<1>. HIDE DEF q
<1>6. \A k \in p .. q - 1 : screen[k + 1] = Space
  <2>. SUFFICES ASSUME NEW k \in p .. q - 1 PROVE screen[k + 1] = Space
    OBVIOUS
  <2>1. k \in p .. i - 1 /\ k + 1 \in 1 .. i
    BY <1>1, <1>4, <1>5
  <2>2. screen[k + 1] \in Printable /\ screen[k + 1] \notin NonSpace
    BY <1>2, <1>3, <1>4, <2>1
  <2> QED BY <2>2, PrintableChars
<1>7. buf' = [k \in DOMAIN buf |-> IF k \in p .. q - 1 THEN NUL ELSE buf[k]]
  BY DEF Gobble, q
<1>8. ASSUME NEW k \in 0 .. i - 1
      PROVE  buf'[k] = IF k < q /\ screen[k + 1] = Space THEN NUL ELSE screen[k + 1]
  <2>1. k \in 0 .. BUFLEN - 1 /\ k \in Int
    BY <1>1
  <2>2. buf'[k] = IF k \in p .. q - 1 THEN NUL ELSE buf[k]
    BY <1>1, <1>7, <2>1
  <2>3. CASE k \in p .. q - 1
    BY <1>5, <1>6, <2>1, <2>2, <2>3
  <2>4. CASE k \notin p .. q - 1
    <3>1. k < p \/ ~(k < q)
      BY <1>1, <1>5, <2>1, <2>4
    <3>2. k < p => k < q
      BY <1>1, <1>4, <2>1
    <3> QED BY <1>1, <2>2, <2>4, <3>1, <3>2 DEF Cut
  <2> QED BY <2>3, <2>4
<1>9. buf'[i] = NUL
  BY <1>1, <1>7
<1>10. ASSUME NEW b \in Begins(screen), b <= q PROVE b <= p
  <2>1. b \in Nat /\ b \in 1 .. i /\ screen[b] # Space
    BY <1>1 DEF Begins
  <2>2. ~(b <= p) => b - 1 \in p .. q - 1 /\ (b - 1) + 1 = b
    BY <1>1, <1>5, <1>10, <2>1
  <2> QED BY <1>6, <2>1, <2>2
<1>11. buf[q] = NUL => q = i
  <2>1. ~(q = i) => q \in p .. i - 1 /\ q + 1 \in 1 .. i
    BY <1>1, <1>4, <1>5
  <2> QED BY <1>2, <1>3, <2>1, PrintableChars
<1>12. ASSUME buf[q] # NUL
       PROVE  q < i /\ screen[q + 1] # Space /\ q + 1 \in Begins(screen)
  <2>1. q < i /\ q \in p .. i - 1 /\ q + 1 \in 1 .. i
    BY <1>1, <1>4, <1>5, <1>12
  <2>2. screen[q + 1] # Space
    BY <1>3, <1>4, <2>1 DEF NonSpace
  <2>3. q + 1 = 1 \/ screen[(q + 1) - 1] = Space
    <3>1. CASE q = p
      BY <1>1, <2>1, <2>2, <3>1
    <3>2. CASE q # p
      <4>1. q - 1 \in p .. q - 1 /\ (q - 1) + 1 = q /\ (q + 1) - 1 = q
        BY <1>1, <1>4, <1>5, <3>2
      <4> QED BY <1>6, <4>1
    <3> QED BY <3>1, <3>2
  <2> QED BY <1>1, <2>1, <2>2, <2>3 DEF Begins
<1> QED BY <1>1, <1>4, <1>6, <1>8, <1>9, <1>10, <1>11, <1>12 DEF q

-----------------------------------------------------------------------------
(* The steps of runcmd.                                                    *)

LEMMA SaveArgShown ==
  ASSUME LineInv, ShownInv, SaveArg
  PROVE  ShownInv'
<1>. DEFINE q == AfterSpace
            e == Scan(q, {Space, NUL})
<1>1. /\ pc = "parse" /\ pc' = "parse" /\ buf[q] # NUL /\ Gobble
      /\ argv' = [argv EXCEPT ![argc] = q] /\ argc' = argc + 1 /\ p' = e
      /\ argc # MAXARGS - 1 /\ UNCHANGED <<i, screen, result>>
  BY DEF SaveArg, Full
<1>2. /\ q \in p .. i /\ buf[i] = NUL /\ buf'[i] = NUL
      /\ \A k \in 0 .. i - 1 : buf'[k] = IF k < q /\ screen[k + 1] = Space
                                         THEN NUL ELSE screen[k + 1]
      /\ \A b \in Begins(screen) : b <= q => b <= p
      /\ q < i /\ screen[q + 1] # Space /\ q + 1 \in Begins(screen)
  BY <1>1, GobbleFinds
<1>3. /\ BUFLEN \in Nat /\ i \in 0 .. BUFLEN - 1 /\ p \in Nat /\ i \in Nat /\ Len(screen) = i
      /\ MAXARGS \in Nat /\ argc \in 0 .. MAXARGS - 1 /\ argc \in Nat
      /\ argv \in [0 .. MAXARGS - 1 -> -1 .. BUFLEN - 2]
  BY SizesAssumption DEF LineInv, TypeOK, ShownInv, Edited
<1>4. /\ \A k \in 0 .. i - 1 : buf[k] = Cut(k)
      /\ \A m, n \in 0 .. argc - 1 : m < n => argv[m] < argv[n]
      /\ Found = { b \in Begins(screen) : b <= p }
  BY <1>1 DEF ShownInv, Parsed
<1>5. q \in Nat
  BY <1>2, <1>3
<1>6. e \in q .. i /\ buf[e] \in {Space, NUL} /\ \A j \in q .. e - 1 : buf[j] \notin {Space, NUL}
  <2>1. i \in q .. BUFLEN - 1 /\ buf[i] \in {Space, NUL}
    BY <1>2, <1>3, <1>5
  <2> QED BY <1>5, <2>1, ScanFinds DEF LineInv
<1>. HIDE DEF q, e
<1>7. \A k \in q .. i - 1 : buf[k] = screen[k + 1]
  BY <1>2, <1>3, <1>4, <1>5 DEF Cut
<1>8. e \in Nat /\ q < e
  <2>1. buf[q] # Space
    BY <1>2, <1>3, <1>5, <1>7
  <2>2. e # q
    BY <1>1, <1>6, <2>1
  <2> QED BY <1>3, <1>5, <1>6, <2>2
<1>9. ASSUME NEW k \in q .. e - 1 PROVE screen[k + 1] # Space
  <2>1. k \in q .. i - 1
    BY <1>3, <1>5, <1>6, <1>8
  <2> QED BY <1>6, <1>7, <2>1
<1>10. e = i \/ screen[e + 1] = Space
  <2>1. e # i => e \in q .. i - 1 /\ e + 1 \in 1 .. i
    BY <1>3, <1>5, <1>6, <1>8
  <2>2. e # i => screen[e + 1] \in Printable
    BY <1>3, <2>1 DEF LineInv, TypeOK
  <2> QED BY <1>6, <1>7, <2>1, <2>2, PrintableChars
<1>11. \A k \in 0 .. i - 1 : buf'[k] = Cut(k)'
  <2>. SUFFICES ASSUME NEW k \in 0 .. i - 1 PROVE buf'[k] = Cut(k)'
    OBVIOUS
  <2>1. k < e /\ screen[k + 1] = Space <=> k < q /\ screen[k + 1] = Space
    BY <1>3, <1>5, <1>8, <1>9
  <2>2. Cut(k)' = IF k < e /\ screen[k + 1] = Space THEN NUL ELSE screen[k + 1]
    BY <1>1 DEF Cut
  <2> QED BY <1>2, <2>1, <2>2
<1>12. \A n \in 0 .. argc - 1 : argv'[n] = argv[n] /\ argv[n] < q /\ argv[n] \in Int
  <2>. SUFFICES ASSUME NEW n \in 0 .. argc - 1
                PROVE  argv'[n] = argv[n] /\ argv[n] < q /\ argv[n] \in Int
    OBVIOUS
  <2>1. n \in 0 .. MAXARGS - 1 /\ n # argc
    BY <1>3
  <2>2. argv'[n] = argv[n] /\ argv[n] \in -1 .. BUFLEN - 2
    BY <1>1, <1>3, <2>1
  <2>3. argv[n] + 1 \in Found
    BY DEF Found
  <2>4. argv[n] + 1 <= p
    BY <1>4, <2>3
  <2> QED BY <1>2, <1>3, <1>5, <2>2, <2>4
<1>13. argv'[argc] = q
  BY <1>1, <1>3
<1>14. 0 .. argc' - 1 = (0 .. argc - 1) \union {argc}
  BY <1>1, <1>3
<1>15. \A m, n \in 0 .. argc' - 1 : m < n => argv'[m] < argv'[n]
  <2>. SUFFICES ASSUME NEW m \in 0 .. argc' - 1, NEW n \in 0 .. argc' - 1, m < n
                PROVE  argv'[m] < argv'[n]
    OBVIOUS
  <2>1. m \in 0 .. argc - 1
    BY <1>1, <1>3
  <2>2. CASE n = argc
    BY <1>12, <1>13, <2>1, <2>2
  <2>3. CASE n # argc
    <3>1. n \in 0 .. argc - 1
      BY <1>14, <2>3
    <3> QED BY <1>4, <1>12, <2>1, <3>1
  <2> QED BY <2>2, <2>3
<1>16. Found' = { b \in Begins(screen) : b <= e }
  <2>1. Found' = Found \union {q + 1}
    BY <1>12, <1>13, <1>14 DEF Found
  <2>2. ASSUME NEW b \in Begins(screen)
        PROVE  b <= e <=> b <= p \/ b = q + 1
    <3>1. b \in Nat /\ b \in 1 .. i /\ (b = 1 \/ screen[b - 1] = Space)
      BY <1>3 DEF Begins
    <3>2. b <= e => b <= q + 1
      <4>1. ASSUME b <= e, ~(b <= q + 1) PROVE FALSE
        <5>1. b - 2 \in q .. e - 1 /\ (b - 2) + 1 = b - 1 /\ b # 1
          BY <1>5, <1>8, <3>1, <4>1
        <5> QED BY <1>9, <3>1, <5>1
      <4> QED BY <4>1
    <3>3. b <= q + 1 => b <= p \/ b = q + 1
      <4>1. b <= q + 1 => b <= q \/ b = q + 1
        BY <1>5, <3>1
      <4> QED BY <1>2, <4>1
    <3>4. (b <= p => b <= e) /\ (b = q + 1 => b <= e)
      BY <1>2, <1>3, <1>5, <1>8, <3>1
    <3> QED BY <3>2, <3>3, <3>4
  <2> QED BY <1>2, <1>4, <2>1, <2>2
<1>17. p' <= i' /\ (p' \in {0, i'} \/ screen'[p' + 1] = Space)
  BY <1>1, <1>3, <1>6, <1>8, <1>10
<1>18. Parsed'
  BY <1>1, <1>2, <1>11, <1>15, <1>16, <1>17 DEF Parsed
<1> QED BY <1>1, <1>18 DEF ShownInv, Edited, Ended, Judged, RefusesOnlyLong

(* One word more than argv has places for.                                 *)
LEMMA TooManyShown ==
  ASSUME LineInv, ShownInv, TooMany
  PROVE  ShownInv'
<1>. DEFINE q == AfterSpace
<1>1. /\ pc = "parse" /\ pc' = "done" /\ result' = "toomany" /\ buf[q] # NUL /\ Gobble
      /\ argc = MAXARGS - 1 /\ UNCHANGED <<i, screen, argc, argv>>
  BY DEF TooMany, Full
<1>2. q \in p .. i /\ q + 1 \in Begins(screen)
  BY <1>1, GobbleFinds
<1>3. /\ MAXARGS \in Nat /\ argc \in Nat /\ Len(screen) = i /\ i \in Nat /\ p \in Nat
      /\ argv \in [0 .. MAXARGS - 1 -> -1 .. BUFLEN - 2]
  BY SizesAssumption DEF LineInv, TypeOK, ShownInv, Edited
<1>4. /\ \A m, n \in 0 .. argc - 1 : m < n => argv[m] < argv[n]
      /\ Found = { b \in Begins(screen) : b <= p }
  BY <1>1 DEF ShownInv, Parsed
<1>5. q \in Nat
  BY <1>2, <1>3
<1>. HIDE DEF q
<1>. DEFINE B == Begins(screen)
            f == [n \in 0 .. MAXARGS - 1 |-> IF n < argc THEN argv[n] + 1 ELSE q + 1]
<1>6. \A n \in 0 .. argc - 1 : argv[n] + 1 \in B /\ argv[n] + 1 <= p /\ argv[n] \in Int
  <2>1. \A n \in 0 .. argc - 1 : argv[n] + 1 \in Found
    BY DEF Found
  <2>2. \A n \in 0 .. argc - 1 : argv[n] \in Int
    BY <1>1, <1>3, SizesAssumption
  <2> QED BY <1>4, <2>1, <2>2
<1>7. f \in [0 .. MAXARGS - 1 -> B]
  BY <1>2, <1>3, <1>6
<1>8. ASSUME NEW k \in 0 .. MAXARGS - 1, NEW l \in 0 .. MAXARGS - 1, k < l
      PROVE  f[k] # f[l]
  <2>1. k \in 0 .. argc - 1 /\ k < argc
    BY <1>1, <1>3, <1>8
  <2>2. f[k] = argv[k] + 1
    BY <2>1
  <2>3. CASE l < argc
    <3>1. l \in 0 .. argc - 1
      BY <1>3, <2>3
    <3>2. f[l] = argv[l] + 1 /\ argv[k] < argv[l]
      BY <1>4, <1>8, <2>1, <2>3, <3>1
    <3> QED BY <1>6, <2>1, <2>2, <3>1, <3>2
  <2>4. CASE ~(l < argc)
    <3>1. f[l] = q + 1
      BY <2>4
    <3> QED BY <1>2, <1>3, <1>5, <1>6, <2>1, <2>2, <3>1
  <2> QED BY <2>3, <2>4
<1>9. IsFiniteSet(B)
  BY <1>3, BeginsFinite
<1>. HIDE DEF B, f
<1>10. MAXARGS <= Cardinality(B)
  BY <1>3, <1>7, <1>8, <1>9, Counted
<1>11. Cardinality(B) \in Nat
  BY <1>9, FS_CardinalityType
<1>12. Cardinality(Begins(screen)) > MAXARGS - 1
  BY <1>3, <1>10, <1>11 DEF B
<1> QED BY <1>1, <1>12 DEF ShownInv, Edited, Parsed, Ended, Judged, RefusesOnlyLong

(* The whole line is cut up, and the vector closed.                        *)
LEMMA EndOfLineShown ==
  ASSUME LineInv, ShownInv, EndOfLine
  PROVE  ShownInv'
<1>. DEFINE q == AfterSpace
<1>1. /\ pc = "parse" /\ pc' = "lookup" /\ buf[q] = NUL /\ Gobble /\ p' = q
      /\ argv' = [argv EXCEPT ![argc] = -1] /\ UNCHANGED <<i, screen, argc, result>>
  BY DEF EndOfLine
<1>2. /\ q = i /\ buf'[i] = NUL
      /\ \A k \in 0 .. i - 1 : buf'[k] = IF k < q /\ screen[k + 1] = Space
                                         THEN NUL ELSE screen[k + 1]
      /\ \A b \in Begins(screen) : b <= q => b <= p
  BY <1>1, GobbleFinds
<1>3. /\ Len(screen) = i /\ i \in Nat /\ p \in Nat /\ p <= i /\ argc \in 0 .. MAXARGS - 1
      /\ MAXARGS \in Nat /\ argv \in [0 .. MAXARGS - 1 -> -1 .. BUFLEN - 2]
  BY <1>1, SizesAssumption DEF LineInv, TypeOK, ShownInv, Edited, Parsed
<1>4. /\ \A m, n \in 0 .. argc - 1 : m < n => argv[m] < argv[n]
      /\ Found = { b \in Begins(screen) : b <= p }
  BY <1>1 DEF ShownInv, Parsed
<1>5. \A n \in 0 .. argc - 1 : argv'[n] = argv[n]
  BY <1>1, <1>3
<1>6. argv'[argc] = -1
  BY <1>1, <1>3
<1>. HIDE DEF q
<1>7. Found' = Found
  BY <1>1, <1>5 DEF Found
<1>8. { b \in Begins(screen) : b <= q } = { b \in Begins(screen) : b <= p }
  <2>1. \A b \in Begins(screen) : b \in Nat /\ b <= i
    BY <1>3, BeginsFinite
  <2> QED BY <1>2, <1>3, <2>1
<1>9. \A k \in 0 .. i - 1 : buf'[k] = Cut(k)'
  BY <1>1, <1>2 DEF Cut
<1>10. \A m, n \in 0 .. argc' - 1 : m < n => argv'[m] < argv'[n]
  BY <1>1, <1>4, <1>5
<1>11. Parsed'
  BY <1>1, <1>2, <1>3, <1>4, <1>7, <1>8, <1>9, <1>10 DEF Parsed
<1> QED BY <1>1, <1>2, <1>6, <1>11 DEF ShownInv, Edited, Ended, Judged, RefusesOnlyLong

(* A line that is looked up has no more words than argv had places for.    *)
LEMMA LookupShown ==
  ASSUME LineInv, ShownInv, Lookup
  PROVE  ShownInv'
<1>1. /\ pc = "lookup" /\ pc' = "done" /\ result' \in {"none", "run", "unknown"}
      /\ UNCHANGED <<buf, i, screen, p, argc, argv>>
  BY DEF Lookup, reader, parser
<1>2. /\ MAXARGS \in Nat /\ argc \in 0 .. MAXARGS - 1 /\ argc \in Nat
      /\ Len(screen) = i /\ i \in Nat /\ p = i
  BY <1>1, SizesAssumption DEF LineInv, TypeOK, ShownInv, Edited, Ended
<1>. DEFINE B == Begins(screen)
            f == [n \in 0 .. argc - 1 |-> argv[n] + 1]
<1>3. IsFiniteSet(B) /\ B \subseteq 1 .. i
  BY <1>2, BeginsFinite
<1>4. Found = B
  <2>1. Found = { b \in B : b <= p }
    BY <1>1 DEF ShownInv, Parsed
  <2> QED BY <1>2, <1>3, <2>1
<1>5. f \in [0 .. argc - 1 -> B] /\ \A x \in B : \E k \in 0 .. argc - 1 : f[k] = x
  BY <1>4 DEF Found
<1>. HIDE DEF B, f
<1>6. Cardinality(B) <= argc
  BY <1>2, <1>3, <1>5, Counted
<1>7. Cardinality(B) \in Nat
  BY <1>3, FS_CardinalityType
<1>8. ~(Cardinality(Begins(screen)) > MAXARGS - 1)
  BY <1>2, <1>6, <1>7 DEF B
<1> QED BY <1>1, <1>8 DEF ShownInv, Edited, Parsed, Ended, Judged, RefusesOnlyLong

(* What the display shows is in the buffer while the line is edited.       *)
LEMMA ReadlineShown ==
  ASSUME LineInv, ShownInv, readline
  PROVE  ShownInv'
<1>1. /\ i \in 0 .. BUFLEN - 1 /\ i \in Nat /\ Len(screen) = i /\ screen \in Seq(Printable)
      /\ buf \in [0 .. BUFLEN - 1 -> Printable \union {NUL}]
      /\ BUFLEN \in Nat /\ Judged
  BY SizesAssumption DEF LineInv, TypeOK, ShownInv, Edited
<1>2. pc = "read" => \A k \in 1 .. i : buf[k - 1] = screen[k]
  BY DEF ShownInv, Edited
<1>3. ASSUME NEW c \in Chars, Erase(c)
      PROVE  ShownInv'
  <2>1. /\ pc = "read" /\ pc' = "read" /\ i > 0 /\ screen' = SubSeq(screen, 1, i - 1)
        /\ i' = i - 1 /\ UNCHANGED <<buf, p, argc, argv, result>>
    BY <1>1, <1>3 DEF Erase, Erases, Front, parser
  <2>2. Len(screen') = i - 1 /\ \A k \in 1 .. i - 1 : screen'[k] = screen[k]
    BY <1>1, <2>1
  <2>3. Edited'
    BY <1>1, <1>2, <2>1, <2>2 DEF Edited
  <2> QED BY <1>1, <2>1, <2>3 DEF ShownInv, Parsed, Ended, Judged, RefusesOnlyLong
<1>4. ASSUME NEW c \in Chars, Store(c)
      PROVE  ShownInv'
  <2>1. /\ pc = "read" /\ pc' = "read" /\ i < BUFLEN - 1 /\ screen' = Append(screen, c)
        /\ buf' = [buf EXCEPT ![i] = c] /\ i' = i + 1 /\ UNCHANGED <<p, argc, argv, result>>
        /\ c \in Printable
    BY <1>4 DEF Store, Stores, parser
  <2>2. /\ Len(screen') = i + 1 /\ screen'[i + 1] = c
        /\ \A k \in 1 .. i : screen'[k] = screen[k]
    BY <1>1, <2>1
  <2>3. \A k \in 1 .. i + 1 : buf'[k - 1] = screen'[k]
    <3>. SUFFICES ASSUME NEW k \in 1 .. i + 1 PROVE buf'[k - 1] = screen'[k]
      OBVIOUS
    <3>1. k - 1 \in 0 .. BUFLEN - 1
      BY <1>1, <2>1
    <3>2. CASE k = i + 1
      BY <1>1, <2>1, <2>2, <3>2
    <3>3. CASE k # i + 1
      <4>1. k \in 1 .. i /\ k - 1 # i
        BY <1>1, <3>3
      <4> QED BY <1>1, <1>2, <2>1, <2>2, <3>1, <4>1
    <3> QED BY <3>2, <3>3
  <2>4. Edited'
    BY <2>1, <2>2, <2>3 DEF Edited
  <2> QED BY <1>1, <2>1, <2>4 DEF ShownInv, Parsed, Ended, Judged, RefusesOnlyLong
<1>5. ASSUME NEW c \in Chars, Enter(c)
      PROVE  ShownInv'
  <2>1. /\ pc = "read" /\ pc' = "parse" /\ buf' = [buf EXCEPT ![i] = NUL] /\ p' = 0 /\ argc' = 0
        /\ UNCHANGED <<i, screen, result>>
    BY <1>5 DEF Enter
  <2>2. ASSUME NEW k \in 0 .. i - 1 PROVE buf'[k] = Cut(k)'
    <3>1. k \in 0 .. BUFLEN - 1 /\ k # i /\ k + 1 \in 1 .. i /\ (k + 1) - 1 = k /\ ~(k < 0)
      BY <1>1
    <3>2. buf'[k] = buf[k] /\ buf[k] = screen[k + 1]
      BY <1>1, <1>2, <2>1, <3>1
    <3> QED BY <2>1, <3>1, <3>2 DEF Cut
  <2>3. Found' = {} /\ 0 .. argc' - 1 = {}
    BY <2>1 DEF Found
  <2>4. { b \in Begins(screen) : b <= 0 } = {}
    BY <1>1, BeginsFinite
  <2>5. buf'[i] = NUL /\ 0 <= i
    BY <1>1, <2>1
  <2>6. Parsed'
    BY <2>1, <2>2, <2>3, <2>4, <2>5 DEF Parsed
  <2> QED BY <1>1, <2>1, <2>6 DEF ShownInv, Edited, Ended, Judged, RefusesOnlyLong
<1>6. ASSUME NEW c \in Chars, Ignore(c)
      PROVE  ShownInv'
  <2>1. UNCHANGED <<buf, i, screen, pc, p, argc, argv, result>>
    BY <1>6 DEF Ignore, vars, reader, parser
  <2> QED BY <2>1 DEF ShownInv, Edited, Parsed, Found, Cut, Ended, Judged, RefusesOnlyLong
<1> QED BY <1>3, <1>4, <1>5, <1>6 DEF readline

LEMMA ShownInit == Init => ShownInv
<1>. SUFFICES ASSUME Init PROVE ShownInv
  OBVIOUS
<1> QED BY DEF Init, ShownInv, Edited, Parsed, Ended, Judged, RefusesOnlyLong

LEMMA ShownNext ==
  ASSUME LineInv, ShownInv, [Next]_vars
  PROVE  ShownInv'
<1>1. CASE readline
  BY <1>1, ReadlineShown
<1>2. CASE SaveArg
  BY <1>2, SaveArgShown
<1>3. CASE TooMany
  BY <1>3, TooManyShown
<1>4. CASE EndOfLine
  BY <1>4, EndOfLineShown
<1>5. CASE Lookup
  BY <1>5, LookupShown
<1>6. CASE Prompt
  BY <1>6 DEF Prompt, ShownInv, Edited, Parsed, Ended, Judged, RefusesOnlyLong
<1>7. CASE UNCHANGED vars
  BY <1>7 DEF vars, reader, parser, ShownInv, Edited, Parsed, Found, Cut, Ended, Judged,
              RefusesOnlyLong
<1> QED BY <1>1, <1>2, <1>3, <1>4, <1>5, <1>6, <1>7 DEF Next, runcmd

-----------------------------------------------------------------------------

(* The string an argument points to is the word that begins there.         *)
LEMMA ArgumentIsWord ==
  ASSUME LineInv, ShownInv, pc = "lookup", NEW k \in 0 .. i - 1, screen[k + 1] # Space
  PROVE  StringAt(k) = Word(screen, k + 1)
<1>1. /\ BUFLEN \in Nat /\ i \in 0 .. BUFLEN - 1 /\ i \in Nat /\ p = i /\ Len(screen) = i
      /\ screen \in Seq(Printable) /\ buf \in [0 .. BUFLEN - 1 -> Printable \union {NUL}]
      /\ buf[i] = NUL /\ \A j \in 0 .. i - 1 : buf[j] = Cut(j)
  BY SizesAssumption DEF LineInv, TypeOK, ShownInv, Edited, Parsed, Ended
<1>. DEFINE z == Scan(k, {NUL})
<1>2. z \in k .. i /\ buf[z] = NUL /\ \A j \in k .. z - 1 : buf[j] # NUL
  <2>1. k \in Nat /\ i \in k .. BUFLEN - 1 /\ buf[i] \in {NUL}
    BY <1>1
  <2> QED BY <2>1, ScanFinds DEF LineInv
<1>. HIDE DEF z
<1>3. ASSUME NEW j \in 0 .. i - 1
      PROVE  /\ buf[j] = NUL <=> screen[j + 1] = Space
             /\ buf[j] # NUL => buf[j] = screen[j + 1]
  <2>1. j < p /\ j + 1 \in 1 .. i
    BY <1>1
  <2>2. screen[j + 1] # NUL
    BY <1>1, <2>1, PrintableChars
  <2> QED BY <1>1, <2>1, <2>2 DEF Cut
<1>4. z \in k + 1 .. i
  <2>1. z # k
    BY <1>2, <1>3
  <2> QED BY <1>1, <1>2, <2>1
<1>5. \A j \in k + 1 .. z : screen[j] # Space /\ buf[j - 1] = screen[j]
  <2>. SUFFICES ASSUME NEW j \in k + 1 .. z PROVE screen[j] # Space /\ buf[j - 1] = screen[j]
    OBVIOUS
  <2>1. j - 1 \in k .. z - 1 /\ j - 1 \in 0 .. i - 1 /\ (j - 1) + 1 = j
    BY <1>1, <1>4
  <2> QED BY <1>2, <1>3, <2>1
<1>6. z = i \/ screen[z + 1] = Space
  <2>1. z # i => z \in 0 .. i - 1
    BY <1>1, <1>4
  <2> QED BY <1>2, <1>3, <2>1
<1>. DEFINE WordEnd(e) == /\ \A j \in k + 1 .. e : screen[j] # Space
                          /\ e = i \/ screen[e + 1] = Space
<1>7. ASSUME NEW e \in k + 1 .. i, WordEnd(e)
      PROVE  e = z
  <2>1. ASSUME e < z PROVE FALSE
    <3>1. e + 1 \in k + 1 .. z /\ e # i
      BY <1>1, <1>4, <2>1
    <3> QED BY <1>5, <1>7, <3>1
  <2>2. ASSUME z < e PROVE FALSE
    <3>1. z + 1 \in k + 1 .. e /\ z # i
      BY <1>1, <1>4, <2>2
    <3> QED BY <1>6, <1>7, <3>1
  <2> QED BY <1>1, <1>4, <2>1, <2>2
<1>8. Word(screen, k + 1) = SubSeq(screen, k + 1, z)
  <2>1. WordEnd(z)
    BY <1>5, <1>6
  <2>. HIDE DEF WordEnd
  <2>2. z = CHOOSE e \in k + 1 .. i : WordEnd(e)
    BY <1>4, <1>7, <2>1
  <2> QED BY <1>1, <2>2 DEF Word, WordEnd
<1>. DEFINE all == [j \in 1 .. BUFLEN |-> buf[j - 1]]
<1>9. StringAt(k) = SubSeq(all, k + 1, z)
  BY DEF StringAt, z
<1>10. \A j \in k + 1 .. z : j \in 1 .. BUFLEN /\ all[j] = screen[j] /\ screen[j] \in Printable
  <2>. SUFFICES ASSUME NEW j \in k + 1 .. z
                PROVE  j \in 1 .. BUFLEN /\ all[j] = screen[j] /\ screen[j] \in Printable
    OBVIOUS
  <2>1. j \in 1 .. BUFLEN /\ j \in 1 .. i
    BY <1>1, <1>4
  <2> QED BY <1>1, <1>5, <2>1
<1>. HIDE DEF all
<1>11. k + 1 \in Int /\ z \in Int
  BY <1>1, <1>4
<1>12. /\ SubSeq(all, k + 1, z) \in Seq(Printable)
       /\ Len(SubSeq(all, k + 1, z)) = IF k + 1 <= z THEN z - (k + 1) + 1 ELSE 0
       /\ \A j \in 1 .. z - (k + 1) + 1 : SubSeq(all, k + 1, z)[j] = all[k + 1 + j - 1]
  BY <1>10, <1>11, SubSeqProperties
<1>13. /\ SubSeq(screen, k + 1, z) \in Seq(Printable)
       /\ Len(SubSeq(screen, k + 1, z)) = IF k + 1 <= z THEN z - (k + 1) + 1 ELSE 0
       /\ \A j \in 1 .. z - (k + 1) + 1 : SubSeq(screen, k + 1, z)[j] = screen[k + 1 + j - 1]
  BY <1>10, <1>11, SubSeqProperties
<1>14. SubSeq(all, k + 1, z) = SubSeq(screen, k + 1, z)
  <2>. DEFINE s == SubSeq(all, k + 1, z)
              t == SubSeq(screen, k + 1, z)
  <2>1. Len(s) = z - (k + 1) + 1 /\ Len(t) = Len(s)
    BY <1>4, <1>11, <1>12, <1>13
  <2>2. \A j \in 1 .. Len(s) : k + 1 + j - 1 \in k + 1 .. z
    BY <1>11, <2>1
  <2>3. \A j \in 1 .. Len(s) : s[j] = t[j]
    BY <1>10, <1>12, <1>13, <2>1, <2>2
  <2>4. s \in Seq(Printable) /\ t \in Seq(Printable)
    BY <1>12, <1>13
  <2>. HIDE DEF s, t
  <2>5. s = t
    BY <2>1, <2>3, <2>4, SeqEqual
  <2> QED BY <2>5 DEF s, t
<1> QED BY <1>8, <1>9, <1>14

(* At the lookup the line is cut up, and the vector holds what was found.  *)
LEMMA ShownThen ==
  ASSUME LineInv, ShownInv
  PROVE  RunsWhatIsShown
<1>. SUFFICES ASSUME pc = "lookup" PROVE RunsWhatIsShown
  BY DEF RunsWhatIsShown
<1>1. /\ argc \in Nat /\ p = i /\ i \in Nat /\ Len(screen) = i /\ argv[argc] = -1
      /\ \A m, n \in 0 .. argc - 1 : m < n => argv[m] < argv[n]
      /\ Found = { b \in Begins(screen) : b <= p }
  BY SizesAssumption DEF LineInv, TypeOK, ShownInv, Edited, Parsed, Ended
<1>2. \A n \in 0 .. argc - 1 : argv[n] \in Int
  BY SizesAssumption DEF LineInv, TypeOK
<1>. DEFINE at == [n \in 0 .. argc - 1 |-> argv[n] + 1]
<1>3. \A m, n \in 0 .. argc - 1 : m < n => at[m] < at[n]
  BY <1>1, <1>2
<1>4. { at[n] : n \in 0 .. argc - 1 } = Begins(screen)
  <2>1. \A b \in Begins(screen) : b <= p
    BY <1>1, BeginsFinite
  <2>2. Found = Begins(screen)
    BY <1>1, <2>1
  <2> QED BY <2>2 DEF Found
<1>5. ASSUME NEW n \in 0 .. argc - 1
      PROVE  StringAt(argv[n]) = Word(screen, at[n])
  <2>1. argv[n] + 1 \in Begins(screen)
    BY <1>4
  <2>2. argv[n] \in 0 .. i - 1 /\ screen[argv[n] + 1] # Space
    BY <1>1, <1>2, <2>1 DEF Begins
  <2>3. StringAt(argv[n]) = Word(screen, argv[n] + 1)
    BY <2>2, ArgumentIsWord
  <2> QED BY <2>3
<1> QED BY <1>1, <1>3, <1>4, <1>5 DEF RunsWhatIsShown

(* Whatever is typed, erased and left in the buffer by earlier lines, the  *)
(* arguments of a command are the words on the display, in their order,    *)
(* for lines and vectors of every size (readline.c:16-35,                  *)
(* monitor.c:103-130).                                                     *)
THEOREM RunsWhatIsShownCorrect == Spec => []RunsWhatIsShown
<1>1. LineInv /\ [Next]_vars => LineInv'
  BY LineInvNext
<1>2. LineInv /\ ShownInv /\ [Next]_vars => ShownInv'
  BY ShownNext
<1>3. LineInv /\ ShownInv => RunsWhatIsShown
  BY ShownThen
<1> QED BY <1>1, <1>2, <1>3, LineInvInit, ShownInit, PTL DEF Spec

(* A line is refused exactly if it has more words than the vector has      *)
(* places beside the null pointer (monitor.c:114-117).                     *)
THEOREM RefusesOnlyLongCorrect == Spec => []RefusesOnlyLong
<1>1. LineInv /\ [Next]_vars => LineInv'
  BY LineInvNext
<1>2. LineInv /\ ShownInv /\ [Next]_vars => ShownInv'
  BY ShownNext
<1>3. ShownInv => RefusesOnlyLong
  BY DEF ShownInv
<1> QED BY <1>1, <1>2, <1>3, LineInvInit, ShownInit, PTL DEF Spec
=============================================================================
