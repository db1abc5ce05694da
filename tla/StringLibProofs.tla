-------------------------- MODULE StringLibProofs --------------------------
(***************************************************************************)
(* memmove and memset are right for every memory, address, length and      *)
(* word size, and however the operands of memmove overlap.  The loops keep *)
(* their contracts for every memory, string, size and text, and touch no   *)
(* byte outside.                                                           *)
(***************************************************************************)
EXTENDS StringLib, WellFoundedInduction, TLAPS

Filled(a) == IF f = "memmove" THEN mem0[q + (a - p)] ELSE q % BYTE

(* The addresses already stored.                                           *)
Stored == IF down THEN edi + unit .. p + n - 1 ELSE p .. edi - 1

(* The bytes the instruction has still to store.                           *)
Left == ecx * unit

Operands ==
  /\ p \in Nat /\ n \in Nat /\ p + n <= Top
  /\ f = "memmove" => q \in Nat /\ q + n <= Top /\ al = None
  /\ f = "memset" => q \in Int /\ al = q % BYTE /\ ~down

Registers ==
  /\ unit \in Nat \ {0} /\ ecx \in Nat /\ down \in BOOLEAN
  /\ Left \in Nat /\ Left <= n
  /\ edi = IF down THEN p + Left - unit ELSE p + (n - Left)
  /\ f = "memmove" => /\ esi = IF down THEN q + Left - unit ELSE q + (n - Left)
                      /\ IF down THEN q < p ELSE q >= p \/ q + n <= p

Running ==
  /\ f \in {"memmove", "memset"} /\ Operands /\ Registers
  /\ mem = [a \in Addresses |-> IF a \in Stored THEN Filled(a) ELSE mem0[a]]

(* While an instruction runs, what it has stored is right, and what it has *)
(* still to read is as it was: memmove chose the direction that way.       *)
IInv ==
  /\ pc \in {"call", "rep", "loop", "end", "blank", "digits", "done"}
  /\ mem0 \in Memories
  /\ pc = "call" => mem = mem0 /\ ~down
  /\ pc = "rep" => Running
  /\ pc \in {"loop", "end", "blank", "digits"} => f \notin {"memmove", "memset"}
  /\ MovesExactly

-----------------------------------------------------------------------------

(* The units of an operand make it up.                                     *)
LEMMA UnitsFill ==
  ASSUME NEW k \in Nat, NEW aligned \in BOOLEAN, aligned => k % WORD = 0
  PROVE  /\ UnitOf(aligned) \in Nat \ {0}
         /\ k \div UnitOf(aligned) \in Nat
         /\ (k \div UnitOf(aligned)) * UnitOf(aligned) = k
<1>1. CASE aligned
  BY <1>1, SizesAssumption DEF UnitOf
<1>2. CASE ~aligned
  BY <1>2 DEF UnitOf
<1> QED BY <1>1, <1>2

(* One repetition stores one unit.                                         *)
LEMMA OneUnit ==
  ASSUME NEW k \in Nat \ {0}, NEW u \in Nat \ {0}
  PROVE  /\ (k - 1) * u = k * u - u
         /\ k * u >= u /\ (k - 1) * u \in Nat
OBVIOUS

LEMMA BackAndForth ==
  ASSUME NEW x \in Int, NEW y \in Int, NEW z \in Int
  PROVE  (x + (y - z)) + z = x + y
OBVIOUS

LEMMA MemmovePreserves ==
  ASSUME IInv, pc = "call", NEW d \in 0 .. Top, NEW s \in 0 .. Top, NEW k \in 0 .. Top,
         Memmove(d, s, k)
  PROVE  IInv'
<1> USE SizesAssumption
<1> DEFINE aligned == s % WORD = 0 /\ d % WORD = 0 /\ k % WORD = 0
<1>1. /\ unit' \in Nat \ {0} /\ ecx' \in Nat /\ ecx' * unit' = k /\ k \in Nat
  <2>1. aligned \in BOOLEAN /\ k \in Nat /\ (aligned => k % WORD = 0)
    OBVIOUS
  <2>2. unit' = UnitOf(aligned) /\ ecx' = k \div unit'
    BY DEF Memmove
  <2> HIDE DEF aligned
  <2> QED BY <2>1, <2>2, UnitsFill
<1>2. /\ f' = "memmove" /\ p' = d /\ q' = s /\ n' = k /\ mem' = mem /\ mem0' = mem0
      /\ al' = None /\ pc' = "rep" /\ down' = Overlaps(d, s, k)
      /\ edi' = IF down' THEN d + k - unit' ELSE d
      /\ esi' = IF down' THEN s + k - unit' ELSE s
      /\ d + k <= Top /\ s + k <= Top
  BY DEF Memmove, Called
<1>3. Left' = k
  BY <1>1, <1>2 DEF Left
<1>4. Operands'
  BY <1>1, <1>2 DEF Operands
<1>8. unit' \in Nat /\ unit' > 0 /\ ecx' \in Nat /\ k \in Nat
  BY <1>1
<1>7. f' = "memmove" /\ p' = d /\ q' = s /\ n' = k /\ d \in Nat /\ s \in Nat
  BY <1>2
<1>5. Registers' /\ Stored' = {}
  <2>1. CASE s < d /\ s + k > d
    <3>1. down' /\ down' \in BOOLEAN
      BY <1>2, <2>1 DEF Overlaps
    <3>2. edi' = d + k - unit' /\ esi' = s + k - unit'
      BY <1>2, <3>1
    <3>3. Stored' = {}
      <4>1. Stored' = edi' + unit' .. p' + n' - 1
        BY <3>1 DEF Stored
      <4>2. edi' + unit' = d + k
        <5>1. d \in Int /\ k \in Int /\ unit' \in Int
          BY <1>7, <1>8
        <5>2. (d + (k - unit')) + unit' = d + k
          BY <5>1, BackAndForth
        <5> QED BY <3>2, <5>2
      <4>4. p' + n' - 1 = d + k - 1
        BY <1>7
      <4>3. d + k .. d + k - 1 = {}
        BY <1>7, <1>8
      <4> QED BY <4>1, <4>2, <4>3, <4>4
    <3> QED BY <1>3, <1>7, <1>8, <2>1, <3>1, <3>2, <3>3 DEF Registers
  <2>2. CASE ~(s < d /\ s + k > d)
    <3>1. ~down' /\ down' \in BOOLEAN
      BY <1>2, <2>2 DEF Overlaps
    <3>2. edi' = d /\ esi' = s
      BY <1>2, <3>1
    <3>3. Stored' = {}
      BY <1>7, <1>8, <3>1, <3>2 DEF Stored
    <3>4. s >= d \/ s + k <= d
      BY <1>7, <1>8, <2>2
    <3> QED BY <1>3, <1>7, <1>8, <3>1, <3>2, <3>3, <3>4 DEF Registers
  <2> QED BY <2>1, <2>2
<1>6. mem' = [a \in Addresses |-> mem0[a]]
  BY <1>2 DEF IInv, Memories
<1> QED BY <1>2, <1>4, <1>5, <1>6 DEF IInv, Running, MovesExactly

LEMMA MemsetPreserves ==
  ASSUME IInv, pc = "call", NEW d \in 0 .. Top, NEW c \in Fills, NEW k \in 0 .. Top,
         Memset(d, c, k)
  PROVE  IInv'
<1> USE SizesAssumption
<1>1. /\ f' = "memset" /\ p' = d /\ q' = c /\ n' = k /\ mem' = mem /\ mem0' = mem0
      /\ d + k <= Top /\ k \in Nat /\ d \in Nat /\ c \in Int
      /\ mem = mem0 /\ mem0 \in Memories /\ ~down
  BY DEF Memset, Called, IInv
<1>2. CASE k = 0
  <2>1. pc' = "done" /\ result' = d /\ down' = down
    BY <1>2 DEF Memset, registers
  <2>2. d .. d + k - 1 = {}
    BY <1>1, <1>2
  <2>3. mem' = [a \in Addresses |-> mem0[a]]
    BY <1>1 DEF Memories
  <2> QED BY <1>1, <2>1, <2>2, <2>3 DEF IInv, MovesExactly
<1>3. CASE k # 0
  <2> DEFINE aligned == d % WORD = 0 /\ k % WORD = 0
  <2>1. aligned \in BOOLEAN /\ (aligned => k % WORD = 0)
    BY <1>1
  <2>2. /\ unit' = UnitOf(aligned) /\ ecx' = k \div unit'
        /\ down' = FALSE /\ edi' = d /\ al' = c % BYTE /\ pc' = "rep"
    BY <1>3 DEF Memset
  <2> HIDE DEF aligned
  <2>3. unit' \in Nat \ {0} /\ ecx' \in Nat /\ Left' = k
    BY <1>1, <2>1, <2>2, UnitsFill DEF Left
  <2>4. Operands' /\ Registers'
    <3>1. Operands'
      BY <1>1, <2>2 DEF Operands
    <3>2. unit' \in Nat \ {0} /\ ecx' \in Nat
      BY <2>3
    <3>3. ~down' /\ down' \in BOOLEAN /\ edi' = d /\ f' # "memmove" /\ p' = d /\ n' = k
      BY <1>1, <2>2
    <3> QED BY <1>1, <2>3, <3>1, <3>2, <3>3 DEF Registers
  <2>5. Stored' = {}
    BY <1>1, <2>2 DEF Stored
  <2>6. mem' = [a \in Addresses |-> mem0[a]]
    BY <1>1 DEF Memories
  <2> QED BY <1>1, <2>2, <2>4, <2>5, <2>6 DEF IInv, Running, MovesExactly
<1> QED BY <1>2, <1>3

LEMMA RepPreserves ==
  ASSUME IInv, Rep
  PROVE  IInv'
<1> USE SizesAssumption
<1>1. /\ pc = "rep" /\ ecx \in Nat \ {0} /\ ecx' = ecx - 1 /\ unit' = unit
      /\ edi' = edi + Stride /\ esi' = esi + Stride /\ down' = down /\ al' = al
      /\ mem' = [a \in Addresses |-> Moved(a)]
      /\ f' = f /\ p' = p /\ q' = q /\ n' = n /\ mem0' = mem0 /\ pc' = "rep"
  BY DEF Rep, IInv, Running, Registers, call
<1>2. Running
  BY <1>1 DEF IInv
<1>3. Left' = Left - unit /\ Left >= unit /\ Left' \in Nat /\ unit \in Nat \ {0}
  BY <1>1, <1>2, OneUnit DEF Left, Running, Registers
<1>4. Operands'
  BY <1>1, <1>2 DEF Operands, Running
<1>5. Registers'
  <2>1. CASE down
    BY <1>1, <1>2, <1>3, <2>1 DEF Registers, Running, Operands, Stride
  <2>2. CASE ~down
    BY <1>1, <1>2, <1>3, <2>2 DEF Registers, Running, Operands, Stride
  <2> QED BY <2>1, <2>2
(* The unit is read where nothing has been stored yet.                     *)
<1>6. ASSUME NEW a \in Addresses, a \in edi .. edi + unit - 1
      PROVE  Moved(a) = Filled(a)
  <2>1. CASE f = "memset"
    BY <1>2, <1>6, <2>1 DEF Running, Operands, Registers, Moved, Filled, None, Bytes
  <2>2. CASE f = "memmove"
    <3> DEFINE b == q + (a - p)
    <3>1. /\ esi + (a - edi) = b /\ b \in Addresses /\ b \notin Stored
      <4>1. CASE down
        BY <1>2, <1>3, <1>6, <2>2, <4>1 DEF Running, Operands, Registers, Stored, Addresses
      <4>2. CASE ~down
        BY <1>2, <1>3, <1>6, <2>2, <4>2 DEF Running, Operands, Registers, Stored, Addresses
      <4> QED BY <4>1, <4>2
    <3>2. mem[b] = mem0[b]
      BY <1>2, <3>1 DEF Running
    <3> QED BY <1>2, <1>6, <2>2, <3>1, <3>2 DEF Running, Operands, Moved, Filled
  <2> QED BY <1>2, <2>1, <2>2 DEF Running
<1>7. ASSUME NEW a \in Addresses
      PROVE  a \in Stored' <=> a \in Stored \/ a \in edi .. edi + unit - 1
  <2>1. CASE down
    BY <1>1, <1>2, <1>3, <2>1 DEF Stored, Running, Operands, Registers, Stride, Addresses
  <2>2. CASE ~down
    BY <1>1, <1>2, <1>3, <2>2 DEF Stored, Running, Operands, Registers, Stride, Addresses
  <2> QED BY <2>1, <2>2
<1>8. ASSUME NEW a \in Addresses
      PROVE  Moved(a) = IF a \in Stored' THEN Filled(a) ELSE mem0[a]
  BY <1>2, <1>6, <1>7 DEF Moved, Running
<1>9. ASSUME NEW a \in Addresses
      PROVE  Filled(a)' = Filled(a)
  BY <1>1 DEF Filled
<1>10. mem' = [a \in Addresses |-> IF a \in Stored' THEN Filled(a)' ELSE mem0'[a]]
  BY <1>1, <1>8, <1>9
<1> QED BY <1>1, <1>2, <1>4, <1>5, <1>10 DEF IInv, Running, MovesExactly

LEMMA RepEndPreserves ==
  ASSUME IInv, RepEnd
  PROVE  IInv'
<1> USE SizesAssumption
<1>1. /\ pc = "rep" /\ ecx = 0 /\ down' = FALSE /\ result' = p /\ pc' = "done"
      /\ mem' = mem /\ f' = f /\ p' = p /\ q' = q /\ n' = n /\ mem0' = mem0
  BY DEF RepEnd, call
<1>2. Running
  BY <1>1 DEF IInv
<1>3. Left = 0
  BY <1>1, <1>2 DEF Left, Running, Registers
<1>4. Stored = p .. p + n - 1
  <2>1. CASE down
    BY <1>2, <1>3, <2>1 DEF Stored, Running, Operands, Registers
  <2>2. CASE ~down
    BY <1>2, <1>3, <2>2 DEF Stored, Running, Operands, Registers
  <2> QED BY <2>1, <2>2
<1>5. mem = [a \in Addresses |-> IF a \notin p .. p + n - 1 THEN mem0[a] ELSE Filled(a)]
  BY <1>2, <1>4 DEF Running
<1>6. MovesExactly'
  BY <1>1, <1>5 DEF MovesExactly, Filled
<1> QED BY <1>1, <1>6 DEF IInv

(* The other routines are not this invariant's business.                   *)
LEMMA OthersPreserve ==
  ASSUME IInv, mem0' = mem0, pc' \in {"loop", "end", "blank", "digits", "done"},
         f' \notin {"memmove", "memset"}
  PROVE  IInv'
BY DEF IInv, MovesExactly

LEMMA CallPreserves ==
  ASSUME IInv, Call
  PROVE  IInv'
<1>1. CASE \E d, s, k \in 0 .. Top : Memmove(d, s, k)
  BY <1>1, MemmovePreserves DEF Call
<1>2. CASE \E d, k \in 0 .. Top, c \in Fills : Memset(d, c, k)
  BY <1>2, MemsetPreserves DEF Call
<1>3. CASE \E s, size \in 0 .. Top : SearchCall(s, size)
  BY <1>3, OthersPreserve DEF SearchCall, Begins, Called
<1>4. CASE \E s, t \in Addresses, size \in 0 .. Top : CompareCall(s, t, size)
  BY <1>4, OthersPreserve DEF CompareCall, Begins, Called
<1>5. CASE \E d, s \in Addresses, size \in 0 .. Top : CopyCall(d, s, size)
  BY <1>5, OthersPreserve DEF CopyCall, Begins, Called
<1>6. CASE \E s \in Texts, radix \in {0, 8, 10, 16} : StrtolCall(s, radix)
  BY <1>6, OthersPreserve DEF StrtolCall, Called
<1> QED BY <1>1, <1>2, <1>3, <1>4, <1>5, <1>6 DEF Call

LEMMA LoopsPreserve ==
  ASSUME IInv,
         \/ strlen \/ strnlen \/ strchr \/ strfind \/ memfind
         \/ strcmp \/ strncmp \/ memcmp
         \/ strcpy \/ strncpy \/ strlcpy \/ strcat
         \/ Blank \/ SignAndBase \/ DigitRead \/ strtol
  PROVE  IInv'
<1>1. CASE strlen \/ strnlen \/ strchr \/ strfind \/ memfind
  BY <1>1, OthersPreserve DEF strlen, strnlen, strchr, strfind, memfind, Looks, Looping,
       Returns, Turn, call
<1>2. CASE strcmp \/ strncmp \/ memcmp
  BY <1>2, OthersPreserve DEF strcmp, strncmp, memcmp, Looks, Looping, Returns, Turn, call
<1>3. CASE strcpy \/ strncpy \/ strlcpy
  <2>1. mem0' = mem0 /\ f' = f /\ pc = "loop" /\ pc' \in {"loop", "done"}
    BY <1>3 DEF strcpy, strncpy, strlcpy, Copies, Looping, Returns, Turn, call
  <2> QED BY <2>1, OthersPreserve DEF IInv
<1>4. CASE strcat
  <2>1. /\ mem0' = mem0 /\ f' = f /\ pc \in {"end", "loop"}
        /\ pc' \in {"loop", "end", "done"}
    BY <1>4 DEF strcat, Copies, Looping, Returns, Turn, call
  <2> QED BY <2>1, OthersPreserve DEF IInv
<1>5. CASE Blank \/ SignAndBase \/ DigitRead \/ strtol
  <2>1. /\ mem0' = mem0 /\ f' = f /\ pc \in {"blank", "digits"}
        /\ pc' \in {"blank", "digits", "done"}
    BY <1>5 DEF Blank, SignAndBase, DigitRead, strtol, call
  <2> QED BY <2>1, OthersPreserve DEF IInv
<1> QED BY <1>1, <1>2, <1>3, <1>4, <1>5

LEMMA IInvPreserved ==
  ASSUME IInv, [Next]_vars
  PROVE  IInv'
<1>1. CASE Call
  BY <1>1, CallPreserves
<1>2. CASE Rep
  BY <1>2, RepPreserves
<1>3. CASE RepEnd
  BY <1>3, RepEndPreserves
<1>4. CASE \/ strlen \/ strnlen \/ strchr \/ strfind \/ memfind
           \/ strcmp \/ strncmp \/ memcmp
           \/ strcpy \/ strncpy \/ strlcpy \/ strcat
           \/ Blank \/ SignAndBase \/ DigitRead \/ strtol
  BY <1>4, LoopsPreserve
<1>5. CASE UNCHANGED vars
  BY <1>5 DEF vars, call, registers, IInv, Running, Operands, Registers, Left,
              Stored, Filled, MovesExactly
<1> QED BY <1>1, <1>2, <1>3, <1>4, <1>5 DEF Next

(* For every memory, every two addresses and every length, memmove copies  *)
(* what was there at the call and memset fills, neither writes anything    *)
(* else, and the direction flag is clear on return (string.c:116-162).     *)
THEOREM MovesCorrect == Spec => []MovesExactly
<1>1. Init => IInv
  BY ContentsAssumption DEF Init, IInv, MovesExactly
<1>2. IInv /\ [Next]_vars => IInv'
  BY IInvPreserved
<1>3. IInv => MovesExactly
  BY DEF IInv
<1> QED BY <1>1, <1>2, <1>3, PTL DEF Spec

-----------------------------------------------------------------------------
(* The loops: what each of them has found, or written, so far.             *)

(* The string at s, when the call was made.                                *)
StringAt(s) ==
  /\ s \in Addresses /\ Length(mem0, s) \in 0 .. Top - 1 - s
  /\ mem0[s + Length(mem0, s)] = NUL
  /\ \A j \in 0 .. Length(mem0, s) - 1 : mem0[s + j] # NUL

SizedAt(s) == n \in Nat /\ s + n <= Top

Searching == f \in {"strlen", "strnlen", "strchr", "strfind", "memfind"}
Comparing == f \in {"strcmp", "strncmp", "memcmp"}
Copying == f \in {"strcpy", "strcat", "strncpy", "strlcpy"}

(* A search has not met what it is looking for.                            *)
SearchInv ==
  /\ mem = mem0 /\ p \in 0 .. Top /\ edi \in p .. Top
  /\ f \in {"strlen", "strchr", "strfind"} => StringAt(p) /\ edi <= p + Length(mem0, p)
  /\ f \in {"strchr", "strfind"} => q \in Bytes /\ \A a \in p .. edi - 1 : mem0[a] # q
  /\ f \in {"strnlen", "memfind"} => SizedAt(p) /\ edi <= p + n /\ ecx = (p + n) - edi
  /\ f = "strnlen" => \A a \in p .. edi - 1 : mem0[a] # NUL
  /\ f = "memfind" => q \in Int /\ \A a \in p .. edi - 1 : mem0[a] # q % BYTE

(* A comparison has met the same bytes in both operands, and no NUL.       *)
CompareInv ==
  /\ mem = mem0 /\ p \in Addresses /\ q \in Addresses
  /\ edi \in p .. Top /\ esi = q + (edi - p)
  /\ \A j \in 0 .. edi - p - 1 : /\ mem0[p + j] = mem0[q + j]
                                 /\ f # "memcmp" => mem0[p + j] # NUL
  /\ f = "strcmp" => /\ StringAt(p) /\ edi - p <= Length(mem0, p)
                     /\ StringAt(q) /\ edi - p <= Length(mem0, q)
  /\ f # "strcmp" => SizedAt(p) /\ SizedAt(q) /\ edi - p <= n /\ ecx = n - (edi - p)

(* Where a copy starts, how many bytes it may write, and which.            *)
Start == IF f = "strcat" THEN p + Length(mem0, p) ELSE p
Size == IF f \in {"strncpy", "strlcpy"} THEN n ELSE Length(mem0, q) + 1
Taken(j) == IF j < Length(mem0, q) THEN mem0[q + j] ELSE NUL

CopyOperands ==
  /\ StringAt(q) /\ p \in Addresses /\ (f = "strcat" => StringAt(p))
  /\ Size \in Nat /\ Start + Size <= Top
  /\ Apart(Start, Size, q, Length(mem0, q) + 1)

(* A copy has written the beginning of its source, and nothing else.       *)
CopyInv ==
  /\ CopyOperands
  /\ edi \in Start .. Start + Size
  /\ mem = [a \in Addresses |-> IF a \in Start .. edi - 1 THEN Taken(a - Start) ELSE mem0[a]]
  /\ esi = q + (IF edi - Start < Length(mem0, q) THEN edi - Start ELSE Length(mem0, q))
  /\ f # "strncpy" => edi - Start <= Length(mem0, q) /\ edi < Start + Size
  /\ f = "strncpy" => ecx = Size - (edi - Start)
  /\ f = "strlcpy" => ecx = (Size - 1) - (edi - Start)

(* strcat has not met the end of the string it appends to.                 *)
EndInv ==
  /\ f = "strcat" /\ mem = mem0 /\ CopyOperands
  /\ edi \in p .. Start /\ esi = q

(* h has the numbers that the beginnings of s[k + 1], ..., s[end] stand    *)
(* for in base b.                                                          *)
IsTable(h, s, k, end, b) ==
  /\ h \in [k .. end -> Nat] /\ h[k] = 0
  /\ \A x \in k + 1 .. end : h[x] = h[x - 1] * b + Digit(s[x])

(* The text s, its blanks, its sign and its prefix: i, j and k end them.   *)
Heading(s, base0, i, j, k, b) ==
  /\ b = IF base0 # 0 THEN base0
         ELSE IF Code(s, j) # 48 THEN 10
         ELSE IF Code(s, j + 1) = 120 THEN 16 ELSE 8
  /\ \A x \in 1 .. i : s[x] \in {32, 9}
  /\ Code(s, i) \notin {32, 9}
  /\ j = IF Code(s, i) \in {43, 45} THEN i + 1 ELSE i
  /\ k = IF b = 16 /\ Code(s, j) = 48 /\ Code(s, j + 1) = 120 THEN j + 2 ELSE j

(* strtol has read blanks, or what is in front of the digits and some of   *)
(* the digits; val is the number they stand for.                           *)
NumberInv ==
  /\ f = "strtol" /\ mem = mem0
  /\ p \in Texts /\ q \in {0, 8, 10, 16} /\ edi \in 0 .. Len(p)
  /\ pc = "blank" => \A x \in 1 .. edi : p[x] \in {32, 9}
  /\ pc = "digits" =>
       \E i, j, k \in 0 .. Len(p) :
         /\ Heading(p, q, i, j, k, base) /\ neg = (Code(p, i) = 45)
         /\ k <= edi /\ \A x \in k + 1 .. edi : Digit(p[x]) < base
         /\ \E h : IsTable(h, p, k, edi, base) /\ h[edi] = val

(* What a routine has done so far is right, and so is what it returns.     *)
LoopInv ==
  /\ mem0 \in Memories
  /\ pc = "call" => mem = mem0
  /\ pc = "loop" => \/ Searching /\ SearchInv
                    \/ Comparing /\ CompareInv
                    \/ Copying /\ CopyInv
  /\ pc = "end" => EndInv
  /\ pc \in {"blank", "digits"} => NumberInv
  /\ Fulfilled

-----------------------------------------------------------------------------
(* Strings in memory.                                                      *)

LEMMA BeforeIs ==
  ASSUME NEW m, NEW s \in Int, NEW k \in Nat, NEW c \in 0 .. k,
         \A j \in 0 .. c - 1 : m[s + j] # NUL, c < k => m[s + c] = NUL
  PROVE  Before(m, s, k) = c
<1> DEFINE P(x) == /\ \A j \in 0 .. x - 1 : m[s + j] # NUL
                   /\ x < k => m[s + x] = NUL
<1>1. ASSUME NEW x \in 0 .. k, P(x) PROVE x = c
  <2>1. ~(x < c)
    BY <1>1
  <2>2. ~(c < x)
    BY <1>1
  <2> QED BY <2>1, <2>2
<1>2. P(c)
  OBVIOUS
<1> HIDE DEF P
<1>3. (CHOOSE x \in 0 .. k : P(x)) = c
  BY <1>1, <1>2
<1> QED BY <1>3 DEF P, Before

LEMMA BeforeIn ==
  ASSUME NEW m, NEW s \in Int, NEW k \in Nat
  PROVE  /\ Before(m, s, k) \in 0 .. k
         /\ \A j \in 0 .. Before(m, s, k) - 1 : m[s + j] # NUL
         /\ Before(m, s, k) < k => m[s + Before(m, s, k)] = NUL
<1> DEFINE D == {x \in 0 .. k : x < k => m[s + x] = NUL}
<1>1. D \subseteq Nat /\ k \in D
  OBVIOUS
<1>2. PICK c \in D : \A x \in D : <<x, c>> \notin OpToRel(<, Nat)
  BY <1>1, NatLessThanWellFounded, WFMin
<1>3. c \in 0 .. k /\ (c < k => m[s + c] = NUL) /\ \A x \in D : ~(x < c)
  BY <1>1, <1>2 DEF OpToRel
<1>4. \A j \in 0 .. c - 1 : m[s + j] # NUL
  BY <1>3
<1> HIDE DEF D
<1>5. Before(m, s, k) = c
  BY <1>3, <1>4, BeforeIs
<1> QED BY <1>3, <1>4, <1>5

LEMMA LengthIs ==
  ASSUME NEW m, NEW s \in Addresses, NEW c \in 0 .. Top - 1 - s,
         m[s + c] = NUL, \A j \in 0 .. c - 1 : m[s + j] # NUL
  PROVE  Length(m, s) = c
<1>1. s \in Int /\ Top - s \in Nat /\ c \in 0 .. Top - s
  BY SizesAssumption DEF Addresses
<1> QED BY <1>1, BeforeIs DEF Length

LEMMA StringHas ==
  ASSUME mem = mem0, NEW s \in 0 .. Top, IsString(s)
  PROVE  StringAt(s)
<1>1. PICK a \in s .. Top - 1 : mem0[a] = NUL
  BY DEF IsString
<1>2. s \in Addresses /\ s \in Int /\ Top - s \in Nat /\ Top \in Nat
  BY <1>1, SizesAssumption DEF Addresses
<1> DEFINE c == Length(mem0, s)
<1>3. /\ c \in 0 .. Top - s /\ \A j \in 0 .. c - 1 : mem0[s + j] # NUL
      /\ c < Top - s => mem0[s + c] = NUL
  BY <1>2, BeforeIn DEF Length
<1> HIDE DEF c
<1>4. c # Top - s
  <2>1. SUFFICES ASSUME c = Top - s PROVE FALSE
    OBVIOUS
  <2>2. a - s \in 0 .. c - 1 /\ s + (a - s) = a
    BY <1>1, <1>2, <2>1
  <2> QED BY <1>1, <1>3, <2>2
<1> QED BY <1>2, <1>3, <1>4 DEF StringAt, c

(* What is known of a comparison when it ends decides it.                  *)
LEMMA EqualsOrder ==
  ASSUME NEW s
  PROVE  s \in Seq(Int) => Orders(0, s, s)
<1> SUFFICES ASSUME s \in Seq(Int) PROVE Orders(0, s, s)
  OBVIOUS
<1> QED BY DEF Orders

LEMMA PrefixOrders ==
  ASSUME NEW s \in Seq(Int), NEW t \in Seq(Int), Len(s) < Len(t),
         \A j \in 1 .. Len(s) : s[j] = t[j], NEW r \in Int
  PROVE  /\ r < 0 => Orders(r, s, t)
         /\ r > 0 => Orders(r, t, s)
<1>1. s # t
  OBVIOUS
<1>2. s = SubSeq(t, 1, Len(s))
  OBVIOUS
<1>3. ~(Len(t) < Len(s))
  OBVIOUS
<1>4. ~(\E i \in DOMAIN s \intersect DOMAIN t : s[i] < t[i])
  OBVIOUS
<1>5. ~(\E i \in DOMAIN t \intersect DOMAIN s : t[i] < s[i])
  OBVIOUS
<1> QED BY <1>1, <1>2, <1>3, <1>4, <1>5 DEF Orders

LEMMA BeginningIs ==
  ASSUME NEW s \in Seq(Int), NEW m \in Int
  PROVE  SubSeq(s, 1, m) = [j \in 1 .. m |-> s[j]]
OBVIOUS

LEMMA BytesOrder ==
  ASSUME NEW s \in Seq(Int), NEW t \in Seq(Int),
         NEW k \in DOMAIN s \intersect DOMAIN t,
         \A j \in 1 .. k - 1 : s[j] = t[j], s[k] # t[k]
  PROVE  Orders(s[k] - t[k], s, t)
<1>1. s # t /\ k \in 1 .. Len(s) /\ k \in 1 .. Len(t) /\ s[k] \in Int /\ t[k] \in Int
  OBVIOUS
<1>2. SubSeq(s, 1, k - 1) = SubSeq(t, 1, k - 1)
  <2>1. /\ SubSeq(s, 1, k - 1) = [j \in 1 .. k - 1 |-> s[j]]
        /\ SubSeq(t, 1, k - 1) = [j \in 1 .. k - 1 |-> t[j]]
    BY <1>1, BeginningIs
  <2> QED BY <2>1
<1>3. s # SubSeq(t, 1, Len(s)) /\ t # SubSeq(s, 1, Len(t))
  <2>1. /\ SubSeq(t, 1, Len(s)) = [j \in 1 .. Len(s) |-> t[j]]
        /\ SubSeq(s, 1, Len(t)) = [j \in 1 .. Len(t) |-> s[j]]
    BY BeginningIs
  <2>2. SubSeq(t, 1, Len(s))[k] = t[k] /\ SubSeq(s, 1, Len(t))[k] = s[k]
    BY <1>1, <2>1
  <2> QED BY <2>2
<1>4. ASSUME NEW i \in DOMAIN s \intersect DOMAIN t
      PROVE  i < k => s[i] = t[i]
  <2>1. i \in 1 .. Len(s) /\ k \in Int
    OBVIOUS
  <2>2. i < k => i \in 1 .. k - 1
    BY <2>1
  <2> QED BY <2>2
<1>5. ASSUME NEW i \in DOMAIN s \intersect DOMAIN t, SubSeq(s, 1, i - 1) = SubSeq(t, 1, i - 1)
      PROVE  ~(k < i)
  <2>1. SUFFICES ASSUME k < i PROVE FALSE
    OBVIOUS
  <2>2. i \in 1 .. Len(s)
    OBVIOUS
  <2>3. k \in 1 .. i - 1 /\ i - 1 \in Int
    BY <1>1, <2>1, <2>2
  <2>4. /\ SubSeq(s, 1, i - 1) = [j \in 1 .. i - 1 |-> s[j]]
        /\ SubSeq(t, 1, i - 1) = [j \in 1 .. i - 1 |-> t[j]]
    BY <2>3, BeginningIs
  <2>5. SubSeq(s, 1, i - 1)[k] = s[k] /\ SubSeq(t, 1, i - 1)[k] = t[k]
    BY <2>3, <2>4
  <2> QED BY <1>5, <2>5
<1>6. ASSUME NEW i \in DOMAIN s \intersect DOMAIN t, SubSeq(s, 1, i - 1) = SubSeq(t, 1, i - 1)
      PROVE  (s[i] < t[i] => s[k] < t[k]) /\ (t[i] < s[i] => t[k] < s[k])
  <2>1. i = k \/ i < k
    <3>1. i \in 1 .. Len(s) /\ ~(k < i)
      BY <1>5, <1>6
    <3> QED BY <1>1, <3>1
  <2>2. i = k \/ s[i] = t[i]
    BY <1>4, <1>6, <2>1
  <2>3. s[i] \in Int /\ t[i] \in Int
    OBVIOUS
  <2> QED BY <2>2, <2>3
<1> DEFINE less(u, v) == \/ Len(u) < Len(v) /\ u = SubSeq(v, 1, Len(u))
                         \/ \E i \in DOMAIN u \intersect DOMAIN v :
                              SubSeq(u, 1, i - 1) = SubSeq(v, 1, i - 1) /\ u[i] < v[i]
<1>7. less(s, t) <=> s[k] < t[k]
  BY <1>2, <1>3, <1>6
<1>8. less(t, s) <=> t[k] < s[k]
  BY <1>2, <1>3, <1>6
<1>9. Orders(s[k] - t[k], s, t) <=>
        LET r == s[k] - t[k]
        IN (r = 0 <=> s = t) /\ (r < 0 <=> less(s, t)) /\ (r > 0 <=> less(t, s))
  BY DEF Orders
<1> HIDE DEF less
<1> QED BY <1>1, <1>7, <1>8, <1>9

-----------------------------------------------------------------------------
(* The searches.                                                           *)

LEMMA GoesOn ==
  ASSUME mem0' \in Memories, pc' = "loop",
         \/ Searching' /\ SearchInv'
         \/ Comparing' /\ CompareInv'
         \/ Copying' /\ CopyInv'
  PROVE  LoopInv'
BY DEF LoopInv, Fulfilled

LEMMA IsDone ==
  ASSUME mem0' \in Memories, pc' = "done", Fulfilled'
  PROVE  LoopInv'
BY DEF LoopInv

LEMMA SearchCalled ==
  ASSUME LoopInv, pc = "call", NEW s \in 0 .. Top, NEW size \in 0 .. Top, SearchCall(s, size)
  PROVE  LoopInv'
<1>1. /\ mem0' = mem0 /\ mem' = mem /\ mem = mem0 /\ mem0 \in Memories /\ pc' = "loop"
      /\ p' = s /\ edi' = s
  BY DEF SearchCall, Begins, Called, LoopInv
<1>2. /\ f' \in {"strlen", "strchr", "strfind"} => IsString(s)
      /\ f' \in {"strchr", "strfind"} => q' \in Bytes
      /\ f' \in {"strnlen", "memfind"} => n' = size /\ ecx' = size /\ s + size <= Top
      /\ f' = "memfind" => q' \in Fills
      /\ Searching'
  BY DEF SearchCall, Begins, Called, Fits, Searching
<1>3. IsString(s) => StringAt(p)' /\ Length(mem0, p)' \in Nat
  <2>1. SUFFICES ASSUME IsString(s) PROVE StringAt(p)' /\ Length(mem0, p)' \in Nat
    OBVIOUS
  <2>2. StringAt(s)
    BY <1>1, <2>1, StringHas
  <2> QED BY <1>1, <2>2 DEF StringAt
<1>4. s \in Nat /\ s \in s .. Top /\ s .. s - 1 = {} /\ size \in Nat /\ (s + size) - s = size
  BY SizesAssumption
<1>5. q' \in Fills => q' \in Int
  BY SizesAssumption
<1>6. f' \in {"strlen", "strchr", "strfind"} => edi' <= p' + Length(mem0, p)'
  BY <1>1, <1>2, <1>3, <1>4
<1>7. f' \in {"strnlen", "memfind"} => SizedAt(p)' /\ edi' <= p' + n' /\ ecx' = (p' + n') - edi'
  BY <1>1, <1>2, <1>4 DEF SizedAt
<1>8. p' .. edi' - 1 = {}
  BY <1>1, <1>4
<1>9. SearchInv'
  BY <1>1, <1>2, <1>3, <1>4, <1>5, <1>6, <1>7, <1>8 DEF SearchInv
<1> QED BY <1>1, <1>2, <1>9, GoesOn

(* A search goes on behind a byte that is not the one it looks for.        *)
LEMMA SearchTurns ==
  ASSUME LoopInv, pc = "loop", Searching, SearchInv, Turn(mem, 0),
         f \in {"strlen", "strchr", "strfind"} => mem[edi] # NUL,
         f \in {"strchr", "strfind"} => mem[edi] # q,
         f \in {"strnlen", "memfind"} => ecx # 0,
         f = "strnlen" => mem[edi] # NUL,
         f = "memfind" => mem[edi] # q % BYTE
  PROVE  LoopInv'
<1>1. /\ mem0' = mem0 /\ mem' = mem /\ mem = mem0 /\ pc' = "loop" /\ edi' = edi + 1
      /\ f' = f /\ p' = p /\ q' = q /\ n' = n /\ mem0 \in Memories
      /\ ecx' = IF ecx > 0 THEN ecx - 1 ELSE 0
  BY DEF Turn, call, SearchInv, LoopInv
<1>2. p \in Nat /\ edi \in Nat /\ p <= edi /\ edi <= Top /\ Top \in Nat
  BY SizesAssumption DEF SearchInv
<1>3. p' .. edi' - 1 = (p .. edi - 1) \union {edi}
  BY <1>1, <1>2
<1>4. CASE f \in {"strlen", "strchr", "strfind"}
  <2>1. StringAt(p) /\ edi <= p + Length(mem0, p)
    BY <1>4 DEF SearchInv
  <2>2. StringAt(p)'
    BY <1>1, <2>1 DEF StringAt
  <2>3. /\ Length(mem0, p) \in Nat /\ Length(mem0, p) <= Top - 1 - p
        /\ mem0[p + Length(mem0, p)] = NUL
    BY <1>2, <2>1 DEF StringAt
  <2>4. edi # p + Length(mem0, p)
    BY <1>1, <1>4, <2>3
  <2>5. edi' <= p' + Length(mem0, p)' /\ edi' \in p' .. Top
    BY <1>1, <1>2, <2>1, <2>3, <2>4
  <2>6. f \in {"strchr", "strfind"} => q \in Bytes /\ \A a \in p' .. edi' - 1 : mem0[a] # q
    BY <1>1, <1>3 DEF SearchInv
  <2>7. SearchInv'
    BY <1>1, <1>4, <2>2, <2>5, <2>6 DEF SearchInv
  <2> QED BY <1>1, <1>4, <2>7, GoesOn DEF Searching
<1>5. CASE f \in {"strnlen", "memfind"}
  <2>1. SizedAt(p) /\ edi <= p + n /\ ecx = (p + n) - edi
    BY <1>5 DEF SearchInv
  <2>2. ecx # 0
    BY <1>5
  <2>3. ecx > 0
    BY <1>2, <2>1, <2>2 DEF SizedAt
  <2>4. ecx' = (p' + n') - edi' /\ edi' <= p' + n' /\ edi' \in p' .. Top
    BY <1>1, <1>2, <2>1, <2>3 DEF SizedAt
  <2>5. SizedAt(p)'
    BY <1>1, <2>1 DEF SizedAt
  <2>6. /\ f = "strnlen" => \A a \in p' .. edi' - 1 : mem0[a] # NUL
        /\ f = "memfind" => q \in Int /\ \A a \in p' .. edi' - 1 : mem0[a] # q % BYTE
    BY <1>1, <1>3 DEF SearchInv
  <2>7. SearchInv'
    BY <1>1, <1>2, <1>5, <2>3, <2>4, <2>5, <2>6 DEF SearchInv
  <2> QED BY <1>1, <1>5, <2>7, GoesOn DEF Searching
<1> QED BY <1>4, <1>5 DEF Searching

LEMMA LookReturns ==
  ASSUME NEW r, Returns(mem, r), LoopInv, mem = mem0
  PROVE  /\ mem0' = mem0 /\ mem' = mem0 /\ mem0' \in Memories /\ pc' = "done"
         /\ result' = r /\ f' = f /\ p' = p /\ q' = q /\ n' = n
BY DEF Returns, call, LoopInv

(* The end of a string is its NUL.                                         *)
LEMMA AtNUL ==
  ASSUME NEW s, StringAt(s), NEW a \in Nat, s <= a, a <= s + Length(mem0, s), mem0[a] = NUL
  PROVE  a = s + Length(mem0, s)
<1>1. /\ s \in Nat /\ Length(mem0, s) \in Nat
      /\ \A j \in 0 .. Length(mem0, s) - 1 : mem0[s + j] # NUL
  BY SizesAssumption DEF StringAt, Addresses
<1> DEFINE k == Length(mem0, s)
<1>2. k \in Nat /\ s \in Nat /\ a <= s + k /\ \A j \in 0 .. k - 1 : mem0[s + j] # NUL
  BY <1>1
<1> HIDE DEF k
<1>3. SUFFICES ASSUME a # s + k PROVE FALSE
  BY DEF k
<1>4. a - s \in 0 .. k - 1 /\ s + (a - s) = a
  BY <1>2, <1>3
<1> QED BY <1>2, <1>4

LEMMA StrlenPreserves ==
  ASSUME LoopInv, strlen
  PROVE  LoopInv'
<1>1. f = "strlen" /\ pc = "loop" /\ Searching /\ SearchInv /\ mem = mem0
  BY DEF strlen, Looks, Looping, LoopInv, Searching, Comparing, Copying, SearchInv
<1>2. CASE mem[edi] # NUL
  BY <1>1, <1>2, SearchTurns DEF strlen, Looks
<1>3. CASE mem[edi] = NUL
  <2>1. Returns(mem, edi - p)
    BY <1>3 DEF strlen, Looks
  <2>2. /\ StringAt(p) /\ p \in Nat /\ edi \in Nat /\ p <= edi /\ edi <= p + Length(mem0, p)
        /\ mem0[edi] = NUL
    BY <1>1, <1>3, SizesAssumption DEF SearchInv
  <2>3. edi = p + Length(mem0, p) /\ Length(mem0, p) \in Nat
    BY <2>2, AtNUL DEF StringAt
  <2>4. edi - p = Length(mem0, p)
    BY <2>2, <2>3
  <2>5. Fulfilled'
    BY <1>1, <2>1, <2>4, LookReturns DEF Fulfilled
  <2> QED BY <1>1, <2>1, <2>5, LookReturns, IsDone
<1> QED BY <1>2, <1>3

LEMMA StrnlenPreserves ==
  ASSUME LoopInv, strnlen
  PROVE  LoopInv'
<1>1. f = "strnlen" /\ pc = "loop" /\ Searching /\ SearchInv /\ mem = mem0
  BY DEF strnlen, Looks, Looping, LoopInv, Searching, Comparing, Copying, SearchInv
<1>2. CASE ~(ecx = 0 \/ mem[edi] = NUL)
  BY <1>1, <1>2, SearchTurns DEF strnlen, Looks
<1>3. CASE ecx = 0 \/ mem[edi] = NUL
  <2>1. Returns(mem, edi - p)
    BY <1>3 DEF strnlen, Looks
  <2>2. /\ p \in Nat /\ edi \in Nat /\ n \in Nat /\ p <= edi /\ edi <= p + n
        /\ ecx = (p + n) - edi /\ \A a \in p .. edi - 1 : mem0[a] # NUL
    BY <1>1, SizesAssumption DEF SearchInv, SizedAt
  <2>3. edi = p + n \/ mem0[edi] = NUL
    BY <1>1, <1>3, <2>2
  <2>4. p + (edi - p) = edi /\ edi \in p .. p + n
    BY <2>2
  <2>5. FirstAt(NUL, p, p + n, p + result)'
    BY <1>1, <2>1, <2>2, <2>3, <2>4, LookReturns DEF FirstAt
  <2>6. Fulfilled'
    BY <1>1, <2>1, <2>5, LookReturns DEF Fulfilled
  <2> QED BY <1>1, <2>1, <2>6, LookReturns, IsDone
<1> QED BY <1>2, <1>3

LEMMA StrfindPreserves ==
  ASSUME LoopInv, strfind
  PROVE  LoopInv'
<1>1. f = "strfind" /\ pc = "loop" /\ Searching /\ SearchInv /\ mem = mem0
  BY DEF strfind, Looks, Looping, LoopInv, Searching, Comparing, Copying, SearchInv
<1>2. CASE mem[edi] \notin {NUL, q}
  BY <1>1, <1>2, SearchTurns DEF strfind, Looks
<1>3. CASE mem[edi] \in {NUL, q}
  <2>1. Returns(mem, edi)
    BY <1>3 DEF strfind, Looks
  <2>2. /\ StringAt(p) /\ p \in Nat /\ edi \in Nat /\ p <= edi /\ edi <= p + Length(mem0, p)
        /\ \A a \in p .. edi - 1 : mem0[a] # q
    BY <1>1, SizesAssumption DEF SearchInv
  <2>3. edi = p + Length(mem0, p) \/ mem0[edi] = q
    BY <1>1, <1>3, <2>2, AtNUL
  <2>4. edi \in p .. p + Length(mem0, p)
    BY <2>2, SizesAssumption DEF StringAt, Addresses
  <2>5. FirstAt(q, p, p + Length(mem0, p), result)'
    BY <1>1, <2>1, <2>2, <2>3, <2>4, LookReturns DEF FirstAt
  <2>6. Fulfilled'
    BY <1>1, <2>1, <2>5, LookReturns DEF Fulfilled
  <2> QED BY <1>1, <2>1, <2>6, LookReturns, IsDone
<1> QED BY <1>2, <1>3

LEMMA StrchrPreserves ==
  ASSUME LoopInv, strchr
  PROVE  LoopInv'
<1>1. f = "strchr" /\ pc = "loop" /\ Searching /\ SearchInv /\ mem = mem0
  BY DEF strchr, Looks, Looping, LoopInv, Searching, Comparing, Copying, SearchInv
<1>2. CASE mem[edi] \notin {NUL, q}
  BY <1>1, <1>2, SearchTurns DEF strchr, Looks
<1>3. CASE mem[edi] \in {NUL, q}
  <2> DEFINE r == IF mem[edi] = NUL THEN None ELSE edi
             end == p + Length(mem0, p)
  <2>1. Returns(mem, r)
    BY <1>3 DEF strchr, Looks
  <2>2. /\ StringAt(p) /\ p \in Nat /\ edi \in Nat /\ p <= edi /\ edi <= end
        /\ \A a \in p .. edi - 1 : mem0[a] # q
    BY <1>1, SizesAssumption DEF SearchInv
  <2>3. end \in Nat /\ mem0[end] = NUL
    BY <2>2 DEF StringAt, Addresses
  <2>4. mem[edi] = NUL => r = None /\ FirstAt(q, p, end, end)
    <3>1. SUFFICES ASSUME mem[edi] = NUL PROVE FirstAt(q, p, end, end)
      OBVIOUS
    <3>2. edi = end
      BY <1>1, <2>2, <3>1, AtNUL
    <3> QED BY <2>2, <2>3, <3>2 DEF FirstAt
  <2>5. mem[edi] # NUL => r # None /\ q # NUL /\ r < end /\ FirstAt(q, p, end, r)
    <3>1. SUFFICES ASSUME mem[edi] # NUL
                   PROVE  r # None /\ q # NUL /\ r < end /\ FirstAt(q, p, end, r)
      OBVIOUS
    <3>2. edi < end /\ r = edi /\ q # NUL /\ mem0[edi] = q /\ r # None
      BY <1>1, <1>3, <2>2, <2>3, <3>1 DEF None
    <3> QED BY <2>2, <2>3, <3>2 DEF FirstAt
  <2>6. IF r = None THEN q = NUL \/ FirstAt(q, p, end, end)
        ELSE q # NUL /\ r < end /\ FirstAt(q, p, end, r)
    BY <2>4, <2>5
  <2> HIDE DEF r
  <2>7. Fulfilled'
    BY <1>1, <2>1, <2>6, LookReturns DEF Fulfilled, FirstAt
  <2> QED BY <1>1, <2>1, <2>7, LookReturns, IsDone
<1> QED BY <1>2, <1>3

LEMMA MemfindPreserves ==
  ASSUME LoopInv, memfind
  PROVE  LoopInv'
<1>1. f = "memfind" /\ pc = "loop" /\ Searching /\ SearchInv /\ mem = mem0
  BY DEF memfind, Looks, Looping, LoopInv, Searching, Comparing, Copying, SearchInv
<1>2. CASE ~(ecx = 0 \/ mem[edi] = q % BYTE)
  BY <1>1, <1>2, SearchTurns DEF memfind, Looks
<1>3. CASE ecx = 0 \/ mem[edi] = q % BYTE
  <2>1. Returns(mem, edi)
    BY <1>3 DEF memfind, Looks
  <2>2. /\ p \in Nat /\ edi \in Nat /\ n \in Nat /\ p <= edi /\ edi <= p + n
        /\ ecx = (p + n) - edi /\ \A a \in p .. edi - 1 : mem0[a] # q % BYTE
    BY <1>1, SizesAssumption DEF SearchInv, SizedAt
  <2>3. edi = p + n \/ mem0[edi] = q % BYTE
    BY <1>1, <1>3, <2>2
  <2>4. edi \in p .. p + n
    BY <2>2
  <2>5. FirstAt(q % BYTE, p, p + n, result)'
    BY <1>1, <2>1, <2>2, <2>3, <2>4, LookReturns DEF FirstAt
  <2>6. Fulfilled'
    BY <1>1, <2>1, <2>5, LookReturns DEF Fulfilled
  <2> QED BY <1>1, <2>1, <2>6, LookReturns, IsDone
<1> QED BY <1>2, <1>3

-----------------------------------------------------------------------------
(* The comparisons.                                                        *)

LEMMA SpanIs ==
  ASSUME NEW m \in Memories, NEW s \in Nat, NEW k \in Nat, s + k <= Top
  PROVE  /\ Span(m, s, k) \in Seq(Int) /\ Len(Span(m, s, k)) = k
         /\ DOMAIN Span(m, s, k) = 1 .. k
         /\ \A j \in 1 .. k : Span(m, s, k)[j] = m[s + j - 1]
<1>1. ASSUME NEW j \in 1 .. k PROVE m[s + j - 1] \in Int
  <2>1. s + j - 1 \in Addresses
    BY SizesAssumption DEF Addresses
  <2>2. Bytes \subseteq Int
    BY DEF Bytes
  <2> QED BY <2>1, <2>2 DEF Memories
<1>2. Span(m, s, k) \in [1 .. k -> Int]
  BY <1>1 DEF Span
<1> QED BY <1>2 DEF Span

(* Two operands of sizes k and l with the same i bytes first.              *)
SameFirst(s, t, k, l, i) ==
  /\ mem0 \in Memories
  /\ s \in Nat /\ k \in Nat /\ s + k <= Top
  /\ t \in Nat /\ l \in Nat /\ t + l <= Top
  /\ i \in Nat /\ i <= k /\ i <= l
  /\ \A j \in 0 .. i - 1 : mem0[s + j] = mem0[t + j]

LEMMA SameBytes ==
  ASSUME NEW s, NEW t, NEW k, NEW l, NEW i, SameFirst(s, t, k, l, i)
  PROVE  \A j \in 1 .. i : Span(mem0, s, k)[j] = Span(mem0, t, l)[j]
<1> TAKE j \in 1 .. i
<1>1. /\ mem0 \in Memories /\ s \in Nat /\ k \in Nat /\ s + k <= Top
      /\ t \in Nat /\ l \in Nat /\ t + l <= Top /\ i \in Nat /\ i <= k /\ i <= l
  BY DEF SameFirst
<1>2. j \in 1 .. k /\ j \in 1 .. l /\ j - 1 \in 0 .. i - 1
      /\ s + j - 1 = s + (j - 1) /\ t + j - 1 = t + (j - 1)
  BY <1>1
<1>3. mem0[s + (j - 1)] = mem0[t + (j - 1)]
  BY <1>2 DEF SameFirst
<1>4. Span(mem0, s, k)[j] = mem0[s + j - 1] /\ Span(mem0, t, l)[j] = mem0[t + j - 1]
  BY <1>1, <1>2, SpanIs
<1> QED BY <1>2, <1>3, <1>4

LEMMA SameOrder ==
  ASSUME NEW s, NEW t, NEW k, NEW l, SameFirst(s, t, k, l, k), k = l
  PROVE  Orders(0, Span(mem0, s, k), Span(mem0, t, l))
<1>1. /\ Span(mem0, s, k) \in Seq(Int) /\ Len(Span(mem0, s, k)) = k
      /\ Span(mem0, t, l) \in Seq(Int) /\ Len(Span(mem0, t, l)) = k
  BY SpanIs DEF SameFirst
<1>2. Span(mem0, s, k) = Span(mem0, t, l)
  <2> DEFINE u == Span(mem0, s, k)
             v == Span(mem0, t, l)
  <2>1. \A j \in 1 .. k : u[j] = v[j]
    BY SameBytes
  <2>2. u \in Seq(Int) /\ v \in Seq(Int) /\ Len(u) = k /\ Len(v) = k
    BY <1>1
  <2> HIDE DEF u, v
  <2>3. u = v
    BY <2>1, <2>2
  <2> QED BY <2>3 DEF u, v
<1> QED BY <1>1, <1>2, EqualsOrder

LEMMA ShorterOrders ==
  ASSUME NEW s, NEW t, NEW k, NEW l, SameFirst(s, t, k, l, k), k < l, NEW r \in Int
  PROVE  /\ r < 0 => Orders(r, Span(mem0, s, k), Span(mem0, t, l))
         /\ r > 0 => Orders(r, Span(mem0, t, l), Span(mem0, s, k))
<1>1. /\ Span(mem0, s, k) \in Seq(Int) /\ Len(Span(mem0, s, k)) = k
      /\ Span(mem0, t, l) \in Seq(Int) /\ Len(Span(mem0, t, l)) = l
  BY SpanIs DEF SameFirst
<1>2. \A j \in 1 .. k : Span(mem0, s, k)[j] = Span(mem0, t, l)[j]
  BY SameBytes
<1> DEFINE u == Span(mem0, s, k)
           v == Span(mem0, t, l)
<1>3. u \in Seq(Int) /\ v \in Seq(Int) /\ Len(u) < Len(v) /\ \A j \in 1 .. Len(u) : u[j] = v[j]
  BY <1>1, <1>2
<1> HIDE DEF u, v
<1>4. (r < 0 => Orders(r, u, v)) /\ (r > 0 => Orders(r, v, u))
  BY <1>3, PrefixOrders
<1> QED BY <1>4 DEF u, v

LEMMA FirstDifferenceOrders ==
  ASSUME NEW s, NEW t, NEW k, NEW l, NEW i, SameFirst(s, t, k, l, i),
         i < k, i < l, mem0[s + i] # mem0[t + i]
  PROVE  Orders(mem0[s + i] - mem0[t + i], Span(mem0, s, k), Span(mem0, t, l))
<1> DEFINE u == Span(mem0, s, k)
           v == Span(mem0, t, l)
<1>1. /\ mem0 \in Memories /\ s \in Nat /\ k \in Nat /\ s + k <= Top
      /\ t \in Nat /\ l \in Nat /\ t + l <= Top /\ i \in Nat
  BY DEF SameFirst
<1>2. /\ u \in Seq(Int) /\ DOMAIN u = 1 .. k /\ \A j \in 1 .. k : u[j] = mem0[s + j - 1]
      /\ v \in Seq(Int) /\ DOMAIN v = 1 .. l /\ \A j \in 1 .. l : v[j] = mem0[t + j - 1]
  BY <1>1, SpanIs
<1>3. \A j \in 1 .. i : u[j] = v[j]
  BY SameBytes
<1> HIDE DEF u, v
<1>4. i + 1 \in 1 .. k /\ i + 1 \in 1 .. l /\ s + (i + 1) - 1 = s + i /\ t + (i + 1) - 1 = t + i
      /\ (i + 1) - 1 = i
  BY <1>1
<1>5. u[i + 1] = mem0[s + i] /\ v[i + 1] = mem0[t + i]
  BY <1>2, <1>4
<1>6. Orders(u[i + 1] - v[i + 1], u, v)
  <2>1. i + 1 \in DOMAIN u \intersect DOMAIN v
    BY <1>2, <1>4
  <2>2. \A j \in 1 .. (i + 1) - 1 : u[j] = v[j]
    BY <1>3, <1>4
  <2>3. u[i + 1] # v[i + 1]
    BY <1>5
  <2> QED BY <1>2, <2>1, <2>2, <2>3, BytesOrder
<1> QED BY <1>5, <1>6 DEF u, v

(* Strings end at their NUL, which is the least byte.                      *)
LEMMA StringsOrder ==
  ASSUME NEW s, NEW t, NEW k, NEW l, NEW i, SameFirst(s, t, k, l, i),
         s + i \in Addresses, t + i \in Addresses,
         i < k <=> mem0[s + i] # NUL, i < l <=> mem0[t + i] # NUL,
         mem0[s + i] = NUL \/ mem0[s + i] # mem0[t + i]
  PROVE  Orders(mem0[s + i] - mem0[t + i], Span(mem0, s, k), Span(mem0, t, l))
<1> DEFINE a == mem0[s + i]
           b == mem0[t + i]
<1>1. a \in Nat /\ b \in Nat
  <2>1. Bytes \subseteq Nat
    BY DEF Bytes
  <2> QED BY <2>1 DEF SameFirst, Memories
<1>2. k \in Nat /\ l \in Nat /\ i \in Nat /\ i <= k /\ i <= l
  BY DEF SameFirst
<1>3. (i < k <=> a # 0) /\ (i < l <=> b # 0) /\ (a = 0 \/ a # b)
  BY DEF NUL
<1>4. CASE a # 0 /\ b # 0
  BY <1>2, <1>3, <1>4, FirstDifferenceOrders
<1> HIDE DEF a, b
<1>5. CASE a = 0 /\ b = 0
  <2>1. k = i /\ l = i /\ a - b = 0
    BY <1>1, <1>2, <1>3, <1>5
  <2>2. Orders(0, Span(mem0, s, k), Span(mem0, t, l))
    BY <2>1, SameOrder
  <2> QED BY <2>1, <2>2 DEF a, b
<1>6. CASE a = 0 /\ b # 0
  <2>1. k = i /\ k < l /\ a - b \in Int /\ a - b < 0
    BY <1>1, <1>2, <1>3, <1>6
  <2>2. Orders(a - b, Span(mem0, s, k), Span(mem0, t, l))
    BY <2>1, ShorterOrders
  <2> QED BY <2>2 DEF a, b
<1>7. CASE a # 0 /\ b = 0
  <2>1. l = i /\ l < k /\ a - b \in Int /\ a - b > 0
    BY <1>1, <1>2, <1>3, <1>7
  <2>2. SameFirst(t, s, l, k, l)
    BY <2>1 DEF SameFirst
  <2>3. Orders(a - b, Span(mem0, s, k), Span(mem0, t, l))
    BY <2>1, <2>2, ShorterOrders
  <2> QED BY <2>3 DEF a, b
<1> QED BY <1>4, <1>5, <1>6, <1>7

(* What is known of the bytes before a NUL.                                *)
LEMMA BeforeOrNUL ==
  ASSUME NEW s \in Nat, NEW k \in Nat, NEW i \in 0 .. k,
         \A j \in 0 .. i - 1 : mem0[s + j] # NUL
  PROVE  /\ Before(mem0, s, k) \in i .. k
         /\ i < k => (i < Before(mem0, s, k) <=> mem0[s + i] # NUL)
<1> DEFINE c == Before(mem0, s, k)
<1>1. /\ c \in 0 .. k /\ \A j \in 0 .. c - 1 : mem0[s + j] # NUL
      /\ c < k => mem0[s + c] = NUL
  BY BeforeIn
<1> HIDE DEF c
<1>2. ~(c < i)
  BY <1>1
<1>3. i < c => mem0[s + i] # NUL
  BY <1>1
<1>4. i < k /\ mem0[s + i] # NUL => i < c
  BY <1>1, <1>2
<1> QED BY <1>1, <1>2, <1>3, <1>4 DEF c

LEMMA CompareCalled ==
  ASSUME LoopInv, pc = "call", NEW s \in Addresses, NEW t \in Addresses, NEW size \in 0 .. Top,
         CompareCall(s, t, size)
  PROVE  LoopInv'
<1>1. /\ mem0' = mem0 /\ mem' = mem /\ mem = mem0 /\ mem0 \in Memories /\ pc' = "loop"
      /\ p' = s /\ q' = t /\ edi' = s /\ esi' = t
  BY DEF CompareCall, Begins, Called, LoopInv
<1>2. /\ f' = "strcmp" => IsString(s) /\ IsString(t)
      /\ f' # "strcmp" => n' = size /\ ecx' = size /\ s + size <= Top /\ t + size <= Top
      /\ Comparing'
  BY DEF CompareCall, Begins, Called, Fits, Comparing
<1>3. s \in 0 .. Top /\ t \in 0 .. Top /\ s \in Nat /\ t \in Nat /\ s \in s .. Top /\ size \in Nat
  BY SizesAssumption DEF Addresses
<1>4. /\ IsString(s) => StringAt(s) /\ Length(mem0, s) \in Nat
      /\ IsString(t) => StringAt(t) /\ Length(mem0, t) \in Nat
  BY <1>1, <1>3, StringHas DEF StringAt
<1>5. /\ IsString(s) => StringAt(p)' /\ Length(mem0, p)' \in Nat
      /\ IsString(t) => StringAt(q)' /\ Length(mem0, q)' \in Nat
  BY <1>1, <1>4 DEF StringAt
<1>6. edi' - p' = 0 /\ esi' = q' + (edi' - p') /\ 0 .. edi' - p' - 1 = {}
  BY <1>1, <1>3
<1>7. f' # "strcmp" => SizedAt(p)' /\ SizedAt(q)' /\ edi' - p' <= n' /\ ecx' = n' - (edi' - p')
  BY <1>1, <1>2, <1>3, <1>6 DEF SizedAt
<1>8. f' = "strcmp" => edi' - p' <= Length(mem0, p)' /\ edi' - p' <= Length(mem0, q)'
  BY <1>2, <1>5, <1>6
<1>9. CompareInv'
  BY <1>1, <1>2, <1>3, <1>5, <1>6, <1>7, <1>8 DEF CompareInv
<1> QED BY <1>1, <1>2, <1>9, GoesOn

LEMMA CompareHas ==
  ASSUME CompareInv
  PROVE  /\ p \in Nat /\ q \in Nat /\ edi \in Nat /\ p <= edi /\ edi <= Top
         /\ edi - p \in Nat /\ esi = q + (edi - p) /\ edi = p + (edi - p)
BY SizesAssumption DEF CompareInv, Addresses

(* A comparison goes on behind bytes that are the same.                    *)
LEMMA CompareTurns ==
  ASSUME LoopInv, pc = "loop", Comparing, CompareInv, Turn(mem, 1),
         mem[edi] = mem[esi],
         f # "memcmp" => mem[edi] # NUL,
         f # "strcmp" => ecx # 0
  PROVE  LoopInv'
<1> DEFINE i == edi - p
<1>1. /\ mem0' = mem0 /\ mem' = mem /\ mem = mem0 /\ pc' = "loop"
      /\ edi' = edi + 1 /\ esi' = esi + 1
      /\ f' = f /\ p' = p /\ q' = q /\ n' = n /\ mem0 \in Memories
      /\ ecx' = IF ecx > 0 THEN ecx - 1 ELSE 0
  BY DEF Turn, call, CompareInv, LoopInv
<1>2. /\ p \in Nat /\ q \in Nat /\ i \in Nat /\ edi = p + i /\ esi = q + i
      /\ edi \in Nat /\ p <= edi /\ edi <= Top /\ Top \in Nat
  BY CompareHas, SizesAssumption
<1>3. edi' - p' = i + 1 /\ esi' = q' + (edi' - p') /\ edi' >= p'
  BY <1>1, <1>2
<1>4. \A j \in 0 .. i - 1 : mem0[p + j] = mem0[q + j] /\ (f # "memcmp" => mem0[p + j] # NUL)
  BY DEF CompareInv
<1>5. mem0[p + i] = mem0[q + i] /\ (f # "memcmp" => mem0[p + i] # NUL)
  BY <1>1, <1>2
<1> HIDE DEF i
<1>6. \A j \in 0 .. (edi' - p') - 1 :
        mem0[p + j] = mem0[q + j] /\ (f # "memcmp" => mem0[p + j] # NUL)
  <2>1. \A j \in 0 .. (edi' - p') - 1 : j \in 0 .. i - 1 \/ j = i
    BY <1>2, <1>3
  <2> QED BY <1>4, <1>5, <2>1
<1>7. CASE f = "strcmp"
  <2>1. StringAt(p) /\ StringAt(q) /\ i <= Length(mem0, p) /\ i <= Length(mem0, q)
    BY <1>7 DEF CompareInv, i
  <2>2. StringAt(p)' /\ StringAt(q)'
    BY <1>1, <2>1 DEF StringAt
  <2>3. /\ Length(mem0, p) \in Nat /\ mem0[p + Length(mem0, p)] = NUL
        /\ Length(mem0, q) \in Nat /\ mem0[q + Length(mem0, q)] = NUL
        /\ Length(mem0, p) <= Top - 1 - p
    BY <1>2, <2>1 DEF StringAt
  <2>4. i # Length(mem0, p) /\ i # Length(mem0, q)
    BY <1>5, <1>7, <2>3
  <2>5. i + 1 <= Length(mem0, p) /\ i + 1 <= Length(mem0, q)
    BY <1>2, <2>1, <2>3, <2>4
  <2>6. edi' \in p' .. Top
    BY <1>1, <1>2, <2>3, <2>5
  <2>7. CompareInv'
    BY <1>1, <1>3, <1>6, <1>7, <2>2, <2>5, <2>6 DEF CompareInv
  <2> QED BY <1>1, <1>7, <2>7, GoesOn DEF Comparing
<1>8. CASE f # "strcmp"
  <2>1. /\ SizedAt(p) /\ SizedAt(q) /\ i <= n /\ ecx = n - i
        /\ n \in Nat /\ p + n <= Top /\ ecx # 0
    BY <1>8 DEF CompareInv, i, SizedAt
  <2>2. SizedAt(p)' /\ SizedAt(q)'
    BY <1>1, <2>1 DEF SizedAt
  <2>3. ecx > 0
    BY <1>2, <2>1
  <2>4. i + 1 <= n /\ ecx' = n - (i + 1) /\ edi' \in p' .. Top
    BY <1>1, <1>2, <2>1, <2>3
  <2>5. CompareInv'
    BY <1>1, <1>3, <1>6, <1>8, <2>2, <2>4 DEF CompareInv
  <2> QED BY <1>1, <2>5, GoesOn DEF Comparing
<1> QED BY <1>7, <1>8

LEMMA StrcmpPreserves ==
  ASSUME LoopInv, strcmp
  PROVE  LoopInv'
<1> DEFINE i == edi - p
           k == Length(mem0, p)
           l == Length(mem0, q)
<1>1. f = "strcmp" /\ pc = "loop" /\ Comparing /\ CompareInv /\ mem = mem0 /\ mem0 \in Memories
  BY DEF strcmp, Looks, Looping, LoopInv, Searching, Comparing, Copying, CompareInv
<1>2. /\ StringAt(p) /\ StringAt(q) /\ p \in Nat /\ q \in Nat /\ i \in Nat
      /\ edi = p + i /\ esi = q + i /\ i <= k /\ i <= l
      /\ \A j \in 0 .. i - 1 : mem0[p + j] = mem0[q + j]
  BY <1>1, CompareHas DEF CompareInv
<1>3. /\ k \in Nat /\ p + k <= Top - 1 /\ mem0[p + k] = NUL
      /\ \A j \in 0 .. k - 1 : mem0[p + j] # NUL
      /\ l \in Nat /\ q + l <= Top - 1 /\ mem0[q + l] = NUL
      /\ \A j \in 0 .. l - 1 : mem0[q + j] # NUL
  <2>1. Top \in Nat
    BY SizesAssumption
  <2>2. /\ k \in 0 .. Top - 1 - p /\ mem0[p + k] = NUL
        /\ \A j \in 0 .. k - 1 : mem0[p + j] # NUL
        /\ l \in 0 .. Top - 1 - q /\ mem0[q + l] = NUL
        /\ \A j \in 0 .. l - 1 : mem0[q + j] # NUL
    BY <1>2 DEF StringAt
  <2> QED BY <1>2, <2>1, <2>2
<1> HIDE DEF i, k, l
<1>4. edi \in Addresses /\ esi \in Addresses /\ mem0[edi] \in Nat /\ mem0[esi] \in Nat
  <2>1. edi \in Addresses /\ esi \in Addresses
    BY <1>2, <1>3, SizesAssumption DEF Addresses
  <2>2. Bytes \subseteq Nat
    BY DEF Bytes
  <2> QED BY <1>1, <2>1, <2>2 DEF Memories
<1>5. CASE ~(mem[edi] = NUL \/ Difference # 0)
  <2>1. mem[edi] = mem[esi] /\ mem[edi] # NUL
    BY <1>1, <1>4, <1>5 DEF Difference
  <2> QED BY <1>1, <1>5, <2>1, CompareTurns DEF strcmp, Looks
<1>6. CASE mem[edi] = NUL \/ Difference # 0
  <2>1. Returns(mem, Difference)
    BY <1>6 DEF strcmp, Looks
  <2>2. mem0[p + i] = NUL \/ mem0[p + i] # mem0[q + i]
    BY <1>1, <1>2, <1>4, <1>6 DEF Difference
  <2>3. SameFirst(p, q, k, l, i)
    BY <1>1, <1>2, <1>3, SizesAssumption DEF SameFirst
  <2>4. (i < k <=> mem0[p + i] # NUL) /\ (i < l <=> mem0[q + i] # NUL)
    BY <1>2, <1>3
  <2>5. Orders(mem0[p + i] - mem0[q + i], Span(mem0, p, k), Span(mem0, q, l))
    BY <1>2, <1>4, <2>2, <2>3, <2>4, StringsOrder
  <2>6. Orders(Difference, Chars(mem0, p), Chars(mem0, q))
    BY <1>1, <1>2, <2>5 DEF Difference, Chars, k, l
  <2>7. Fulfilled'
    BY <1>1, <2>1, <2>6, LookReturns DEF Fulfilled
  <2> QED BY <1>1, <2>1, <2>7, LookReturns, IsDone
<1> QED BY <1>5, <1>6

(* What the sized comparisons know.                                        *)
LEMMA SizedHas ==
  ASSUME CompareInv, mem0 \in Memories, f \in {"strncmp", "memcmp"}
  PROVE  /\ p \in Nat /\ q \in Nat /\ n \in Nat /\ p + n <= Top /\ q + n <= Top
         /\ edi - p \in Nat /\ edi - p <= n /\ ecx = n - (edi - p)
         /\ edi = p + (edi - p) /\ esi = q + (edi - p)
         /\ ecx # 0 => /\ edi - p < n /\ edi \in Addresses /\ esi \in Addresses
                       /\ mem0[edi] \in Nat /\ mem0[esi] \in Nat
<1>1. /\ p \in Nat /\ q \in Nat /\ n \in Nat /\ p + n <= Top /\ q + n <= Top
      /\ edi - p \in Nat /\ edi - p <= n /\ ecx = n - (edi - p)
      /\ edi = p + (edi - p) /\ esi = q + (edi - p)
  BY CompareHas DEF CompareInv, SizedAt
<1>2. ecx # 0 => edi - p < n /\ edi \in Addresses /\ esi \in Addresses
  BY <1>1, SizesAssumption DEF Addresses
<1>3. Bytes \subseteq Nat
  BY DEF Bytes
<1> QED BY <1>1, <1>2, <1>3 DEF Memories

LEMMA MemcmpPreserves ==
  ASSUME LoopInv, memcmp
  PROVE  LoopInv'
<1> DEFINE i == edi - p
<1>1. f = "memcmp" /\ pc = "loop" /\ Comparing /\ CompareInv /\ mem = mem0 /\ mem0 \in Memories
  BY DEF memcmp, Looks, Looping, LoopInv, Searching, Comparing, Copying, CompareInv
<1>2. /\ p \in Nat /\ q \in Nat /\ n \in Nat /\ p + n <= Top /\ q + n <= Top
      /\ i \in Nat /\ i <= n /\ ecx = n - i /\ edi = p + i /\ esi = q + i
      /\ ecx # 0 => i < n /\ mem0[edi] \in Nat /\ mem0[esi] \in Nat
  BY <1>1, SizedHas
<1>3. SameFirst(p, q, n, n, i)
  BY <1>1, <1>2 DEF SameFirst, CompareInv
<1> HIDE DEF i
<1>4. CASE ~(ecx = 0 \/ Difference # 0)
  <2>1. mem[edi] = mem[esi] /\ ecx # 0
    BY <1>1, <1>2, <1>4 DEF Difference
  <2> QED BY <1>1, <1>4, <2>1, CompareTurns DEF memcmp, Looks
<1>5. CASE ecx = 0 \/ Difference # 0
  <2>1. Returns(mem, Bounded(Difference))
    BY <1>5 DEF memcmp, Looks
  <2>2. Orders(Bounded(Difference), Span(mem0, p, n), Span(mem0, q, n))
    <3>1. CASE ecx = 0
      <4>1. i = n
        BY <1>2, <3>1
      <4>2. Orders(0, Span(mem0, p, n), Span(mem0, q, n))
        BY <1>3, <4>1, SameOrder
      <4> QED BY <3>1, <4>2 DEF Bounded
    <3>2. CASE ecx # 0
      <4>1. mem0[p + i] # mem0[q + i] /\ i < n
        BY <1>1, <1>2, <1>5, <3>2 DEF Difference
      <4>2. Orders(mem0[p + i] - mem0[q + i], Span(mem0, p, n), Span(mem0, q, n))
        BY <1>3, <4>1, FirstDifferenceOrders
      <4> QED BY <1>1, <1>2, <3>2, <4>2 DEF Bounded, Difference
    <3> QED BY <3>1, <3>2
  <2>3. Fulfilled'
    BY <1>1, <2>1, <2>2, LookReturns DEF Fulfilled
  <2> QED BY <1>1, <2>1, <2>3, LookReturns, IsDone
<1> QED BY <1>4, <1>5

LEMMA StrncmpPreserves ==
  ASSUME LoopInv, strncmp
  PROVE  LoopInv'
<1> DEFINE i == edi - p
           k == Before(mem0, p, n)
           l == Before(mem0, q, n)
<1>1. f = "strncmp" /\ pc = "loop" /\ Comparing /\ CompareInv /\ mem = mem0 /\ mem0 \in Memories
  BY DEF strncmp, Looks, Looping, LoopInv, Searching, Comparing, Copying, CompareInv
<1>2. /\ p \in Nat /\ q \in Nat /\ n \in Nat /\ p + n <= Top /\ q + n <= Top
      /\ i \in Nat /\ i <= n /\ ecx = n - i /\ edi = p + i /\ esi = q + i
      /\ ecx # 0 => /\ i < n /\ edi \in Addresses /\ esi \in Addresses
                    /\ mem0[edi] \in Nat /\ mem0[esi] \in Nat
  BY <1>1, SizedHas
<1>3. \A j \in 0 .. i - 1 : /\ mem0[p + j] = mem0[q + j]
                            /\ mem0[p + j] # NUL /\ mem0[q + j] # NUL
  BY <1>1 DEF CompareInv
<1>4. /\ k \in i .. n /\ (i < n => (i < k <=> mem0[p + i] # NUL))
      /\ l \in i .. n /\ (i < n => (i < l <=> mem0[q + i] # NUL))
  <2> HIDE DEF i
  <2>1. i \in 0 .. n
    BY <1>2
  <2> QED BY <1>2, <1>3, <2>1, BeforeOrNUL
<1> HIDE DEF i, k, l
<1>5. SameFirst(p, q, k, l, i)
  BY <1>1, <1>2, <1>3, <1>4, SizesAssumption DEF SameFirst
<1>6. CASE ~(ecx = 0 \/ mem[edi] = NUL \/ Difference # 0)
  <2>1. mem[edi] = mem[esi] /\ mem[edi] # NUL /\ ecx # 0
    BY <1>1, <1>2, <1>6 DEF Difference
  <2> QED BY <1>1, <1>6, <2>1, CompareTurns DEF strncmp, Looks
<1>7. CASE ecx = 0 \/ mem[edi] = NUL \/ Difference # 0
  <2>1. Returns(mem, Bounded(Difference))
    BY <1>7 DEF strncmp, Looks
  <2>2. Orders(Bounded(Difference), Span(mem0, p, k), Span(mem0, q, l))
    <3>1. CASE ecx = 0
      <4>1. i = n /\ k = i /\ l = i
        BY <1>2, <1>4, <3>1
      <4>2. Orders(0, Span(mem0, p, k), Span(mem0, q, l))
        BY <1>5, <4>1, SameOrder
      <4> QED BY <3>1, <4>2 DEF Bounded
    <3>2. CASE ecx # 0
      <4>1. (mem0[p + i] = NUL \/ mem0[p + i] # mem0[q + i]) /\ i < n
        BY <1>1, <1>2, <1>7, <3>2 DEF Difference
      <4>2. Orders(mem0[p + i] - mem0[q + i], Span(mem0, p, k), Span(mem0, q, l))
        BY <1>2, <1>4, <1>5, <3>2, <4>1, StringsOrder
      <4> QED BY <1>1, <1>2, <3>2, <4>2 DEF Bounded, Difference
    <3> QED BY <3>1, <3>2
  <2>3. Fulfilled'
    BY <1>1, <2>1, <2>2, LookReturns DEF Fulfilled, k, l
  <2> QED BY <1>1, <2>1, <2>3, LookReturns, IsDone
<1> QED BY <1>6, <1>7

-----------------------------------------------------------------------------
(* The copies.                                                             *)

(* What is known of a copy: i bytes are written, of a string of length k.  *)
CopyFacts(d, i, k, size) ==
  /\ d \in Nat /\ i \in Nat /\ size \in Nat /\ i <= size /\ d + size <= Top /\ edi = d + i
  /\ q \in Nat /\ k \in Nat /\ q + k <= Top - 1
  /\ mem0[q + k] = NUL /\ \A j \in 0 .. k - 1 : mem0[q + j] # NUL
  /\ esi = q + (IF i < k THEN i ELSE k)
  /\ d + size <= q \/ q + (k + 1) <= d
  /\ mem = [a \in Addresses |->
              IF a \in d .. (d + i) - 1 THEN IF a - d < k THEN mem0[q + (a - d)] ELSE NUL
              ELSE mem0[a]]

LEMMA CopyHas ==
  ASSUME CopyInv
  PROVE  CopyFacts(Start, edi - Start, Length(mem0, q), Size)
<1> DEFINE d == Start
           k == Length(mem0, q)
           i == edi - d
<1>1. /\ StringAt(q) /\ p \in Addresses /\ (f = "strcat" => StringAt(p))
      /\ Size \in Nat /\ d + Size <= Top /\ Apart(d, Size, q, k + 1)
      /\ edi \in d .. d + Size
      /\ mem = [a \in Addresses |-> IF a \in d .. edi - 1 THEN Taken(a - d) ELSE mem0[a]]
      /\ esi = q + (IF edi - d < k THEN edi - d ELSE k)
  BY DEF CopyInv, CopyOperands
<1>2. d \in Nat
  BY <1>1, SizesAssumption DEF Start, StringAt, Addresses
<1>3. /\ q \in Nat /\ k \in Nat /\ q + k <= Top - 1
      /\ mem0[q + k] = NUL /\ \A j \in 0 .. k - 1 : mem0[q + j] # NUL
  <2>1. /\ q \in Addresses /\ k \in 0 .. Top - 1 - q /\ Top \in Nat
        /\ mem0[q + k] = NUL /\ \A j \in 0 .. k - 1 : mem0[q + j] # NUL
    BY <1>1, SizesAssumption DEF StringAt
  <2> QED BY <2>1 DEF Addresses
<1>4. \A x : Taken(x) = IF x < k THEN mem0[q + x] ELSE NUL
  BY DEF Taken
<1> HIDE DEF d, k
<1>5. i \in Nat /\ i <= Size /\ edi = d + i /\ edi - 1 = (d + i) - 1
  BY <1>1, <1>2
<1>6. mem = [a \in Addresses |->
               IF a \in d .. (d + i) - 1 THEN IF a - d < k THEN mem0[q + (a - d)] ELSE NUL
               ELSE mem0[a]]
  BY <1>1, <1>4, <1>5
<1> HIDE DEF i
<1>7. CopyFacts(d, i, k, Size)
  <2>1. esi = q + (IF i < k THEN i ELSE k)
    BY <1>1 DEF i
  <2>2. d + Size <= q \/ q + (k + 1) <= d
    BY <1>1 DEF Apart
  <2> QED BY <1>1, <1>2, <1>3, <1>5, <1>6, <2>1, <2>2 DEF CopyFacts
<1> QED BY <1>7 DEF d, i, k

(* The source is as it was at the call.                                    *)
LEMMA SourceByte ==
  ASSUME NEW d, NEW i, NEW k, NEW size, CopyFacts(d, i, k, size)
  PROVE  /\ esi \in Addresses /\ mem[esi] = IF i < k THEN mem0[q + i] ELSE NUL
         /\ mem[esi] = NUL <=> ~(i < k)
<1>1. /\ d \in Nat /\ i \in Nat /\ size \in Nat /\ i <= size /\ d + size <= Top
      /\ q \in Nat /\ k \in Nat /\ q + k <= Top - 1
      /\ mem0[q + k] = NUL /\ \A j \in 0 .. k - 1 : mem0[q + j] # NUL
      /\ esi = q + (IF i < k THEN i ELSE k)
      /\ d + size <= q \/ q + (k + 1) <= d
  BY DEF CopyFacts
<1>2. esi \in Addresses /\ esi \notin d .. (d + i) - 1
  BY <1>1, SizesAssumption DEF Addresses
<1>3. mem[esi] = mem0[esi]
  BY <1>2 DEF CopyFacts
<1>4. i < k => mem0[q + i] # NUL
  BY <1>1
<1> QED BY <1>1, <1>2, <1>3, <1>4

(* A copy goes on behind a byte that it may store.                         *)
LEMMA CopyTurns ==
  ASSUME LoopInv, pc = "loop", Copying, CopyInv,
         Turn(Store(mem[esi]), IF mem[esi] = NUL THEN 0 ELSE 1),
         f # "strncpy" => mem[esi] # NUL,
         f \in {"strncpy", "strlcpy"} => ecx # 0
  PROVE  LoopInv'
<1> DEFINE d == Start
           k == Length(mem0, q)
           i == edi - d
           step == IF mem[esi] = NUL THEN 0 ELSE 1
<1>1. /\ mem0' = mem0 /\ mem' = Store(mem[esi]) /\ pc' = "loop"
      /\ edi' = edi + 1 /\ esi' = esi + step
      /\ f' = f /\ p' = p /\ q' = q /\ n' = n /\ mem0 \in Memories
      /\ ecx' = IF ecx > 0 THEN ecx - 1 ELSE 0
  BY DEF Turn, call, LoopInv
<1>2. CopyFacts(d, i, k, Size)
  BY CopyHas
<1>3. d' = d /\ k' = k /\ Size' = Size /\ CopyOperands'
  <2>1. d' = d /\ k' = k /\ Size' = Size
    BY <1>1 DEF Start, Size
  <2>2. StringAt(q)' /\ (f' = "strcat" => StringAt(p)')
    BY <1>1 DEF CopyInv, CopyOperands, StringAt
  <2> QED BY <1>1, <2>1, <2>2 DEF CopyInv, CopyOperands, Apart
<1>4. /\ f # "strncpy" => i <= k /\ edi < d + Size
      /\ f = "strncpy" => ecx = Size - i
      /\ f = "strlcpy" => ecx = (Size - 1) - i
      /\ f \notin {"strncpy", "strlcpy"} => Size = k + 1
  BY DEF CopyInv, Size
<1>5. /\ esi \in Addresses /\ mem[esi] = IF i < k THEN mem0[q + i] ELSE NUL
      /\ mem[esi] = NUL <=> ~(i < k)
  BY <1>2, SourceByte
<1> DEFINE taken(x) == IF x < k THEN mem0[q + x] ELSE NUL
<1>6. \A x : Taken(x)' = taken(x)
  BY <1>1 DEF Taken
<1> HIDE DEF d, k, i, step
<1>8. /\ d \in Nat /\ i \in Nat /\ Size \in Nat /\ i <= Size /\ d + Size <= Top /\ edi = d + i
      /\ q \in Nat /\ k \in Nat /\ esi = q + (IF i < k THEN i ELSE k)
      /\ mem = [a \in Addresses |-> IF a \in d .. (d + i) - 1 THEN taken(a - d) ELSE mem0[a]]
  BY <1>2 DEF CopyFacts
<1>9. /\ i < Size /\ (f # "strncpy" => i < k)
      /\ f = "strlcpy" => i + 1 < Size
  BY <1>4, <1>5, <1>8 DEF Copying
<1>10. edi \in Addresses /\ edi' = d + (i + 1) /\ edi' - d = i + 1
  BY <1>1, <1>8, <1>9, SizesAssumption DEF Addresses
<1>11. mem' = [a \in Addresses |-> IF a \in d .. edi' - 1 THEN taken(a - d) ELSE mem0[a]]
  <2>1. ASSUME NEW a \in Addresses
        PROVE  mem'[a] = IF a \in d .. edi' - 1 THEN taken(a - d) ELSE mem0[a]
    <3>1. mem'[a] = IF a = edi THEN mem[esi] ELSE mem[a]
      BY <1>1, <1>8, <1>10 DEF Store
    <3>2. a \in Int
      BY DEF Addresses
    <3>3. CASE a = edi
      <4>1. a - d = i /\ a \in d .. edi' - 1
        BY <1>8, <1>10, <3>3
      <4> QED BY <1>5, <3>1, <3>3, <4>1
    <3>4. CASE a # edi
      <4>1. a \in d .. edi' - 1 <=> a \in d .. (d + i) - 1
        BY <1>8, <1>10, <3>2, <3>4
      <4>2. mem[a] = IF a \in d .. (d + i) - 1 THEN taken(a - d) ELSE mem0[a]
        BY <1>8
      <4> QED BY <3>1, <3>4, <4>1, <4>2
    <3> QED BY <3>3, <3>4
  <2>2. DOMAIN mem = Addresses
    BY <1>8
  <2>3. mem' = [mem EXCEPT ![edi] = mem[esi]]
    BY <1>1 DEF Store
  <2>4. mem' = [a \in Addresses |-> mem'[a]]
    BY <2>2, <2>3
  <2> QED BY <2>1, <2>4
<1>12. esi' = q + (IF i + 1 < k THEN i + 1 ELSE k)
  BY <1>1, <1>5, <1>8, <1>9 DEF step
<1>13. /\ f # "strncpy" => i + 1 <= k /\ edi' < d + Size
       /\ f = "strncpy" => ecx' = Size - (i + 1)
       /\ f = "strlcpy" => ecx' = (Size - 1) - (i + 1)
       /\ edi' \in d .. d + Size
  BY <1>1, <1>4, <1>8, <1>9, <1>10 DEF Copying
<1>14. CopyInv'
  <2>1. mem' = [a \in Addresses |-> IF a \in d' .. edi' - 1 THEN Taken(a - d)' ELSE mem0'[a]]
    BY <1>1, <1>3, <1>6, <1>11
  <2> QED BY <1>1, <1>3, <1>10, <1>12, <1>13, <2>1 DEF CopyInv, d, k
<1> QED BY <1>1, <1>14, GoesOn DEF Copying

LEMMA CopyCalled ==
  ASSUME LoopInv, pc = "call", NEW d \in Addresses, NEW s \in Addresses, NEW size \in 0 .. Top,
         CopyCall(d, s, size)
  PROVE  LoopInv'
<1> DEFINE k == Length(mem0, s)
           j == Length(mem0, d)
<1>1. /\ mem0' = mem0 /\ mem' = mem /\ mem = mem0 /\ mem0 \in Memories /\ p' = d /\ q' = s
      /\ IsString(s)
  BY DEF CopyCall, Begins, Called, LoopInv
<1>2. d \in Nat /\ s \in Nat /\ Top \in Nat /\ size \in Nat /\ s \in 0 .. Top /\ d \in 0 .. Top
  BY SizesAssumption DEF Addresses
<1>3. StringAt(s) /\ k \in Nat
  BY <1>1, <1>2, StringHas DEF StringAt
<1>4. IsString(d) => StringAt(d) /\ j \in Nat
  BY <1>1, <1>2, StringHas DEF StringAt
<1>5. StringAt(q)' /\ (IsString(d) => StringAt(p)')
  BY <1>1, <1>3, <1>4 DEF StringAt
<1>6. Length(mem0, q)' = k /\ Length(mem0, p)' = j
  BY <1>1
<1> HIDE DEF k, j
<1>7. mem0 = [a \in Addresses |-> mem0[a]]
  BY <1>1 DEF Memories
<1>8. ASSUME NEW total \in Nat, f' \in {"strcpy", "strncpy", "strlcpy"}, Size' = total,
             pc' = "loop", edi' = d, esi' = s, d + total <= Top, Apart(d, total, s, k + 1),
             f' # "strncpy" => total > 0,
             f' = "strncpy" => ecx' = total,
             f' = "strlcpy" => ecx' = total - 1
      PROVE  LoopInv'
  <2>1. Start' = d
    BY <1>1, <1>8 DEF Start
  <2>2. CopyOperands'
    BY <1>1, <1>5, <1>6, <1>8, <2>1 DEF CopyOperands, Apart
  <2>3. /\ edi' \in Start' .. Start' + Size' /\ edi' - Start' = 0 /\ Start' .. edi' - 1 = {}
    BY <1>2, <1>8, <2>1
  <2>4. mem' = [a \in Addresses |->
                  IF a \in Start' .. edi' - 1 THEN Taken(a - Start)' ELSE mem0'[a]]
    BY <1>1, <1>7, <2>3
  <2>5. esi' = q' + (IF edi' - Start' < Length(mem0, q)' THEN edi' - Start' ELSE Length(mem0, q)')
    BY <1>1, <1>2, <1>3, <1>6, <1>8, <2>3
  <2>6. CopyInv'
    BY <1>2, <1>3, <1>6, <1>8, <2>1, <2>2, <2>3, <2>4, <2>5 DEF CopyInv
  <2> QED BY <1>1, <1>8, <2>6, GoesOn DEF Copying
<1>9. CASE /\ size = 0 /\ Fits(d, k + 1) /\ Apart(d, k + 1, s, k + 1)
           /\ Begins("strcpy", d, s, 0, "loop", 0)
  <2>1. f' = "strcpy" /\ pc' = "loop" /\ edi' = d /\ esi' = s
    BY <1>9 DEF Begins, Called
  <2>2. Size' = k + 1
    BY <1>6, <2>1 DEF Size
  <2> QED BY <1>3, <1>8, <1>9, <2>1, <2>2 DEF Fits
<1>10. CASE /\ Fits(d, size) /\ Apart(d, size, s, k + 1)
            /\ Begins("strncpy", d, s, size, "loop", size)
  <2>1. f' = "strncpy" /\ pc' = "loop" /\ edi' = d /\ esi' = s /\ n' = size /\ ecx' = size
    BY <1>10 DEF Begins, Called
  <2>2. Size' = size
    BY <2>1 DEF Size
  <2> QED BY <1>2, <1>8, <1>10, <2>1, <2>2 DEF Fits
<1>11. CASE /\ Fits(d, size) /\ Apart(d, size, s, k + 1) /\ size > 0
            /\ Begins("strlcpy", d, s, size, "loop", size - 1)
  <2>1. f' = "strlcpy" /\ pc' = "loop" /\ edi' = d /\ esi' = s /\ n' = size /\ ecx' = size - 1
    BY <1>11 DEF Begins, Called
  <2>2. Size' = size
    BY <2>1 DEF Size
  <2> QED BY <1>2, <1>8, <1>11, <2>1, <2>2 DEF Fits
<1>12. CASE size = 0 /\ Called("strlcpy", d, s, 0) /\ pc' = "done" /\ result' = 0
  <2>1. f' = "strlcpy" /\ n' = 0
    BY <1>12 DEF Called
  <2>2. Fulfilled'
    BY <1>1, <1>12, <2>1 DEF Fulfilled
  <2> QED BY <1>1, <1>12, <2>2, IsDone
<1>13. CASE /\ size = 0 /\ IsString(d) /\ Fits(d, j + (k + 1)) /\ Apart(d, j + (k + 1), s, k + 1)
            /\ Begins("strcat", d, s, 0, "end", 0)
  <2>1. f' = "strcat" /\ pc' = "end" /\ edi' = d /\ esi' = s
    BY <1>13 DEF Begins, Called
  <2>2. Start' = d + j /\ Size' = k + 1 /\ j \in Nat /\ StringAt(p)'
    BY <1>1, <1>4, <1>5, <1>6, <1>13, <2>1 DEF Start, Size
  <2>3. (d + j) + (k + 1) <= Top /\ Apart(d + j, k + 1, s, k + 1)
    BY <1>2, <1>3, <1>13, <2>2 DEF Fits, Apart
  <2>4. CopyOperands'
    BY <1>1, <1>3, <1>5, <1>6, <2>2, <2>3 DEF CopyOperands, Apart
  <2>5. edi' \in p' .. Start'
    BY <1>1, <1>2, <2>1, <2>2
  <2>6. EndInv'
    BY <1>1, <2>1, <2>4, <2>5 DEF EndInv
  <2> QED BY <1>1, <2>1, <2>6 DEF LoopInv, Fulfilled
<1>14. Length(mem, s) = k /\ Length(mem, d) = j
  BY <1>1 DEF k, j
<1> QED BY <1>9, <1>10, <1>11, <1>12, <1>13, <1>14 DEF CopyCall

(* strcat looks for the end of its first string, then copies the second.   *)
LEMMA EndPreserves ==
  ASSUME LoopInv, pc = "end", strcat
  PROVE  LoopInv'
<1>1. /\ EndInv /\ f = "strcat" /\ mem = mem0 /\ mem0 \in Memories /\ esi = q
  BY DEF LoopInv, EndInv
<1>2. /\ mem' = mem /\ mem0' = mem0 /\ f' = f /\ p' = p /\ q' = q /\ n' = n /\ esi' = esi
      /\ IF mem[edi] = NUL THEN pc' = "loop" /\ edi' = edi
                           ELSE edi' = edi + 1 /\ pc' = "end"
  BY DEF strcat, Copies, Looping, call
<1> DEFINE k == Length(mem0, p)
<1>3. StringAt(p) /\ StringAt(q) /\ CopyOperands /\ edi \in p .. p + k /\ Start = p + k
  BY <1>1 DEF EndInv, CopyOperands, Start
<1>4. p \in Nat /\ k \in Nat /\ mem0[p + k] = NUL /\ q \in Nat /\ Length(mem0, q) \in Nat
  BY <1>3, SizesAssumption DEF StringAt, Addresses
<1>5. CopyOperands' /\ Start' = p + k /\ Size' = Size /\ Length(mem0, q)' = Length(mem0, q)
  <2>1. Start' = Start /\ Size' = Size
    BY <1>2 DEF Start, Size
  <2>2. StringAt(p)' /\ StringAt(q)'
    BY <1>2, <1>3 DEF StringAt
  <2> QED BY <1>2, <1>3, <2>1, <2>2 DEF CopyOperands, Apart
<1>6. Size = Length(mem0, q) + 1
  BY <1>1 DEF Size
<1>7. p <= edi /\ edi <= p + k /\ edi \in Nat
  BY <1>3, <1>4
<1> HIDE DEF k
<1>8. CASE mem[edi] = NUL
  <2>1. edi = p + k
    BY <1>1, <1>3, <1>7, <1>8, AtNUL DEF k
  <2>2. /\ edi' - Start' = 0 /\ Start' .. edi' - 1 = {} /\ edi' \in Start' .. Start' + Size'
        /\ edi' < Start' + Size'
    BY <1>2, <1>4, <1>5, <1>6, <1>8, <2>1
  <2>3. mem0 = [a \in Addresses |-> mem0[a]]
    BY <1>1 DEF Memories
  <2>4. mem' = [a \in Addresses |->
                  IF a \in Start' .. edi' - 1 THEN Taken(a - Start)' ELSE mem0'[a]]
    BY <1>1, <1>2, <2>2, <2>3
  <2>5. esi' = q' + (IF edi' - Start' < Length(mem0, q)' THEN edi' - Start' ELSE Length(mem0, q)')
    <3>1. (IF 0 < Length(mem0, q)' THEN 0 ELSE Length(mem0, q)') = 0
      BY <1>4, <1>5
    <3>2. esi' = q' + 0
      BY <1>1, <1>2, <1>4
    <3> QED BY <2>2, <3>1, <3>2
  <2>8. edi' - Start' <= Length(mem0, q)'
    <3>1. edi' - Start' = 0
      BY <2>2
    <3>2. Length(mem0, q)' \in Nat
      BY <1>4, <1>5
    <3> QED BY <3>1, <3>2
  <2>6. CopyInv'
    BY <1>1, <1>2, <1>5, <2>2, <2>4, <2>5, <2>8 DEF CopyInv
  <2>7. pc' = "loop" /\ Copying'
    BY <1>1, <1>2, <1>8 DEF Copying
  <2> QED BY <1>1, <1>2, <2>6, <2>7, GoesOn
<1>9. CASE mem[edi] # NUL
  <2>1. edi # p + k
    BY <1>1, <1>4, <1>9
  <2>2. edi' \in p' .. Start' /\ pc' = "end"
    BY <1>2, <1>4, <1>5, <1>7, <1>9, <2>1
  <2>3. EndInv'
    BY <1>1, <1>2, <1>5, <2>2 DEF EndInv
  <2> QED BY <1>1, <1>2, <2>2, <2>3 DEF LoopInv, Fulfilled
<1> QED BY <1>8, <1>9

(* A copy of c bytes of a string of length k to d, behind a string of      *)
(* length e, with its NUL.                                                 *)
Copied(m, d, c, k) ==
  /\ m \in Memories
  /\ d \in Nat /\ c \in Nat /\ d + c <= Top - 1
  /\ q \in Nat /\ k \in Nat /\ c <= k /\ q + k <= Top - 1
  /\ \A j \in 0 .. k - 1 : mem0[q + j] # NUL
  /\ \A j \in 0 .. c - 1 : m[d + j] = mem0[q + j]
  /\ m[d + c] = NUL
  /\ \A a \in Addresses \ (d .. d + c) : m[a] = mem0[a]

LEMMA ConcatIs ==
  ASSUME NEW u \in Seq(Int), NEW v \in Seq(Int), NEW w \in Seq(Int),
         Len(u) = Len(v) + Len(w),
         \A j \in 1 .. Len(v) : j \in 1 .. Len(u) => u[j] = v[j],
         \A j \in 1 .. Len(w) : Len(v) + j \in 1 .. Len(u) => u[Len(v) + j] = w[j]
  PROVE  u = v \o w
<1>1. Len(v) \in Nat /\ Len(w) \in Nat
  OBVIOUS
<1> DEFINE x == v \o w
<1>2. x \in Seq(Int) /\ Len(x) = Len(u)
  OBVIOUS
<1>3. ASSUME NEW j \in 1 .. Len(u) PROVE u[j] = x[j]
  <2>1. CASE j <= Len(v)
    BY <1>1, <2>1
  <2>2. CASE j > Len(v)
    <3>1. j - Len(v) \in 1 .. Len(w) /\ Len(v) + (j - Len(v)) = j
      BY <1>1, <2>2
    <3>2. u[j] = w[j - Len(v)]
      BY <3>1
    <3>3. x[j] = w[j - Len(v)]
      BY <1>1, <2>2
    <3> QED BY <3>2, <3>3
  <2> QED BY <1>1, <2>1, <2>2
<1> HIDE DEF x
<1>4. u = x
  BY <1>2, <1>3
<1> QED BY <1>4 DEF x

Joined(s, t) == s \o t

LEMMA CopiedAfter ==
  ASSUME NEW m, NEW s \in Nat, NEW e \in Nat, NEW d, NEW c, NEW k, d = s + e, Copied(m, d, c, k),
         \A j \in 0 .. e - 1 : mem0[s + j] # NUL, mem0 \in Memories
  PROVE  /\ Length(m, s) = e + c
         /\ Chars(m, s) = Joined(Span(mem0, s, e), Span(mem0, q, c))
<1>1. /\ m \in Memories /\ c \in Nat /\ (s + e) + c <= Top - 1 /\ q \in Nat /\ q + k <= Top - 1
      /\ k \in Nat /\ c <= k
      /\ \A j \in 0 .. k - 1 : mem0[q + j] # NUL
      /\ \A j \in 0 .. c - 1 : m[(s + e) + j] = mem0[q + j]
      /\ m[(s + e) + c] = NUL
      /\ \A a \in Addresses \ (s + e .. (s + e) + c) : m[a] = mem0[a]
  BY DEF Copied
<1>2. Top \in Nat
  BY SizesAssumption
<1>3. \A j \in 0 .. e - 1 : m[s + j] = mem0[s + j]
  <2>1. \A j \in 0 .. e - 1 : s + j \in Addresses \ (s + e .. (s + e) + c)
    BY <1>1, <1>2 DEF Addresses
  <2> QED BY <1>1, <2>1
<1>4. \A j \in 0 .. c - 1 : m[s + (e + j)] = mem0[q + j]
  <2>1. \A j \in 0 .. c - 1 : s + (e + j) = (s + e) + j
    BY <1>1
  <2> QED BY <1>1, <2>1
<1>5. ASSUME NEW j \in 0 .. (e + c) - 1 PROVE m[s + j] # NUL
  <2>1. CASE j < e
    BY <1>3, <2>1
  <2>2. CASE j >= e
    <3>1. j - e \in 0 .. c - 1 /\ j - e \in 0 .. k - 1 /\ e + (j - e) = j
      BY <1>1, <2>2
    <3>2. m[s + j] = mem0[q + (j - e)]
      BY <1>4, <3>1
    <3> QED BY <1>1, <3>1, <3>2
  <2> QED BY <2>1, <2>2
<1>6. Length(m, s) = e + c
  <2>1. s \in Addresses /\ e + c \in 0 .. Top - 1 - s /\ s + (e + c) = (s + e) + c
    BY <1>1, <1>2 DEF Addresses
  <2> QED BY <1>1, <1>5, <2>1, LengthIs
<1>7. Span(m, s, e + c) = Span(mem0, s, e) \o Span(mem0, q, c)
  <2> DEFINE u == Span(m, s, e + c)
             v == Span(mem0, s, e)
             w == Span(mem0, q, c)
  <2>1. /\ c \in Nat /\ e + c \in Nat /\ s + (e + c) <= Top /\ s + e <= Top
        /\ q \in Nat /\ q + c <= Top /\ m \in Memories
    BY <1>1, <1>2
  <2>2. u \in Seq(Int) /\ Len(u) = e + c /\ \A j \in 1 .. e + c : u[j] = m[s + j - 1]
    BY <2>1, SpanIs
  <2>3. v \in Seq(Int) /\ Len(v) = e /\ \A j \in 1 .. e : v[j] = mem0[s + j - 1]
    BY <2>1, SpanIs
  <2>4. w \in Seq(Int) /\ Len(w) = c /\ \A j \in 1 .. c : w[j] = mem0[q + j - 1]
    BY <2>1, SpanIs
  <2> HIDE DEF u, v, w
  <2>5. ASSUME NEW j \in 1 .. e, j \in 1 .. e + c PROVE u[j] = v[j]
    <3>1. j - 1 \in 0 .. e - 1 /\ s + (j - 1) = s + j - 1
      OBVIOUS
    <3>2. u[j] = m[s + (j - 1)] /\ v[j] = mem0[s + (j - 1)]
      BY <2>2, <2>3, <2>5, <3>1
    <3> QED BY <1>3, <3>1, <3>2
  <2>6. ASSUME NEW j \in 1 .. c, e + j \in 1 .. e + c PROVE u[e + j] = w[j]
    <3>1. /\ j - 1 \in 0 .. c - 1 /\ s + (e + (j - 1)) = s + (e + j) - 1
          /\ q + (j - 1) = q + j - 1
      BY <2>1
    <3>2. u[e + j] = m[s + (e + (j - 1))] /\ w[j] = mem0[q + (j - 1)]
      BY <2>2, <2>4, <2>6, <3>1
    <3> QED BY <1>4, <3>1, <3>2
  <2>7. u = v \o w
    BY <2>1, <2>2, <2>3, <2>4, <2>5, <2>6, ConcatIs
  <2> QED BY <2>7 DEF u, v, w
<1> QED BY <1>6, <1>7 DEF Chars, Joined

LEMMA CopiedAlone ==
  ASSUME NEW m, NEW s, NEW c, NEW k, Copied(m, s, c, k), mem0 \in Memories
  PROVE  Length(m, s) = c /\ Chars(m, s) = Span(mem0, q, c)
<1>1. s \in Nat /\ q \in Nat /\ c \in Nat /\ q + c <= Top
  BY SizesAssumption DEF Copied
<1>2. s + 0 = s /\ 0 + c = c /\ 0 .. 0 - 1 = {}
  BY <1>1
<1>3. Length(m, s) = 0 + c /\ Chars(m, s) = Joined(Span(mem0, s, 0), Span(mem0, q, c))
  <2>1. \A j \in 0 .. 0 - 1 : mem0[s + j] # NUL
    BY <1>2
  <2>2. 0 \in Nat /\ s = s + 0
    BY <1>1
  <2> QED BY <1>1, <2>1, <2>2, CopiedAfter
<1>4. Span(mem0, s, 0) = <<>>
  BY DEF Span
<1>5. Span(mem0, q, c) \in Seq(Int)
  BY <1>1, SpanIs
<1>6. Joined(<<>>, Span(mem0, q, c)) = Span(mem0, q, c)
  BY <1>5 DEF Joined
<1> QED BY <1>2, <1>3, <1>4, <1>6

(* The last turn of strcpy, strcat and strlcpy stores the NUL.             *)
LEMMA NULStored ==
  ASSUME LoopInv, CopyInv, Copying, f # "strncpy"
  PROVE  /\ Copied(Store(NUL), Start, edi - Start, Length(mem0, q))
         /\ edi = Start + (edi - Start) /\ edi - Start < Size
<1> DEFINE d == Start
           k == Length(mem0, q)
           i == edi - d
           m == Store(NUL)
<1>1. CopyFacts(d, i, k, Size) /\ i <= k /\ edi < d + Size /\ mem0 \in Memories
  BY CopyHas DEF CopyInv, LoopInv
<1> HIDE DEF d, k, i
<1>2. /\ d \in Nat /\ i \in Nat /\ Size \in Nat /\ d + Size <= Top /\ edi = d + i
      /\ q \in Nat /\ k \in Nat /\ q + k <= Top - 1
      /\ \A j \in 0 .. k - 1 : mem0[q + j] # NUL
      /\ mem = [a \in Addresses |->
                  IF a \in d .. (d + i) - 1 THEN IF a - d < k THEN mem0[q + (a - d)] ELSE NUL
                  ELSE mem0[a]]
  BY <1>1 DEF CopyFacts
<1>3. edi \in Addresses /\ d + i <= Top - 1 /\ i < Size /\ Top \in Nat
  BY <1>1, <1>2, SizesAssumption DEF Addresses
<1>4. ASSUME NEW a \in Addresses
      PROVE  m[a] = IF a = d + i THEN NUL
                    ELSE IF a \in d .. (d + i) - 1 THEN mem0[q + (a - d)] ELSE mem0[a]
  <2>1. m[a] = IF a = edi THEN NUL ELSE mem[a]
    BY <1>2, <1>3 DEF Store
  <2>2. a \in Int
    BY DEF Addresses
  <2>3. a \in d .. (d + i) - 1 => a - d < k
    BY <1>1, <1>2, <2>2
  <2> QED BY <1>2, <2>1, <2>3
<1>5. m \in Memories
  <2>1. ASSUME NEW a \in Addresses PROVE m[a] \in Bytes
    <3>1. NUL \in Bytes
      BY SizesAssumption DEF NUL, Bytes
    <3>2. a \in d .. (d + i) - 1 => q + (a - d) \in Addresses
      BY <1>1, <1>2, <1>3 DEF Addresses
    <3> QED BY <1>1, <1>4, <3>1, <3>2 DEF Memories
  <2>2. m = [a \in Addresses |-> m[a]]
    <3>1. DOMAIN mem = Addresses
      BY <1>2
    <3> QED BY <3>1 DEF Store
  <2> HIDE DEF m
  <2> QED BY <2>1, <2>2 DEF Memories
<1> HIDE DEF m
<1>6. \A j \in 0 .. i - 1 : m[d + j] = mem0[q + j]
  <2> TAKE j \in 0 .. i - 1
  <2>1. /\ d + j \in Addresses /\ d + j # d + i /\ d + j \in d .. (d + i) - 1
        /\ (d + j) - d = j
    BY <1>2, <1>3 DEF Addresses
  <2> QED BY <1>4, <2>1
<1>7. m[d + i] = NUL
  BY <1>2, <1>3, <1>4
<1>8. \A a \in Addresses \ (d .. d + i) : m[a] = mem0[a]
  <2> TAKE a \in Addresses \ (d .. d + i)
  <2>1. a \in Int /\ a # d + i /\ a \notin d .. (d + i) - 1
    BY <1>2 DEF Addresses
  <2> QED BY <1>4, <2>1
<1>9. Copied(m, d, i, k)
  BY <1>1, <1>2, <1>3, <1>5, <1>6, <1>7, <1>8 DEF Copied
<1> QED BY <1>2, <1>3, <1>9 DEF m, d, i, k

(* A copy that ends with a NUL.                                            *)
LEMMA CopyReturns ==
  ASSUME NEW m, NEW r, Returns(m, r), LoopInv
  PROVE  /\ mem0' = mem0 /\ mem' = m /\ mem0' \in Memories /\ pc' = "done"
         /\ result' = r /\ f' = f /\ p' = p /\ q' = q /\ n' = n
BY DEF Returns, call, LoopInv

LEMMA StrcpyPreserves ==
  ASSUME LoopInv, strcpy
  PROVE  LoopInv'
<1> DEFINE k == Length(mem0, q)
           i == edi - p
           m == Store(NUL)
<1>1. /\ f = "strcpy" /\ pc = "loop" /\ Copying /\ CopyInv /\ mem0 \in Memories /\ Start = p
  BY DEF strcpy, Copies, Looping, LoopInv, Searching, Comparing, Copying, Start
<1>2. CASE mem[esi] # NUL
  BY <1>1, <1>2, CopyTurns DEF strcpy, Copies
<1>3. CASE mem[esi] = NUL
  <2>1. Returns(m, p)
    BY <1>3 DEF strcpy, Copies
  <2>2. CopyFacts(p, i, k, Size) /\ i <= k /\ Copied(m, p, i, k)
    BY <1>1, CopyHas, NULStored DEF CopyInv
  <2>3. ~(i < k)
    BY <1>3, <2>2, SourceByte
  <2> HIDE DEF m, i, k
  <2>4. i = k /\ k \in Nat /\ q \in Nat /\ q + k <= Top
    BY <2>2, <2>3, SizesAssumption DEF CopyFacts
  <2>5. Chars(m, p) = Span(mem0, q, k)
    BY <1>1, <2>2, <2>4, CopiedAlone
  <2>6. Chars(mem0, q) = Span(mem0, q, k) /\ Len(Span(mem0, q, k)) = k
    BY <1>1, <2>4, SpanIs DEF Chars, k
  <2>7. \A a \in Addresses \ (p .. p + (k + 1) - 1) : m[a] = mem0[a]
    <3>1. p \in Nat /\ p + (k + 1) - 1 = p + i
      BY <2>2, <2>4 DEF CopyFacts
    <3> QED BY <2>2, <3>1 DEF Copied
  <2>8. Fulfilled'
    <3>1. Chars(mem, p)' = Chars(mem0, q)' /\ Len(Chars(mem, p)') = k
      BY <2>1, <2>5, <2>6, CopyReturns
    <3>2. WritesOnly(Len(Chars(mem, p)) + 1)'
      BY <2>1, <2>7, <3>1, CopyReturns DEF WritesOnly
    <3> QED BY <1>1, <2>1, <3>1, <3>2, CopyReturns DEF Fulfilled
  <2> QED BY <2>1, <2>8, CopyReturns, IsDone
<1> QED BY <1>2, <1>3

LEMMA StrlcpyPreserves ==
  ASSUME LoopInv, strlcpy
  PROVE  LoopInv'
<1> DEFINE k == Length(mem0, q)
           i == edi - p
           m == Store(NUL)
<1>1. /\ f = "strlcpy" /\ pc = "loop" /\ Copying /\ CopyInv /\ mem0 \in Memories /\ Start = p
      /\ Size = n /\ ecx = (n - 1) - i
  BY DEF strlcpy, Copies, Looping, LoopInv, Searching, Comparing, Copying, CopyInv, Start, Size
<1>2. CASE ~(ecx = 0 \/ mem[esi] = NUL)
  BY <1>1, <1>2, CopyTurns DEF strlcpy, Copies
<1>3. CASE ecx = 0 \/ mem[esi] = NUL
  <2>1. Returns(m, i)
    BY <1>3 DEF strlcpy, Copies
  <2>2. CopyFacts(p, i, k, n) /\ i <= k /\ i < n /\ Copied(m, p, i, k)
    BY <1>1, CopyHas, NULStored DEF CopyInv
  <2>3. mem[esi] = NUL => ~(i < k)
    BY <2>2, SourceByte
  <2> HIDE DEF m, i, k
  <2>4. /\ p \in Nat /\ i \in Nat /\ k \in Nat /\ n \in Nat /\ q \in Nat /\ q + k <= Top
        /\ i = k \/ i = n - 1
    BY <1>1, <1>3, <2>2, <2>3, SizesAssumption DEF CopyFacts
  <2>5. Length(m, p) = i /\ Chars(m, p) = Span(mem0, q, i)
    BY <1>1, <2>2, CopiedAlone
  <2>6. Chars(mem0, q) = Span(mem0, q, k)
    BY DEF Chars, k
  <2>7. /\ Span(mem0, q, k) \in Seq(Int) /\ Len(Span(mem0, q, k)) = k
        /\ \A j \in 1 .. k : Span(mem0, q, k)[j] = mem0[q + j - 1]
        /\ Span(mem0, q, i) \in Seq(Int) /\ Len(Span(mem0, q, i)) = i
        /\ \A j \in 1 .. i : Span(mem0, q, i)[j] = mem0[q + j - 1]
    <3>1. q + i <= Top
      BY <2>2, <2>4, SizesAssumption
    <3>2. /\ Span(mem0, q, k) \in Seq(Int) /\ Len(Span(mem0, q, k)) = k
          /\ \A j \in 1 .. k : Span(mem0, q, k)[j] = mem0[q + j - 1]
      BY <1>1, <2>4, SpanIs
    <3>3. /\ Span(mem0, q, i) \in Seq(Int) /\ Len(Span(mem0, q, i)) = i
          /\ \A j \in 1 .. i : Span(mem0, q, i)[j] = mem0[q + j - 1]
      BY <1>1, <2>4, <3>1, SpanIs
    <3> QED BY <3>2, <3>3
  <2>8. Span(mem0, q, i) = IF k < n THEN Span(mem0, q, k) ELSE SubSeq(Span(mem0, q, k), 1, n - 1)
    <3>1. CASE k < n
      BY <2>2, <2>4, <3>1
    <3>2. CASE ~(k < n)
      <4>1. i = n - 1
        BY <2>2, <2>4, <3>2
      <4> DEFINE s == Span(mem0, q, k)
                 t == Span(mem0, q, i)
      <4> HIDE DEF s, t
      <4>2. SubSeq(s, 1, n - 1) = [j \in 1 .. n - 1 |-> s[j]]
        BY <2>4, <2>7, BeginningIs DEF s
      <4>3. t = [j \in 1 .. n - 1 |-> t[j]]
        <5>1. t \in Seq(Int) /\ Len(t) = n - 1
          BY <2>7, <4>1 DEF t
        <5> QED BY <5>1
      <4>4. \A j \in 1 .. n - 1 : s[j] = t[j]
        <5>1. \A j \in 1 .. n - 1 : j \in 1 .. k /\ j \in 1 .. i
          BY <2>2, <2>4, <4>1
        <5> QED BY <2>7, <5>1 DEF s, t
      <4>5. SubSeq(s, 1, n - 1) = t
        BY <4>2, <4>3, <4>4
      <4> QED BY <3>2, <4>5 DEF s, t
    <3> QED BY <3>1, <3>2
  <2>9. \A a \in Addresses \ (p .. p + (i + 1) - 1) : m[a] = mem0[a]
    <3>1. p + (i + 1) - 1 = p + i
      BY <2>4
    <3> QED BY <2>2, <3>1 DEF Copied
  <2>10. Fulfilled'
    <3>1. Chars(mem, p)' = Span(mem0, q, i) /\ Len(Chars(mem, p)') = i /\ result' = i
      BY <2>1, <2>5, <2>7, CopyReturns
    <3>2. WritesOnly(result + 1)'
      BY <2>1, <2>9, <3>1, CopyReturns DEF WritesOnly
    <3>3. Chars(mem0, q)' = Span(mem0, q, k)
      BY <2>1, <2>6, CopyReturns
    <3>4. /\ Chars(mem, p)' = IF Len(Chars(mem0, q)') < n' THEN Chars(mem0, q)'
                              ELSE SubSeq(Chars(mem0, q)', 1, n' - 1)
      BY <2>1, <2>7, <2>8, <3>1, <3>3, CopyReturns
    <3>5. n' # 0 /\ f' = "strlcpy" /\ pc' = "done"
      BY <1>1, <2>1, <2>2, <2>4, CopyReturns
    <3> QED BY <3>1, <3>2, <3>4, <3>5 DEF Fulfilled
  <2> QED BY <2>1, <2>10, CopyReturns, IsDone
<1> QED BY <1>2, <1>3

LEMMA StrncpyPreserves ==
  ASSUME LoopInv, strncpy
  PROVE  LoopInv'
<1> DEFINE k == Length(mem0, q)
           i == edi - p
<1>1. /\ f = "strncpy" /\ pc = "loop" /\ Copying /\ CopyInv /\ mem0 \in Memories /\ Start = p
      /\ Size = n /\ ecx = n - i
  BY DEF strncpy, Copies, Looping, LoopInv, Searching, Comparing, Copying, CopyInv, Start, Size
<1>2. CASE ecx # 0
  BY <1>1, <1>2, CopyTurns DEF strncpy, Copies
<1>3. CASE ecx = 0
  <2>1. Returns(mem, p)
    BY <1>3 DEF strncpy, Copies
  <2>2. CopyFacts(p, i, k, n)
    BY <1>1, CopyHas
  <2> HIDE DEF i, k
  <2>3. /\ p \in Nat /\ n \in Nat /\ i = n /\ p + n <= Top /\ k \in Nat /\ q \in Nat /\ q + k <= Top
        /\ mem = [a \in Addresses |->
                    IF a \in p .. (p + n) - 1 THEN IF a - p < k THEN mem0[q + (a - p)] ELSE NUL
                    ELSE mem0[a]]
    BY <1>1, <1>3, <2>2, SizesAssumption DEF CopyFacts
  <2>4. Chars(mem0, q) = Span(mem0, q, k)
    BY DEF Chars, k
  <2>5. /\ Len(Span(mem0, q, k)) = k
        /\ \A j \in 1 .. k : Span(mem0, q, k)[j] = mem0[q + j - 1]
    BY <1>1, <2>3, SpanIs
  <2>6. ASSUME NEW j \in 1 .. n
        PROVE  mem[p + j - 1] = IF j <= k THEN Span(mem0, q, k)[j] ELSE NUL
    <3>1. /\ p + j - 1 \in Addresses /\ p + j - 1 \in p .. (p + n) - 1
          /\ (p + j - 1) - p = j - 1 /\ q + (j - 1) = q + j - 1
      BY <2>3, SizesAssumption DEF Addresses
    <3>2. mem[p + j - 1] = IF j - 1 < k THEN mem0[q + (j - 1)] ELSE NUL
      BY <2>3, <3>1
    <3>3. j - 1 < k <=> j \in 1 .. k
      BY <2>3
    <3>4. j \in 1 .. k <=> j <= k
      BY <2>3
    <3> QED BY <2>5, <3>1, <3>2, <3>3, <3>4
  <2>7. Span(mem, p, n) = [j \in 1 .. n |-> IF j <= k THEN Span(mem0, q, k)[j] ELSE NUL]
    BY <2>6 DEF Span
  <2>8. \A a \in Addresses \ (p .. p + n - 1) : mem[a] = mem0[a]
    <3>1. p + n - 1 = (p + n) - 1
      BY <2>3
    <3> QED BY <2>3, <3>1
  <2>9. Fulfilled'
    <3>1. /\ mem' = mem /\ mem0' = mem0 /\ p' = p /\ q' = q /\ n' = n
          /\ f' = "strncpy" /\ pc' = "done"
      BY <1>1, <2>1, CopyReturns
    <3>2. Span(mem, p, n)' = Span(mem, p, n) /\ Chars(mem0, q)' = Span(mem0, q, k)
      BY <2>4, <3>1
    <3>3. Span(mem, p, n)' = [j \in 1 .. n' |-> IF j <= Len(Chars(mem0, q)') THEN Chars(mem0, q)'[j] ELSE NUL]
      BY <2>5, <2>7, <3>1, <3>2
    <3>4. WritesOnly(n)'
      BY <2>8, <3>1 DEF WritesOnly
    <3> QED BY <3>1, <3>3, <3>4 DEF Fulfilled
  <2> QED BY <2>1, <2>9, CopyReturns, IsDone
<1> QED BY <1>2, <1>3

LEMMA StrcatPreserves ==
  ASSUME LoopInv, strcat
  PROVE  LoopInv'
<1> DEFINE k == Length(mem0, q)
           e == Length(mem0, p)
           i == edi - Start
           m == Store(NUL)
<1>1. CASE pc = "end"
  BY <1>1, EndPreserves
<1>2. CASE pc # "end"
  <2>1. Copies("strcat", mem[esi] = NUL, m, p)
    BY <1>2 DEF strcat
  <2>2. /\ f = "strcat" /\ pc = "loop" /\ Copying /\ CopyInv /\ mem0 \in Memories /\ Start = p + e
        /\ StringAt(p)
    BY <2>1 DEF Copies, Looping, LoopInv, Searching, Comparing, Copying, Start, CopyInv, CopyOperands
  <2>3. CASE mem[esi] # NUL
    BY <2>1, <2>2, <2>3, CopyTurns DEF Copies
  <2>4. CASE mem[esi] = NUL
    <3>1. Returns(m, p)
      BY <2>1, <2>4 DEF Copies
    <3>2. CopyFacts(Start, i, k, Size) /\ i <= k /\ Copied(m, Start, i, k)
      BY <2>2, CopyHas, NULStored DEF CopyInv
    <3>3. ~(i < k)
      BY <2>4, <3>2, SourceByte
    <3>4. /\ p \in Nat /\ e \in Nat /\ \A j \in 0 .. e - 1 : mem0[p + j] # NUL
      BY <2>2, SizesAssumption DEF StringAt, Addresses
    <3> HIDE DEF m, i, k, e
    <3>5. i = k /\ k \in Nat /\ q \in Nat /\ q + k <= Top /\ (p + e) + k <= Top - 1
      BY <2>2, <3>2, <3>3, SizesAssumption DEF CopyFacts, Copied
    <3>6. Length(m, p) = e + k /\ Chars(m, p) = Joined(Span(mem0, p, e), Span(mem0, q, k))
      BY <2>2, <3>2, <3>4, <3>5, CopiedAfter
    <3>7. Chars(mem0, q) = Span(mem0, q, k) /\ Chars(mem0, p) = Span(mem0, p, e)
      BY DEF Chars, k, e
    <3>8. Len(Chars(m, p)) = e + k
      <4>1. m \in Memories
        BY <3>2 DEF Copied
      <4>2. e + k \in Nat /\ p + (e + k) <= Top
        BY <3>4, <3>5, SizesAssumption
      <4> QED BY <3>4, <3>6, <4>1, <4>2, SpanIs DEF Chars
    <3>9. \A a \in Addresses \ (p .. p + ((e + k) + 1) - 1) : m[a] = mem0[a]
      <4>1. \A a \in Addresses \ (p .. p + ((e + k) + 1) - 1) :
              a \in Addresses \ (p + e .. (p + e) + k)
        BY <3>4, <3>5
      <4> QED BY <2>2, <3>2, <3>5, <4>1 DEF Copied
    <3>10. Fulfilled'
      <4>1. /\ mem' = m /\ mem0' = mem0 /\ p' = p /\ q' = q /\ f' = "strcat" /\ pc' = "done"
        BY <2>2, <3>1, CopyReturns
      <4>2. Chars(mem, p)' = Chars(mem0, p)' \o Chars(mem0, q)'
        BY <3>6, <3>7, <4>1 DEF Joined
      <4>3. Len(Chars(mem, p)') = e + k
        BY <3>8, <4>1
      <4>4. WritesOnly(Len(Chars(mem, p)) + 1)'
        BY <3>9, <4>1, <4>3 DEF WritesOnly
      <4> QED BY <4>1, <4>2, <4>4 DEF Fulfilled
    <3> QED BY <2>2, <3>1, <3>10, CopyReturns, IsDone
  <2> QED BY <2>3, <2>4
<1> QED BY <1>1, <1>2

-----------------------------------------------------------------------------
(* strtol.                                                                 *)

(* A table of the values of a text's beginnings gives the value: two       *)
(* tables of one text cannot differ at a first place.                      *)
LEMMA ValueIs ==
  ASSUME NEW s, NEW k \in Nat, NEW end \in Nat, k <= end, NEW b, NEW h, IsTable(h, s, k, end, b)
  PROVE  Value(s, k, end, b) = h[end]
<1> DEFINE F(v) == v = [j \in k .. end |-> IF j = k THEN 0 ELSE v[j - 1] * b + Digit(s[j])]
<1>1. /\ h = [j \in k .. end |-> h[j]] /\ h[k] = 0
      /\ \A j \in k + 1 .. end : h[j] = h[j - 1] * b + Digit(s[j])
  BY DEF IsTable
<1>2. F(h)
  <2>1. ASSUME NEW j \in k .. end
        PROVE  h[j] = IF j = k THEN 0 ELSE h[j - 1] * b + Digit(s[j])
    <3>1. CASE j = k
      BY <1>1, <3>1
    <3>2. CASE j # k
      <4>1. j \in k + 1 .. end
        BY <3>2
      <4> QED BY <1>1, <3>2, <4>1
    <3> QED BY <3>1, <3>2
  <2>2. [j \in k .. end |-> h[j]]
          = [j \in k .. end |-> IF j = k THEN 0 ELSE h[j - 1] * b + Digit(s[j])]
    BY <2>1
  <2> QED BY <1>1, <2>2, Zenon
<1>3. ASSUME NEW v, F(v) PROVE v[end] = h[end]
  <2>1. v[k] = 0 /\ \A j \in k + 1 .. end : v[j] = v[j - 1] * b + Digit(s[j])
    BY <1>3
  <2> DEFINE D == {j \in k .. end : v[j] # h[j]}
  <2>2. D \subseteq Nat
    OBVIOUS
  <2>3. ASSUME D # {} PROVE FALSE
    <3>1. PICK d \in D : \A x \in D : <<x, d>> \notin OpToRel(<, Nat)
      BY <2>2, <2>3, NatLessThanWellFounded, WFMin
    <3>2. \A x \in D : ~(x < d)
      BY <2>2, <3>1 DEF OpToRel
    <3>3. d \in k + 1 .. end
      BY <1>1, <2>1
    <3>4. d - 1 \in k .. end /\ d - 1 < d
      BY <3>3
    <3>5. v[d - 1] = h[d - 1]
      BY <3>2, <3>4
    <3>6. v[d] = h[d]
      BY <1>1, <2>1, <3>3, <3>5
    <3> QED BY <3>6
  <2> QED BY <2>3
<1>4. Value(s, k, end, b) = (CHOOSE v : F(v))[end]
  BY DEF Value
<1> HIDE DEF F
<1>5. F(CHOOSE v : F(v))
  BY <1>2
<1> QED BY <1>3, <1>4, <1>5

LEMMA TableStarts ==
  ASSUME NEW s, NEW k \in Nat, NEW b
  PROVE  \E h : IsTable(h, s, k, k, b) /\ h[k] = 0
<1> DEFINE h == [x \in k .. k |-> 0]
<1>1. k \in k .. k /\ k + 1 .. k = {}
  OBVIOUS
<1>2. IsTable(h, s, k, k, b) /\ h[k] = 0
  BY <1>1 DEF IsTable
<1> QED BY <1>2

LEMMA TableGrows ==
  ASSUME NEW h, NEW s, NEW k \in Nat, NEW end \in Nat, k <= end, NEW b \in Nat,
         IsTable(h, s, k, end, b), Digit(s[end + 1]) \in Nat
  PROVE  \E g : /\ IsTable(g, s, k, end + 1, b)
                /\ g[end + 1] = h[end] * b + Digit(s[end + 1])
<1> DEFINE z == h[end] * b + Digit(s[end + 1])
           g == [x \in k .. end + 1 |-> IF x = end + 1 THEN z ELSE h[x]]
<1>1. /\ h \in [k .. end -> Nat] /\ h[k] = 0
      /\ \A x \in k + 1 .. end : h[x] = h[x - 1] * b + Digit(s[x])
  BY DEF IsTable
<1>2. z \in Nat
  <2>1. h[end] \in Nat
    BY <1>1
  <2> QED BY <2>1
<1>3. z = h[end] * b + Digit(s[end + 1])
  OBVIOUS
<1> HIDE DEF z
<1>4. g \in [k .. end + 1 -> Nat] /\ g[k] = 0 /\ g[end + 1] = z /\ g[end] = h[end]
  BY <1>1, <1>2
<1>5. ASSUME NEW x \in k + 1 .. end + 1 PROVE g[x] = g[x - 1] * b + Digit(s[x])
  <2>1. CASE x = end + 1
    <3>1. x - 1 = end
      BY <2>1
    <3> QED BY <1>3, <1>4, <2>1, <3>1
  <2>2. CASE x # end + 1
    <3>1. x \in k + 1 .. end /\ x \in k .. end + 1 /\ x - 1 \in k .. end + 1 /\ x - 1 # end + 1
      BY <2>2
    <3>2. g[x] = h[x] /\ g[x - 1] = h[x - 1]
      BY <2>2, <3>1
    <3> QED BY <1>1, <3>1, <3>2
  <2> QED BY <2>1, <2>2
<1> HIDE DEF g
<1>6. IsTable(g, s, k, end + 1, b) /\ g[end + 1] = h[end] * b + Digit(s[end + 1])
  BY <1>3, <1>4, <1>5 DEF IsTable
<1> QED BY <1>6

LEMMA CodeIs ==
  ASSUME NEW s \in Texts, NEW i \in Nat
  PROVE  /\ Len(s) \in Nat /\ Code(s, i) \in Nat /\ Digit(Code(s, i)) \in Nat
         /\ Code(s, i) # NUL => i < Len(s) /\ Code(s, i) = s[i + 1]
<1>1. s \in Seq(Nat) /\ Len(s) \in Nat
  BY ContentsAssumption
<1>2. i < Len(s) => s[i + 1] \in Nat
  BY <1>1
<1>3. Code(s, i) \in Nat /\ (Code(s, i) # NUL => i < Len(s) /\ Code(s, i) = s[i + 1])
  BY <1>2 DEF Code, NUL
<1> DEFINE c == Code(s, i)
<1>4. c \in Nat
  BY <1>3
<1> HIDE DEF c
<1>5. Digit(c) \in Nat
  BY <1>4 DEF Digit
<1> QED BY <1>1, <1>3, <1>5 DEF c

LEMMA StrtolCalled ==
  ASSUME LoopInv, pc = "call", NEW s \in Texts, NEW radix \in {0, 8, 10, 16},
         StrtolCall(s, radix)
  PROVE  LoopInv'
<1>1. /\ mem0' = mem0 /\ mem' = mem /\ mem = mem0 /\ mem0 \in Memories
      /\ f' = "strtol" /\ p' = s /\ q' = radix /\ pc' = "blank" /\ edi' = 0
  BY DEF StrtolCall, Called, LoopInv
<1>2. Len(s) \in Nat
  BY ContentsAssumption
<1>3. edi' \in 0 .. Len(p') /\ \A x \in 1 .. edi' : p'[x] \in {32, 9}
  BY <1>1, <1>2
<1>4. NumberInv'
  BY <1>1, <1>3 DEF NumberInv
<1> QED BY <1>1, <1>4 DEF LoopInv, Fulfilled

LEMMA BlankPreserves ==
  ASSUME LoopInv, Blank
  PROVE  LoopInv'
<1>1. /\ pc = "blank" /\ NumberInv /\ mem0 \in Memories /\ Code(p, edi) \in {32, 9}
      /\ edi' = edi + 1 /\ mem' = mem /\ mem0' = mem0 /\ pc' = pc
      /\ f' = f /\ p' = p /\ q' = q
  BY DEF Blank, call, LoopInv
<1>2. p \in Texts /\ edi \in 0 .. Len(p) /\ \A x \in 1 .. edi : p[x] \in {32, 9}
  BY <1>1 DEF NumberInv
<1>3. Len(p) \in Nat /\ edi \in Nat
  BY <1>2, ContentsAssumption
<1>4. edi < Len(p) /\ p[edi + 1] \in {32, 9}
  <2>1. Code(p, edi) # NUL => edi < Len(p) /\ Code(p, edi) = p[edi + 1]
    BY <1>2, <1>3, CodeIs
  <2> QED BY <1>1, <2>1 DEF NUL
<1>5. edi' \in 0 .. Len(p') /\ \A x \in 1 .. edi' : p'[x] \in {32, 9}
  BY <1>1, <1>2, <1>3, <1>4
<1>6. NumberInv'
  BY <1>1, <1>5 DEF NumberInv
<1> QED BY <1>1, <1>6 DEF LoopInv, Fulfilled

LEMMA Headed ==
  ASSUME f' = "strtol", mem' = mem0', NEW s \in Texts, p' = s, NEW r \in {0, 8, 10, 16},
         q' = r, edi' \in 0 .. Len(s), pc' = "digits", NEW b, base' = b,
         \E i, j, k \in 0 .. Len(s) :
           /\ Heading(s, r, i, j, k, b) /\ neg' = (Code(s, i) = 45)
           /\ k <= edi' /\ \A x \in k + 1 .. edi' : Digit(s[x]) < b
           /\ \E h : IsTable(h, s, k, edi', b) /\ h[edi'] = val'
  PROVE  NumberInv'
BY DEF NumberInv

LEMMA SignAndBasePreserves ==
  ASSUME LoopInv, SignAndBase
  PROVE  LoopInv'
<1> DEFINE i == edi
           j == IF Code(p, i) \in {43, 45} THEN i + 1 ELSE i
           hex == q \in {0, 16} /\ Code(p, j) = 48 /\ Code(p, j + 1) = 120
           octal == q = 0 /\ ~hex /\ Code(p, j) = 48
           k == IF hex THEN j + 2 ELSE j
           b == IF hex THEN 16 ELSE IF octal THEN 8 ELSE IF q = 0 THEN 10 ELSE q
<1>1. /\ pc = "blank" /\ NumberInv /\ mem0 \in Memories /\ Code(p, i) \notin {32, 9}
      /\ neg' = (Code(p, i) = 45) /\ base' = b /\ val' = 0 /\ pc' = "digits"
      /\ edi' = IF octal THEN k + 1 ELSE k
      /\ mem' = mem /\ mem0' = mem0 /\ f' = f /\ p' = p /\ q' = q
  BY DEF SignAndBase, call, LoopInv
<1>2. /\ p \in Texts /\ q \in {0, 8, 10, 16} /\ i \in 0 .. Len(p)
      /\ \A x \in 1 .. i : p[x] \in {32, 9}
  BY <1>1 DEF NumberInv
<1>3. Len(p) \in Nat
  BY <1>2, ContentsAssumption
<1>4. j \in 0 .. Len(p)
  <2>1. i \in Nat
    BY <1>2, <1>3
  <2>2. Code(p, i) # NUL => i < Len(p)
    BY <1>2, <2>1, CodeIs
  <2> QED BY <1>2, <1>3, <2>1, <2>2 DEF NUL
<1>5. /\ Code(p, j) = 48 => j < Len(p) /\ p[j + 1] = 48
      /\ Code(p, j + 1) = 120 => j + 1 < Len(p)
  <2> HIDE DEF j
  <2>1. j \in Nat /\ j + 1 \in Nat
    BY <1>3, <1>4
  <2>2. Code(p, j) # NUL => j < Len(p) /\ Code(p, j) = p[j + 1]
    BY <1>2, <2>1, CodeIs
  <2>3. Code(p, j + 1) # NUL => j + 1 < Len(p)
    BY <1>2, <2>1, CodeIs
  <2> QED BY <2>2, <2>3 DEF NUL
<1>6. Heading(p, q, i, j, k, b)
  <2>1. b = IF q # 0 THEN q ELSE IF Code(p, j) # 48 THEN 10
            ELSE IF Code(p, j + 1) = 120 THEN 16 ELSE 8
    BY <1>2
  <2>2. k = IF b = 16 /\ Code(p, j) = 48 /\ Code(p, j + 1) = 120 THEN j + 2 ELSE j
    BY <1>2
  <2> QED BY <1>1, <1>2, <2>1, <2>2 DEF Heading
<1> HIDE DEF j
<1>7. k \in 0 .. Len(p) /\ k \in Nat /\ b \in Nat
  BY <1>2, <1>3, <1>4, <1>5
<1>8. PICK h : IsTable(h, p, k, k, b) /\ h[k] = 0
  <2> HIDE DEF k, b, hex, octal
  <2> QED BY <1>7, TableStarts
<1>11. f' = "strtol" /\ mem' = mem0'
  BY <1>1 DEF NumberInv
<1>9. CASE octal
  <2>1. k = j /\ b = 8 /\ p[k + 1] = 48 /\ edi' = k + 1 /\ k + 1 <= Len(p)
    BY <1>1, <1>3, <1>4, <1>5, <1>9
  <2>2. Digit(p[k + 1]) = 0
    BY <2>1 DEF Digit
  <2> HIDE DEF k, b, hex, octal
  <2>3. \E g : IsTable(g, p, k, k + 1, b) /\ g[k + 1] = h[k] * b + Digit(p[k + 1])
    <3>1. Digit(p[k + 1]) \in Nat /\ k <= k
      BY <1>7, <2>2
    <3> QED BY <1>7, <1>8, <3>1, TableGrows
  <2>4. \E g : IsTable(g, p, k, edi', b) /\ g[edi'] = val'
    BY <1>1, <1>7, <1>8, <2>1, <2>2, <2>3
  <2>5. /\ edi' \in 0 .. Len(p') /\ k <= edi' /\ \A x \in k + 1 .. edi' : Digit(p'[x]) < base'
    BY <1>1, <1>3, <1>7, <2>1, <2>2
  <2>6. NumberInv'
    <3>1. \E x, y, z \in 0 .. Len(p) :
            /\ Heading(p, q, x, y, z, b) /\ neg' = (Code(p, x) = 45)
            /\ z <= edi' /\ \A c \in z + 1 .. edi' : Digit(p[c]) < b
            /\ \E g : IsTable(g, p, z, edi', b) /\ g[edi'] = val'
      BY <1>1, <1>2, <1>4, <1>6, <1>7, <2>4, <2>5
    <3> QED BY <1>1, <1>2, <1>11, <2>5, <3>1, Headed
  <2> QED BY <1>1, <2>6 DEF LoopInv, Fulfilled
<1>10. CASE ~octal
  <2>1. edi' = k
    BY <1>1, <1>10
  <2> HIDE DEF k, b, hex, octal
  <2>2. edi' \in 0 .. Len(p') /\ k <= edi' /\ k + 1 .. edi' = {}
    BY <1>1, <1>3, <1>7, <2>1
  <2>3. NumberInv'
    <3>1. \E x, y, z \in 0 .. Len(p) :
            /\ Heading(p, q, x, y, z, b) /\ neg' = (Code(p, x) = 45)
            /\ z <= edi' /\ \A c \in z + 1 .. edi' : Digit(p[c]) < b
            /\ \E g : IsTable(g, p, z, edi', b) /\ g[edi'] = val'
      BY <1>1, <1>2, <1>4, <1>6, <1>7, <1>8, <2>1, <2>2
    <3> QED BY <1>1, <1>2, <1>11, <2>2, <3>1, Headed
  <2> QED BY <1>1, <2>3 DEF LoopInv, Fulfilled
<1> QED BY <1>9, <1>10

LEMMA NumberHas ==
  ASSUME NumberInv, pc = "digits"
  PROVE  /\ p \in Texts /\ q \in {0, 8, 10, 16} /\ edi \in 0 .. Len(p) /\ Len(p) \in Nat
         /\ base \in {8, 10, 16}
         /\ Digit(Code(p, edi)) < base => edi < Len(p) /\ Code(p, edi) = p[edi + 1]
<1>1. /\ p \in Texts /\ q \in {0, 8, 10, 16} /\ edi \in 0 .. Len(p) /\ Len(p) \in Nat
  BY ContentsAssumption DEF NumberInv
<1>2. base \in {8, 10, 16}
  BY <1>1 DEF NumberInv, Heading
<1>3. Digit(NUL) = 36
  BY DEF Digit, NUL
<1>4. Code(p, edi) # NUL => edi < Len(p) /\ Code(p, edi) = p[edi + 1]
  <2>1. edi \in Nat
    BY <1>1
  <2> QED BY <1>1, <2>1, CodeIs
<1> QED BY <1>1, <1>2, <1>3, <1>4

LEMMA DigitReadPreserves ==
  ASSUME LoopInv, DigitRead
  PROVE  LoopInv'
<1>1. /\ pc = "digits" /\ NumberInv /\ mem0 \in Memories /\ Digit(Code(p, edi)) < base
      /\ val' = val * base + Digit(Code(p, edi)) /\ edi' = edi + 1
      /\ mem' = mem /\ mem0' = mem0 /\ f' = f /\ p' = p /\ q' = q /\ pc' = pc
      /\ base' = base /\ neg' = neg
  BY DEF DigitRead, call, LoopInv
<1>2. /\ p \in Texts /\ edi \in 0 .. Len(p) /\ Len(p) \in Nat /\ base \in {8, 10, 16}
      /\ edi < Len(p) /\ Code(p, edi) = p[edi + 1] /\ Digit(Code(p, edi)) \in Nat
  BY <1>1, NumberHas, CodeIs
<1>3. PICK i, j, k \in 0 .. Len(p) :
        /\ Heading(p, q, i, j, k, base) /\ neg = (Code(p, i) = 45)
        /\ k <= edi /\ \A x \in k + 1 .. edi : Digit(p[x]) < base
        /\ \E h : IsTable(h, p, k, edi, base) /\ h[edi] = val
  BY <1>1 DEF NumberInv
<1>4. PICK h : IsTable(h, p, k, edi, base) /\ h[edi] = val
  BY <1>3
<1>5. \E g : IsTable(g, p, k, edi + 1, base) /\ g[edi + 1] = h[edi] * base + Digit(p[edi + 1])
  BY <1>2, <1>3, <1>4, TableGrows
<1>6. \E g : IsTable(g, p, k, edi', base) /\ g[edi'] = val'
  BY <1>1, <1>2, <1>4, <1>5
<1>7. k <= edi' /\ edi' \in 0 .. Len(p) /\ \A x \in k + 1 .. edi' : Digit(p[x]) < base
  BY <1>1, <1>2, <1>3
<1>8. NumberInv'
  <2>1. \E x, y, z \in 0 .. Len(p) :
          /\ Heading(p, q, x, y, z, base) /\ neg' = (Code(p, x) = 45)
          /\ z <= edi' /\ \A c \in z + 1 .. edi' : Digit(p[c]) < base
          /\ \E g : IsTable(g, p, z, edi', base) /\ g[edi'] = val'
    BY <1>1, <1>3, <1>6, <1>7
  <2>2. f = "strtol" /\ mem = mem0 /\ q \in {0, 8, 10, 16}
    BY <1>1 DEF NumberInv
  <2> QED BY <1>1, <1>2, <1>7, <2>1, <2>2, Headed
<1> QED BY <1>1, <1>8 DEF LoopInv, Fulfilled

LEMMA NumeralIs ==
  ASSUME NEW s, NEW r, NEW end, NEW v, NEW value, NEW b,
         NEW i \in 0 .. Len(s), NEW j \in 0 .. Len(s), NEW k \in 0 .. Len(s),
         Heading(s, r, i, j, k, b), k <= end, \A x \in k + 1 .. end : Digit(s[x]) < b,
         Digit(Code(s, end)) >= b, Value(s, k, end, b) = v,
         v <= MAXLONG => value = IF Code(s, i) = 45 THEN -v ELSE v
  PROVE  Numeral(s, r, end, value)
<1> DEFINE radix(y) == IF r # 0 THEN r ELSE IF Code(s, y) # 48 THEN 10
                       ELSE IF Code(s, y + 1) = 120 THEN 16 ELSE 8
       body(x, y, z) ==
         LET magnitude == Value(s, z, end, radix(y))
         IN /\ \A u \in 1 .. x : s[u] \in {32, 9}
            /\ Code(s, x) \notin {32, 9}
            /\ y = IF Code(s, x) \in {43, 45} THEN x + 1 ELSE x
            /\ z = IF radix(y) = 16 /\ Code(s, y) = 48 /\ Code(s, y + 1) = 120
                     THEN y + 2 ELSE y
            /\ z <= end /\ \A u \in z + 1 .. end : Digit(s[u]) < radix(y)
            /\ Digit(Code(s, end)) >= radix(y)
            /\ magnitude <= MAXLONG
                 => value = IF Code(s, x) = 45 THEN -magnitude ELSE magnitude
<1>1. Numeral(s, r, end, value) <=> \E x, y, z \in 0 .. Len(s) : body(x, y, z)
  BY DEF Numeral
<1>2. radix(j) = b
  BY DEF Heading
<1> HIDE DEF radix
<1>3. body(i, j, k)
  <2>1. /\ \A u \in 1 .. i : s[u] \in {32, 9}
        /\ Code(s, i) \notin {32, 9}
        /\ j = IF Code(s, i) \in {43, 45} THEN i + 1 ELSE i
        /\ k = IF b = 16 /\ Code(s, j) = 48 /\ Code(s, j + 1) = 120 THEN j + 2 ELSE j
    BY DEF Heading
  <2> QED BY <1>2, <2>1
<1> HIDE DEF body
<1> QED BY <1>1, <1>3

LEMMA StrtolPreserves ==
  ASSUME LoopInv, strtol
  PROVE  LoopInv'
<1>1. /\ pc = "digits" /\ NumberInv /\ mem0 \in Memories /\ Digit(Code(p, edi)) >= base
      /\ n' = edi /\ (val <= MAXLONG => result' = IF neg THEN -val ELSE val) /\ pc' = "done"
      /\ mem' = mem /\ mem0' = mem0 /\ f' = f /\ p' = p /\ q' = q /\ mem = mem0 /\ f = "strtol"
  BY DEF strtol, LoopInv, NumberInv
<1>2. p \in Texts /\ edi \in 0 .. Len(p) /\ Len(p) \in Nat
  BY <1>1, NumberHas
<1>3. PICK i, j, k \in 0 .. Len(p) :
        /\ Heading(p, q, i, j, k, base) /\ neg = (Code(p, i) = 45)
        /\ k <= edi /\ \A x \in k + 1 .. edi : Digit(p[x]) < base
        /\ \E h : IsTable(h, p, k, edi, base) /\ h[edi] = val
  BY <1>1 DEF NumberInv
<1>4. Value(p, k, edi, base) = val
  <2>1. PICK h : IsTable(h, p, k, edi, base) /\ h[edi] = val
    BY <1>3
  <2>2. k \in Nat /\ edi \in Nat /\ k <= edi
    BY <1>2, <1>3
  <2> QED BY <2>1, <2>2, ValueIs
<1>5. val <= MAXLONG => result' = IF Code(p, i) = 45 THEN -val ELSE val
  BY <1>1, <1>3
<1>6. Numeral(p, q, edi, result')
  <2>1. Digit(Code(p, edi)) >= base
    BY <1>1
  <2> QED BY <1>3, <1>4, <1>5, <2>1, NumeralIs
<1>7. Fulfilled'
  BY <1>1, <1>6 DEF Fulfilled
<1> QED BY <1>1, <1>7, IsDone

-----------------------------------------------------------------------------
(* All the steps.                                                          *)

LEMMA LoopCallPreserves ==
  ASSUME LoopInv, Call
  PROVE  LoopInv'
<1>1. ASSUME NEW d \in 0 .. Top, NEW s, NEW k, Memmove(d, s, k) \/ Memset(d, s, k)
      PROVE  LoopInv'
  <2>1. /\ mem0' \in Memories /\ pc' \in {"rep", "done"} /\ f' \in {"memmove", "memset"}
    BY <1>1 DEF Memmove, Memset, Called, LoopInv
  <2> QED BY <2>1 DEF LoopInv, Fulfilled
<1>2. CASE \E s, size \in 0 .. Top : SearchCall(s, size)
  BY <1>2, SearchCalled DEF Call
<1>3. CASE \E s, t \in Addresses, size \in 0 .. Top : CompareCall(s, t, size)
  BY <1>3, CompareCalled DEF Call
<1>4. CASE \E d, s \in Addresses, size \in 0 .. Top : CopyCall(d, s, size)
  BY <1>4, CopyCalled DEF Call
<1>5. CASE \E s \in Texts, radix \in {0, 8, 10, 16} : StrtolCall(s, radix)
  BY <1>5, StrtolCalled DEF Call
<1> QED BY <1>1, <1>2, <1>3, <1>4, <1>5 DEF Call

LEMMA LoopInvPreserved ==
  ASSUME LoopInv, IInv, [Next]_vars
  PROVE  LoopInv'
<1>1. CASE Call
  BY <1>1, LoopCallPreserves
<1>2. CASE Rep
  BY <1>2 DEF Rep, call, LoopInv, Fulfilled
<1>3. CASE RepEnd
  <2>1. /\ mem0' \in Memories /\ pc' = "done" /\ f' \in {"memmove", "memset"}
    BY <1>3 DEF RepEnd, call, LoopInv, IInv, Running
  <2> QED BY <2>1 DEF LoopInv, Fulfilled
<1>4. CASE strlen \/ strnlen \/ strchr \/ strfind \/ memfind
  BY <1>4, StrlenPreserves, StrnlenPreserves, StrchrPreserves, StrfindPreserves, MemfindPreserves
<1>5. CASE strcmp \/ strncmp \/ memcmp
  BY <1>5, StrcmpPreserves, StrncmpPreserves, MemcmpPreserves
<1>6. CASE strcpy \/ strncpy \/ strlcpy \/ strcat
  BY <1>6, StrcpyPreserves, StrncpyPreserves, StrlcpyPreserves, StrcatPreserves
<1>7. CASE Blank \/ SignAndBase \/ DigitRead \/ strtol
  BY <1>7, BlankPreserves, SignAndBasePreserves, DigitReadPreserves, StrtolPreserves
<1>8. CASE UNCHANGED vars
  <2>1. /\ mem' = mem /\ mem0' = mem0 /\ pc' = pc /\ f' = f /\ p' = p /\ q' = q /\ n' = n
        /\ result' = result /\ edi' = edi /\ esi' = esi /\ ecx' = ecx
        /\ val' = val /\ base' = base /\ neg' = neg
    BY <1>8 DEF vars, call, registers, number
  <2>2. Fulfilled'
    BY <2>1 DEF LoopInv, Fulfilled, FirstAt, WritesOnly
  <2>3. Searching' = Searching /\ Comparing' = Comparing /\ Copying' = Copying
    BY <2>1 DEF Searching, Comparing, Copying
  <2>4. (SearchInv => SearchInv') /\ (CompareInv => CompareInv')
    BY <2>1 DEF SearchInv, CompareInv, StringAt, SizedAt
  <2>5. Start' = Start /\ Size' = Size /\ (CopyOperands => CopyOperands')
    BY <2>1 DEF Start, Size, CopyOperands, StringAt
  <2>6. \A x : Taken(x)' = Taken(x)
    BY <2>1 DEF Taken
  <2>7. (CopyInv => CopyInv') /\ (EndInv => EndInv')
    BY <2>1, <2>5, <2>6 DEF CopyInv, EndInv
  <2>8. NumberInv => NumberInv'
    BY <2>1 DEF NumberInv
  <2> QED BY <2>1, <2>2, <2>3, <2>4, <2>7, <2>8 DEF LoopInv
<1> QED BY <1>1, <1>2, <1>3, <1>4, <1>5, <1>6, <1>7, <1>8 DEF Next

-----------------------------------------------------------------------------
(* Types, and the addresses the loops touch.                               *)

TypeInv ==
  /\ mem \in Memories
  /\ edi \in Int /\ esi \in Int /\ ecx \in Nat /\ unit \in {1, WORD} /\ down \in BOOLEAN
  /\ val \in Nat /\ base \in {0, 8, 10, 16} /\ neg \in BOOLEAN

LEMMA InBounds ==
  ASSUME IInv, LoopInv, TypeInv
  PROVE  TypeOK
<1>1. Top \in Nat
  BY SizesAssumption
<1>2. ASSUME pc = "end" PROVE edi \in Addresses
  <2>1. /\ StringAt(p) /\ edi \in p .. p + Length(mem0, p)
    BY <1>2 DEF LoopInv, EndInv, CopyOperands, Start
  <2> QED BY <1>1, <2>1 DEF StringAt, Addresses
<1>3. ASSUME pc = "loop", Searching, SearchInv, ~Exhausted PROVE edi \in Addresses
  <2>1. CASE f \in {"strlen", "strchr", "strfind"}
    BY <1>1, <1>3, <2>1 DEF SearchInv, StringAt, Addresses
  <2>2. CASE f \in {"strnlen", "memfind"}
    BY <1>1, <1>3, <2>2 DEF SearchInv, SizedAt, Addresses, Exhausted
  <2> QED BY <1>3, <2>1, <2>2 DEF Searching
<1>4. ASSUME pc = "loop", Comparing, CompareInv, ~Exhausted
      PROVE  edi \in Addresses /\ esi \in Addresses
  <2>1. p \in Nat /\ q \in Nat /\ edi \in Nat /\ p <= edi /\ esi = q + (edi - p)
    BY <1>4, CompareHas
  <2>2. CASE f = "strcmp"
    <3>1. /\ StringAt(p) /\ edi - p <= Length(mem0, p)
          /\ StringAt(q) /\ edi - p <= Length(mem0, q)
      BY <1>4, <2>2 DEF CompareInv
    <3> QED BY <1>1, <2>1, <3>1 DEF StringAt, Addresses
  <2>3. CASE f # "strcmp"
    <3>1. n \in Nat /\ p + n <= Top /\ q + n <= Top /\ edi - p <= n /\ ecx = n - (edi - p)
      BY <1>4, <2>3 DEF CompareInv, SizedAt
    <3>2. ecx # 0
      BY <1>4, <2>3 DEF Comparing, Exhausted
    <3> QED BY <1>1, <2>1, <3>1, <3>2 DEF Addresses
  <2> QED BY <2>2, <2>3
<1>5. ASSUME pc = "loop", Copying, CopyInv
      PROVE  esi \in Addresses /\ (~Exhausted \/ f = "strlcpy" => edi \in Addresses)
  <2>1. CopyFacts(Start, edi - Start, Length(mem0, q), Size)
    BY <1>5, CopyHas
  <2>2. esi \in Addresses
    BY <2>1, SourceByte
  <2>3. ~Exhausted \/ f = "strlcpy" => edi < Start + Size
    <3>1. /\ f # "strncpy" => edi < Start + Size
          /\ f = "strncpy" => ecx = Size - (edi - Start)
      BY <1>5 DEF CopyInv
    <3>2. Start \in Nat /\ Size \in Nat /\ edi - Start \in Nat /\ edi - Start <= Size
          /\ edi = Start + (edi - Start)
      BY <2>1 DEF CopyFacts
    <3> QED BY <3>1, <3>2 DEF Exhausted, TypeInv
  <2>4. Start \in Nat /\ Start + Size <= Top /\ Start <= edi /\ edi \in Int
    BY <2>1 DEF CopyFacts, TypeInv
  <2>5. ~Exhausted \/ f = "strlcpy" => edi \in Addresses
    BY <1>1, <2>1, <2>3, <2>4 DEF Addresses, CopyFacts
  <2> QED BY <2>2, <2>5
<1>6. pc = "loop" => /\ ~Exhausted \/ f = "strlcpy" => edi \in Addresses
                     /\ f \in {"strcmp", "strncmp", "memcmp", "strcpy", "strcat",
                                "strncpy", "strlcpy"} /\ ~Exhausted => esi \in Addresses
  BY <1>3, <1>4, <1>5 DEF LoopInv, Searching, Comparing, Copying
<1>7. pc \in {"blank", "digits"} => edi \in 0 .. Len(p)
  BY DEF LoopInv, NumberInv
<1> QED BY <1>2, <1>6, <1>7 DEF TypeOK, Inside, TypeInv, IInv

LEMMA BeginsSearch ==
  ASSUME NEW routine, NEW s, NEW z, NEW k, NEW size, Begins(routine, s, z, k, "loop", size)
  PROVE  /\ mem' = mem /\ val' = val /\ base' = base /\ neg' = neg /\ unit' = unit
         /\ down' = down /\ edi' = s /\ esi' = z /\ ecx' = size
BY DEF Begins, number

LEMMA TypeCallPreserves ==
  ASSUME TypeInv, Call
  PROVE  TypeInv'
<1> USE SizesAssumption
<1>1. ASSUME NEW d \in 0 .. Top, NEW s \in 0 .. Top, NEW k \in 0 .. Top, Memmove(d, s, k)
      PROVE  TypeInv'
  <2> DEFINE aligned == s % WORD = 0 /\ d % WORD = 0 /\ k % WORD = 0
  <2>1. /\ unit' = UnitOf(aligned) /\ ecx' = k \div unit' /\ down' = Overlaps(d, s, k)
        /\ edi' = IF down' THEN d + k - unit' ELSE d
        /\ esi' = IF down' THEN s + k - unit' ELSE s
        /\ mem' = mem /\ val' = val /\ base' = base /\ neg' = neg
    BY <1>1 DEF Memmove, number
  <2>2. aligned \in BOOLEAN /\ (aligned => k % WORD = 0) /\ k \in Nat
    OBVIOUS
  <2> HIDE DEF aligned
  <2>3. ecx' \in Nat /\ unit' \in {1, WORD}
    BY <2>1, <2>2, UnitsFill DEF UnitOf
  <2>4. down' \in BOOLEAN /\ edi' \in Int /\ esi' \in Int
    BY <2>1, <2>3 DEF Overlaps
  <2> QED BY <2>1, <2>3, <2>4 DEF TypeInv
<1>2. ASSUME NEW d \in 0 .. Top, NEW c \in Fills, NEW k \in 0 .. Top, Memset(d, c, k)
      PROVE  TypeInv'
  <2>1. CASE k = 0
    BY <1>2, <2>1 DEF Memset, registers, number, TypeInv
  <2>2. CASE k # 0
    <3> DEFINE aligned == d % WORD = 0 /\ k % WORD = 0
    <3>1. /\ unit' = UnitOf(aligned) /\ ecx' = k \div unit' /\ down' = FALSE
          /\ edi' = d /\ esi' = 0
          /\ mem' = mem /\ val' = val /\ base' = base /\ neg' = neg
      BY <1>2, <2>2 DEF Memset, number
    <3>2. aligned \in BOOLEAN /\ (aligned => k % WORD = 0) /\ k \in Nat
      OBVIOUS
    <3> HIDE DEF aligned
    <3>3. ecx' \in Nat /\ unit' \in {1, WORD}
      BY <3>1, <3>2, UnitsFill DEF UnitOf
    <3>4. edi' \in Int /\ esi' \in Int
      BY <3>1
    <3>5. down' \in BOOLEAN
      BY <3>1, Zenon
    <3> QED BY <3>1, <3>3, <3>4, <3>5 DEF TypeInv
  <2> QED BY <2>1, <2>2
<1>3. CASE \E s, size \in 0 .. Top : SearchCall(s, size)
  <2>1. PICK s \in 0 .. Top, size \in 0 .. Top : SearchCall(s, size)
    BY <1>3
  <2>2. /\ mem' = mem /\ val' = val /\ base' = base /\ neg' = neg /\ unit' = unit /\ down' = down
        /\ edi' = s /\ esi' \in {0} \union Bytes \union Fills /\ ecx' \in {0, size}
    BY <2>1, BeginsSearch DEF SearchCall
  <2>3. esi' \in Int
    BY <2>2, SizesAssumption DEF Bytes
  <2> QED BY <2>2, <2>3 DEF TypeInv
<1>4. CASE \E s, t \in Addresses, size \in 0 .. Top : CompareCall(s, t, size)
  BY <1>4 DEF CompareCall, Begins, number, TypeInv, Addresses
<1>5. CASE \E d, s \in Addresses, size \in 0 .. Top : CopyCall(d, s, size)
  <2>1. PICK d \in Addresses, s \in Addresses, size \in 0 .. Top : CopyCall(d, s, size)
    BY <1>5
  <2>2. /\ mem' = mem /\ val' = val /\ base' = base /\ neg' = neg /\ unit' = unit /\ down' = down
        /\ edi' \in {edi, d} /\ esi' \in {esi, s}
    BY <2>1 DEF CopyCall, Begins, number, registers
  <2>3. ecx' = ecx \/ ecx' = 0 \/ ecx' = size \/ (size > 0 /\ ecx' = size - 1)
    BY <2>1 DEF CopyCall, Begins, number, registers
  <2> QED BY <2>2, <2>3 DEF TypeInv, Addresses
<1>6. CASE \E s \in Texts, radix \in {0, 8, 10, 16} : StrtolCall(s, radix)
  BY <1>6 DEF StrtolCall, number, TypeInv
<1> QED BY <1>1, <1>2, <1>3, <1>4, <1>5, <1>6 DEF Call

(* What an instruction has stored it has read inside the source.           *)
LEMMA Reaches ==
  ASSUME NEW x \in Nat, NEW y \in Nat, NEW k \in Nat, y + k <= Top,
         NEW l \in Nat, l <= k, NEW u \in Nat, NEW backwards,
         NEW e, e = IF backwards THEN x + l - u ELSE x + (k - l),
         NEW a \in Addresses, a \in IF backwards THEN e + u .. x + k - 1 ELSE x .. e - 1
  PROVE  y + (a - x) \in Addresses
<1>1. a \in Int /\ Top \in Nat
  BY SizesAssumption DEF Addresses
<1>2. x <= a /\ a <= x + k - 1
  <2>1. CASE backwards
    <3>1. e + u = x + l /\ a \in e + u .. x + k - 1
      BY <2>1
    <3> QED BY <1>1, <3>1
  <2>2. CASE ~backwards
    <3>1. e = x + (k - l) /\ a \in x .. e - 1
      BY <2>2
    <3> QED BY <1>1, <3>1
  <2> QED BY <2>1, <2>2
<1> QED BY <1>1, <1>2 DEF Addresses

LEMMA TypeInvPreserved ==
  ASSUME TypeInv, TypeOK, IInv, LoopInv, IInv', [Next]_vars
  PROVE  TypeInv'
<1> USE SizesAssumption
<1>1. CASE Call
  BY <1>1, TypeCallPreserves
<1>2. CASE Rep
  <2>1. /\ edi' = edi + Stride /\ esi' = esi + Stride /\ ecx' = ecx - 1 /\ ecx > 0
        /\ unit' = unit /\ down' = down /\ val' = val /\ base' = base /\ neg' = neg /\ pc' = "rep"
    BY <1>2 DEF Rep, number
  <2>2. Stride \in Int
    BY DEF Stride, TypeInv
  <2>3. mem' \in Memories
    <3>1. Running' /\ mem0' \in Memories
      BY <2>1 DEF IInv
    <3>2. ASSUME NEW a \in Addresses, a \in Stored' PROVE Filled(a)' \in Bytes
      <4>1. CASE f' = "memset"
        BY <3>1, <4>1 DEF Running, Operands, Filled, Bytes
      <4>2. CASE f' = "memmove"
        <5>1. q' + (a - p') \in Addresses
          <6>1. /\ p' \in Nat /\ n' \in Nat /\ q' \in Nat /\ q' + n' <= Top
                /\ Left' \in Nat /\ Left' <= n' /\ unit' \in Nat
                /\ edi' = IF down' THEN p' + Left' - unit' ELSE p' + (n' - Left')
            BY <3>1, <4>2 DEF Running, Operands, Registers
          <6>2. a \in IF down' THEN edi' + unit' .. p' + n' - 1 ELSE p' .. edi' - 1
            BY <3>2 DEF Stored
          <6> QED BY <6>1, <6>2, Reaches
        <5> QED BY <3>1, <4>2, <5>1 DEF Filled, Memories
      <4> QED BY <3>1, <4>1, <4>2 DEF Running
    <3>3. ASSUME NEW a \in Addresses PROVE mem0'[a] \in Bytes
      BY <3>1 DEF Memories
    <3>4. mem' = [a \in Addresses |-> IF a \in Stored' THEN Filled(a)' ELSE mem0'[a]]
      BY <3>1 DEF Running
    <3> QED BY <3>2, <3>3, <3>4 DEF Memories
  <2> QED BY <2>1, <2>2, <2>3 DEF TypeInv
<1>3. CASE RepEnd
  BY <1>3 DEF RepEnd, number, TypeInv
<1>4. ASSUME NEW m \in Memories, NEW r, Returns(m, r) PROVE TypeInv'
  BY <1>4 DEF Returns, registers, number, TypeInv
<1>5. ASSUME NEW m \in Memories, NEW step \in Int, Turn(m, step) PROVE TypeInv'
  BY <1>5 DEF Turn, number, TypeInv
<1>6. ASSUME NEW routine, NEW step \in Int, NEW ends, NEW r, Looks(routine, step, ends, r)
      PROVE  TypeInv'
  BY <1>4, <1>5, <1>6 DEF Looks, TypeInv
<1>7. ASSUME NEW routine, NEW ends, NEW m, NEW r, Copies(routine, ends, m, r),
             routine \in {"strcpy", "strcat", "strncpy", "strlcpy"},
             m \in {mem, Store(NUL)}, Exhausted => ends
      PROVE  TypeInv'
  <2>1. ASSUME NEW c \in Bytes PROVE Store(c) \in Memories
    BY DEF Store, Memories, TypeInv
  <2>2. NUL \in Bytes
    BY DEF NUL, Bytes
  <2>3. CASE ends
    BY <1>4, <1>7, <2>1, <2>2, <2>3 DEF Copies, TypeInv
  <2>4. CASE ~ends
    <3>1. mem[esi] \in Bytes
      BY <1>7, <2>4 DEF Copies, Looping, TypeOK, Inside, Memories
    <3>2. Turn(Store(mem[esi]), IF mem[esi] = NUL THEN 0 ELSE 1)
      BY <1>7, <2>4 DEF Copies
    <3> QED BY <1>5, <2>1, <3>1, <3>2
  <2> QED BY <2>3, <2>4
<1>8. CASE strlen \/ strnlen \/ strchr \/ strfind \/ memfind \/ strcmp \/ strncmp \/ memcmp
  BY <1>6, <1>8 DEF strlen, strnlen, strchr, strfind, memfind, strcmp, strncmp, memcmp
<1>9. CASE strcpy \/ strncpy \/ strlcpy
  <2>1. CASE strcpy
    BY <1>7, <2>1 DEF strcpy, Exhausted, Copies, Looping
  <2>2. CASE strncpy
    BY <1>7, <2>2 DEF strncpy, Exhausted, Copies, Looping
  <2>3. CASE strlcpy
    BY <1>7, <2>3 DEF strlcpy, Exhausted, Copies, Looping
  <2> QED BY <1>9, <2>1, <2>2, <2>3
<1>10. CASE strcat
  <2>1. CASE Copies("strcat", mem[esi] = NUL, Store(NUL), p)
    BY <1>7, <2>1 DEF Exhausted, Copies, Looping
  <2>2. CASE ~Copies("strcat", mem[esi] = NUL, Store(NUL), p)
    <3>1. /\ mem' = mem /\ esi' = esi /\ ecx' = ecx /\ unit' = unit /\ down' = down
          /\ val' = val /\ base' = base /\ neg' = neg /\ edi' \in {edi, edi + 1}
      BY <1>10, <2>2 DEF strcat, number
    <3> QED BY <3>1 DEF TypeInv
  <2> QED BY <2>1, <2>2
<1>11. CASE Blank \/ strtol
  BY <1>11 DEF Blank, strtol, registers, number, TypeInv
<1>12. CASE SignAndBase
  <2>1. q \in {0, 8, 10, 16}
    BY <1>12 DEF SignAndBase, LoopInv, NumberInv
  <2> QED BY <1>12, <2>1 DEF SignAndBase, TypeInv
<1>13. CASE DigitRead
  <2>1. Digit(Code(p, edi)) \in Nat
    BY <1>13, NumberHas, CodeIs DEF DigitRead, LoopInv
  <2>2. val * base \in Nat
    BY DEF TypeInv
  <2> QED BY <1>13, <2>1, <2>2 DEF DigitRead, TypeInv
<1>14. CASE UNCHANGED vars
  BY <1>14 DEF vars, registers, number, TypeInv
<1> QED BY <1>1, <1>2, <1>3, <1>8, <1>9, <1>10, <1>11, <1>12, <1>13, <1>14 DEF Next

(* The invariants hold from the call on.                                   *)
LEMMA InvariantsKept == Spec => [](IInv /\ LoopInv /\ TypeInv)
<1> DEFINE Invs == IInv /\ LoopInv /\ TypeInv
<1>1. Init => Invs
  <2>1. Init => IInv /\ LoopInv
    BY ContentsAssumption DEF Init, IInv, MovesExactly, LoopInv, Fulfilled
  <2>2. Init => TypeInv
    <3> SUFFICES ASSUME Init PROVE TypeInv
      OBVIOUS
    <3>1. neg \in BOOLEAN /\ down \in BOOLEAN
      BY Zenon DEF Init
    <3> QED BY <3>1, ContentsAssumption DEF Init, TypeInv
  <2> QED BY <2>1, <2>2
<1>2. Invs /\ [Next]_vars => Invs'
  <2> SUFFICES ASSUME Invs, [Next]_vars PROVE Invs'
    OBVIOUS
  <2>1. IInv' /\ LoopInv'
    BY IInvPreserved, LoopInvPreserved
  <2>2. TypeOK
    BY InBounds
  <2> QED BY <2>1, <2>2, TypeInvPreserved
<1> QED BY <1>1, <1>2, PTL DEF Spec

(* For every memory, string, size and text, the searches, comparisons,     *)
(* copies and strtol return what they promise, write nothing else and look *)
(* at nothing behind a NUL or their size (string.c:12-113, 204-271).       *)
THEOREM ContractsKept == Spec => []ContractsMet
<1>1. IInv /\ LoopInv /\ TypeInv => ContractsMet
  BY InBounds DEF LoopInv, TypeOK, ContractsMet
<1> QED BY <1>1, InvariantsKept, PTL

(* The variables keep their types, as the loops and instructions move      *)
(* through memory (string.c:12-271).                                       *)
THEOREM StringTypeCorrect == Spec => []TypeOK
<1>1. IInv /\ LoopInv /\ TypeInv => TypeOK
  BY InBounds
<1> QED BY <1>1, InvariantsKept, PTL
=============================================================================
