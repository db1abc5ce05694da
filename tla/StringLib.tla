----------------------------- MODULE StringLib -----------------------------
(***************************************************************************)
(* The string routines of lib/string.c.                                    *)
(*                                                                         *)
(* A behaviour is one call, on any contents of a small memory.  memmove    *)
(* and memset run one string instruction, an action per repetition: their  *)
(* operands may overlap.  The other routines are loops, an action per      *)
(* turn, and are called as C asks: strings end, there is room for what is  *)
(* written, and copies do not overlap.                                     *)
(***************************************************************************)
EXTENDS Integers, Sequences

CONSTANTS
  Top,        \* addresses are below Top
  BYTE,       \* bytes are below BYTE
  WORD,       \* bytes of a word of movsl and stosl
  Contents,   \* what memory may hold at the call
  Fills,      \* the ints passed as a byte
  Texts,      \* the strings given to strtol, as sequences of character codes
  MAXLONG     \* the greatest long

ASSUME SizesAssumption ==
  /\ Top \in Nat /\ BYTE \in Nat \ {0} /\ WORD \in Nat \ {0} /\ MAXLONG \in Nat
  /\ Fills \subseteq Int

Addresses == 0 .. Top - 1
Bytes == 0 .. BYTE - 1
Memories == [Addresses -> Bytes]
NUL == 0

ASSUME ContentsAssumption == Contents \subseteq Memories /\ Texts \subseteq Seq(Nat)

VARIABLES
  mem, mem0,                    \* memory, now and when the call was made
  pc,                           \* "call", "rep", "loop", "end", "blank",
                                \* "digits" or "done"
  f, p, q, n,                   \* the routine and its arguments
  result,
  edi, esi, ecx, unit, down, al,
                                \* the running loop or string instruction:
                                \* `down` is the direction flag, al fills
  val, base, neg                \* of strtol

call == <<f, p, q, n>>
registers == <<edi, esi, ecx, unit, down, al>>
number == <<val, base, neg>>
vars == <<mem, mem0, pc, call, result, registers, number>>

None == -1

Init ==
  /\ mem \in Contents /\ mem0 = mem
  /\ pc = "call"
  /\ f = "none" /\ p = 0 /\ q = 0 /\ n = 0
  /\ result = 0
  /\ edi = 0 /\ esi = 0 /\ ecx = 0 /\ unit = 1 /\ down = FALSE /\ al = None
  /\ val = 0 /\ base = 0 /\ neg = FALSE

Called(routine, x, y, z) ==
  f' = routine /\ p' = x /\ q' = y /\ n' = z /\ UNCHANGED mem0

-----------------------------------------------------------------------------
(* The string instructions.                                                *)

UnitOf(aligned) == IF aligned THEN WORD ELSE 1

(* Mutant: always forwards.                                                *)
OverlapsNever(d, s, k) == FALSE

(* s < d && s + n > d                                                      *)
Overlaps(d, s, k) == s < d /\ s + k > d

(* memcpy is memmove.                                                      *)
Memmove(d, s, k) ==
  /\ d + k <= Top /\ s + k <= Top
  /\ Called("memmove", d, s, k)
  /\ unit' = UnitOf(s % WORD = 0 /\ d % WORD = 0 /\ k % WORD = 0)
  /\ ecx' = k \div unit'
  /\ down' = Overlaps(d, s, k)
  /\ edi' = IF down' THEN d + k - unit' ELSE d
  /\ esi' = IF down' THEN s + k - unit' ELSE s
  /\ al' = None
  /\ pc' = "rep"
  /\ UNCHANGED <<mem, result, number>>

(* c counts as a byte: c & 0xFF, or what fits in %al.                      *)
Memset(d, c, k) ==
  /\ d + k <= Top
  /\ Called("memset", d, c, k)
  /\ IF k = 0 THEN pc' = "done" /\ result' = d /\ UNCHANGED registers
     ELSE /\ unit' = UnitOf(d % WORD = 0 /\ k % WORD = 0)
          /\ ecx' = k \div unit'
          /\ down' = FALSE
          /\ edi' = d /\ esi' = 0
          /\ al' = c % BYTE
          /\ pc' = "rep"
          /\ UNCHANGED result
  /\ UNCHANGED <<mem, number>>

Moved(a) == IF a \in edi .. edi + unit - 1
              THEN IF al = None THEN mem[esi + (a - edi)] ELSE al
              ELSE mem[a]
Stride == IF down THEN -unit ELSE unit

(* One repetition: a whole unit is read, then stored.                      *)
Rep ==
  /\ pc = "rep" /\ ecx > 0
  /\ mem' = [a \in Addresses |-> Moved(a)]
  /\ edi' = edi + Stride
  /\ esi' = esi + Stride
  /\ ecx' = ecx - 1
  /\ UNCHANGED <<mem0, pc, call, result, unit, down, al, number>>

(* The flag is clear again when the routine returns.                       *)
RepEnd ==
  /\ pc = "rep" /\ ecx = 0
  /\ down' = FALSE
  /\ result' = p
  /\ pc' = "done"
  /\ UNCHANGED <<mem, mem0, call, edi, esi, ecx, unit, al, number>>

-----------------------------------------------------------------------------
(* The loops.  edi and esi are a loop's pointers, ecx what is left of its  *)
(* size; what the test of a loop reads behind its end is never read.       *)

Returns(m, r) ==
  /\ mem' = m /\ result' = r /\ pc' = "done"
  /\ UNCHANGED <<mem0, call, registers, number>>

Turn(m, step) ==
  /\ mem' = m
  /\ edi' = edi + 1 /\ esi' = esi + step
  /\ ecx' = IF ecx > 0 THEN ecx - 1 ELSE 0
  /\ UNCHANGED <<mem0, pc, call, result, unit, down, al, number>>

Looping(routine) == pc = "loop" /\ f = routine

(* Loops that look until `ends`, by `step` in a second operand.            *)
Looks(routine, step, ends, r) ==
  /\ Looping(routine)
  /\ IF ends THEN Returns(mem, r) ELSE Turn(mem, step)

strlen == Looks("strlen", 0, mem[edi] = NUL, edi - p)
strnlen == Looks("strnlen", 0, ecx = 0 \/ mem[edi] = NUL, edi - p)

(* A null pointer is None.                                                 *)
strchr == Looks("strchr", 0, mem[edi] \in {NUL, q}, IF mem[edi] = NUL THEN None ELSE edi)
strfind == Looks("strfind", 0, mem[edi] \in {NUL, q}, edi)
memfind == Looks("memfind", 0, ecx = 0 \/ mem[edi] = q % BYTE, edi)

Difference == mem[edi] - mem[esi]
Bounded(r) == IF ecx = 0 THEN 0 ELSE r

(* Mutant: the comparison goes on behind the end of both strings.          *)
strncmpPastEnd == Looks("strncmp", 1, ecx = 0 \/ Difference # 0, Bounded(Difference))

strcmp == Looks("strcmp", 1, mem[edi] = NUL \/ Difference # 0, Difference)
strncmp == Looks("strncmp", 1, ecx = 0 \/ mem[edi] = NUL \/ Difference # 0, Bounded(Difference))
memcmp == Looks("memcmp", 1, ecx = 0 \/ Difference # 0, Bounded(Difference))

Store(c) == [mem EXCEPT ![edi] = c]

(* Loops that copy until `ends`.  strncpy stays at the NUL of its source.  *)
Copies(routine, ends, m, r) ==
  /\ Looping(routine)
  /\ IF ends THEN Returns(m, r)
     ELSE Turn(Store(mem[esi]), IF mem[esi] = NUL THEN 0 ELSE 1)

strcpy == Copies("strcpy", mem[esi] = NUL, Store(NUL), p)
strncpy == Copies("strncpy", ecx = 0, mem, p)
strlcpy == Copies("strlcpy", ecx = 0 \/ mem[esi] = NUL, Store(NUL), edi - p)

(* strlen(dst), then strcpy to the end it found.                           *)
strcat ==
  \/ /\ pc = "end"
     /\ IF mem[edi] = NUL THEN pc' = "loop" /\ UNCHANGED edi
                          ELSE edi' = edi + 1 /\ UNCHANGED pc
     /\ UNCHANGED <<mem, mem0, call, result, esi, ecx, unit, down, al, number>>
  \/ Copies("strcat", mem[esi] = NUL, Store(NUL), p)

-----------------------------------------------------------------------------
(* strtol, on the text p of its first argument; position i is p[i - 1].    *)

Code(s, i) == IF i < Len(s) THEN s[i + 1] ELSE NUL

Digit(c) ==
  CASE c \in 48 .. 57  -> c - 48
    [] c \in 97 .. 122 -> c - 97 + 10
    [] c \in 65 .. 90  -> c - 65 + 10
    [] OTHER           -> 36

Blank ==
  /\ pc = "blank" /\ Code(p, edi) \in {32, 9}
  /\ edi' = edi + 1
  /\ UNCHANGED <<mem, mem0, pc, call, result, esi, ecx, unit, down, al, number>>

(* The sign, and what is in front of the digits of some bases.             *)
SignAndBase ==
  LET signed == IF Code(p, edi) \in {43, 45} THEN edi + 1 ELSE edi
      hex == q \in {0, 16} /\ Code(p, signed) = 48 /\ Code(p, signed + 1) = 120
      octal == q = 0 /\ ~hex /\ Code(p, signed) = 48
  IN /\ pc = "blank" /\ Code(p, edi) \notin {32, 9}
     /\ neg' = (Code(p, edi) = 45)
     /\ base' = IF hex THEN 16 ELSE IF octal THEN 8 ELSE IF q = 0 THEN 10 ELSE q
     /\ edi' = IF hex THEN signed + 2 ELSE IF octal THEN signed + 1 ELSE signed
     /\ val' = 0
     /\ pc' = "digits"
     /\ UNCHANGED <<mem, mem0, call, result, esi, ecx, unit, down, al>>

(* val is the number itself, whether it fits or not.                       *)
DigitRead ==
  /\ pc = "digits" /\ Digit(Code(p, edi)) < base
  /\ val' = val * base + Digit(Code(p, edi))
  /\ edi' = edi + 1
  /\ UNCHANGED <<mem, mem0, pc, call, result, esi, ecx, unit, down, al, base, neg>>

(* *endptr is n.  A value that does not fit is the compiler's: signed      *)
(* overflow.                                                               *)
strtol ==
  /\ pc = "digits" /\ Digit(Code(p, edi)) >= base
  /\ n' = edi
  /\ result' \in -MAXLONG - 1 .. MAXLONG
  /\ val <= MAXLONG => result' = IF neg THEN -val ELSE val
  /\ pc' = "done"
  /\ UNCHANGED <<mem, mem0, f, p, q, registers, number>>

-----------------------------------------------------------------------------
(* The calls.                                                              *)

IsString(s) == \E a \in s .. Top - 1 : mem[a] = NUL
(* How many of k bytes are before a NUL, and how many there are to the NUL *)
(* of a string.                                                            *)
Before(m, s, k) == CHOOSE c \in 0 .. k : /\ \A j \in 0 .. c - 1 : m[s + j] # NUL
                                        /\ c < k => m[s + c] = NUL
Length(m, s) == Before(m, s, Top - s)
Apart(d, k, s, j) == d + k <= s \/ s + j <= d
Fits(d, k) == d + k <= Top

(* The loop begins with its pointers at x and y, if y is one, and has      *)
(* `size` turns at most, if it counts them.                                *)
Begins(routine, x, y, z, stage, size) ==
  /\ Called(routine, x, y, z)
  /\ pc' = stage
  /\ edi' = x /\ esi' = y /\ ecx' = size
  /\ UNCHANGED <<mem, result, unit, down, al, number>>

SearchCall(s, size) ==
  \/ IsString(s) /\ size = 0 /\ Begins("strlen", s, 0, 0, "loop", 0)
  \/ /\ IsString(s) /\ size = 0
     /\ \E c \in Bytes, routine \in {"strchr", "strfind"} : Begins(routine, s, c, 0, "loop", 0)
  \/ Fits(s, size) /\ Begins("strnlen", s, 0, size, "loop", size)
  \/ Fits(s, size) /\ \E c \in Fills : Begins("memfind", s, c, size, "loop", size)

CompareCall(s, t, size) ==
  \/ IsString(s) /\ IsString(t) /\ size = 0 /\ Begins("strcmp", s, t, 0, "loop", 0)
  \/ /\ Fits(s, size) /\ Fits(t, size)
     /\ \E routine \in {"strncmp", "memcmp"} : Begins(routine, s, t, size, "loop", size)

CopyCall(d, s, size) ==
  /\ IsString(s)
  /\ LET k == Length(mem, s) + 1
     IN \/ /\ size = 0 /\ Fits(d, k) /\ Apart(d, k, s, k)
           /\ Begins("strcpy", d, s, 0, "loop", 0)
        \/ /\ size = 0 /\ IsString(d)
           /\ LET j == Length(mem, d) IN Fits(d, j + k) /\ Apart(d, j + k, s, k)
           /\ Begins("strcat", d, s, 0, "end", 0)
        \/ /\ Fits(d, size) /\ Apart(d, size, s, k)
           /\ \/ Begins("strncpy", d, s, size, "loop", size)
              \/ /\ size = 0 /\ Called("strlcpy", d, s, 0)
                 /\ pc' = "done" /\ result' = 0
                 /\ UNCHANGED <<mem, registers, number>>
              \/ size > 0 /\ Begins("strlcpy", d, s, size, "loop", size - 1)

StrtolCall(s, radix) ==
  /\ Called("strtol", s, radix, 0)
  /\ pc' = "blank" /\ edi' = 0
  /\ UNCHANGED <<mem, result, esi, ecx, unit, down, al, number>>

Call ==
  /\ pc = "call"
  /\ \/ \E d, s, k \in 0 .. Top : Memmove(d, s, k)
     \/ \E d, k \in 0 .. Top, c \in Fills : Memset(d, c, k)
     \/ \E s, size \in 0 .. Top : SearchCall(s, size)
     \/ \E s, t \in Addresses, size \in 0 .. Top : CompareCall(s, t, size)
     \/ \E d, s \in Addresses, size \in 0 .. Top : CopyCall(d, s, size)
     \/ \E s \in Texts, radix \in {0, 8, 10, 16} : StrtolCall(s, radix)

Next ==
  \/ Call \/ Rep \/ RepEnd
  \/ strlen \/ strnlen \/ strchr \/ strfind \/ memfind
  \/ strcmp \/ strncmp \/ memcmp
  \/ strcpy \/ strncpy \/ strlcpy \/ strcat
  \/ Blank \/ SignAndBase \/ DigitRead \/ strtol

Spec == Init /\ [][Next]_vars

-----------------------------------------------------------------------------

(* A loop with a size has none left.                                       *)
Exhausted ==
  f \in {"strnlen", "memfind", "strncmp", "memcmp", "strncpy", "strlcpy"} /\ ecx = 0

(* No loop reads or writes a byte outside memory with its next test and    *)
(* turn, and strtol reads nothing behind the NUL of its text.              *)
Inside ==
  /\ pc = "end" => edi \in Addresses
  /\ pc = "loop" =>
       /\ ~Exhausted \/ f = "strlcpy" => edi \in Addresses
       /\ f \in {"strcmp", "strncmp", "memcmp", "strcpy", "strcat", "strncpy", "strlcpy"} /\ ~Exhausted
            => esi \in Addresses
  /\ pc \in {"blank", "digits"} => edi \in 0 .. Len(p)

(* What every variable may be, pointers within what they point to.         *)
TypeOK ==
  /\ mem \in Memories /\ mem0 \in Memories
  /\ pc \in {"call", "rep", "loop", "end", "blank", "digits", "done"}
  /\ edi \in Int /\ esi \in Int /\ ecx \in Nat /\ unit \in {1, WORD} /\ down \in BOOLEAN
  /\ val \in Nat /\ base \in {0, 8, 10, 16} /\ neg \in BOOLEAN
  /\ Inside

(* What memmove and memset promise, whatever the alignment and however the *)
(* operands of memmove overlap: the destination holds what the source held *)
(* at the call, or the byte, nothing else has changed, and the direction   *)
(* flag is clear for the compiler's own string instructions                *)
(* (string.c:122-160).                                                     *)
MovesExactly ==
  pc = "done" /\ f \in {"memmove", "memset"} =>
    /\ mem = [a \in Addresses |->
                IF a \notin p .. p + n - 1 THEN mem0[a]
                ELSE IF f = "memmove" THEN mem0[q + (a - p)] ELSE q % BYTE]
    /\ result = p
    /\ ~down

Span(m, s, k) == [i \in 1 .. k |-> m[s + i - 1]]
Chars(m, s) == Span(m, s, Length(m, s))

WritesOnly(k) == \A a \in Addresses \ (p .. p + k - 1) : mem[a] = mem0[a]

(* A result as strcmp's for these two sequences.                           *)
Orders(r, s, t) ==
  LET less(u, v) == \/ Len(u) < Len(v) /\ u = SubSeq(v, 1, Len(u))
                    \/ \E i \in DOMAIN u \intersect DOMAIN v :
                         SubSeq(u, 1, i - 1) = SubSeq(v, 1, i - 1) /\ u[i] < v[i]
  IN (r = 0 <=> s = t) /\ (r < 0 <=> less(s, t)) /\ (r > 0 <=> less(t, s))

FirstAt(c, from, to, r) == /\ r \in from .. to
                           /\ \A a \in from .. r - 1 : mem0[a] # c
                           /\ r < to => mem0[r] = c

(* The number that the digits s[k + 1], ..., s[end] stand for in base b.   *)
Value(s, k, end, b) ==
  LET v[j \in k .. end] == IF j = k THEN 0 ELSE v[j - 1] * b + Digit(s[j])
  IN v[end]

(* The number a text stands for in a base, and where it ends.              *)
Numeral(s, base0, end, value) ==
  \E i, j, k \in 0 .. Len(s) :
    LET b == IF base0 # 0 THEN base0
             ELSE IF Code(s, j) # 48 THEN 10
             ELSE IF Code(s, j + 1) = 120 THEN 16 ELSE 8
        magnitude == Value(s, k, end, b)
    IN /\ \A x \in 1 .. i : s[x] \in {32, 9}
       /\ Code(s, i) \notin {32, 9}
       /\ j = IF Code(s, i) \in {43, 45} THEN i + 1 ELSE i
       /\ k = IF b = 16 /\ Code(s, j) = 48 /\ Code(s, j + 1) = 120 THEN j + 2 ELSE j
       /\ k <= end /\ \A x \in k + 1 .. end : Digit(s[x]) < b
       /\ Digit(Code(s, end)) >= b
       /\ magnitude <= MAXLONG => value = IF Code(s, i) = 45 THEN -magnitude ELSE magnitude

(* What a call has come to when it returns.                                *)
Fulfilled ==
  pc = "done" =>
    CASE f = "strlen"  -> result = Length(mem0, p)
      [] f = "strnlen" -> FirstAt(NUL, p, p + n, p + result)
      [] f = "strchr"  -> LET end == p + Length(mem0, p)
                          IN IF result = None THEN q = NUL \/ FirstAt(q, p, end, end)
                             ELSE q # NUL /\ result < end /\ FirstAt(q, p, end, result)
      [] f = "strfind" -> FirstAt(q, p, p + Length(mem0, p), result)
      [] f = "memfind" -> FirstAt(q % BYTE, p, p + n, result)
      [] f = "strcmp"  -> Orders(result, Chars(mem0, p), Chars(mem0, q))
      [] f = "strncmp" -> Orders(result, Span(mem0, p, Before(mem0, p, n)),
                                                Span(mem0, q, Before(mem0, q, n)))
      [] f = "memcmp"  -> Orders(result, Span(mem0, p, n), Span(mem0, q, n))
      [] f = "strcpy"  -> /\ Chars(mem, p) = Chars(mem0, q)
                          /\ WritesOnly(Len(Chars(mem, p)) + 1)
      [] f = "strcat"  -> /\ Chars(mem, p) = Chars(mem0, p) \o Chars(mem0, q)
                          /\ WritesOnly(Len(Chars(mem, p)) + 1)
      [] f = "strncpy" -> LET s == Chars(mem0, q)
                          IN /\ Span(mem, p, n) = [i \in 1 .. n |-> IF i <= Len(s) THEN s[i] ELSE NUL]
                             /\ WritesOnly(n)
      [] f = "strlcpy" -> LET s == Chars(mem0, q)
                          IN IF n = 0 THEN mem = mem0
                             ELSE /\ Chars(mem, p) = IF Len(s) < n THEN s ELSE SubSeq(s, 1, n - 1)
                                  /\ result = Len(Chars(mem, p))
                                  /\ WritesOnly(result + 1)
      [] f = "strtol"  -> mem = mem0 /\ Numeral(p, q, n, result)
      [] OTHER -> TRUE

(* What the other routines promise: copies end in a NUL (or fill what they *)
(* were given) and write nothing else, searches find the first occurrence, *)
(* comparisons order, a number is read as its text says, and on the way    *)
(* none looks behind a NUL or its size: it stops there before it touches a *)
(* byte (string.c:12-113, 204-271).                                        *)
ContractsMet == Inside /\ Fulfilled
=============================================================================
