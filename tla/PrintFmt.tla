----------------------------- MODULE PrintFmt -----------------------------
(***************************************************************************)
(* Formatted output: vprintfmt of lib/printfmt.c with its two callers,     *)
(* cprintf (kern/printf.c), which sends every character to the console,    *)
(* and snprintf, which fills a buffer.                                     *)
(*                                                                         *)
(* A behaviour is one call.  An action is one turn of the loop over the    *)
(* text or over the digits of a width, one case of the switch, one call of *)
(* printnum or one of putch; a conversion first works out the characters   *)
(* it will put (`todo`).  An argument is chosen when va_arg takes it.      *)
(***************************************************************************)
EXTENDS Integers, Sequences

CONSTANTS
  Chars,              \* the characters
  Formats,            \* format strings, without the NUL at their end
  Ints, LongLongs,    \* the numbers passed as int (or long), and long long
  Widths,             \* the numbers passed for a '*'
  Strings,            \* the strings passed
  INT_MAX, LLONG_MAX,
  MAXERROR, error_string,
  E_INVAL,
  Sizes,              \* buffer sizes snprintf is called with
  Numerals            \* numbers written in a format, for the properties

NUL == "NUL"
Space == "space"
Null == <<"null pointer">>
Garbage == "garbage"
Console == -1

digits == <<"0", "1", "2", "3", "4", "5", "6", "7",
            "8", "9", "a", "b", "c", "d", "e", "f">>
DigitValue(c) == (CHOOSE i \in 1 .. 16 : digits[i] = c) - 1
IsDigit(c) == \E i \in 1 .. 10 : digits[i] = c
Known == {"-", "*", ".", "#", "l", "c", "e", "s", "d", "u", "o", "p", "x", "%"}
Unprintable == {"tab"}     \* characters outside ' ' .. '~'

(* How many values an unsigned int has, and an unsigned long long.         *)
UINT == 2 * (INT_MAX + 1)
ULLONG == 2 * (LLONG_MAX + 1)

ASSUME WordsAssumption ==
  /\ INT_MAX \in Nat /\ LLONG_MAX \in Nat /\ INT_MAX <= LLONG_MAX
  /\ Ints \subseteq -(INT_MAX + 1) .. INT_MAX
  /\ LongLongs \subseteq -(LLONG_MAX + 1) .. LLONG_MAX
  /\ Widths \subseteq Int /\ Sizes \subseteq Nat
  /\ MAXERROR \in Nat /\ E_INVAL \in Nat

ASSUME TextAssumption ==
  /\ {digits[d] : d \in 1 .. 16} \subseteq Chars
  /\ Known \union {Space, "?", "(", "n", ")", "error"} \subseteq Chars
  /\ NUL \notin Chars
  /\ Formats \subseteq Seq(Chars) /\ Strings \subseteq Seq(Chars) \union {Null}
  /\ error_string \in [0 .. MAXERROR - 1 -> Seq(Chars) \union {Null}]
  /\ Numerals \subseteq Seq({digits[d] : d \in 1 .. 10})
  /\ \A w \in Numerals : w # <<>> /\ w[1] # "0"

VARIABLES
  fmt, k,               \* the format, and how many of its characters are read
  pc,                   \* "text", "spec", "digits", "number", "put", "return"
  padc, width, precision, lflag, altflag,
  num, base, sign,      \* of printnum: its arguments, and what is put before
  todo,                 \* characters of the conversion still to be put
  out,                  \* every character put so far
  dest,                 \* Console, or the size of snprintf's buffer
  buf, b_buf, cnt,      \* the buffer; of struct sprintbuf: the place b.buf
                        \* points to, and the count
  result,
  start, mark, args     \* of the last escape: the position of its '%', the
                        \* length of out then, the arguments it took

escape == <<padc, width, precision, lflag, altflag>>
number == <<num, base, sign>>
history == <<start, mark, args>>
sink == <<out, dest, buf, b_buf, cnt, result>>
fmtvars == <<fmt, k, pc, escape, number, todo, sink, history>>

-----------------------------------------------------------------------------

ch == IF k < Len(fmt) THEN fmt[k + 1] ELSE NUL

(* vsnprintf refuses an empty buffer before it prints anything.  It does   *)
(* the same for a negative size and for no buffer: size 0 stands for these.*)
FmtInit ==
  /\ fmt \in Formats /\ k = 0
  /\ padc = Space /\ width = -1 /\ precision = -1 /\ lflag = 0 /\ altflag = FALSE
  /\ num = 0 /\ base = 10 /\ sign = <<>>
  /\ todo = <<>> /\ out = <<>>
  /\ dest \in {Console} \union Sizes
  /\ buf = [j \in 0 .. (IF dest = Console THEN 0 ELSE dest) - 1 |-> Garbage]
  /\ b_buf = 0 /\ cnt = 0
  /\ IF dest # Console /\ dest < 1
       THEN pc = "return" /\ result = -E_INVAL
       ELSE pc = "text" /\ result = 0
  /\ start = 0 /\ mark = 0 /\ args = <<>>

(* Mutant: the last place, which is the NUL's, is filled too.              *)
RoomToTheEnd == dest # Console /\ b_buf <= dest - 1

(* b->buf < b->ebuf                                                        *)
Room == dest # Console /\ b_buf < dest - 1

(* What lies in the buffer, and around it, once c is stored at place j.    *)
Stored(j, c) == [p \in DOMAIN buf \union {j} |-> IF p = j THEN c ELSE buf[p]]

(* Mutant: only the characters that are stored are counted.                *)
CountedStored == IF Room THEN cnt + 1 ELSE cnt

(* b->cnt++.  kern/printf.c's putch increments its own pointer instead.    *)
Counted == IF dest = Console THEN cnt ELSE cnt + 1

(* One call of putch: cputchar for the console, sprintputch for a buffer.  *)
putch(c) ==
  /\ out' = Append(out, c)
  /\ IF Room THEN buf' = Stored(b_buf, c) /\ b_buf' = b_buf + 1
             ELSE UNCHANGED <<buf, b_buf>>
  /\ cnt' = Counted
  /\ UNCHANGED <<dest, result>>

Literal ==
  /\ pc = "text" /\ ch \notin {"%", NUL}
  /\ putch(ch)
  /\ k' = k + 1
  /\ UNCHANGED <<fmt, pc, escape, number, todo, history>>

Percent ==
  /\ pc = "text" /\ ch = "%"
  /\ k' = k + 1
  /\ padc' = Space /\ width' = -1 /\ precision' = -1 /\ lflag' = 0 /\ altflag' = FALSE
  /\ pc' = "spec"
  /\ start' = k /\ mark' = Len(out) /\ args' = <<>>
  /\ UNCHANGED <<fmt, number, todo, sink>>

EndOfFormat ==
  /\ pc = "text" /\ ch = NUL
  /\ pc' = "return"
  /\ buf' = IF dest = Console THEN buf ELSE Stored(b_buf, NUL)
  /\ result' = cnt
  /\ UNCHANGED <<fmt, k, escape, number, todo, out, dest, b_buf, cnt, history>>

-----------------------------------------------------------------------------
(* The cases that go back to reswitch.                                     *)

Case(S) == pc = "spec" /\ ch \in S

Flag ==
  /\ Case({"-", "0"})
  /\ padc' = ch
  /\ k' = k + 1
  /\ UNCHANGED <<fmt, pc, width, precision, lflag, altflag, number, todo, sink, history>>

(* One digit of a width or a precision.                                    *)
Digit ==
  /\ IsDigit(ch)
  /\ \/ pc = "spec" /\ ch # "0" /\ precision' = DigitValue(ch)
     \/ pc = "digits" /\ precision' = precision * 10 + DigitValue(ch)
  /\ k' = k + 1
  /\ pc' = "digits"
  /\ UNCHANGED <<fmt, padc, width, lflag, altflag, number, todo, sink, history>>

(* process_precision: the first number is the width, the next one the      *)
(* precision.                                                              *)
ProcessPrecision(v) ==
  IF width < 0 THEN width' = v /\ precision' = -1
               ELSE precision' = v /\ UNCHANGED width

DigitsDone ==
  /\ pc = "digits" /\ ~IsDigit(ch)
  /\ ProcessPrecision(precision)
  /\ pc' = "spec"
  /\ UNCHANGED <<fmt, k, padc, lflag, altflag, number, todo, sink, history>>

Star(v) ==
  /\ Case({"*"})
  /\ ProcessPrecision(v)
  /\ args' = Append(args, v)
  /\ k' = k + 1
  /\ UNCHANGED <<fmt, pc, padc, lflag, altflag, number, todo, sink, start, mark>>

Dot ==
  /\ Case({"."})
  /\ width' = IF width < 0 THEN 0 ELSE width
  /\ k' = k + 1
  /\ UNCHANGED <<fmt, pc, padc, precision, lflag, altflag, number, todo, sink, history>>

(* Mutant: the flag is looked at again and again.                          *)
SharpStay ==
  /\ Case({"#"})
  /\ altflag' = TRUE
  /\ UNCHANGED <<fmt, k, pc, padc, width, precision, lflag, number, todo, sink, history>>

Sharp ==
  /\ Case({"#"})
  /\ altflag' = TRUE
  /\ k' = k + 1
  /\ UNCHANGED <<fmt, pc, padc, width, precision, lflag, number, todo, sink, history>>

Long ==
  /\ Case({"l"})
  /\ lflag' = lflag + 1
  /\ k' = k + 1
  /\ UNCHANGED <<fmt, pc, padc, width, precision, altflag, number, todo, sink, history>>

-----------------------------------------------------------------------------
(* The conversions.                                                        *)

(* Mutant: the magnitude is taken in the width of an int.                  *)
MagnitudeInt(n) == (ULLONG - n) % UINT

(* num = -(long long) num, which for the least long long overflows: C      *)
(* leaves that open, and the instruction gcc has for it wraps around.      *)
Magnitude(n) == (ULLONG - n) % ULLONG

(* The number an argument v is taken for: getint sign-extends, getuint     *)
(* does not.                                                               *)
getint(v) == v % ULLONG
getuint(v) == v % (IF lflag >= 2 THEN ULLONG ELSE UINT)
Numbers == IF lflag >= 2 THEN LongLongs ELSE Ints
Negative(n) == n > LLONG_MAX     \* (long long) num < 0

(* A conversion c takes the argument v and has the number n(v) printed,    *)
(* behind s(v).                                                            *)
ConvertNumber(c, V, n(_), b, s(_)) ==
  /\ Case({c})
  /\ \E v \in V : num' = n(v) /\ sign' = s(v) /\ args' = Append(args, v)
  /\ base' = b
  /\ k' = k + 1
  /\ pc' = "number"
  /\ UNCHANGED <<fmt, escape, todo, sink, start, mark>>

SignedValue(v) == IF Negative(getint(v)) THEN Magnitude(getint(v)) ELSE getint(v)
Minus(v) == IF Negative(getint(v)) THEN <<"-">> ELSE <<>>
PointerValue(v) == v % UINT
Nothing(v) == <<>>
Hex(v) == <<"0", "x">>

Signed == ConvertNumber("d", Numbers, SignedValue, 10, Minus)
Unsigned ==
  \/ ConvertNumber("u", Numbers, getuint, 10, Nothing)
  \/ ConvertNumber("o", Numbers, getuint, 8, Nothing)
  \/ ConvertNumber("x", Numbers, getuint, 16, Nothing)
Pointer == ConvertNumber("p", Ints, PointerValue, 16, Hex)

Times(n, c) == [j \in 1 .. n |-> c]

(* A call of printnum that first calls itself for the digits in front of   *)
(* its own, and the call that has none in front and pads.                  *)
PrintnumCalls ==
  /\ pc = "number" /\ num >= base
  /\ num' = num \div base
  /\ width' = width - 1
  /\ todo' = <<digits[(num % base) + 1]>> \o todo
  /\ UNCHANGED <<fmt, k, pc, padc, precision, lflag, altflag, base, sign, sink, history>>
PrintnumPads ==
  /\ pc = "number" /\ num < base
  /\ todo' = sign \o Times(width - 1, padc) \o <<digits[(num % base) + 1]>> \o todo
  /\ pc' = "put"
  /\ UNCHANGED <<fmt, k, escape, number, sink, history>>

(* err = -err; no caller passes the least int, whose negation overflows.   *)
(* The call of printfmt inside has a width and padding of its own, and     *)
(* what it puts before the number counts as one character.                 *)
Error ==
  /\ Case({"e"})
  /\ \E v \in Ints \ {-(INT_MAX + 1)} :
       LET err == IF v < 0 THEN -v ELSE v
       IN /\ args' = Append(args, v)
          /\ IF err >= MAXERROR \/ error_string[err] = Null
               THEN /\ num' = err /\ base' = 10 /\ sign' = <<"error">>
                    /\ width' = -1 /\ padc' = Space
                    /\ pc' = "number"
                    /\ UNCHANGED todo
               ELSE /\ todo' = error_string[err]
                    /\ pc' = "put"
                    /\ UNCHANGED <<number, width, padc>>
  /\ k' = k + 1
  /\ UNCHANGED <<fmt, precision, lflag, altflag, sink, start, mark>>

(* Mutant: a string is padded by its whole length, cut or not.             *)
StringTextWhole(v) ==
  LET p == IF v = Null THEN <<"(", "n", ")">> ELSE v
      n == IF precision < 0 \/ precision > Len(p) THEN Len(p) ELSE precision
      before == IF width > 0 /\ padc # "-" THEN width - Len(p) ELSE 0
      after == IF width > 0 /\ padc # "-" THEN 0 ELSE width - n
      shown(c) == IF altflag /\ c \in Unprintable THEN "?" ELSE c
  IN Times(before, padc) \o [j \in 1 .. n |-> shown(p[j])] \o Times(after, Space)

StringText(v) ==
  LET p == IF v = Null THEN <<"(", "n", ")">> ELSE v
      n == IF precision < 0 \/ precision > Len(p) THEN Len(p) ELSE precision
      before == IF width > 0 /\ padc # "-" THEN width - n ELSE 0
      after == IF width > 0 /\ padc # "-" THEN 0 ELSE width - n
      shown(c) == IF altflag /\ c \in Unprintable THEN "?" ELSE c
  IN Times(before, padc) \o [j \in 1 .. n |-> shown(p[j])] \o Times(after, Space)

(* A conversion c takes the argument v and puts text(v).                   *)
Convert(c, V, text(_)) ==
  /\ Case({c})
  /\ \E v \in V : todo' = text(v) /\ args' = Append(args, v)
  /\ k' = k + 1
  /\ pc' = "put"
  /\ UNCHANGED <<fmt, escape, number, sink, start, mark>>

Initials == {s[1] : s \in {s \in Strings \ {Null} : s # <<>>}}
One(v) == <<v>>

Char == Convert("c", Initials, One)
String == Convert("s", Strings, StringText)

Escaped ==
  /\ Case({"%"})
  /\ todo' = <<"%">>
  /\ k' = k + 1
  /\ pc' = "put"
  /\ UNCHANGED <<fmt, escape, number, sink, history>>

(* Mutant: the format goes on behind the character it does not know.       *)
UnknownSkip ==
  /\ pc = "spec" /\ ~IsDigit(ch) /\ ch \notin Known
  /\ todo' = <<"%">>
  /\ k' = k + 1
  /\ pc' = "put"
  /\ UNCHANGED <<fmt, escape, number, sink, history>>

(* Not an escape, or the end of the format: back to just behind the '%',   *)
(* from where everything is text.                                          *)
Unknown ==
  /\ pc = "spec" /\ ~IsDigit(ch) /\ ch \notin Known
  /\ todo' = <<"%">>
  /\ k' = start + 1
  /\ pc' = "put"
  /\ UNCHANGED <<fmt, escape, number, sink, history>>

Put ==
  /\ pc = "put"
  /\ IF todo = <<>> THEN pc' = "text" /\ UNCHANGED <<todo, sink>>
     ELSE /\ putch(Head(todo))
          /\ todo' = Tail(todo)
          /\ UNCHANGED pc
  /\ UNCHANGED <<fmt, k, escape, number, history>>

FmtNext ==
  \/ Literal \/ Percent \/ EndOfFormat
  \/ Flag \/ Digit \/ DigitsDone \/ Dot \/ Sharp \/ Long
  \/ \E v \in Widths : Star(v)
  \/ Char \/ Error \/ String \/ Signed \/ Unsigned \/ Pointer
  \/ PrintnumCalls \/ PrintnumPads
  \/ Escaped \/ Unknown \/ Put

FmtSpec == FmtInit /\ [][FmtNext]_fmtvars

FairSpec == FmtSpec /\ WF_fmtvars(FmtNext)

-----------------------------------------------------------------------------

(* The format is never read past its NUL; nothing is stored outside the    *)
(* buffer, and as long as the format is not done b.buf points into it; and *)
(* only digits that exist are asked for (printfmt.c:84-99, 262-283).       *)
FmtTypeOK ==
  /\ k \in 0 .. Len(fmt)
  /\ pc \in {"text", "spec", "digits", "number", "put", "return"}
  /\ padc \in {Space, "-", "0"} /\ width \in Int /\ precision \in Int
  /\ lflag \in Nat /\ altflag \in BOOLEAN
  /\ num \in Nat /\ base \in {8, 10, 16}
  /\ sign \in Seq(Chars) /\ todo \in Seq(Chars) /\ out \in Seq(Chars)
  /\ dest \in {Console} \union Sizes
  /\ DOMAIN buf = 0 .. (IF dest = Console THEN 0 ELSE dest) - 1
  /\ pc # "return" /\ dest # Console => b_buf \in DOMAIN buf
  /\ cnt \in 0 .. Len(out)
  /\ mark \in 0 .. Len(out) /\ start \in 0 .. Len(fmt)

(* The number that the numeral s stands for in base b.                     *)
Value(s, b) ==
  LET v[j \in 0 .. Len(s)] == IF j = 0 THEN 0 ELSE v[j - 1] * b + DigitValue(s[j])
  IN v[Len(s)]

(* What an escape is documented to be: flags, a width, a precision, l, and *)
(* a conversion.  The precision of a number and the flags a conversion has *)
(* no documented use for are left out.                                     *)
Escape(flag, w, p, l, c) == <<"%">> \o flag \o w \o p \o l \o <<c>>
WidthTexts == {<<>>, <<"*">>} \union Numerals
PrecisionTexts == {<<>>} \union {<<".">> \o x : x \in {<<"*">>} \union Numerals}

(* What a text w asks for, if a star in it takes the argument i.           *)
Asked(w, i) == IF w = <<>> THEN -1 ELSE IF w = <<"*">> THEN args[i] ELSE Value(w, 10)

Text == SubSeq(out, mark + 1, Len(out)) \o todo
EscapeText == SubSeq(fmt, start + 1, k)

(* s is the numeral of n in base b.                                        *)
IsNumeral(s, n, b) ==
  /\ s # <<>> /\ \A j \in DOMAIN s : \E d \in 1 .. b : digits[d] = s[j]
  /\ Len(s) > 1 => s[1] # "0"
  /\ n = Value(s, b)

(* s is the numeral in a field of w characters, filled on the left.        *)
IsField(s, n, b, w, c) ==
  \E m \in 0 .. Len(s) - 1 :
    /\ \A j \in 1 .. m : s[j] = c
    /\ IsNumeral(SubSeq(s, m + 1, Len(s)), n, b)
    /\ m > 0 => Len(s) = w
    /\ m = 0 => Len(s) >= w

(* Every documented number comes out right, in its field, padded with what *)
(* was asked for, the sign first: the least number of each size, long long *)
(* and negative numbers as unsigned included (printfmt.c:193-230).         *)
NumbersRight ==
  pc = "put" => \A flag \in {<<>>, <<"0">>}, w \in WidthTexts,
                   l \in {<<>>, <<"l">>, <<"l", "l">>}, c \in {"d", "u", "o", "x", "p"} :
    EscapeText = Escape(flag, w, <<>>, l, c) =>
      LET v == args[Len(args)]
          negative == c = "d" /\ v < 0
          values == IF l = <<"l", "l">> /\ c # "p" THEN ULLONG ELSE UINT
          n == IF negative THEN -v ELSE IF v < 0 THEN v + values ELSE v
          before == IF negative THEN <<"-">> ELSE IF c = "p" THEN <<"0", "x">> ELSE <<>>
          b == IF c \in {"d", "u"} THEN 10 ELSE IF c = "o" THEN 8 ELSE 16
          field == SubSeq(Text, Len(before) + 1, Len(Text))
      IN /\ SubSeq(Text, 1, Len(before)) = before
         /\ IsField(field, n, b, Asked(w, 1), IF flag = <<>> THEN Space ELSE "0")

(* A string comes out as its first characters, as many as the precision    *)
(* allows, in its field, on the side the '-' asks for, with no unprintable *)
(* one if the '#' asks for that.  This is what case 's' sets out to do     *)
(* (printfmt.c:176-191), more than the comment at the top promises: field  *)
(* widths "for the numeric formats only" (printfmt.c:13-16).               *)
StringsRight ==
  pc = "put" => \A flag \in {<<>>, <<"-">>, <<"#">>}, w \in WidthTexts, p \in PrecisionTexts :
    EscapeText = Escape(flag, w, p, <<>>, "s") =>
      LET v == args[Len(args)]
          s == IF v = Null THEN <<"(", "n", ")">> ELSE v
          wv == Asked(w, 1)
          pv == IF p = <<>> THEN -1 ELSE Asked(Tail(p), Len(args) - 1)
          n == IF pv < 0 \/ pv > Len(s) THEN Len(s) ELSE pv
          from == IF flag = <<"-">> \/ wv <= n THEN 1 ELSE wv - n + 1
      IN /\ Len(Text) = (IF wv > n THEN wv ELSE n)
         /\ \A j \in 1 .. Len(Text) :
              IF j \in from .. from + n - 1
                THEN IF flag = <<"#">> /\ s[j - from + 1] \in Unprintable
                       THEN Text[j] = "?" ELSE Text[j] = s[j - from + 1]
                ELSE Text[j] = Space

(* What is no escape is printed as it stands, whatever flags, widths and   *)
(* stars were read before that turned out, and at the end of the format    *)
(* too (printfmt.c:237-242).                                               *)
Conversions == {"c", "e", "s", "d", "u", "o", "p", "x", "%"}

UnknownVerbatim ==
  /\ pc = "return" /\ result # -E_INVAL
  /\ \E j \in DOMAIN fmt :
       fmt[j] = "%" /\ \A i \in DOMAIN fmt \ {j} : fmt[i] \notin Conversions
  => out = fmt

(* Whatever its size, the buffer ends up with a string, the beginning of   *)
(* the text or all of it; the result is the length of the whole text       *)
(* (printfmt.c:262-283).                                                   *)
SnprintfContract ==
  pc = "return" /\ dest # Console =>
    IF dest < 1 THEN result = -E_INVAL /\ out = <<>>
    ELSE LET n == IF Len(out) < dest THEN Len(out) ELSE dest - 1
         IN /\ result = Len(out)
            /\ \A j \in 1 .. n : buf[j - 1] = out[j]
            /\ buf[n] = NUL

(* Every call returns, whatever the format.                                *)
FmtTerminates == <>(pc = "return")
=============================================================================
