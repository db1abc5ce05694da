------------------------------- MODULE Monitor -------------------------------
(***************************************************************************)
(* The kernel monitor: readline (lib/readline.c) edits one line in a       *)
(* static buffer while it echoes to the display; runcmd (kern/monitor.c)   *)
(* cuts the line, in place, into an argument vector and looks the command  *)
(* up; monitor repeats the two for ever.                                   *)
(*                                                                         *)
(* One action is one key of readline, or one iteration of the parse loop   *)
(* of runcmd.  Keys come from getchar (ConsoleInput), at any time and in   *)
(* any order.                                                              *)
(***************************************************************************)
EXTENDS Integers, Sequences, FiniteSets, SequencesExt

CONSTANTS
  BUFLEN,     \* size of the line buffer
  MAXARGS,    \* size of the argument vector
  Letters,    \* characters above ' ' other than 7F
  Commands    \* the names in commands[], as sequences of characters

ASSUME SizesAssumption ==
         BUFLEN \in Nat /\ BUFLEN >= 2 /\ MAXARGS \in Nat /\ MAXARGS >= 2

(* The other characters: space, 7F, backspace, line feed, carriage return, *)
(* and one for the control characters readline has no case for.            *)
Space == "space"
Del == "7F"
Backspace == "backspace"
Newline == "newline"
Return == "return"
Control == "control"
NUL == "NUL"

Printable == Letters \union {Space, Del}     \* c >= ' '
Chars == Printable \union {Backspace, Newline, Return, Control}

ASSUME LettersAssumption ==
         Letters \intersect {Space, Del, Backspace, Newline, Return, Control, NUL} = {}

VARIABLES
  buf, i,       \* of readline: the static buffer, the length so far
  screen,       \* what the display shows after the last prompt
  pc,           \* "read", "parse", "lookup" or "done"
  p,            \* of runcmd: how far into buf it has got
  argc, argv,   \* of runcmd
  result        \* what runcmd did: "none", "run", "unknown", "toomany"

reader == <<buf, i, screen>>
parser == <<p, argc, argv>>
vars == <<reader, pc, parser, result>>

Init ==
  /\ buf = [k \in 0 .. BUFLEN - 1 |-> NUL]
  /\ i = 0
  /\ screen = <<>>
  /\ pc = "read"
  /\ p = 0 /\ argc = 0 /\ argv = [k \in 0 .. MAXARGS - 1 |-> -1]
  /\ result = "none"

-----------------------------------------------------------------------------
(* readline.  The cases are those of its chain of ifs, each without the    *)
(* ones before it.                                                         *)

(* Mutant: only the backspace erases.                                      *)
ErasesBackspace(c) == c = Backspace /\ i > 0

Erases(c) == c \in {Backspace, Del} /\ i > 0

(* Mutant: the last place is not kept for the NUL.                         *)
StoresToEnd(c) == ~Erases(c) /\ c \in Printable /\ i < BUFLEN

Stores(c) == ~Erases(c) /\ c \in Printable /\ i < BUFLEN - 1

Erase(c) ==
  /\ pc = "read" /\ Erases(c)
  /\ screen' = Front(screen)
  /\ i' = i - 1
  /\ UNCHANGED <<buf, pc, parser, result>>

Store(c) ==
  /\ pc = "read" /\ Stores(c)
  /\ screen' = Append(screen, c)
  /\ buf' = [buf EXCEPT ![i] = c]
  /\ i' = i + 1
  /\ UNCHANGED <<pc, parser, result>>

(* Mutant: the line is not terminated.                                     *)
EnterOpen(c) ==
  /\ pc = "read" /\ c \in {Newline, Return}
  /\ pc' = "parse"
  /\ p' = 0 /\ argc' = 0
  /\ argv' = [argv EXCEPT ![0] = -1]
  /\ UNCHANGED <<buf, i, screen, result>>

(* The line is complete and goes to runcmd.                                *)
Enter(c) ==
  /\ pc = "read" /\ c \in {Newline, Return}
  /\ buf' = [buf EXCEPT ![i] = NUL]
  /\ pc' = "parse"
  /\ p' = 0 /\ argc' = 0
  /\ argv' = [argv EXCEPT ![0] = -1]
  /\ UNCHANGED <<i, screen, result>>

Ignore(c) ==
  /\ pc = "read"
  /\ ~Erases(c) /\ ~Stores(c) /\ c \notin {Newline, Return}
  /\ UNCHANGED vars

-----------------------------------------------------------------------------
(* runcmd.                                                                 *)

(* The first position from k on that holds a character of S.               *)
Scan(k, S) ==
  CHOOSE q \in k .. BUFLEN - 1 :
    buf[q] \in S /\ \A j \in k .. q - 1 : buf[j] \notin S

NonSpace == (Chars \union {NUL}) \ {Space}

AfterSpace == Scan(p, NonSpace)

(* Gobbling white space overwrites it, which ends the argument before it.  *)
Gobble == buf' = [k \in DOMAIN buf |-> IF k \in p .. AfterSpace - 1 THEN NUL
                                       ELSE buf[k]]

(* Mutant: one argument fewer is allowed.                                  *)
FullEarly == argc = MAXARGS - 2

(* No place is left beside the null pointer.                               *)
Full == argc = MAXARGS - 1

SaveArg ==
  /\ pc = "parse"
  /\ buf[AfterSpace] # NUL /\ ~Full
  /\ Gobble
  /\ argv' = [argv EXCEPT ![argc] = AfterSpace]
  /\ argc' = argc + 1
  /\ p' = Scan(AfterSpace, {Space, NUL})
  /\ UNCHANGED <<i, screen, pc, result>>

TooMany ==
  /\ pc = "parse"
  /\ buf[AfterSpace] # NUL /\ Full
  /\ Gobble
  /\ p' = AfterSpace
  /\ result' = "toomany" /\ pc' = "done"
  /\ UNCHANGED <<i, screen, argc, argv>>

EndOfLine ==
  /\ pc = "parse"
  /\ buf[AfterSpace] = NUL
  /\ Gobble
  /\ p' = AfterSpace
  /\ argv' = [argv EXCEPT ![argc] = -1]
  /\ pc' = "lookup"
  /\ UNCHANGED <<i, screen, argc, result>>

(* The string a pointer into buf stands for: up to the next NUL.           *)
StringAt(k) == SubSeq([j \in 1 .. BUFLEN |-> buf[j - 1]], k + 1, Scan(k, {NUL}))

Lookup ==
  /\ pc = "lookup"
  /\ result' = IF argc = 0 THEN "none"
               ELSE IF StringAt(argv[0]) \in Commands THEN "run" ELSE "unknown"
  /\ pc' = "done"
  /\ UNCHANGED <<reader, parser>>

(* Mutant: an unknown command ends the monitor.                            *)
PromptUnlessUnknown ==
  /\ pc = "done" /\ result # "unknown"
  /\ pc' = "read" /\ i' = 0 /\ screen' = <<>> /\ result' = "none"
  /\ UNCHANGED <<buf, parser>>

(* runcmd and every command return 0, so monitor calls readline again.     *)
Prompt ==
  /\ pc = "done"
  /\ pc' = "read" /\ i' = 0 /\ screen' = <<>> /\ result' = "none"
  /\ UNCHANGED <<buf, parser>>

runcmd == SaveArg \/ TooMany \/ EndOfLine \/ Lookup

readline == \E c \in Chars : Erase(c) \/ Store(c) \/ Enter(c) \/ Ignore(c)

Next == readline \/ runcmd \/ Prompt

Spec == Init /\ [][Next]_vars

(* The CPU runs a command to its end; whether keys arrive is up to the     *)
(* user.                                                                   *)
FairSpec == Spec /\ WF_vars(runcmd \/ Prompt)

-----------------------------------------------------------------------------

TypeOK ==
  /\ buf \in [0 .. BUFLEN - 1 -> Printable \union {NUL}]
  /\ i \in 0 .. BUFLEN - 1
  /\ screen \in Seq(Printable)
  /\ pc \in {"read", "parse", "lookup", "done"}
  /\ p \in 0 .. BUFLEN - 1
  /\ argc \in 0 .. MAXARGS - 1
  /\ argv \in [0 .. MAXARGS - 1 -> -1 .. BUFLEN - 2]
  /\ result \in {"none", "run", "unknown", "toomany"}

(* The words of a line, by where they begin and end.                       *)
Begins(s) == { k \in 1 .. Len(s) : s[k] # Space /\ (k = 1 \/ s[k - 1] = Space) }
Word(s, k) ==
  SubSeq(s, k, CHOOSE e \in k .. Len(s) :
                 /\ \A j \in k .. e : s[j] # Space
                 /\ e = Len(s) \/ s[e + 1] = Space)

(* What runs is what the display shows: the arguments a command gets are   *)
(* the words the user sees behind the prompt, all of them and in their     *)
(* order, through any editing, a full buffer, and whatever earlier lines   *)
(* left in it; argv ends with a null pointer (monitor.c:103-130,           *)
(* readline.c:16-35).                                                      *)
RunsWhatIsShown ==
  pc = "lookup" =>
    LET at == [n \in 0 .. argc - 1 |-> argv[n] + 1]
    IN /\ \A m, n \in 0 .. argc - 1 : m < n => at[m] < at[n]
       /\ { at[n] : n \in 0 .. argc - 1 } = Begins(screen)
       /\ \A n \in 0 .. argc - 1 : StringAt(argv[n]) = Word(screen, at[n])
       /\ argv[argc] = -1

(* A line is refused only for having more words than fit beside the null   *)
(* pointer, and every such line is (monitor.c:114-117).                    *)
RefusesOnlyLong ==
  pc = "done" => (result = "toomany" <=> Cardinality(Begins(screen)) > MAXARGS - 1)

(* 7F erases, and is a character of the line only where there was nothing  *)
(* to erase: in its first place (readline.c:21-28).                        *)
DelOnlyFirst == \A k \in 0 .. BUFLEN - 1 : buf[k] = Del => k = 0

(* Every line comes back to the prompt.                                    *)
BackToPrompt == (pc # "read") ~> (pc = "read" /\ screen = <<>>)
=============================================================================
