---------------------------- MODULE KernelProofs ----------------------------
(***************************************************************************)
(* For every pair of ports: nothing is lost on a port that works.  For     *)
(* every size of the stack and every number of panics: a backtrace lists   *)
(* the calls in progress, a panic is final, and whatever runs is a         *)
(* statement of the code with its registers within the stack.              *)
(*                                                                         *)
(* The last three rest on StackInv: every frame is where a call put it,    *)
(* what it saved is still there, and whatever may return returns to a      *)
(* statement.                                                              *)
(* A step stays in its function, pushes a frame or pops one (StepKinds).   *)
(***************************************************************************)
EXTENDS Kernel, TLAPS

-----------------------------------------------------------------------------
(* Ports.                                                                  *)

(* What NothingLost rests on: an absent port stays ready.                  *)
OutputInv ==
  /\ port \in [Ports -> {"absent", "alive", "dead"}]
  /\ ready \in [Ports -> BOOLEAN]
  /\ overrun \in [Ports -> BOOLEAN]
  /\ i \in Nat
  /\ \A q \in Ports : port[q] = "absent" => ready[q]
  /\ NothingLost

LEMMA OutputInvInit == Init => OutputInv
BY MachinesAssumption DEF Init, OutputInit, OutputInv, NothingLost

LEMMA WriteKeeps ==
  ASSUME OutputInv, Write
  PROVE  OutputInv'
<1>1. at \in Ports
  BY DEF Write
<1>2. ~ready[at] => port[at] = "dead"
  <2>1. SUFFICES ASSUME ~ready[at] PROVE port[at] = "dead"
    OBVIOUS
  <2>2. Busy /\ GivesUp
    BY <2>1 DEF Write
  <2>3. port[at] # "absent"
    BY <1>1, <2>1 DEF OutputInv
  <2>4. port[at] # "alive"
    BY <1>1, <2>2, PollsAssumption DEF Busy, GivesUp, OutputInv
  <2>5. QED
    BY <1>1, <2>3, <2>4 DEF OutputInv
<1>3. \A q \in Ports : overrun'[q] => port[q] = "dead"
  BY <1>1, <1>2 DEF Write, OutputInv, NothingLost
<1>4. ready' \in [Ports -> BOOLEAN] /\ overrun' \in [Ports -> BOOLEAN]
  <2>1. (port[at] = "absent") \in BOOLEAN /\ (overrun[at] \/ ~ready[at]) \in BOOLEAN
    OBVIOUS
  <2>2. QED
    BY <1>1, <2>1 DEF Write, OutputInv
<1>5. \A q \in Ports : port[q] = "absent" => ready'[q]
  BY <1>1 DEF Write, OutputInv
<1>6. QED
  BY <1>3, <1>4, <1>5 DEF Write, OutputInv, NothingLost

LEMMA OutputStepKeeps ==
  ASSUME OutputInv, OutputStep
  PROVE  OutputInv'
<1>1. CASE cons_putc
  BY <1>1 DEF cons_putc, OutputInv, NothingLost
<1>2. CASE Poll
  BY <1>2 DEF Poll, OutputInv, NothingLost
<1>3. CASE Write
  BY <1>3, WriteKeeps
<1>4. CASE Show
  BY <1>4 DEF Show, OutputInv, NothingLost
<1>5. QED
  BY <1>1, <1>2, <1>3, <1>4 DEF OutputStep

(* The kernel's own steps only give it something to print.                 *)
LEMMA KernelLeavesPorts ==
  ASSUME KernelStep \/ Fails
  PROVE  UNCHANGED <<port, ready, overrun, i>>
<1>1. CASE CallStep \/ Return \/ Loop \/ CprintfStep
  BY <1>1 DEF CallStep, Return, Loop, CprintfStep, Says, output
<1>2. CASE serial_init \/ NoSerial \/ detect_memory
  BY <1>2 DEF serial_init, NoSerial, detect_memory, Says, output
<1>3. CASE Panicking \/ Fails
  BY <1>3 DEF Panicking, Fails, output
<1>4. CASE Readline \/ Dispatch \/ ReadEbp \/ WalkFrame
  BY <1>4 DEF Readline, Dispatch, ReadEbp, WalkFrame, Says, output
<1>5. QED
  BY <1>1, <1>2, <1>3, <1>4 DEF KernelStep

LEMMA OutputInvNext ==
  ASSUME OutputInv, [Next]_vars
  PROVE  OutputInv'
<1>1. CASE KernelStep \/ Fails
  BY <1>1, KernelLeavesPorts DEF OutputInv, NothingLost
<1>2. CASE Printing
  BY <1>2, OutputStepKeeps DEF Printing
<1>3. CASE Device
  BY <1>3 DEF Device, PortReady, OutputInv, NothingLost
<1>4. CASE UNCHANGED vars
  BY <1>4 DEF vars, output, OutputInv, NothingLost
<1>5. QED
  BY <1>1, <1>2, <1>3, <1>4 DEF Next

(* A port that is absent or alive is never written over: 12800 polls are   *)
(* enough if it is ready within as many (console.c:66-71, 110-114).        *)
THEOREM NothingLostCorrect == Spec => []NothingLost
<1>1. Init => OutputInv
  BY OutputInvInit
<1>2. OutputInv /\ [Next]_vars => OutputInv'
  BY OutputInvNext
<1>3. OutputInv => NothingLost
  BY DEF OutputInv
<1>4. QED
  BY <1>1, <1>2, <1>3, PTL DEF Spec

-----------------------------------------------------------------------------
(* Places of the code.                                                     *)

(* The functions by their numbers, and the places of their statements.     *)
Numbers == 1 .. 11
Places(j) == DOMAIN Code[j]
PlaceOK(e) == e \div CODE \in Numbers /\ e % CODE \in Places(e \div CODE)

Callable == {"i386_init", "cons_init", "mem_init", "i386_detect_memory",
             "_panic", "monitor", "runcmd"} \union commands

(* What the code of function j has at place k: calls and jumps stay within *)
(* the functions there are; only _panic, which does not return, is called  *)
(* last, and not by entry; commands call nothing; and _panic and entry do  *)
(* not return.                                                             *)
StatementOK(j, k) ==
  LET st == Code[j][k]
  IN /\ st.op \in {"call", "print", "do", "ret", "again"}
     /\ st.op = "call" => /\ st.of \in Callable
                          /\ k + 1 \in Places(j) \/ st.of = "_panic"
                          /\ Names[j] \notin commands
                          /\ st.of = "_panic" => Names[j] # "entry"
     /\ st.op \in {"print", "do"} => k + 1 \in Places(j)
     /\ st.op = "ret" => Names[j] \notin {"_panic", "entry"}
     /\ st.op = "again" => st.of \in Places(j) /\ Names[j] \notin commands
     /\ st.op = "do" /\ st.of = "panicstr" => Names[j] = "_panic" /\ 5 \in Places(j)
     /\ st.op = "do" /\ st.of = "dispatch" => Names[j] = "runcmd"
     /\ Names[j] = "mon_backtrace" =>
          /\ k \in 1 .. 4
          /\ st.op = "do" => st.of = IF k = 1 THEN "read_ebp" ELSE "frame"
          /\ st.op = "print" => k = 2
     /\ st.op = "do" /\ st.of = "read_ebp" => Names[j] = "mon_backtrace" /\ k = 1
     /\ st.op = "do" /\ st.of = "frame" => Names[j] = "mon_backtrace" /\ k = 3

LEMMA CodeOK ==
  ASSUME NEW j \in Numbers, NEW k \in Places(j)
  PROVE  k \in 1 .. 6 /\ StatementOK(j, k)
<1>1. CASE j = 1
  <2>1. Code[j] = entry /\ Names[j] = "entry"
    BY <1>1 DEF Code, Names
  <2>2. k \in 1 .. 2
    BY <2>1 DEF Places, entry, Call, Cprintf, Do, Ret, Again
  <2>3. QED
    BY <2>1, <2>2
    DEF StatementOK, Places, Callable, commands, entry, Call, Cprintf, Do, Ret, Again
<1>2. CASE j = 2
  <2>1. Code[j] = i386_init /\ Names[j] = "i386_init"
    BY <1>2 DEF Code, Names
  <2>2. k \in 1 .. 4
    BY <2>1 DEF Places, i386_init, Call, Cprintf, Do, Ret, Again
  <2>3. QED
    BY <2>1, <2>2
    DEF StatementOK, Places, Callable, commands, i386_init, Call, Cprintf, Do, Ret, Again
<1>3. CASE j = 3
  <2>1. Code[j] = cons_init /\ Names[j] = "cons_init"
    BY <1>3 DEF Code, Names
  <2>2. k \in 1 .. 3
    BY <2>1 DEF Places, cons_init, Call, Cprintf, Do, Ret, Again
  <2>3. QED
    BY <2>1, <2>2
    DEF StatementOK, Places, Callable, commands, cons_init, Call, Cprintf, Do, Ret, Again
<1>4. CASE j = 4
  <2>1. Code[j] = mem_init /\ Names[j] = "mem_init"
    BY <1>4 DEF Code, Names
  <2>2. k \in 1 .. 2
    BY <2>1 DEF Places, mem_init, Call, Cprintf, Do, Ret, Again
  <2>3. QED
    BY <2>1, <2>2
    DEF StatementOK, Places, Callable, commands, mem_init, Call, Cprintf, Do, Ret, Again
<1>5. CASE j = 5
  <2>1. Code[j] = i386_detect_memory /\ Names[j] = "i386_detect_memory"
    BY <1>5 DEF Code, Names
  <2>2. k \in 1 .. 3
    BY <2>1 DEF Places, i386_detect_memory, Call, Cprintf, Do, Ret, Again
  <2>3. QED
    BY <2>1, <2>2
    DEF StatementOK, Places, Callable, commands, i386_detect_memory, Call, Cprintf, Do, Ret, Again
<1>6. CASE j = 6
  <2>1. Code[j] = _panic /\ Names[j] = "_panic"
    BY <1>6 DEF Code, Names
  <2>2. k \in 1 .. 6
    BY <2>1 DEF Places, _panic, Call, Cprintf, Do, Ret, Again
  <2>3. QED
    BY <2>1, <2>2
    DEF StatementOK, Places, Callable, commands, _panic, Call, Cprintf, Do, Ret, Again
<1>7. CASE j = 7
  <2>1. Code[j] = monitor /\ Names[j] = "monitor"
    BY <1>7 DEF Code, Names
  <2>2. k \in 1 .. 5
    BY <2>1 DEF Places, monitor, Call, Cprintf, Do, Ret, Again
  <2>3. QED
    BY <2>1, <2>2
    DEF StatementOK, Places, Callable, commands, monitor, Call, Cprintf, Do, Ret, Again
<1>8. CASE j = 8
  <2>1. Code[j] = runcmd /\ Names[j] = "runcmd"
    BY <1>8 DEF Code, Names
  <2>2. k \in 1 .. 2
    BY <2>1 DEF Places, runcmd, Call, Cprintf, Do, Ret, Again
  <2>3. QED
    BY <2>1, <2>2
    DEF StatementOK, Places, Callable, commands, runcmd, Call, Cprintf, Do, Ret, Again
<1>9. CASE j = 9
  <2>1. Code[j] = mon_help /\ Names[j] = "mon_help"
    BY <1>9 DEF Code, Names
  <2>2. k \in 1 .. 2
    BY <2>1 DEF Places, mon_help, Call, Cprintf, Do, Ret, Again
  <2>3. QED
    BY <2>1, <2>2
    DEF StatementOK, Places, Callable, commands, mon_help, Call, Cprintf, Do, Ret, Again
<1>10. CASE j = 10
  <2>1. Code[j] = mon_kerninfo /\ Names[j] = "mon_kerninfo"
    BY <1>10 DEF Code, Names
  <2>2. k \in 1 .. 2
    BY <2>1 DEF Places, mon_kerninfo, Call, Cprintf, Do, Ret, Again
  <2>3. QED
    BY <2>1, <2>2
    DEF StatementOK, Places, Callable, commands, mon_kerninfo, Call, Cprintf, Do, Ret, Again
<1>11. CASE j = 11
  <2>1. Code[j] = mon_backtrace /\ Names[j] = "mon_backtrace"
    BY <1>11 DEF Code, Names
  <2>2. k \in 1 .. 4
    BY <2>1 DEF Places, mon_backtrace, Call, Cprintf, Do, Ret, Again
  <2>3. QED
    BY <2>1, <2>2
    DEF StatementOK, Places, Callable, commands, mon_backtrace, Call, Cprintf, Do, Ret, Again
<1>12. QED
  BY <1>1, <1>2, <1>3, <1>4, <1>5, <1>6, <1>7, <1>8, <1>9, <1>10, <1>11 DEF Numbers

-----------------------------------------------------------------------------
(* Addresses of code.                                                      *)

LEMMA NumberOf ==
  ASSUME NEW g \in Callable
  PROVE  Number(g) \in Numbers /\ Names[Number(g)] = g
<1>1. \E j \in Numbers : Names[j] = g
  BY DEF Callable, Names, Numbers, commands
<1>2. DOMAIN Names = Numbers
  BY DEF Names, Numbers
<1>3. QED
  BY <1>1, <1>2 DEF Number

(* An address is a function and a place.                                   *)
LEMMA Address ==
  ASSUME NEW j \in Nat, NEW k \in 0 .. 99
  PROVE  /\ CODE * j + k \in Nat
         /\ (CODE * j + k) \div CODE = j
         /\ (CODE * j + k) % CODE = k
BY DEF CODE

LEMMA NextPlace ==
  ASSUME NEW e \in Nat, PlaceOK(e)
  PROVE  /\ (e + 1) \div CODE = e \div CODE
         /\ (e + 1) % CODE = (e % CODE) + 1
         /\ Function(e + 1) = Function(e)
<1>1. e % CODE \in 1 .. 6
  BY CodeOK DEF PlaceOK
<1>2. (e + 1) \div CODE = e \div CODE /\ (e + 1) % CODE = (e % CODE) + 1
  BY <1>1 DEF CODE
<1>3. QED
  BY <1>2 DEF Function

LEMMA LastPlace ==
  ASSUME NEW e \in Nat, PlaceOK(e)
  PROVE  End(e) \in Nat /\ Function(End(e)) = Function(e)
<1>. DEFINE j == e \div CODE
            len == Len(Code[j])
<1>1. j \in Numbers /\ j \in Nat
  BY DEF PlaceOK, Numbers
<1>2. len \in 0 .. 6
  <2>. DEFINE early == {entry, i386_init, cons_init, mem_init, i386_detect_memory}
              late == {_panic, monitor, runcmd, mon_help, mon_kerninfo, mon_backtrace}
  <2>1. \A c \in early : Len(c) \in 0 .. 6
    BY DEF entry, i386_init, cons_init, mem_init, i386_detect_memory
  <2>2. \A c \in late : Len(c) \in 0 .. 6
    BY DEF _panic, monitor, runcmd, mon_help, mon_kerninfo, mon_backtrace
  <2>3. Code[j] \in early \union late
    BY <1>1 DEF Numbers, Code
  <2>. HIDE DEF early, late, j
  <2>4. QED
    BY <2>1, <2>2, <2>3
<1>3. End(e) = (CODE * j + len) + 1
  BY DEF End
<1>. HIDE DEF len, j
<1>4. len + 1 \in 0 .. 99
  BY <1>2
<1>5. CODE * j + (len + 1) \in Nat /\ (CODE * j + (len + 1)) \div CODE = j
  BY <1>1, <1>4, Address
<1>6. End(e) = CODE * j + (len + 1)
  BY <1>1, <1>2, <1>3 DEF CODE
<1>7. QED
  BY <1>5, <1>6 DEF Function, j

LEMMA FirstPlace ==
  ASSUME NEW g \in Callable
  PROVE  LET e == CODE * Number(g) + 1
         IN e \in Nat /\ PlaceOK(e) /\ Function(e) = g /\ e % CODE = 1
<1>1. Number(g) \in Numbers /\ Names[Number(g)] = g
  BY NumberOf
<1>2. ASSUME NEW j \in Numbers
      PROVE  1 \in Places(j)
  <2>. DEFINE early == {entry, i386_init, cons_init, mem_init, i386_detect_memory}
              late == {_panic, monitor, runcmd, mon_help, mon_kerninfo, mon_backtrace}
  <2>1. \A c \in early : 1 \in DOMAIN c
    BY DEF entry, i386_init, cons_init, mem_init, i386_detect_memory
  <2>2. \A c \in late : 1 \in DOMAIN c
    BY DEF _panic, monitor, runcmd, mon_help, mon_kerninfo, mon_backtrace
  <2>3. Code[j] \in early \union late
    BY DEF Numbers, Code
  <2>. HIDE DEF early, late
  <2>4. QED
    BY <2>1, <2>2, <2>3 DEF Places
<1>. DEFINE e == CODE * Number(g) + 1
<1>3. e \in Nat /\ e \div CODE = Number(g) /\ e % CODE = 1
  <2>1. Number(g) \in Nat /\ 1 \in 0 .. 99
    BY <1>1 DEF Numbers
  <2>2. QED
    BY <2>1, Address
<1>. HIDE DEF e
<1>4. PlaceOK(e) /\ Function(e) = g
  BY <1>1, <1>2, <1>3 DEF PlaceOK, Function
<1>5. QED
  BY <1>3, <1>4 DEF e

LEMMA ParametersNat == \A g : Parameters(g) \in 0 .. 3
BY DEF Parameters, commands

-----------------------------------------------------------------------------
(* The stack as calls left it.  s is the sequence of calls in progress, e  *)
(* the current address; Fn is the function k calls out, and Ebp and Esp    *)
(* are the registers at the k-th frame.                                    *)

Frames == [ebp : Nat, eip : Nat]
Fn(e, s, k) == Function(IF k = 0 THEN e ELSE s[k].eip)
Ebp(s, k) == IF k \in 1 .. Len(s) THEN s[k].ebp ELSE 0
Esp(s, k) == IF k \in 1 .. Len(s) THEN s[k].ebp - 1 ELSE STACK + 1

(* A frame lies above the ones of the calls it made; behind the saved EBP  *)
(* and the return address are the arguments, up to the caller's frame.     *)
FrameOK(m, e, s, k) ==
  LET b == s[k].ebp
      end == b + 2 + Parameters(Fn(e, s, k - 1))
  IN /\ b > 1 /\ end <= STACK + 1
     /\ end = Esp(s, k + 1)
     /\ m[b] = Ebp(s, k + 1) /\ m[b + 1] = s[k].eip
     /\ \A j \in k .. Len(s) : b <= s[j].ebp

(* Whatever may return returns to a statement; commands only ever panic,   *)
(* and entry does not.                                                     *)
CallOK(e, s, k) ==
  IF Fn(e, s, k - 1) = "_panic" THEN Fn(e, s, k) # "entry"
  ELSE PlaceOK(s[k].eip) /\ Fn(e, s, k) \notin commands

StackOK(m, e, s) ==
  /\ s \in Seq(Frames) /\ e \in Nat /\ PlaceOK(e)
  /\ Fn(e, s, Len(s)) = "entry"
  /\ \A k \in 1 .. Len(s) : FrameOK(m, e, s, k) /\ CallOK(e, s, k)

(* Every frame lies above ESP and within the stack.                        *)
LEMMA WithinStack ==
  ASSUME NEW m, NEW e, NEW s, StackOK(m, e, s)
  PROVE  /\ Esp(s, 1) \in Int /\ Esp(s, 1) <= STACK + 1
         /\ \A k \in 1 .. Len(s) : /\ s[k].ebp \in Nat /\ Esp(s, 1) < s[k].ebp
                                  /\ s[k].ebp + 1 <= STACK
<1>1. s \in Seq(Frames) /\ Len(s) \in Nat
  BY DEF StackOK
<1>2. STACK \in Nat
  BY KernelAssumption
<1>3. ASSUME NEW k \in 1 .. Len(s)
      PROVE  /\ s[k].ebp \in Nat /\ s[1].ebp \in Nat /\ s[1].ebp <= s[k].ebp
             /\ Esp(s, 1) = s[1].ebp - 1 /\ s[k].ebp + 1 <= STACK
  <2>1. FrameOK(m, e, s, 1) /\ FrameOK(m, e, s, k) /\ 1 \in 1 .. Len(s)
    BY <1>1 DEF StackOK
  <2>2. s[1] \in Frames /\ s[k] \in Frames
    BY <1>1, <2>1
  <2>3. s[1].ebp <= s[k].ebp
    BY <2>1 DEF FrameOK
  <2>4. s[1].ebp \in Nat /\ s[k].ebp \in Nat
    BY <2>2 DEF Frames
  <2>5. Esp(s, 1) = s[1].ebp - 1
    BY <2>1 DEF Esp
  <2>. DEFINE par == Parameters(Fn(e, s, k - 1))
  <2>6. par \in Nat /\ s[k].ebp + 2 + par <= STACK + 1
    BY <2>1, ParametersNat DEF FrameOK
  <2>. HIDE DEF par
  <2>7. s[k].ebp + 1 <= STACK
    BY <1>2, <2>4, <2>6
  <2>8. QED
    BY <2>3, <2>4, <2>5, <2>7
<1>4. \A k \in 1 .. Len(s) : Esp(s, 1) < s[k].ebp
  <2>1. \A x, y \in Nat : x <= y => x - 1 < y
    OBVIOUS
  <2>2. QED
    BY <1>3, <2>1
<1>5. Esp(s, 1) \in Int /\ Esp(s, 1) <= STACK + 1
  <2>1. CASE Len(s) = 0
    <3>1. Esp(s, 1) = STACK + 1
      BY <2>1 DEF Esp
    <3>2. QED
      BY <1>2, <3>1
  <2>2. CASE Len(s) # 0
    <3>1. 1 \in 1 .. Len(s)
      BY <1>1, <2>2
    <3>. DEFINE b == s[1].ebp
    <3>2. b \in Nat /\ Esp(s, 1) = b - 1 /\ b + 1 <= STACK
      BY <1>3, <3>1
    <3>. HIDE DEF b
    <3>3. QED
      BY <1>2, <3>2
  <2>3. QED
    BY <2>1, <2>2
<1>6. QED
  BY <1>3, <1>4, <1>5

(* A new frame and its arguments end right where ESP was.                  *)
LEMMA NewFrame ==
  ASSUME NEW base \in Nat, base > 1, NEW p \in Nat, NEW x \in Int,
         base + 2 + p = x, x <= STACK + 1
  PROVE  /\ base \in 1 .. STACK /\ base + 1 \in 1 .. STACK /\ base + 1 # base
         /\ \A a \in x .. STACK : /\ a \in 1 .. STACK /\ a # base /\ a # base + 1
                                 /\ a \notin base + 2 .. x - 1
<1>1. STACK \in Nat
  BY KernelAssumption
<1>2. base \in 1 .. STACK /\ base + 1 \in 1 .. STACK /\ base + 1 # base
  BY <1>1
<1>3. ASSUME NEW a \in x .. STACK
      PROVE  /\ a \in 1 .. STACK /\ a # base /\ a # base + 1
             /\ a \notin base + 2 .. x - 1
  <2>1. a >= x /\ a <= STACK /\ a \in Int
    OBVIOUS
  <2>2. a > base + 1 /\ a \in 1 .. STACK
    BY <1>1, <2>1
  <2>3. QED
    BY <2>1, <2>2
<1>4. QED
  BY <1>2, <1>3

LEMMA Pushed ==
  ASSUME NEW S, NEW s \in Seq(S), NEW x \in S
  PROVE  LET t == <<x>> \o s
         IN /\ t \in Seq(S) /\ Len(t) = Len(s) + 1 /\ t[1] = x
            /\ \A k \in 1 .. Len(s) : t[k + 1] = s[k]
OBVIOUS

LEMMA Popped1 ==
  ASSUME NEW S, NEW s \in Seq(S), s # <<>>
  PROVE  /\ Tail(s) \in Seq(S) /\ Len(Tail(s)) = Len(s) - 1
         /\ \A k \in 1 .. Len(s) - 1 : Tail(s)[k] = s[k + 1]
OBVIOUS

LEMMA StayKeeps ==
  ASSUME NEW m, NEW e, NEW s, StackOK(m, e, s),
         NEW d \in Nat, PlaceOK(d), d \div CODE = e \div CODE
  PROVE  /\ StackOK(m, d, s)
         /\ \A k \in 0 .. Len(s) : Fn(d, s, k) = Fn(e, s, k)
<1>1. \A k : Fn(d, s, k) = Fn(e, s, k)
  BY DEF Fn, Function
<1>2. \A k \in 1 .. Len(s) : FrameOK(m, d, s, k) /\ CallOK(d, s, k)
  BY <1>1 DEF StackOK, FrameOK, CallOK
<1>3. QED
  BY <1>1, <1>2 DEF StackOK

LEMMA PopKeeps ==
  ASSUME NEW m, NEW e, NEW s, StackOK(m, e, s), s # <<>>,
         Fn(e, s, 0) # "_panic"
  PROVE  LET t == Tail(s)
             d == s[1].eip
         IN /\ StackOK(m, d, t)
            /\ \A k \in 0 .. Len(t) : Fn(d, t, k) = Fn(e, s, k + 1)
            /\ \A k \in 1 .. Len(s) : Ebp(t, k) = Ebp(s, k + 1) /\ Esp(t, k) = Esp(s, k + 1)
<1>. DEFINE t == Tail(s)
            d == s[1].eip
<1>1. s \in Seq(Frames) /\ Len(s) \in Nat /\ Len(s) >= 1
  BY DEF StackOK
<1>2. t \in Seq(Frames) /\ Len(t) = Len(s) - 1 /\ \A k \in 1 .. Len(t) : t[k] = s[k + 1]
  BY <1>1, Popped1
<1>3. d \in Nat /\ PlaceOK(d)
  <2>1. CallOK(e, s, 1) /\ s[1] \in Frames
    BY <1>1 DEF StackOK
  <2>2. 1 - 1 = 0
    OBVIOUS
  <2>3. QED
    BY <2>1, <2>2 DEF CallOK, Frames
<1>. HIDE DEF t
<1>4. \A k \in 0 .. Len(t) : Fn(d, t, k) = Fn(e, s, k + 1)
  BY <1>1, <1>2 DEF Fn
<1>5. \A k \in 1 .. Len(s) : Ebp(t, k) = Ebp(s, k + 1) /\ Esp(t, k) = Esp(s, k + 1)
  BY <1>1, <1>2 DEF Ebp, Esp
<1>6. ASSUME NEW k \in 1 .. Len(t)
      PROVE  FrameOK(m, d, t, k) /\ CallOK(d, t, k)
  <2>1. k + 1 \in 1 .. Len(s) /\ t[k] = s[k + 1] /\ k - 1 \in 0 .. Len(t) /\ k \in 0 .. Len(t)
    BY <1>1, <1>2
  <2>2. FrameOK(m, e, s, k + 1) /\ CallOK(e, s, k + 1)
    BY <2>1 DEF StackOK
  <2>3. Fn(d, t, k - 1) = Fn(e, s, k) /\ Fn(d, t, k) = Fn(e, s, k + 1)
    BY <1>4, <2>1
  <2>4. Ebp(t, k + 1) = Ebp(s, k + 2) /\ Esp(t, k + 1) = Esp(s, k + 2)
    BY <1>1, <1>2, <1>5
  <2>5. \A j \in k .. Len(t) : t[j] = s[j + 1] /\ j + 1 \in k + 1 .. Len(s)
    BY <1>1, <1>2
  <2>6. (k + 1) - 1 = k /\ (k + 1) + 1 = k + 2
    OBVIOUS
  <2>7. QED
    BY <2>1, <2>2, <2>3, <2>4, <2>5, <2>6 DEF FrameOK, CallOK
<1>7. Fn(d, t, Len(t)) = "entry"
  BY <1>1, <1>2, <1>4 DEF StackOK
<1>8. StackOK(m, d, t)
  BY <1>2, <1>3, <1>6, <1>7 DEF StackOK
<1>9. QED
  BY <1>4, <1>5, <1>8 DEF t

(* A call writes the new frame only, below all others.                     *)
LEMMA PushKeeps ==
  ASSUME NEW m, NEW e, NEW s, StackOK(m, e, s), NEW g \in Callable,
         NEW base \in Nat, base > 1, base + 2 + Parameters(g) = Esp(s, 1),
         NEW ret \in Nat, Function(ret) = Function(e),
         NEW n, n[base] = Ebp(s, 1), n[base + 1] = ret,
         \A a \in Esp(s, 1) .. STACK : n[a] = m[a],
         IF g = "_panic" THEN Function(e) # "entry"
         ELSE PlaceOK(ret) /\ Function(e) \notin commands
  PROVE  LET t == <<[ebp |-> base, eip |-> ret]>> \o s
             d == CODE * Number(g) + 1
         IN /\ StackOK(n, d, t)
            /\ Fn(d, t, 0) = g
            /\ \A k \in 0 .. Len(s) : Fn(d, t, k + 1) = Fn(e, s, k)
            /\ Ebp(t, 1) = base /\ Esp(t, 1) = base - 1
<1>. DEFINE x == [ebp |-> base, eip |-> ret]
            t == <<x>> \o s
            d == CODE * Number(g) + 1
            P == Parameters(g)
<1>1. s \in Seq(Frames) /\ Len(s) \in Nat /\ e \in Nat /\ PlaceOK(e)
  BY DEF StackOK
<1>2. x \in Frames /\ x.ebp = base /\ x.eip = ret
  BY <1>1 DEF Frames
<1>. HIDE DEF x
<1>3. /\ t \in Seq(Frames) /\ Len(t) = Len(s) + 1 /\ t[1] = x
      /\ \A k \in 1 .. Len(s) : t[k + 1] = s[k]
  BY <1>1, <1>2, Pushed
<1>4. d \in Nat /\ PlaceOK(d) /\ Function(d) = g
  BY FirstPlace
<1>. HIDE DEF t, d
<1>5. Fn(d, t, 0) = g
  BY <1>4 DEF Fn
<1>6. \A k \in 0 .. Len(s) : Fn(d, t, k + 1) = Fn(e, s, k)
  <2>1. Fn(d, t, 1) = Fn(e, s, 0)
    BY <1>1, <1>2, <1>3 DEF Fn
  <2>2. \A k \in 1 .. Len(s) : Fn(d, t, k + 1) = Fn(e, s, k)
    BY <1>1, <1>3 DEF Fn
  <2>3. QED
    BY <1>1, <2>1, <2>2
<1>7. \A k \in 1 .. Len(s) + 1 : Ebp(t, k + 1) = Ebp(s, k) /\ Esp(t, k + 1) = Esp(s, k)
  BY <1>1, <1>3 DEF Ebp, Esp
<1>8. Ebp(t, 1) = base /\ Esp(t, 1) = base - 1
  BY <1>1, <1>2, <1>3 DEF Ebp, Esp
<1>9. P \in Nat
  BY ParametersNat
<1>. HIDE DEF P
<1>10. /\ Esp(s, 1) \in Int /\ Esp(s, 1) <= STACK + 1
       /\ \A k \in 1 .. Len(s) : /\ s[k].ebp \in Nat /\ Esp(s, 1) < s[k].ebp
                                /\ s[k].ebp + 1 <= STACK
  BY WithinStack
<1>11. FrameOK(n, d, t, 1) /\ CallOK(d, t, 1)
  <2>1. Fn(d, t, 1 - 1) = g /\ Fn(d, t, 1) = Function(e)
    <3>1. 1 - 1 = 0 /\ 0 + 1 = 1 /\ 0 \in 0 .. Len(s)
      BY <1>1
    <3>2. QED
      BY <3>1, <1>5, <1>6 DEF Fn
  <2>2. t[1].ebp = base /\ t[1].eip = ret
    BY <1>2, <1>3
  <2>3. Esp(t, 1 + 1) = Esp(s, 1) /\ Ebp(t, 1 + 1) = Ebp(s, 1)
    BY <1>1, <1>7
  <2>4. \A j \in 1 .. Len(t) : base <= t[j].ebp
    <3>1. \A j \in 2 .. Len(t) : t[j] = s[j - 1] /\ j - 1 \in 1 .. Len(s)
      <4>1. \A j \in 2 .. Len(t) : j - 1 \in 1 .. Len(s) /\ (j - 1) + 1 = j
        BY <1>1, <1>3
      <4>2. QED
        BY <1>3, <4>1
    <3>2. base < Esp(s, 1)
      <4>1. base + 2 + P = Esp(s, 1)
        BY DEF P
      <4>2. QED
        BY <1>9, <1>10, <4>1
    <3>3. \A j \in 2 .. Len(t) : base <= t[j].ebp
      <4>1. \A k \in 1 .. Len(s) : base <= s[k].ebp
        BY <3>2, <1>10
      <4>2. QED
        BY <3>1, <4>1
    <3>4. \A j \in 1 .. Len(t) : j = 1 \/ j \in 2 .. Len(t)
      BY <1>1, <1>3
    <3>5. QED
      BY <2>2, <3>3, <3>4
  <2>5. base + 2 + Parameters(g) = Esp(s, 1) /\ base + 2 + Parameters(g) <= STACK + 1
    BY <1>10
  <2>6. FrameOK(n, d, t, 1)
    BY <2>1, <2>2, <2>3, <2>4, <2>5 DEF FrameOK
  <2>7. QED
    BY <2>1, <2>2, <2>6 DEF CallOK
<1>12. ASSUME NEW k \in 1 .. Len(s)
       PROVE  FrameOK(n, d, t, k + 1) /\ CallOK(d, t, k + 1)
  <2>1. t[k + 1] = s[k] /\ (k + 1) - 1 = k /\ (k + 1) + 1 = k + 2
    BY <1>3
  <2>2. FrameOK(m, e, s, k) /\ CallOK(e, s, k)
    BY DEF StackOK
  <2>3. Fn(d, t, k) = Fn(e, s, k - 1) /\ Fn(d, t, k + 1) = Fn(e, s, k)
    <3>1. k - 1 \in 0 .. Len(s) /\ k \in 0 .. Len(s) /\ (k - 1) + 1 = k
      BY <1>1
    <3>2. QED
      BY <3>1, <1>6
  <2>4. Ebp(t, k + 2) = Ebp(s, k + 1) /\ Esp(t, k + 2) = Esp(s, k + 1)
    <3>1. k + 1 \in 1 .. Len(s) + 1 /\ (k + 1) + 1 = k + 2
      BY <1>1
    <3>2. QED
      BY <3>1, <1>7
  <2>5. n[s[k].ebp] = m[s[k].ebp] /\ n[s[k].ebp + 1] = m[s[k].ebp + 1]
    <3>1. s[k].ebp \in Esp(s, 1) .. STACK /\ s[k].ebp + 1 \in Esp(s, 1) .. STACK
      BY <1>10, KernelAssumption
    <3>2. QED
      BY <3>1
  <2>6. \A j \in k + 1 .. Len(t) : t[j] = s[j - 1] /\ j - 1 \in k .. Len(s)
    <3>1. \A j \in k + 1 .. Len(t) : j - 1 \in k .. Len(s) /\ j - 1 \in 1 .. Len(s) /\ (j - 1) + 1 = j
      BY <1>1, <1>3
    <3>2. QED
      BY <1>3, <3>1
  <2>7. QED
    BY <2>1, <2>2, <2>3, <2>4, <2>5, <2>6 DEF FrameOK, CallOK
<1>13. \A k \in 1 .. Len(t) : FrameOK(n, d, t, k) /\ CallOK(d, t, k)
  <2>1. \A k \in 1 .. Len(t) : k = 1 \/ (k - 1 \in 1 .. Len(s) /\ (k - 1) + 1 = k)
    BY <1>1, <1>3
  <2>2. QED
    BY <1>11, <1>12, <2>1
<1>14. Fn(d, t, Len(t)) = "entry"
  <2>1. Len(s) \in 0 .. Len(s)
    BY <1>1
  <2>2. QED
    BY <2>1, <1>3, <1>6 DEF StackOK
<1>15. StackOK(n, d, t)
  BY <1>3, <1>4, <1>13, <1>14 DEF StackOK
<1>16. QED
  BY <1>5, <1>6, <1>8, <1>15 DEF t, d, x

-----------------------------------------------------------------------------
(* The steps, by what they do to the stack.                                *)

StackInv ==
  /\ mem \in [1 .. STACK -> Int]
  /\ ebp = Ebp(active, 1) /\ esp = Esp(active, 1)
  /\ StackOK(mem, eip, active)

Stays == /\ UNCHANGED machine
         /\ eip' \in Nat /\ PlaceOK(eip') /\ eip' \div CODE = eip \div CODE

panicking == <<panicstr, announced, interrupted>>

(* Nothing a panic or a backtrace would notice.                            *)
Quiet ==
  /\ Stays
  /\ UNCHANGED <<trace, panicking>>
  /\ Function(eip) = "mon_backtrace" => eip' = eip \/ (eip % CODE = 2 /\ eip' % CODE = 3)

Pushes(g) ==
  /\ \E ret \in Nat :
       /\ Frame(g, ret)
       /\ Function(ret) = Function(eip)
       /\ IF g = "_panic" THEN Function(eip) # "entry"
          ELSE PlaceOK(ret) /\ Function(eip) \notin commands
  /\ UNCHANGED panicking

(* Where the kernel is.                                                    *)
LEMMA Here ==
  ASSUME StackInv
  PROVE  LET j == eip \div CODE
             k == eip % CODE
         IN /\ eip \in Nat /\ PlaceOK(eip)
            /\ j \in Numbers /\ k \in 1 .. 6 /\ k \in Places(j) /\ StatementOK(j, k)
            /\ Statement(eip) = Code[j][k] /\ Function(eip) = Names[j]
BY CodeOK DEF StackInv, StackOK, PlaceOK, Statement, Function

LEMMA FallStays ==
  ASSUME StackInv, Falls, Statement(eip).op \in {"print", "do"}
  PROVE  Stays /\ eip' % CODE = (eip % CODE) + 1
<1>1. (eip % CODE) + 1 \in Places(eip \div CODE)
  BY Here DEF StatementOK
<1>2. eip \in Nat /\ PlaceOK(eip)
  BY Here
<1>3. eip' = eip + 1 /\ UNCHANGED machine
  BY DEF Falls
<1>4. QED
  BY <1>1, <1>2, <1>3, NextPlace DEF Stays, PlaceOK

LEMMA GoStays ==
  ASSUME StackInv, NEW place \in Places(eip \div CODE), UNCHANGED machine,
         eip' = CODE * (eip \div CODE) + place
  PROVE  Stays /\ eip' % CODE = place
<1>1. eip \div CODE \in Numbers
  BY Here
<1>2. place \in 1 .. 6
  BY <1>1, CodeOK
<1>3. eip \div CODE \in Nat /\ place \in 0 .. 99
  BY <1>1, <1>2 DEF Numbers
<1>. DEFINE j == eip \div CODE
<1>. HIDE DEF j
<1>4. j \in Nat /\ j \in Numbers /\ eip' = CODE * j + place /\ place \in Places(j)
  BY <1>1, <1>3 DEF j
<1>5. eip' \in Nat /\ eip' \div CODE = j /\ eip' % CODE = place
  BY <1>3, <1>4, Address
<1>6. QED
  BY <1>4, <1>5 DEF Stays, PlaceOK, j

LEMMA DoQuiet ==
  ASSUME StackInv, NEW what, Doing(what), what \notin {"read_ebp", "frame"}, Falls,
         UNCHANGED <<trace, panicking>>
  PROVE  Quiet
<1>1. Statement(eip).op = "do" /\ Statement(eip).of = what
  BY DEF Doing, Running
<1>2. Function(eip) # "mon_backtrace"
  BY <1>1, Here DEF StatementOK
<1>3. QED
  BY <1>1, <1>2, FallStays DEF Quiet

LEMMA IdleQuiet ==
  ASSUME StackInv, UNCHANGED <<eip, machine, trace, panicking>>
  PROVE  Quiet
BY Here DEF Quiet, Stays

LEMMA QuietSteps ==
  ASSUME StackInv,
         \/ Loop \/ CprintfStep \/ serial_init \/ NoSerial \/ detect_memory \/ Readline
         \/ Printing \/ Device \/ UNCHANGED vars
  PROVE  Quiet
<1>1. CASE Loop
  <2>1. Statement(eip).op = "again"
    BY <1>1 DEF Loop, Running
  <2>2. Statement(eip).of \in Places(eip \div CODE) /\ Function(eip) \notin commands
    BY <2>1, Here DEF StatementOK
  <2>3. Stays
    BY <1>1, <2>2, GoStays DEF Loop, machine
  <2>4. Function(eip) # "mon_backtrace"
    BY <2>2 DEF commands
  <2>5. QED
    BY <1>1, <2>3, <2>4 DEF Quiet, Loop, history, panicking
<1>2. CASE CprintfStep
  <2>1. Statement(eip).op = "print"
    BY <1>2 DEF CprintfStep, Running
  <2>2. Stays /\ eip' % CODE = (eip % CODE) + 1
    BY <1>2, <2>1, FallStays DEF CprintfStep
  <2>3. Function(eip) = "mon_backtrace" => eip % CODE = 2
    BY <2>1, Here DEF StatementOK
  <2>4. UNCHANGED <<trace, panicking>>
    BY <1>2 DEF CprintfStep, history, panicking
  <2>5. QED
    BY <2>2, <2>3, <2>4 DEF Quiet
<1>3. CASE serial_init
  BY <1>3, DoQuiet DEF serial_init, history, panicking
<1>4. CASE NoSerial
  BY <1>4, DoQuiet DEF NoSerial, history, panicking
<1>5. CASE detect_memory
  BY <1>5, DoQuiet DEF detect_memory, history, panicking
<1>6. CASE Readline
  BY <1>6, DoQuiet DEF Readline, history, panicking
<1>7. CASE Printing \/ Device
  BY <1>7, IdleQuiet DEF Printing, Device, history, panicking
<1>8. CASE UNCHANGED vars
  BY <1>8, IdleQuiet DEF vars, history, panicking, machine
<1>9. QED
  BY <1>1, <1>2, <1>3, <1>4, <1>5, <1>6, <1>7, <1>8

LEMMA PushSteps ==
  ASSUME StackInv, CallStep \/ Fails \/ Dispatch
  PROVE  Quiet \/ \E g \in Callable : Pushes(g)
<1>1. CASE CallStep
  <2>. DEFINE g == Statement(eip).of
  <2>1. Statement(eip).op = "call" /\ Frame(g, eip + 1)
    BY <1>1 DEF CallStep, Running
  <2>2. /\ g \in Callable /\ Function(eip) \notin commands
        /\ g = "_panic" => Function(eip) # "entry"
        /\ g # "_panic" => (eip % CODE) + 1 \in Places(eip \div CODE)
    BY <2>1, Here DEF StatementOK
  <2>3. eip + 1 \in Nat /\ Function(eip + 1) = Function(eip)
    BY Here, NextPlace
  <2>4. g # "_panic" => PlaceOK(eip + 1)
    BY <2>2, Here, NextPlace DEF PlaceOK
  <2>5. UNCHANGED panicking
    BY <1>1 DEF CallStep, history, panicking
  <2>6. QED
    BY <2>1, <2>2, <2>3, <2>4, <2>5 DEF Pushes
<1>2. CASE Fails
  <2>1. Frame("_panic", End(eip)) /\ Function(eip) # "entry" /\ UNCHANGED panicking
    BY <1>2 DEF Fails, panicking
  <2>2. End(eip) \in Nat /\ Function(End(eip)) = Function(eip)
    BY Here, LastPlace
  <2>3. "_panic" \in Callable
    BY DEF Callable
  <2>4. QED
    BY <2>1, <2>2, <2>3 DEF Pushes
<1>3. CASE Dispatch
  <2>1. Statement(eip).op = "do" /\ Statement(eip).of = "dispatch" /\ Doing("dispatch")
    BY <1>3 DEF Dispatch, Doing, Running
  <2>2. Function(eip) = "runcmd" /\ (eip % CODE) + 1 \in Places(eip \div CODE)
    BY <2>1, Here DEF StatementOK
  <2>3. PlaceOK(eip + 1) /\ eip + 1 \in Nat /\ Function(eip + 1) = Function(eip)
    BY <2>2, Here, NextPlace DEF PlaceOK
  <2>4. UNCHANGED <<trace, panicking>>
    BY <1>3 DEF Dispatch, history, panicking
  <2>5. CASE Falls
    BY <2>1, <2>4, <2>5, DoQuiet
  <2>6. CASE \E c \in commands : Frame(c, eip + 1)
    <3>1. "runcmd" \notin commands /\ "_panic" \notin commands /\ commands \subseteq Callable
      BY DEF commands, Callable
    <3>2. QED
      BY <2>2, <2>3, <2>4, <2>6, <3>1 DEF Pushes
  <2>7. QED
    BY <1>3, <2>5, <2>6 DEF Dispatch
<1>4. QED
  BY <1>1, <1>2, <1>3

LEMMA StepKinds ==
  ASSUME StackInv, [Next]_vars
  PROVE  \/ Quiet
         \/ \E g \in Callable : Pushes(g)
         \/ Return \/ Panicking \/ ReadEbp \/ WalkFrame
BY QuietSteps, PushSteps DEF Next, KernelStep

-----------------------------------------------------------------------------
(* Each kind of step keeps the stack as calls leave it.                    *)

LEMMA StayInv ==
  ASSUME StackInv, Stays
  PROVE  /\ StackInv' /\ active' = active
         /\ \A k \in 0 .. Len(active) : Fn(eip', active', k) = Fn(eip, active, k)
<1>1. active' = active /\ mem' = mem /\ ebp' = ebp /\ esp' = esp
  BY DEF Stays, machine
<1>2. /\ StackOK(mem, eip', active)
      /\ \A k \in 0 .. Len(active) : Fn(eip', active, k) = Fn(eip, active, k)
  BY StayKeeps DEF StackInv, Stays
<1>3. StackOK(mem', eip', active')
  BY <1>1, <1>2
<1>4. ebp' = Ebp(active', 1) /\ esp' = Esp(active', 1)
  BY <1>1 DEF StackInv
<1>5. QED
  BY <1>1, <1>2, <1>3, <1>4 DEF StackInv

LEMMA PushInv ==
  ASSUME StackInv, NEW g \in Callable, Pushes(g)
  PROVE  /\ StackInv'
         /\ Len(active') = Len(active) + 1
         /\ \A k \in 1 .. Len(active) : active'[k + 1] = active[k]
         /\ Fn(eip', active', 0) = g /\ eip' % CODE = 1
         /\ \A k \in 0 .. Len(active) : Fn(eip', active', k + 1) = Fn(eip, active, k)
<1>. DEFINE base == esp - Parameters(g) - 2
            P == Parameters(g)
<1>0. PICK ret \in Nat :
        /\ Frame(g, ret)
        /\ Function(ret) = Function(eip)
        /\ IF g = "_panic" THEN Function(eip) # "entry"
           ELSE PlaceOK(ret) /\ Function(eip) \notin commands
  BY DEF Pushes
<1>1. P \in Nat
  BY ParametersNat
<1>2. esp \in Int /\ ebp \in Nat /\ eip \in Nat /\ active \in Seq(Frames)
  <2>1. active \in Seq(Frames) /\ eip \in Nat
    BY DEF StackInv, StackOK
  <2>2. \A k \in 1 .. Len(active) : active[k].ebp \in Nat
    <3>1. \A k \in 1 .. Len(active) : active[k] \in Frames
      BY <2>1
    <3>2. QED
      BY <3>1 DEF Frames
  <2>3. Ebp(active, 1) \in Nat /\ Esp(active, 1) \in Int
    BY <2>2, KernelAssumption DEF Ebp, Esp
  <2>4. QED
    BY <2>1, <2>3 DEF StackInv
<1>3. /\ base > 1 /\ ebp' = base /\ esp' = base - 1 /\ eip' = CODE * Number(g) + 1
      /\ active' = <<[ebp |-> base, eip |-> ret]>> \o active
      /\ mem' = [a \in 1 .. STACK |-> CASE a = base -> ebp
                                       [] a = base + 1 -> ret
                                       [] a \in base + 2 .. esp - 1 -> -1
                                       [] OTHER -> mem[a]]
  BY <1>0 DEF Frame
<1>4. base = esp - P - 2
  OBVIOUS
<1>. HIDE DEF base, P
<1>4a. base \in Nat /\ base + 2 + P = esp
  <2>1. base > 1
    BY <1>3
  <2>2. esp \in Int
    BY <1>2
  <2>3. QED
    BY <1>1, <1>4, <2>1, <2>2
<1>5. esp <= STACK + 1
  BY WithinStack DEF StackInv
<1>6. mem'[base] = ebp /\ mem'[base + 1] = ret
  <2>1. base \in 1 .. STACK /\ base + 1 \in 1 .. STACK /\ base + 1 # base
    BY <1>1, <1>2, <1>3, <1>4a, <1>5, NewFrame
  <2>2. QED
    BY <1>3, <2>1
<1>7. \A a \in esp .. STACK : mem'[a] = mem[a]
  <2>1. \A a \in esp .. STACK : /\ a \in 1 .. STACK /\ a # base /\ a # base + 1
                                /\ a \notin base + 2 .. esp - 1
    BY <1>1, <1>2, <1>3, <1>4a, <1>5, NewFrame
  <2>2. QED
    BY <1>3, <2>1
<1>8. mem' \in [1 .. STACK -> Int]
  <2>1. \A a \in 1 .. STACK : mem[a] \in Int
    BY DEF StackInv
  <2>2. QED
    BY <1>2, <1>3, <2>1
<1>9. /\ StackOK(mem', eip', active')
      /\ Fn(eip', active', 0) = g
      /\ \A k \in 0 .. Len(active) : Fn(eip', active', k + 1) = Fn(eip, active, k)
      /\ Ebp(active', 1) = base /\ Esp(active', 1) = base - 1
  <2>1. StackOK(mem, eip, active) /\ esp = Esp(active, 1) /\ ebp = Ebp(active, 1)
    BY DEF StackInv
  <2>2. /\ Function(ret) = Function(eip)
        /\ IF g = "_panic" THEN Function(eip) # "entry"
           ELSE PlaceOK(ret) /\ Function(eip) \notin commands
    BY <1>0
  <2>3. base + 2 + Parameters(g) = Esp(active, 1)
    BY <1>4a, <2>1 DEF P
  <2>4. base > 1 /\ mem'[base] = Ebp(active, 1) /\ mem'[base + 1] = ret
    BY <1>3, <1>6, <2>1
  <2>5. \A a \in Esp(active, 1) .. STACK : mem'[a] = mem[a]
    BY <1>7, <2>1
  <2>. DEFINE t == <<[ebp |-> base, eip |-> ret]>> \o active
              d == CODE * Number(g) + 1
  <2>6. /\ StackOK(mem', d, t)
        /\ Fn(d, t, 0) = g
        /\ \A k \in 0 .. Len(active) : Fn(d, t, k + 1) = Fn(eip, active, k)
        /\ Ebp(t, 1) = base /\ Esp(t, 1) = base - 1
    BY <1>4a, <2>1, <2>2, <2>3, <2>4, <2>5, PushKeeps
  <2>7. active' = t /\ eip' = d
    BY <1>3
  <2>. HIDE DEF t, d
  <2>8. QED
    BY <2>6, <2>7
<1>10. StackInv'
  BY <1>3, <1>8, <1>9 DEF StackInv
<1>11. eip' % CODE = 1
  BY <1>3, FirstPlace
<1>12. /\ Len(active') = Len(active) + 1
       /\ \A k \in 1 .. Len(active) : active'[k + 1] = active[k]
  <2>. DEFINE x == [ebp |-> base, eip |-> ret]
  <2>1. x \in Frames
    BY <1>2, <1>4a DEF Frames
  <2>. HIDE DEF x
  <2>2. active' = <<x>> \o active
    BY <1>3 DEF x
  <2>3. QED
    BY <1>2, <2>1, <2>2, Pushed
<1>13. QED
  BY <1>9, <1>10, <1>11, <1>12

LEMMA PopInv ==
  ASSUME StackInv, Return
  PROVE  /\ StackInv'
         /\ Len(active) >= 1 /\ Len(active') = Len(active) - 1
         /\ \A k \in 1 .. Len(active) - 1 : active'[k] = active[k + 1]
         /\ Fn(eip, active, 0) # "_panic"
         /\ \A k \in 0 .. Len(active) - 1 : Fn(eip', active', k) = Fn(eip, active, k + 1)
         /\ Function(eip') \notin commands
<1>1. Function(eip) \notin {"_panic", "entry"}
  <2>1. Statement(eip).op = "ret"
    BY DEF Return, Running
  <2>2. QED
    BY <2>1, Here DEF StatementOK
<1>2. Fn(eip, active, 0) = Function(eip)
  BY DEF Fn
<1>3. active \in Seq(Frames) /\ Len(active) \in Nat /\ StackOK(mem, eip, active)
  BY DEF StackInv, StackOK
<1>4. Len(active) # 0
  BY <1>1, <1>2, <1>3 DEF StackOK
<1>5. active # <<>> /\ 1 \in 1 .. Len(active) /\ Len(active) >= 1
  BY <1>3, <1>4
<1>6. FrameOK(mem, eip, active, 1) /\ CallOK(eip, active, 1)
  BY <1>3, <1>5 DEF StackOK
<1>7. ebp = active[1].ebp /\ active[1].ebp \in Nat
  <2>1. active[1] \in Frames
    BY <1>3, <1>5
  <2>2. QED
    BY <1>5, <2>1 DEF StackInv, Ebp, Frames
<1>8. /\ mem[ebp] = Ebp(active, 2) /\ mem[ebp + 1] = active[1].eip
      /\ ebp + 2 + Parameters(Function(eip)) = Esp(active, 2)
  <2>1. 1 - 1 = 0 /\ 1 + 1 = 2
    OBVIOUS
  <2>2. QED
    BY <2>1, <1>2, <1>6, <1>7 DEF FrameOK
<1>9. /\ eip' = active[1].eip /\ ebp' = Ebp(active, 2) /\ esp' = Esp(active, 2)
      /\ active' = Tail(active) /\ mem' = mem
  BY <1>8 DEF Return
<1>10. /\ StackOK(mem, active[1].eip, Tail(active))
       /\ \A k \in 0 .. Len(Tail(active)) :
            Fn(active[1].eip, Tail(active), k) = Fn(eip, active, k + 1)
       /\ \A k \in 1 .. Len(active) : /\ Ebp(Tail(active), k) = Ebp(active, k + 1)
                                      /\ Esp(Tail(active), k) = Esp(active, k + 1)
  BY <1>1, <1>2, <1>3, <1>5, PopKeeps
<1>11. Ebp(active', 1) = Ebp(active, 2) /\ Esp(active', 1) = Esp(active, 2)
  <2>1. 1 + 1 = 2
    OBVIOUS
  <2>2. QED
    BY <2>1, <1>5, <1>9, <1>10
<1>12. StackInv'
  BY <1>9, <1>10, <1>11 DEF StackInv
<1>13. Len(active') = Len(active) - 1 /\ \A k \in 1 .. Len(active) - 1 : active'[k] = active[k + 1]
  BY <1>3, <1>5, <1>9, Popped1
<1>14. \A k \in 0 .. Len(active) - 1 : Fn(eip', active', k) = Fn(eip, active, k + 1)
  BY <1>9, <1>10, <1>13
<1>15. Function(eip') \notin commands
  <2>1. Fn(eip, active, 1) \notin commands
    <3>1. 1 - 1 = 0
      OBVIOUS
    <3>2. QED
      BY <3>1, <1>1, <1>2, <1>6 DEF CallOK
  <2>2. QED
    BY <2>1, <1>5, <1>9 DEF Fn
<1>16. QED
  BY <1>1, <1>2, <1>5, <1>12, <1>13, <1>14, <1>15

LEMMA StackInit ==
  ASSUME Init PROVE StackInv
<1>1. "entry" = Names[1] /\ DOMAIN Names = Numbers /\ \A j \in Numbers : Names[j] = "entry" => j = 1
  BY DEF Names, Numbers
<1>2. Number("entry") = 1
  BY <1>1 DEF Number, Numbers
<1>3. eip \in Nat /\ eip \div CODE = 1 /\ eip % CODE = 1
  BY <1>2 DEF Init, CODE
<1>4. PlaceOK(eip) /\ Function(eip) = "entry"
  <2>1. Code[1] = entry /\ 1 \in DOMAIN entry
    BY DEF Code, entry
  <2>2. QED
    BY <1>1, <1>3, <2>1 DEF PlaceOK, Function, Places, Numbers
<1>5. active = <<>> /\ Len(active) = 0 /\ active \in Seq(Frames)
  BY DEF Init
<1>6. StackOK(mem, eip, active)
  BY <1>3, <1>4, <1>5 DEF StackOK, Fn
<1>7. ebp = Ebp(active, 1) /\ esp = Esp(active, 1) /\ mem \in [1 .. STACK -> Int]
  BY <1>5 DEF Init, Ebp, Esp
<1>8. QED
  BY <1>6, <1>7 DEF StackInv

-----------------------------------------------------------------------------
(* Panics: the calls of the first one are the last of those in progress,   *)
(* and the _panic that announced it lies right inside of them.             *)

Behind == Len(active) - Len(interrupted)

PanicInv ==
  /\ panicstr \in BOOLEAN
  /\ ~panicstr => announced = 0
  /\ panicstr =>
       /\ announced = 1
       /\ interrupted \in Seq(Frames) /\ Behind >= 1
       /\ \A k \in 1 .. Len(interrupted) : interrupted[k] = active[Behind + k]
       /\ Fn(eip, active, Behind - 1) = "_panic"

LEMMA PanicQuiet ==
  ASSUME StackInv, PanicInv, Stays, UNCHANGED panicking
  PROVE  PanicInv'
<1>1. /\ panicstr' = panicstr /\ announced' = announced /\ interrupted' = interrupted
      /\ active' = active /\ Behind' = Behind
  BY DEF Stays, machine, panicking, Behind
<1>2. panicstr => Fn(eip', active', Behind - 1) = Fn(eip, active, Behind - 1)
  <2>1. SUFFICES ASSUME panicstr PROVE Behind - 1 \in 0 .. Len(active)
    BY StayInv
  <2>2. active \in Seq(Frames) /\ interrupted \in Seq(Frames) /\ Behind >= 1
    BY <2>1 DEF PanicInv, StackInv, StackOK
  <2>3. Len(active) \in Nat /\ Len(interrupted) \in Nat
    BY <2>2
  <2>4. QED
    BY <2>2, <2>3 DEF Behind
<1>3. QED
  BY <1>1, <1>2 DEF PanicInv

LEMMA PanicPush ==
  ASSUME StackInv, PanicInv, NEW g \in Callable, Pushes(g)
  PROVE  PanicInv'
<1>1. panicstr' = panicstr /\ announced' = announced /\ interrupted' = interrupted
  BY DEF Pushes, panicking
<1>2. SUFFICES ASSUME panicstr PROVE PanicInv'
  BY <1>1 DEF PanicInv
<1>3. active \in Seq(Frames) /\ interrupted \in Seq(Frames) /\ Behind >= 1
  BY <1>2 DEF PanicInv, StackInv, StackOK
<1>4. Len(active) \in Nat /\ Len(interrupted) \in Nat /\ Behind \in Int
  BY <1>3 DEF Behind
<1>5. /\ Len(active') = Len(active) + 1
      /\ \A k \in 1 .. Len(active) : active'[k + 1] = active[k]
      /\ \A k \in 0 .. Len(active) : Fn(eip', active', k + 1) = Fn(eip, active, k)
  BY PushInv
<1>6. Behind' = Behind + 1
  BY <1>1, <1>4, <1>5 DEF Behind
<1>7. ASSUME NEW k \in 1 .. Len(interrupted)
      PROVE  interrupted[k] = active'[Behind' + k]
  <2>1. Behind + k \in 1 .. Len(active) /\ Behind' + k = (Behind + k) + 1
    BY <1>3, <1>4, <1>6 DEF Behind
  <2>2. interrupted[k] = active[Behind + k]
    BY <1>2 DEF PanicInv
  <2>3. QED
    BY <2>1, <2>2, <1>5
<1>8. Fn(eip', active', Behind' - 1) = "_panic"
  <2>1. Behind - 1 \in 0 .. Len(active) /\ Behind' - 1 = (Behind - 1) + 1
    BY <1>3, <1>4, <1>6 DEF Behind
  <2>2. Fn(eip, active, Behind - 1) = "_panic"
    BY <1>2 DEF PanicInv
  <2>3. QED
    BY <2>1, <2>2, <1>5
<1>9. Behind' >= 1
  BY <1>3, <1>4, <1>6
<1>10. QED
  BY <1>1, <1>2, <1>3, <1>7, <1>8, <1>9 DEF PanicInv

(* The _panic that announced never returns, so nothing behind it does.     *)
LEMMA PanicPop ==
  ASSUME StackInv, PanicInv, Return
  PROVE  PanicInv'
<1>1. panicstr' = panicstr /\ announced' = announced /\ interrupted' = interrupted
  BY DEF Return, history
<1>2. SUFFICES ASSUME panicstr PROVE PanicInv'
  BY <1>1 DEF PanicInv
<1>3. active \in Seq(Frames) /\ interrupted \in Seq(Frames) /\ Behind >= 1
  BY <1>2 DEF PanicInv, StackInv, StackOK
<1>4. Len(active) \in Nat /\ Len(interrupted) \in Nat /\ Behind \in Int
  BY <1>3 DEF Behind
<1>5. /\ Len(active') = Len(active) - 1
      /\ \A k \in 1 .. Len(active) - 1 : active'[k] = active[k + 1]
      /\ Fn(eip, active, 0) # "_panic"
      /\ \A k \in 0 .. Len(active) - 1 : Fn(eip', active', k) = Fn(eip, active, k + 1)
  BY PopInv
<1>6. Behind >= 2
  <2>1. Fn(eip, active, Behind - 1) = "_panic"
    BY <1>2 DEF PanicInv
  <2>2. Behind - 1 # 0
    BY <2>1, <1>5
  <2>3. QED
    BY <2>2, <1>3, <1>4
<1>7. Behind' = Behind - 1
  BY <1>1, <1>4, <1>5 DEF Behind
<1>8. ASSUME NEW k \in 1 .. Len(interrupted)
      PROVE  interrupted[k] = active'[Behind' + k]
  <2>1. Behind' + k \in 1 .. Len(active) - 1 /\ (Behind' + k) + 1 = Behind + k
    BY <1>4, <1>6, <1>7 DEF Behind
  <2>2. interrupted[k] = active[Behind + k]
    BY <1>2 DEF PanicInv
  <2>3. QED
    BY <2>1, <2>2, <1>5
<1>9. Fn(eip', active', Behind' - 1) = "_panic"
  <2>1. Behind' - 1 \in 0 .. Len(active) - 1 /\ (Behind' - 1) + 1 = Behind - 1
    BY <1>4, <1>6, <1>7 DEF Behind
  <2>2. Fn(eip, active, Behind - 1) = "_panic"
    BY <1>2 DEF PanicInv
  <2>3. QED
    BY <2>1, <2>2, <1>5
<1>10. Behind' >= 1
  BY <1>4, <1>6, <1>7
<1>11. QED
  BY <1>1, <1>2, <1>3, <1>8, <1>9, <1>10 DEF PanicInv

LEMMA PanickingStays ==
  ASSUME StackInv, Panicking
  PROVE  Stays /\ Function(eip) = "_panic" /\ (Dead => UNCHANGED panicking)
<1>1. Statement(eip).op = "do" /\ Statement(eip).of = "panicstr"
  BY DEF Panicking, Doing, Running
<1>2. Function(eip) = "_panic" /\ 5 \in Places(eip \div CODE)
  BY <1>1, Here DEF StatementOK
<1>3. CASE Dead
  <2>1. Goes(5) /\ UNCHANGED panicking
    BY <1>3 DEF Panicking, history, panicking
  <2>2. QED
    BY <1>2, <2>1, GoStays DEF Goes
<1>4. CASE ~Dead
  <2>1. Falls
    BY <1>4 DEF Panicking
  <2>2. QED
    BY <1>1, <1>2, <1>4, <2>1, FallStays
<1>5. QED
  BY <1>3, <1>4

LEMMA PanickingKeeps ==
  ASSUME StackInv, PanicInv, Panicking
  PROVE  PanicInv'
<1>1. CASE Dead
  BY <1>1, PanickingStays, PanicQuiet
<1>2. CASE ~Dead
  <2>1. /\ panicstr' = TRUE /\ announced' = announced + 1 /\ interrupted' = Tail(active)
        /\ announced = 0
    BY <1>2 DEF Panicking, Dead, PanicInv
  <2>2. /\ active \in Seq(Frames) /\ Function(eip) = "_panic"
        /\ Fn(eip, active, Len(active)) = "entry" /\ active' = active
        /\ Fn(eip', active', 0) = Fn(eip, active, 0)
    <3>1. active \in Seq(Frames) /\ Fn(eip, active, Len(active)) = "entry"
      BY DEF StackInv, StackOK
    <3>2. 0 \in 0 .. Len(active)
      BY <3>1
    <3>3. QED
      BY <3>1, <3>2, PanickingStays, StayInv
  <2>3. Len(active) # 0
    BY <2>2 DEF Fn
  <2>4. active # <<>> /\ Len(active) \in Nat
    BY <2>2, <2>3
  <2>5. /\ Tail(active) \in Seq(Frames) /\ Len(Tail(active)) = Len(active) - 1
        /\ \A k \in 1 .. Len(active) - 1 : Tail(active)[k] = active[k + 1]
    BY <2>2, <2>4, Popped1
  <2>6. Behind' = 1
    BY <2>1, <2>2, <2>4, <2>5 DEF Behind
  <2>7. \A k \in 1 .. Len(interrupted') : interrupted'[k] = active'[Behind' + k]
    <3>1. \A k \in 1 .. Len(active) - 1 : 1 + k = k + 1
      OBVIOUS
    <3>2. QED
      BY <3>1, <2>1, <2>2, <2>5, <2>6
  <2>8. Fn(eip', active', Behind' - 1) = "_panic"
    <3>1. 1 - 1 = 0
      OBVIOUS
    <3>2. QED
      BY <3>1, <2>2, <2>6 DEF Fn
  <2>9. announced' = 1 /\ interrupted' \in Seq(Frames) /\ Behind' >= 1
    BY <2>1, <2>5, <2>6
  <2>10. QED
    BY <2>1, <2>7, <2>8, <2>9 DEF PanicInv
<1>3. QED
  BY <1>1, <1>2

-----------------------------------------------------------------------------
(* A backtrace: what is listed, and the frame that is next.                *)

Lines == [ebp : Int, eip : Int, args : Int]
Tracing == Function(eip) = "mon_backtrace" /\ eip % CODE \in {2, 3, 4}

LineOK(debug, s, j, line) ==
  /\ line.ebp = s[j].ebp /\ line.eip = s[j].eip
  /\ debug => line.ebp + 1 + line.args <= STACK

TraceInv ==
  Tracing =>
    /\ listed \in Seq(Lines) /\ Len(listed) <= Len(active)
    /\ \A j \in 1 .. Len(listed) : LineOK(debug_info, active, j, listed[j])
    /\ walk = Ebp(active, Len(listed) + 1)
    /\ eip % CODE = 4 => walk = 0

LEMMA SameFunction ==
  ASSUME Stays
  PROVE  Function(eip') = Function(eip)
BY DEF Stays, Function

(* The image does not change.                                              *)
LEMMA DebugStays ==
  ASSUME [Next]_vars
  PROVE  debug_info' = debug_info
<1>1. CASE CallStep \/ Return \/ Loop \/ CprintfStep
  BY <1>1 DEF CallStep, Return, Loop, CprintfStep, memory
<1>2. CASE serial_init \/ NoSerial \/ detect_memory
  BY <1>2 DEF serial_init, NoSerial, detect_memory, memory
<1>3. CASE Panicking \/ Fails \/ Printing \/ Device \/ UNCHANGED vars
  BY <1>3 DEF Panicking, Fails, Printing, Device, vars, memory
<1>4. CASE Readline \/ Dispatch \/ ReadEbp \/ WalkFrame
  BY <1>4 DEF Readline, Dispatch, ReadEbp, WalkFrame, memory
<1>5. QED
  BY <1>1, <1>2, <1>3, <1>4 DEF Next, KernelStep

LEMMA TraceQuiet ==
  ASSUME StackInv, TraceInv, Quiet, debug_info' = debug_info
  PROVE  TraceInv'
<1>1. SUFFICES ASSUME Tracing' PROVE TraceInv'
  BY DEF TraceInv
<1>2. Function(eip) = "mon_backtrace"
  BY <1>1, SameFunction DEF Quiet, Tracing
<1>3. eip' = eip \/ (eip % CODE = 2 /\ eip' % CODE = 3)
  BY <1>2 DEF Quiet
<1>4. Tracing /\ (eip' % CODE = 4 => eip % CODE = 4)
  BY <1>1, <1>2, <1>3 DEF Tracing
<1>5. active' = active /\ walk' = walk /\ listed' = listed
  BY DEF Quiet, Stays, machine, trace
<1>6. QED
  BY <1>4, <1>5 DEF TraceInv

LEMMA ReadEbpKeeps ==
  ASSUME StackInv, ReadEbp
  PROVE  Stays /\ UNCHANGED panicking /\ TraceInv'
<1>1. Statement(eip).op = "do" /\ Statement(eip).of = "read_ebp"
  BY DEF ReadEbp, Doing, Running
<1>2. eip % CODE = 1
  BY <1>1, Here DEF StatementOK
<1>3. Stays /\ eip' % CODE = (eip % CODE) + 1
  BY <1>1, FallStays DEF ReadEbp
<1>4. eip' % CODE = 2
  BY <1>2, <1>3
<1>5. /\ walk' = Ebp(active, 1) /\ listed' = <<>> /\ active' = active
      /\ active \in Seq(Frames)
  BY DEF ReadEbp, Falls, machine, StackInv, StackOK
<1>6. Len(listed') = 0 /\ listed' \in Seq(Lines) /\ Len(active) \in Nat /\ 0 + 1 = 1
  BY <1>5
<1>7. TraceInv'
  BY <1>4, <1>5, <1>6 DEF TraceInv
<1>8. QED
  BY <1>3, <1>7 DEF ReadEbp, history, panicking

(* The words counted for a return address fit: with debug information they *)
(* are the parameters of the caller, whose frame lies above this one; or   *)
(* the address lies behind a call of _panic, and above its three arguments *)
(* the caller's own frame has two more words and a local.                  *)
LEMMA ArgumentsFit ==
  ASSUME StackInv, NEW j \in 1 .. Len(active), debug_info,
         NEW nargs \in Nargs(active[j].eip)
  PROVE  active[j].ebp + 1 + nargs <= STACK
<1>. DEFINE base == active[j].ebp
            above == active[j + 1].ebp
            ret == active[j].eip
            par == Parameters(Fn(eip, active, j - 1))
            args == Parameters(Fn(eip, active, j))
<1>1. /\ active \in Seq(Frames) /\ Len(active) \in Nat
      /\ FrameOK(mem, eip, active, j) /\ CallOK(eip, active, j)
      /\ Fn(eip, active, Len(active)) = "entry"
  BY DEF StackInv, StackOK
<1>2. base \in Nat /\ par \in Nat /\ args \in Nat /\ base + 2 + par <= STACK + 1
  <2>1. active[j] \in Frames
    BY <1>1
  <2>2. base \in Nat
    BY <2>1 DEF Frames
  <2>3. par \in Nat /\ args \in Nat
    BY ParametersNat
  <2>4. base + 2 + par <= STACK + 1
    BY <1>1 DEF FrameOK
  <2>5. QED
    BY <2>2, <2>3, <2>4
<1>3. Fn(eip, active, j) = Function(ret)
  BY DEF Fn
<1>4. nargs = args \/ (Outside(ret) /\ nargs \in 0 .. 6)
  BY <1>3, KernelAssumption DEF Nargs
<1>5. Outside(ret) => ~PlaceOK(ret)
  BY DEF Outside, PlaceOK, Places
<1>6. CASE j = Len(active)
  <2>1. Fn(eip, active, j) = "entry"
    BY <1>1, <1>6
  <2>2. args = 0
    BY <2>1 DEF Parameters, commands
  <2>3. PlaceOK(ret)
    BY <1>1, <2>1 DEF CallOK
  <2>4. nargs = 0
    BY <1>4, <1>5, <2>2, <2>3
  <2>. HIDE DEF base, par
  <2>5. base + 1 + nargs <= STACK
    BY <1>2, <2>4, KernelAssumption
  <2>6. QED
    BY <2>5 DEF base
<1>7. CASE j # Len(active)
  <2>1. j + 1 \in 1 .. Len(active) /\ j + 1 \in j .. Len(active) /\ (j + 1) - 1 = j
    BY <1>1, <1>7
  <2>2. FrameOK(mem, eip, active, j + 1) /\ active[j + 1] \in Frames
    BY <1>1, <2>1 DEF StackInv, StackOK
  <2>3. above + 2 + args <= STACK + 1 /\ above \in Nat
    BY <2>1, <2>2 DEF FrameOK, Frames
  <2>4. base <= above
    BY <1>1, <2>1 DEF FrameOK
  <2>5. base + 2 + par = above - 1
    <3>1. Esp(active, j + 1) = above - 1
      BY <2>1 DEF Esp
    <3>2. QED
      BY <1>1, <3>1 DEF FrameOK
  <2>6. Outside(ret) => par = 3
    BY <1>1, <1>5 DEF CallOK, Parameters
  <2>. HIDE DEF base, above, par, args
  <2>7. base + 1 + nargs <= STACK
    <3>1. CASE nargs = args
      BY <1>2, <2>3, <2>4, <3>1, KernelAssumption
    <3>2. CASE Outside(ret) /\ nargs \in 0 .. 6
      <4>1. above = base + 6
        BY <1>2, <2>3, <2>5, <2>6, <3>2
      <4>2. QED
        BY <1>2, <2>3, <3>2, <4>1, KernelAssumption
    <3>3. QED
      BY <1>4, <3>1, <3>2
  <2>8. QED
    BY <2>7 DEF base
<1>8. QED
  BY <1>6, <1>7

(* The next line is about the next frame.                                  *)
LEMMA LineExact ==
  ASSUME StackInv, NEW j \in 1 .. Len(active), walk = Ebp(active, j),
         NEW nargs \in Nargs(mem[walk + 1])
  PROVE  /\ LineOK(debug_info, active, j, Line(nargs)) /\ Line(nargs) \in Lines
         /\ mem[walk] = Ebp(active, j + 1)
<1>1. active \in Seq(Frames) /\ FrameOK(mem, eip, active, j)
  BY DEF StackInv, StackOK
<1>2. active[j] \in Frames
  BY <1>1
<1>3. walk = active[j].ebp /\ walk \in Nat /\ active[j].eip \in Nat
  BY <1>2 DEF Ebp, Frames
<1>4. mem[walk] = Ebp(active, j + 1) /\ mem[walk + 1] = active[j].eip
  BY <1>1, <1>3 DEF FrameOK
<1>5. Line(nargs) = [ebp |-> walk, eip |-> active[j].eip, args |-> nargs]
  BY <1>4 DEF Line
<1>6. nargs \in Int
  BY <1>4, ParametersNat, KernelAssumption DEF Nargs
<1>7. debug_info => walk + 1 + nargs <= STACK
  BY <1>3, <1>4, ArgumentsFit
<1>8. QED
  BY <1>3, <1>4, <1>5, <1>6, <1>7 DEF LineOK, Lines

LEMMA WalkFrameKeeps ==
  ASSUME StackInv, TraceInv, WalkFrame, debug_info' = debug_info
  PROVE  Stays /\ UNCHANGED panicking /\ TraceInv'
<1>1. Statement(eip).op = "do" /\ Statement(eip).of = "frame"
  BY DEF WalkFrame, Doing, Running
<1>2. Function(eip) = "mon_backtrace" /\ eip % CODE = 3
  BY <1>1, Here DEF StatementOK
<1>3. UNCHANGED panicking
  BY DEF WalkFrame, history, panicking
<1>4. /\ listed \in Seq(Lines) /\ Len(listed) <= Len(active)
      /\ \A j \in 1 .. Len(listed) : LineOK(debug_info, active, j, listed[j])
      /\ walk = Ebp(active, Len(listed) + 1)
  BY <1>2 DEF TraceInv, Tracing
<1>5. Len(listed) \in Nat /\ Len(active) \in Nat
  BY <1>4 DEF StackInv, StackOK
<1>6. CASE More
  <2>1. PICK nargs \in Nargs(mem[walk + 1]) :
        /\ listed' = Append(listed, Line(nargs)) /\ walk' = mem[walk]
        /\ eip' = eip /\ UNCHANGED machine /\ active' = active
    BY <1>6 DEF WalkFrame, machine
  <2>. DEFINE j == Len(listed) + 1
  <2>2. j \in 1 .. Len(active)
    BY <1>4, <1>6 DEF Ebp, More
  <2>3. LineOK(debug_info, active, j, Line(nargs)) /\ Line(nargs) \in Lines /\ mem[walk] = Ebp(active, j + 1)
    BY <1>4, <2>2, LineExact
  <2>4. /\ listed' \in Seq(Lines) /\ Len(listed') = j /\ listed'[j] = Line(nargs)
        /\ \A k \in 1 .. Len(listed) : listed'[k] = listed[k]
    BY <1>4, <2>1, <2>3
  <2>5. \A k \in 1 .. j : k = j \/ k \in 1 .. Len(listed)
    BY <1>5
  <2>6. \A k \in 1 .. Len(listed') : LineOK(debug_info', active', k, listed'[k])
    BY <1>4, <2>1, <2>3, <2>4, <2>5
  <2>7. TraceInv'
    <3>1. Len(listed') <= Len(active') /\ walk' = Ebp(active', Len(listed') + 1)
      BY <2>1, <2>2, <2>3, <2>4
    <3>2. eip' % CODE # 4
      BY <1>2, <2>1
    <3>3. QED
      BY <2>4, <2>6, <3>1, <3>2 DEF TraceInv
  <2>8. QED
    BY <1>3, <2>1, <2>7, Here DEF Stays
<1>7. CASE ~More
  <2>1. UNCHANGED trace /\ Falls
    BY <1>7 DEF WalkFrame
  <2>2. Stays
    BY <1>1, <2>1, FallStays
  <2>3. active' = active /\ listed' = listed /\ walk' = walk /\ walk = 0
    BY <1>7, <2>1 DEF Falls, machine, trace, More
  <2>4. QED
    BY <1>3, <1>4, <2>2, <2>3 DEF TraceInv
<1>8. QED
  BY <1>6, <1>7

-----------------------------------------------------------------------------

CallsInv == StackInv /\ PanicInv /\ TraceInv

LEMMA CallsInvInit == Init => CallsInv
<1>. SUFFICES ASSUME Init PROVE CallsInv
  OBVIOUS
<1>2. StackInv
  BY StackInit
<1>3. PanicInv
  BY DEF Init, PanicInv
<1>4. Function(eip) = "entry"
  <2>1. active = <<>> /\ Fn(eip, active, Len(active)) = "entry"
    BY <1>2 DEF Init, StackInv, StackOK
  <2>2. Len(active) = 0
    BY <2>1
  <2>3. QED
    BY <2>1, <2>2 DEF Fn
<1>5. QED
  BY <1>2, <1>3, <1>4 DEF CallsInv, TraceInv, Tracing

LEMMA CallsInvNext ==
  ASSUME CallsInv, [Next]_vars
  PROVE  CallsInv'
<1>1. StackInv /\ PanicInv /\ TraceInv /\ debug_info' = debug_info
  BY DebugStays DEF CallsInv
<1>2. CASE Quiet
  BY <1>1, <1>2, StayInv, PanicQuiet, TraceQuiet DEF Quiet, CallsInv
<1>3. ASSUME NEW g \in Callable, Pushes(g)
      PROVE  CallsInv'
  <2>1. StackInv' /\ PanicInv' /\ eip' % CODE = 1
    BY <1>1, <1>3, PushInv, PanicPush
  <2>2. QED
    BY <2>1 DEF CallsInv, TraceInv, Tracing
<1>4. CASE Return
  <2>1. StackInv' /\ PanicInv' /\ Function(eip') \notin commands
    BY <1>1, <1>4, PopInv, PanicPop
  <2>2. QED
    BY <2>1 DEF CallsInv, TraceInv, Tracing, commands
<1>5. CASE Panicking
  <2>1. StackInv' /\ PanicInv' /\ Function(eip') = "_panic"
    BY <1>1, <1>5, PanickingStays, StayInv, PanickingKeeps, SameFunction
  <2>2. QED
    BY <2>1 DEF CallsInv, TraceInv, Tracing
<1>6. CASE ReadEbp
  BY <1>1, <1>6, ReadEbpKeeps, StayInv, PanicQuiet DEF CallsInv
<1>7. CASE WalkFrame
  BY <1>1, <1>7, WalkFrameKeeps, StayInv, PanicQuiet DEF CallsInv
<1>8. QED
  BY <1>1, <1>2, <1>3, <1>4, <1>5, <1>6, <1>7, StepKinds

LEMMA CallsInvAlways == Spec => []CallsInv
BY CallsInvInit, CallsInvNext, PTL DEF Spec

(* On a stack of any size, and whatever older calls left on it, mon_back-  *)
(* trace lists the calls in progress and no others; and it reads no        *)
(* argument above the stack if debuginfo_eip finds the functions           *)
(* (monitor.c:59-89, entry.S:71-80).                                       *)
THEOREM BacktraceCorrect == Spec => []BacktraceExact
<1>1. CallsInv => BacktraceExact
  <2>1. SUFFICES ASSUME StackInv, TraceInv, Function(eip) = "mon_backtrace", eip % CODE > 1
                 PROVE  BacktraceExact
    BY DEF CallsInv, BacktraceExact
  <2>2. Tracing
    <3>1. eip % CODE \in 1 .. 4
      BY <2>1, Here DEF StatementOK
    <3>2. QED
      BY <2>1, <3>1 DEF Tracing
  <2>3. /\ listed \in Seq(Lines) /\ Len(listed) <= Len(active)
        /\ \A j \in 1 .. Len(listed) : LineOK(debug_info, active, j, listed[j])
        /\ walk = Ebp(active, Len(listed) + 1)
        /\ eip % CODE = 4 => walk = 0
    BY <2>1, <2>2 DEF TraceInv
  <2>4. DOMAIN listed = 1 .. Len(listed) /\ Len(listed) \in Nat /\ Len(active) \in Nat
    BY <2>1, <2>3 DEF StackInv, StackOK
  <2>5. walk = 0 => Len(listed) = Len(active)
    <3>1. SUFFICES ASSUME walk = 0, Len(listed) # Len(active) PROVE FALSE
      OBVIOUS
    <3>. DEFINE j == Len(listed) + 1
    <3>2. j \in 1 .. Len(active)
      BY <2>3, <2>4, <3>1
    <3>3. active[j].ebp > 1
      BY <2>1, <3>2 DEF StackInv, StackOK, FrameOK
    <3>4. QED
      BY <2>3, <3>1, <3>2, <3>3 DEF Ebp
  <2>6. QED
    BY <2>3, <2>4, <2>5 DEF BacktraceExact, LineOK
<1>2. QED
  BY <1>1, CallsInvAlways, PTL

(* On a stack of any size and with any number of panics, at any place that *)
(* prints: one is announced, and nothing the first interrupted goes on     *)
(* (init.c:45-66).                                                         *)
THEOREM PanicCorrect == Spec => []PanicIsFinal
<1>1. CallsInv => PanicIsFinal
  <2>1. SUFFICES ASSUME StackInv, PanicInv, panicstr PROVE PanicIsFinal
    BY DEF CallsInv, PanicIsFinal
  <2>2. /\ announced = 1 /\ interrupted \in Seq(Frames) /\ Behind >= 1
        /\ \A k \in 1 .. Len(interrupted) : interrupted[k] = active[Behind + k]
        /\ active \in Seq(Frames)
    BY <2>1 DEF PanicInv, StackInv, StackOK
  <2>3. /\ DOMAIN interrupted = 1 .. Len(interrupted) /\ Len(interrupted) \in Nat
        /\ Len(active) \in Nat
    BY <2>2
  <2>4. Len(active) > Len(interrupted)
    BY <2>2, <2>3 DEF Behind
  <2>5. QED
    BY <2>2, <2>3, <2>4 DEF PanicIsFinal, Behind
<1>2. QED
  BY <1>1, CallsInvAlways, PTL

-----------------------------------------------------------------------------
(* Types.                                                                  *)

ValuesInv ==
  /\ OutputTypeOK
  /\ panicstr \in BOOLEAN /\ serial_exists \in BOOLEAN
  /\ debug_info \in BOOLEAN
  /\ npages \in Nat /\ npages_basemem \in 0 .. npages

LEMMA ValuesInit == Init => ValuesInv
<1>. SUFFICES ASSUME Init PROVE ValuesInv
  OBVIOUS
<1>1. OutputTypeOK
  <2>1. POLLS \in Nat /\ OutputInit
    BY PollsAssumption DEF Init
  <2>2. overrun \in [Ports -> BOOLEAN]
    BY <2>1 DEF OutputInit
  <2> QED BY <2>1, <2>2 DEF OutputInit, OutputTypeOK
<1>2. panicstr \in BOOLEAN /\ serial_exists \in BOOLEAN /\ debug_info \in BOOLEAN
  BY DEF Init
<1>3. npages \in Nat /\ npages_basemem \in 0 .. npages
  BY DEF Init
<1> QED BY <1>1, <1>2, <1>3 DEF ValuesInv

(* The ports are polled POLLS times at most.                               *)
LEMMA PrintingTypes ==
  ASSUME OutputTypeOK, OutputStep \/ \E q \in Ports : PortReady(q)
  PROVE  OutputTypeOK'
<1>1. POLLS \in Nat
  BY PollsAssumption
<1>2. CASE cons_putc
  BY <1>1, <1>2 DEF cons_putc, OutputTypeOK, Ports
<1>3. CASE Poll
  <2>1. i + 1 \in 0 .. POLLS
    BY <1>1, <1>3 DEF Poll, GivesUp, OutputTypeOK
  <2> QED BY <1>3, <2>1 DEF Poll, OutputTypeOK
<1>4. CASE Write
  <2>1. (port[at] = "absent") \in BOOLEAN /\ (overrun[at] \/ ~ready[at]) \in BOOLEAN
    OBVIOUS
  <2>2. ready' \in [Ports -> BOOLEAN] /\ overrun' \in [Ports -> BOOLEAN]
    BY <1>4, <2>1 DEF Write, OutputTypeOK
  <2>3. at # "idle" /\ at' \in {"lpt", "cga"} /\ i' = 0 /\ port' = port /\ todo' = todo
    BY <1>4 DEF Write, Ports
  <2> QED BY <1>1, <2>2, <2>3 DEF OutputTypeOK, Ports
<1>5. CASE Show
  BY <1>5 DEF Show, OutputTypeOK
<1>6. CASE \E q \in Ports : PortReady(q)
  BY <1>6 DEF PortReady, OutputTypeOK
<1> QED BY <1>2, <1>3, <1>4, <1>5, <1>6 DEF OutputStep

(* A function prints only when what was printed before is out.             *)
LEMMA KernelPrints ==
  ASSUME OutputTypeOK, KernelStep \/ Fails
  PROVE  OutputTypeOK'
<1>1. UNCHANGED <<port, ready, overrun, i>>
  BY KernelLeavesPorts
<1>2. at' = at /\ (todo' = todo \/ at = "idle")
  <2>1. CASE CallStep \/ Return \/ Loop \/ CprintfStep
    BY <2>1 DEF CallStep, Return, Loop, CprintfStep, Running, Says, output
  <2>2. CASE serial_init \/ NoSerial \/ detect_memory
    BY <2>2 DEF serial_init, NoSerial, detect_memory, Doing, Running, Says, output
  <2>3. CASE Panicking \/ Fails
    BY <2>3 DEF Panicking, Fails, output
  <2>4. CASE Readline \/ Dispatch \/ ReadEbp \/ WalkFrame
    BY <2>4 DEF Readline, Dispatch, ReadEbp, WalkFrame, Doing, Running, Says, output
  <2> QED BY <2>1, <2>2, <2>3, <2>4 DEF KernelStep
<1> QED BY <1>1, <1>2 DEF OutputTypeOK

(* There is at least as much memory as base memory.                        *)
LEMMA DetectTypes ==
  ASSUME detect_memory
  PROVE  npages' \in Nat /\ npages_basemem' \in 0 .. npages'
<1>. DEFINE base(cmos) == (nvram_read(cmos, NVRAM_BASELO) * 1024) \div PGSIZE
            ext(cmos) == (nvram_read(cmos, NVRAM_EXTLO) * 1024) \div PGSIZE
<1>1. PICK cmos \in CmosContents :
        /\ npages_basemem' = base(cmos)
        /\ npages' = IF ext(cmos) # 0 THEN EXTPHYSMEM \div PGSIZE + ext(cmos) ELSE base(cmos)
  BY DEF detect_memory, Pages
<1>2. PGSIZE \in Nat \ {0} /\ EXTPHYSMEM \in Nat /\ cmos \in [21 .. 24 -> 0 .. 255]
  BY KernelAssumption
<1>. DEFINE b == nvram_read(cmos, NVRAM_BASELO) * 1024
            e == nvram_read(cmos, NVRAM_EXTLO) * 1024
<1>3. b \in Nat /\ e \in Nat
  <2>1. \A r \in 21 .. 24 : cmos[r] \in 0 .. 255
    BY <1>2
  <2>2. /\ nvram_read(cmos, NVRAM_BASELO) = cmos[21] + 256 * cmos[22]
        /\ nvram_read(cmos, NVRAM_EXTLO) = cmos[23] + 256 * cmos[24]
    BY DEF nvram_read, NVRAM_BASELO, NVRAM_EXTLO
  <2>3. /\ cmos[21] \in Nat /\ cmos[22] \in Nat /\ cmos[23] \in Nat /\ cmos[24] \in Nat
    BY <2>1
  <2>4. nvram_read(cmos, NVRAM_BASELO) \in Nat /\ nvram_read(cmos, NVRAM_EXTLO) \in Nat
    BY <2>2, <2>3
  <2> QED BY <2>4
<1>4. b <= EXTPHYSMEM
  BY CmosAssumption
<1>5. base(cmos) = b \div PGSIZE /\ ext(cmos) = e \div PGSIZE
  OBVIOUS
<1>. HIDE DEF base, ext, b, e
<1>6. ASSUME NEW x \in Nat
      PROVE  x \div PGSIZE \in Nat /\ PGSIZE * (x \div PGSIZE) <= x
             /\ x < PGSIZE * (x \div PGSIZE) + PGSIZE
  BY <1>2
<1>7. b \div PGSIZE <= EXTPHYSMEM \div PGSIZE
  <2>. DEFINE m == b \div PGSIZE
              n == EXTPHYSMEM \div PGSIZE
  <2>1. /\ m \in Nat /\ n \in Nat /\ PGSIZE * m <= b /\ EXTPHYSMEM < PGSIZE * n + PGSIZE
    BY <1>2, <1>3, <1>6
  <2>. HIDE DEF m, n
  <2>2. ASSUME n < m PROVE FALSE
    <3>1. PGSIZE * n + PGSIZE <= PGSIZE * m
      BY <1>2, <2>1, <2>2
    <3>2. PGSIZE * n \in Nat /\ PGSIZE * m \in Nat
      BY <1>2, <2>1
    <3> QED BY <1>2, <1>3, <1>4, <2>1, <3>1, <3>2
  <2> QED BY <2>1, <2>2 DEF m, n
<1> QED BY <1>1, <1>2, <1>3, <1>5, <1>6, <1>7

LEMMA ValuesNext ==
  ASSUME ValuesInv, [Next]_vars
  PROVE  ValuesInv'
<1>1. OutputTypeOK /\ panicstr \in BOOLEAN /\ serial_exists \in BOOLEAN
      /\ debug_info \in BOOLEAN /\ npages \in Nat /\ npages_basemem \in 0 .. npages
  BY DEF ValuesInv
<1>2. CASE KernelStep \/ Fails
  <2>1. OutputTypeOK'
    BY <1>1, <1>2, KernelPrints
  <2>2. CASE CallStep \/ Return \/ Loop \/ CprintfStep
    BY <1>1, <2>1, <2>2 DEF CallStep, Return, Loop, CprintfStep, memory, ValuesInv
  <2>3. CASE serial_init \/ NoSerial
    <3>1. (port["serial"] # "absent") \in BOOLEAN
      OBVIOUS
    <3> QED BY <1>1, <2>1, <2>3, <3>1 DEF serial_init, NoSerial, memory, ValuesInv
  <2>4. CASE detect_memory
    <3>1. UNCHANGED <<panicstr, serial_exists, debug_info>>
      BY <2>4 DEF detect_memory
    <3> QED BY <1>1, <2>1, <2>4, <3>1, DetectTypes DEF ValuesInv
  <2>5. CASE Panicking \/ Fails
    BY <1>1, <2>1, <2>5 DEF Panicking, Fails, memory, ValuesInv
  <2>6. CASE Readline \/ Dispatch \/ ReadEbp \/ WalkFrame
    BY <1>1, <2>1, <2>6 DEF Readline, Dispatch, ReadEbp, WalkFrame, memory, ValuesInv
  <2> QED BY <1>2, <2>2, <2>3, <2>4, <2>5, <2>6 DEF KernelStep
<1>3. CASE Printing \/ Device
  <2>1. OutputTypeOK'
    BY <1>1, <1>3, PrintingTypes DEF Printing, Device
  <2> QED BY <1>1, <1>3, <2>1 DEF Printing, Device, memory, ValuesInv
<1>4. CASE UNCHANGED vars
  BY <1>1, <1>4 DEF vars, output, memory, ValuesInv, OutputTypeOK
<1> QED BY <1>2, <1>3, <1>4 DEF Next

(* On a stack of any size: the program counter is always at a statement of *)
(* a function, EBP and ESP within the stack and next to each other, and    *)
(* base memory within the memory there is (entry.S:71-80, pmap.c:30-50).   *)
THEOREM TypeCorrect == Spec => []TypeOK
<1>1. StackInv /\ ValuesInv => TypeOK
  <2>. SUFFICES ASSUME StackInv, ValuesInv PROVE TypeOK
    OBVIOUS
  <2>1. /\ Function(eip) \in {Names[j] : j \in DOMAIN Names}
        /\ eip % CODE \in DOMAIN Code[eip \div CODE]
    <3>1. eip \div CODE \in Numbers /\ eip % CODE \in Places(eip \div CODE)
          /\ Function(eip) = Names[eip \div CODE]
      BY Here
    <3>2. DOMAIN Names = Numbers
      BY DEF Names, Numbers
    <3> QED BY <3>1, <3>2 DEF Places
  <2>2. ebp \in 0 .. STACK /\ esp \in 1 .. STACK + 1 /\ (ebp # 0 => esp = ebp - 1)
    <3>1. /\ ebp = Ebp(active, 1) /\ esp = Esp(active, 1) /\ StackOK(mem, eip, active)
          /\ STACK \in Nat
      BY KernelAssumption DEF StackInv
    <3>2. CASE 1 \in 1 .. Len(active)
      <4>. DEFINE b == active[1].ebp
      <4>1. b \in Nat /\ b + 1 <= STACK /\ b > 1
        BY <3>1, <3>2, WithinStack DEF StackOK, FrameOK
      <4>2. ebp = b /\ esp = b - 1
        BY <3>1, <3>2 DEF Ebp, Esp
      <4>. HIDE DEF b
      <4> QED BY <3>1, <4>1, <4>2
    <3>3. CASE 1 \notin 1 .. Len(active)
      BY <3>1, <3>3 DEF Ebp, Esp
    <3> QED BY <3>2, <3>3
  <2> QED BY <2>1, <2>2 DEF TypeOK, StackInv, ValuesInv
<1>2. CallsInv => StackInv
  BY DEF CallsInv
<1> QED BY <1>1, <1>2, CallsInvAlways, ValuesInit, ValuesNext, PTL DEF Spec
=============================================================================
