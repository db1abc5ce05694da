------------------------------- MODULE Kernel -------------------------------
(***************************************************************************)
(* The kernel's C code as calls on the boot stack: i386_init, mem_init and *)
(* _panic (kern/init.c, kern/pmap.c), the monitor and its commands         *)
(* (kern/monitor.c), and what they print, through ConsoleOutput.           *)
(*                                                                         *)
(* A function is the sequence of its calls; everything on the stack is a   *)
(* number: a saved EBP is a place of the stack, and a return address is    *)
(* CODE times the number of a function, plus the place in its sequence.    *)
(***************************************************************************)
EXTENDS ConsoleOutput, FiniteSets

CONSTANTS
  STACK,       \* words of the boot stack, 1 to STACK from its low end
  MaxPanics,   \* bound on the panics besides the one in mem_init
  NextNargs,   \* what debuginfo_eip counts for a function that lies behind another
  CmosContents, PGSIZE, EXTPHYSMEM

ASSUME KernelAssumption ==
  /\ STACK \in Nat /\ MaxPanics \in Nat
  /\ NextNargs \subseteq 0 .. 6
  /\ PGSIZE \in Nat \ {0} /\ EXTPHYSMEM \in Nat
  /\ CmosContents \subseteq [21 .. 24 -> 0 .. 255]

CODE == 100

VARIABLES
  eip, ebp, esp, mem,
  panicstr,                \* whether it is set
  serial_exists,
  npages, npages_basemem,
  debug_info,              \* the image has a string table: kdebug.c:130 passes
  walk, listed,            \* mon_backtrace: its ebp, the lines printed
  active,                  \* history: the calls in progress, innermost first
  panics, announced, interrupted
                           \* history: panics besides mem_init's, panics
                           \* printed, the calls active at the first panic

memory == <<npages, npages_basemem, debug_info>>
trace == <<walk, listed>>
history == <<panics, announced, interrupted>>
vars == <<output, eip, ebp, esp, mem, panicstr, serial_exists, memory, trace,
          active, history>>

-----------------------------------------------------------------------------
(* The functions.                                                          *)

Call(g) == [op |-> "call", of |-> g]
Cprintf == [op |-> "print", of |-> "none"]
Do(what) == [op |-> "do", of |-> what]
Ret == [op |-> "ret", of |-> "none"]
Again(place) == [op |-> "again", of |-> place]

entry == <<Call("i386_init"), Again(2)>>
i386_init == <<Call("cons_init"), Call("mem_init"), Call("monitor"), Again(3)>>
cons_init == <<Do("serial_init"), Do("serial_missing"), Ret>>
(* What comes behind the panic of mem_init is never reached.               *)
mem_init == <<Call("i386_detect_memory"), Call("_panic")>>
i386_detect_memory == <<Do("detect"), Cprintf, Ret>>
(* Mutant: the machine stops instead.                                      *)
_panicSpins == <<Do("panicstr"), Cprintf, Cprintf, Cprintf, Again(5)>>

_panic == <<Do("panicstr"), Cprintf, Cprintf, Cprintf, Call("monitor"), Again(5)>>
(* No command returns a negative number.                                   *)
monitor == <<Cprintf, Cprintf, Do("readline"), Call("runcmd"), Again(3)>>
runcmd == <<Do("dispatch"), Ret>>
mon_help == <<Cprintf, Ret>>
mon_kerninfo == <<Cprintf, Ret>>
mon_backtrace == <<Do("read_ebp"), Cprintf, Do("frame"), Ret>>

commands == {"mon_help", "mon_kerninfo", "mon_backtrace"}

Names == <<"entry", "i386_init", "cons_init", "mem_init", "i386_detect_memory",
           "_panic", "monitor", "runcmd", "mon_help", "mon_kerninfo", "mon_backtrace">>
Code == <<entry, i386_init, cons_init, mem_init, i386_detect_memory,
          _panic, monitor, runcmd, mon_help, mon_kerninfo, mon_backtrace>>

Number(f) == CHOOSE j \in DOMAIN Names : Names[j] = f
Function(a) == Names[a \div CODE]
Statement(a) == Code[a \div CODE][a % CODE]

(* The parameters, and so the words of a call's arguments.                 *)
Parameters(f) ==
  CASE f = "_panic" -> 3
    [] f = "monitor" -> 1
    [] f = "runcmd" -> 2
    [] f \in commands -> 3
    [] OTHER -> 0

Init ==
  /\ OutputInit
  /\ eip = CODE * Number("entry") + 1
  /\ ebp = 0 /\ esp = STACK + 1
  /\ mem = [a \in 1 .. STACK |-> 0]
  /\ panicstr = FALSE /\ serial_exists = FALSE
  /\ npages = 0 /\ npages_basemem = 0 /\ debug_info \in BOOLEAN
  /\ walk = 0 /\ listed = <<>>
  /\ active = <<>> /\ panics = 0 /\ announced = 0 /\ interrupted = <<>>

-----------------------------------------------------------------------------
(* Calls and returns.                                                      *)

Running(op) == at = "idle" /\ todo = <<>> /\ Statement(eip).op = op
Doing(what) == Running("do") /\ Statement(eip).of = what

(* The caller pushes arguments and return address, the callee pushes EBP   *)
(* and makes room for a local variable, which it does not clear.           *)
Frame(g, ret) ==
  LET base == esp - Parameters(g) - 2
  IN /\ base > 1
     /\ mem' = [a \in 1 .. STACK |-> CASE a = base -> ebp
                                       [] a = base + 1 -> ret
                                       [] a \in base + 2 .. esp - 1 -> -1
                                       [] OTHER -> mem[a]]
     /\ ebp' = base /\ esp' = base - 1
     /\ eip' = CODE * Number(g) + 1
     /\ active' = <<[ebp |-> base, eip |-> ret]>> \o active

CallStep ==
  /\ Running("call")
  /\ Frame(Statement(eip).of, eip + 1)
  /\ UNCHANGED <<output, panicstr, serial_exists, memory, trace, history>>

(* The caller takes the arguments off again, and a function's locals end   *)
(* with it.                                                                *)
Return ==
  /\ Running("ret")
  /\ esp' = ebp + 2 + Parameters(Function(eip))
  /\ eip' = mem[ebp + 1]
  /\ ebp' = mem[ebp]
  /\ active' = Tail(active)
  /\ walk' = 0 /\ listed' = <<>>
  /\ UNCHANGED <<output, mem, panicstr, serial_exists, memory, history>>

Loop ==
  /\ Running("again")
  /\ eip' = CODE * (eip \div CODE) + Statement(eip).of
  /\ UNCHANGED <<output, ebp, esp, mem, panicstr, serial_exists, memory, trace,
                 active, history>>

machine == <<ebp, esp, mem, active>>
Goes(place) == eip' = CODE * (eip \div CODE) + place /\ UNCHANGED machine
Falls == eip' = eip + 1 /\ UNCHANGED machine
Says == todo' = <<"line">> /\ UNCHANGED <<port, ready, overrun, at, i>>

CprintfStep ==
  /\ Running("print")
  /\ Says /\ Falls
  /\ UNCHANGED <<panicstr, serial_exists, memory, trace, history>>

-----------------------------------------------------------------------------
(* Initialisation.                                                         *)

(* An absent port's status reads 0xFF.                                     *)
serial_init ==
  /\ Doing("serial_init")
  /\ serial_exists' = (port["serial"] # "absent")
  /\ Falls
  /\ UNCHANGED <<output, panicstr, memory, trace, history>>

NoSerial ==
  /\ Doing("serial_missing")
  /\ IF serial_exists THEN UNCHANGED output ELSE Says
  /\ Falls
  /\ UNCHANGED <<panicstr, serial_exists, memory, trace, history>>

(* nvram_read: a number of kilobytes, in two registers of the clock chip.  *)
nvram_read(cmos, r) == cmos[r] + 256 * cmos[r + 1]
NVRAM_BASELO == 21
NVRAM_EXTLO == 23

(* Base memory lies below the hole for I/O, which EXTPHYSMEM ends          *)
(* (memlayout.h:86-90).                                                    *)
ASSUME CmosAssumption ==
  \A cmos \in CmosContents : nvram_read(cmos, NVRAM_BASELO) * 1024 <= EXTPHYSMEM

(* Mutant: a machine without extended memory is forgotten.                 *)
PagesIfExtended(basemem, extmem) ==
  IF extmem # 0 THEN EXTPHYSMEM \div PGSIZE + extmem ELSE npages

(* if (npages_extmem) ... else ...                                         *)
Pages(basemem, extmem) ==
  IF extmem # 0 THEN EXTPHYSMEM \div PGSIZE + extmem ELSE basemem

detect_memory ==
  /\ Doing("detect")
  /\ \E cmos \in CmosContents :
       LET basemem == (nvram_read(cmos, NVRAM_BASELO) * 1024) \div PGSIZE
           extmem == (nvram_read(cmos, NVRAM_EXTLO) * 1024) \div PGSIZE
       IN npages_basemem' = basemem /\ npages' = Pages(basemem, extmem)
  /\ Falls
  /\ UNCHANGED <<output, panicstr, serial_exists, debug_info, trace, history>>

-----------------------------------------------------------------------------
(* Panics.                                                                 *)

(* A call that does not return may be the last thing in its function: the  *)
(* return address then lies behind all of it.                              *)
End(a) == CODE * (a \div CODE) + Len(Code[a \div CODE]) + 1
Outside(a) == a % CODE \notin DOMAIN Code[a \div CODE]

(* An assertion or a check fails: any function that prints may be the one, *)
(* also while it prints, and _panic itself.                                *)
Fails ==
  /\ at = "idle" /\ panics < MaxPanics
  /\ Function(eip) \notin {"entry", "i386_init", "cons_init"}
  /\ panics' = panics + 1
  /\ Frame("_panic", End(eip))
  /\ todo' = <<>>
  /\ UNCHANGED <<port, ready, overrun, at, i, panicstr, serial_exists, memory,
                 trace, announced, interrupted>>

(* Mutant: the flag is not looked at.                                      *)
DeadNever == FALSE

(* if (panicstr) goto dead                                                 *)
Dead == panicstr

Panicking ==
  /\ Doing("panicstr")
  /\ IF Dead THEN Goes(5) /\ UNCHANGED <<panicstr, history>>
     ELSE /\ Falls
          /\ panicstr' = TRUE
          /\ announced' = announced + 1
          /\ interrupted' = Tail(active)
          /\ UNCHANGED panics
  /\ UNCHANGED <<output, serial_exists, memory, trace>>

-----------------------------------------------------------------------------
(* The monitor.                                                            *)

(* The prompt; what is typed, and its echo, are Monitor's.                 *)
Readline ==
  /\ Doing("readline")
  /\ Says /\ Falls
  /\ UNCHANGED <<panicstr, serial_exists, memory, trace, history>>

(* Nothing typed, a complaint about what was typed, or a command.          *)
Dispatch ==
  /\ Doing("dispatch")
  /\ \/ Falls /\ (Says \/ UNCHANGED output)
     \/ (\E c \in commands : Frame(c, eip + 1)) /\ UNCHANGED output
  /\ UNCHANGED <<panicstr, serial_exists, memory, trace, history>>

ReadEbp ==
  /\ Doing("read_ebp")
  /\ walk' = ebp /\ listed' = <<>>
  /\ Falls
  /\ UNCHANGED <<output, panicstr, serial_exists, memory, history>>

(* Mutant: the frame that ends the chain is left out.                      *)
MoreBeforeLast == walk # 0 /\ mem[walk] # 0

(* while (ebp)                                                             *)
More == walk # 0

(* How many words a line prints: as many as the function that holds the    *)
(* return address has parameters, which for an address behind the last     *)
(* function's code is the one that follows; six where debuginfo_eip fails. *)
Nargs(a) ==
  IF ~debug_info THEN {6}
  ELSE {Parameters(Function(a))} \union (IF Outside(a) THEN NextNargs ELSE {})

(* One line: the return address, and the words behind it.                  *)
Line(nargs) == [ebp |-> walk, eip |-> mem[walk + 1], args |-> nargs]

WalkFrame ==
  /\ Doing("frame")
  /\ IF More
       THEN /\ \E nargs \in Nargs(mem[walk + 1]) : listed' = Append(listed, Line(nargs))
            /\ walk' = mem[walk]
            /\ Says /\ UNCHANGED <<eip, machine>>
       ELSE Falls /\ UNCHANGED <<output, trace>>
  /\ UNCHANGED <<panicstr, serial_exists, memory, history>>

-----------------------------------------------------------------------------

KernelStep ==
  \/ CallStep \/ Return \/ Loop \/ CprintfStep
  \/ serial_init \/ NoSerial \/ detect_memory
  \/ Panicking \/ Readline \/ Dispatch \/ ReadEbp \/ WalkFrame

Printing ==
  /\ OutputStep
  /\ UNCHANGED <<eip, machine, panicstr, serial_exists, memory, trace, history>>

Device ==
  /\ \E q \in Ports : PortReady(q)
  /\ UNCHANGED <<eip, machine, panicstr, serial_exists, memory, trace, history>>

Next == KernelStep \/ Printing \/ Fails \/ Device

Spec == Init /\ [][Next]_vars

(* The CPU goes on, and a port that is alive takes its byte; a dead one    *)
(* never has to.                                                           *)
FairSpec == Spec /\ WF_vars(KernelStep \/ Printing) /\ WF_vars(Device)

-----------------------------------------------------------------------------

(* Types, the stack pointer right below the frame, base memory within the  *)
(* memory there is.                                                        *)
TypeOK ==
  /\ OutputTypeOK
  /\ Function(eip) \in {Names[j] : j \in DOMAIN Names}
  /\ eip % CODE \in DOMAIN Code[eip \div CODE]
  /\ ebp \in 0 .. STACK /\ esp \in 1 .. STACK + 1
  /\ ebp # 0 => esp = ebp - 1
  /\ mem \in [1 .. STACK -> Int]
  /\ panicstr \in BOOLEAN /\ serial_exists \in BOOLEAN
  /\ debug_info \in BOOLEAN
  /\ npages_basemem \in 0 .. npages

(* A backtrace lists the calls in progress, the innermost first, all of    *)
(* them, and no others: what older calls left on the stack is not taken    *)
(* for a frame.  With debug information no argument it prints lies above   *)
(* the stack, although it counts them by the caller and reads them at the  *)
(* callee (monitor.c:59-89, entry.S:71-80).                                *)
BacktraceExact ==
  Function(eip) = "mon_backtrace" /\ eip % CODE > 1 =>
    /\ Len(listed) <= Len(active)
    /\ \A j \in DOMAIN listed : /\ listed[j].ebp = active[j].ebp
                                /\ listed[j].eip = active[j].eip
                                /\ debug_info =>
                                     listed[j].ebp + 1 + listed[j].args <= STACK
    /\ eip % CODE = 4 => Len(listed) = Len(active)

(* However many panics there are, and even while one is being printed,     *)
(* one is announced, and what the first one interrupted never runs again   *)
(* (init.c:45-66).                                                         *)
PanicIsFinal ==
  panicstr =>
    /\ announced = 1
    /\ Len(active) > Len(interrupted)
    /\ \A k \in DOMAIN interrupted :
         interrupted[k] = active[Len(active) - Len(interrupted) + k]

(* The monitor always comes back to its prompt, with ports that never get  *)
(* ready and after every panic (init.c:62-65, console.c:66, 110).          *)
PromptAgain == []<>Doing("readline")
=============================================================================
