# A verification project for the teaching kernel

TLA+ modules for the kernel of this repository (a JOS-style x86 kernel at its
first lab: boot loader, console, monitor, symbol lookup, formatted output), the
TLC runs that check them on small instances, and proofs of the central
theorems that TLAPS checks for every value of the constants.

## 1. The system

There is one CPU and one thread. `boot.S` clears the interrupt flag and nothing
ever sets it, so no handler runs by itself: the devices are polled, from inside
`cons_getc`. What is concurrent is the hardware: a byte can reach the serial
port, and a key the keyboard, between any two instructions. What is hard is
therefore (a) polling two devices into one buffer while they run ahead,
(b) decoding a byte stream whose meaning depends on state kept between polls,
(c) static buffers that outlive a command, (d) index arithmetic on rings,
screens, tables, digits and copies whose borders no test reaches, (e) controllers
that take a command in their own time, and (f) a stack that is read back, by
the backtrace, as the compiler left it.

| component | state | operations | what makes it correct | modules |
|---|---|---|---|---|
| console input (`kern/console.c`) | ring buffer `cons`: `buf`, `rpos`, `wpos` | `serial_intr`, `kbd_intr` (through `cons_intr`), `cons_getc`, `getchar` | a FIFO queue while senders keep pace; one well-defined loss when they do not; every byte comes back | `InputQueue`, `ConsoleInput`, `ConsoleInputProofs` |
| keyboard driver (`kern/console.c`) | `shift`: modifiers, locks, E0 escape | `kbd_proc_data` | the character decoded is the one meant; no modifier sticks; reboot exactly on Ctrl-Alt-Del | `Keyboard`, `ConsoleInputProofs` |
| text display (`kern/console.c`) | `crt_buf`, `crt_pos`, cursor registers | `cga_init`, `cga_putc` | behaves as a scrolling terminal; position stays on the screen | `Terminal`, `CgaDisplay`, `OutputProofs` |
| line editor and monitor (`lib/readline.c`, `kern/monitor.c`) | static line buffer, `argv` | `readline`, `runcmd`, `monitor` | what runs is what is shown; bounds; the prompt returns | `Monitor`, `MCMonitor`, `MonitorProofs` |
| symbol search (`kern/kdebug.c`) | the two results, updated in place | `stab_binsearch` | finds the containing stab, in range, and ends | `StabSearch`, `MCStabSearch`, `StabSearchProofs` |
| address lookup (`kern/kdebug.c`) | `struct eip_debuginfo`, the regions found so far | `debuginfo_eip` | file, function and line of an address | `DebugInfo`, `MCDebugInfo`, `DebugInfoProofs` |
| backtrace (`kern/monitor.c`) | the frame pointer | `mon_backtrace` | every call in progress once, innermost first, and an end | `Kernel`, `MCKernel`, `KernelProofs` |
| boot loader (`boot/`) | keyboard controller, line 20, disk registers, memory | `boot.S`, `bootmain`, `readseg`, `readsect` | each segment is in memory when the kernel is entered, whatever sectors it shares | `BootLoader`, `MCBootLoader`, `BootLoaderProofs` |
| kernel entry (`kern/entry.S`, `kern/entrypgdir.c`) | `%cr0`, `%cr3`, `%eip` | the switch to paging | every fetch is mapped | `BootLoader`, `BootLoaderProofs` |
| initialisation, panic (`kern/init.c`) | `panicstr`, the BSS, the boot stack | `i386_init`, `_panic`, `_warn` | static data starts as zero; one message, then the monitor for ever | clearing the BSS: `BootLoader`; the rest: `Kernel`, `KernelProofs` |
| serial and parallel output (`kern/console.c`) | the ports' status | `cons_putc`, `serial_putc`, `lpt_putc`, `serial_init` | a working port loses nothing, a dead one stops nothing | `ConsoleOutput`, `Kernel`, `KernelProofs` |
| formatted output (`lib/printfmt.c`, `kern/printf.c`) | none between calls | `vprintfmt`, `printnum`, `vsnprintf`, `cprintf` | digits, padding, truncation | `PrintFmt`, `MCPrintFmt`, `OutputProofs` |
| string library (`lib/string.c`) | none between calls | `memmove`, `strncpy`, `strtol`, ... | overlap, padding, prefixes | `StringLib`, `MCStringLib`, `StringLibProofs` |
| physical memory manager (`kern/pmap.c`) | free list, reference counts | `page_init`, `page_alloc`, ... | a page is free or in use, never both | measuring the memory: `Kernel`; the rest cannot run, see section 7 |

How they interact: `monitor` calls `readline`, which calls `getchar` for each
key and `cputchar` for each echo. `getchar` spins on `cons_getc`, which polls
the serial port and the keyboard through `cons_intr` and takes one character
from the ring. `cputchar` writes to the serial port, the parallel port and
`cga_putc`. The keyboard's Ctrl-Alt-Del prints and restarts the machine from
inside a poll. `mon_backtrace` walks the frame pointers and asks
`debuginfo_eip` for each return address, which runs `stab_binsearch` three
times, each on the region the previous one found.

At this commit `mem_init` panics (`pmap.c:113`) as soon as it has measured the
memory, so the monitor a user meets is always the one inside `_panic`.

## 2. The modules

**InputQueue** is the abstract specification of console input: `Put`, `Get`,
`GetNone` (specification `Fifo`), and `Overrun`, a character that arrives on a
full queue and empties it (specification `Lossy`).

**ConsoleInput** is the code. `rbr` and `kbdq` are the devices, `buf`, `rpos`
and `wpos` are `struct cons`, `pc` says which loop the CPU is in and `ret` is
the last answer of `cons_getc`. `CallGetc` is a call of `getchar`.
`SerialPoll` and `KbdPoll` are one iteration of the loop of `cons_intr`, with
`Store` its body; `SerialDry` and `KbdDry` are its end, when the device answers
-1. `TakeOne` and `TakeNone` are the rest of `cons_getc`; after `TakeNone`
`getchar` polls again. `SerialArrive` and `KeyArrive` belong to the devices:
with its FIFO off (`serial_init`) the UART holds one byte and a later one
replaces it; the keyboard and its controller hold `KbdDepth` events. A key
event is abstracted to what `kbd_proc_data` answers for it, a character or 0.
The refinement mapping to `InputQueue` is `Pending`, the slots from `rpos` up to
`wpos` round the end of the array; `Capacity` is `CONSBUFSIZE - 1`.

**Keyboard** is `kbd_proc_data`; its `Init`, `Next` and `TypeOK` begin with `Kbd`.
`shift` is its static variable as a set of bits; `Escape`, `Released`, `Pressed`
and `Reboot` are its branches. Fingers press, repeat and release keys (`Press`,
`Release`), and every event puts its bytes on `wire`, with the fake shifts a
keyboard may add around a grey key. Next to each byte `wire` carries `want`, what
the user expects of it, worked out from keys and never from bytes. `seen` holds
the modifiers the driver can know of: a key held since before the boot was never
reported, and a release of one of two twin modifiers clears the flag they share.

**CgaDisplay** is `cga_putc`, one action per case of its switch with the scroll
and the cursor update (`Settle`) that end every call. The tab is `PutTab`
followed by five `TabSpace`, since it calls `cons_putc(' ')` five times; its
own scroll test at the end then finds nothing to do. **Terminal** is what
the display promises: rows and columns, a cursor, lines that move up.

**Monitor** is `readline`, one action per key by the branch it takes (`Erase`,
`Store`, `Enter`, `Ignore`), then `runcmd`, one action per word (`SaveArg`), with
its two exits (`TooMany`, `EndOfLine`) and the lookup, then `monitor`'s loop
(`Prompt`). `screen` is what the display shows behind the prompt: the echo, so
that properties can compare it with what runs. A tab or a line break cannot be
in the buffer, so white space is the space.

**StabSearch** is `stab_binsearch`; a behaviour is one call, an action one
iteration of the outer loop by branch (`NoMatch`, `Below`, `Above`, `Exact`) or
the code after it (`Finish`). `Candidate(m)` is the inner loop's result.
Arithmetic on addresses wraps at `AddrSpace`. The contract it keeps is a little
weaker than its comment: `Contains` is the stab the comment means, `Answer` what
the search may give, that stab or one that a run of stabs one byte apart (`Run`)
leads to from the address.

**DebugInfo** is `debuginfo_eip`, composed of three calls of `StabSearch`, which
it instantiates as `S`: `Start` is the code up to the first search, `SearchStep`
one step of the search that runs, and `FileDone`, `FunDone` and `LineDone` the
code between one search and the next, with its early returns. `lfile`, `rfile`,
`lfun` and `rfun` are the locals that carry a region from one search into the
next. `info` holds, instead of a name or a number, the index of the stab it is
taken from; whether that stab's string offset is inside the string table is an
open choice (`NameOf`). The tables are external: `Layout` and `Placed` say what
gcc and the assembler emit, a header stab, then files, functions, parameters and
lines, with any other stabs (`LSYM` stands for them) between. Lines are counted
from the start of their function, the first one there, the others in order at
any distance, so at the same place or one byte apart too; those of a file without
functions are addresses, the first one somewhere at or behind the file's own,
as the header in `entry.S` has it.
The properties say what the table means by `Single`, the file or function an
address is in unless that is one byte long, and `Reached`, the lines a search may
answer with.

**BootLoader** goes from `bootmain` to the first line of C. The byte at position
b of the kernel's file is the number b. `Command` and `Transfer` are the two
halves of `readsect`, each after its `waitdisk`; `DiskReady` belongs to the
disk. `SegmentDone` is the return of `readseg` into the loop of `bootmain`,
with the ELF check after the first page. `LoadCr3`, `EnablePaging` and
`JumpHigh` are the instructions of `entry.S`, over the tables of
`entrypgdir.c`; `ClearBss` is the `memset` of `i386_init`. `Linked` is what
`kern/kernel.ld` makes of a kernel: see section 4. Before that, `SetA20_1`,
`SetA20_2` and `Protect` are `boot.S`; a disk that is busy takes no command and
gives garbage for data, so each `waitdisk` matters; `kbc` is the keyboard controller, which
takes what it is given in its own time (`Controller`) and, after 0xd1 and 0xdf,
opens address line 20. While that is closed an address with bit 20 set reaches
the memory `MB` below it (`Line`).

**ConsoleOutput** is `cons_putc` on two ports that may be absent, alive or dead.
`Poll` is a turn of the loop of `serial_putc` or `lpt_putc`, `Write` its end with
the byte, in time or given up. **Kernel** extends it with all that calls:
a function is the sequence of its calls, one string of statements
(`entry`, `i386_init`, `_panic`, `monitor`, `mon_backtrace`, ...), and `CallStep`
and `Return` do to the stack `mem` what the compiled code does: arguments,
return address, saved EBP, one local that is not cleared. `Dispatch` is the end of
`runcmd`; `ReadEbp` and `WalkFrame` are `mon_backtrace`, reading that stack and
nothing else. `Fails` is a failing check in any function that prints, at any
point and inside `_panic` too. `active` is a history variable: the calls in
progress as they were made, which the properties compare with the stack.
The words a line of the backtrace prints are counted by `Nargs`: with debug
information (`debug_info`, the check of `kdebug.c:130`) the `Parameters` of the
function the return address is in, as `debuginfo_eip` answers (checked in
`DebugInfo`), and six without. The return address of a call that never returns may
lie behind its function (`End`, `Outside`); then the function that follows is
counted, whichever it is (`NextNargs`).

**PrintFmt** is `vprintfmt`: an action per case of its switch (`Flag`, `Star`,
`Signed`, `String`, ...), per digit of a width or precision (`Digit`, `DigitsDone`)
and per call of `printnum`, which calls itself for the digits in front
(`PrintnumCalls`) until one has none and pads (`PrintnumPads`). A conversion collects
the characters it puts (`todo`), and `Put` hands them one by one to `putch`, the
console's or `sprintputch`. An argument is chosen as `va_arg` takes it, and recorded
in `args` for the properties, with where its escape starts (`start`) and what had
been put by then (`mark`). The numbers keep their widths: `getint` and `getuint` are
the extensions of an argument to a long long. `b_buf` is the pointer of `struct
sprintbuf`, and `Stored` writes wherever it points: a place outside the buffer would
become part of `buf`, which `FmtTypeOK` forbids. Its `Init`, `Next` and `TypeOK` begin
with `Fmt`, so that `OutputProofs` can extend it together with `CgaDisplay`.

**StringLib** is `lib/string.c`. `Memmove` and `Memset` set up a string
instruction as the code does, by overlap and alignment, and `Rep` is one
repetition of it. The other routines are loops over that memory, an action per
turn (`Looks` for the searches and comparisons, `Copies` for the copies), called
within what C allows; `strtol` has an action for a blank, for sign and prefix,
for a digit and for its return.

The `MC` modules give tables, commands, program headers, formats, memories and
machines to TLC.

## 3. The runs

| run | properties | what it shows |
|---|---|---|
| `console_paced` | `RefinesFifo`, `Delivered` | in pace, the console is a FIFO queue and every byte of either device comes back |
| `console_flood` | `TypeOK`, `RefinesLossy` | at any speed, the loss is only the wipe-out of a full ring |
| `stab_search` | `TypeOK`, `FindsContaining`, `NotFoundIsSound`, `Terminates` | the contract the search keeps, on stabs at any distance |
| `keyboard` | `KbdTypeOK`, `NoStuckModifier`, `Decoded` | decoding is right however far it lags |
| `monitor` | `TypeOK`, `RunsWhatIsShown`, `RefusesOnlyLong`, `DelOnlyFirst`, `BackToPrompt` | editing and parsing agree with the screen, over sequences of lines |
| `display` | `TypeOK`, `RefinesTerminal` | the linear buffer is a terminal |
| `debug_info` | `TypeOK`, `RightFunction`, `RightSource`, `CountsParameters`, `FailsOnlyIfAbsent` | the nested searches name the right function, file and parameters, although each starts from what the one before left |
| `debug_line` | `LineIsRight` (violated) | the line number is read from `stabs[rline]`, not from the line found (`kdebug.c:172-178`) |
| `boot` | `TypeOK`, `KernelInPlace`, `StaysMapped`, `Boots` | line 20 is open and the disk ready in time, and loading by whole sectors and the switch to paging leave the kernel as it is in its file |
| `print` | `FmtTypeOK`, `NumbersRight`, `StringsRight`, `UnknownVerbatim`, `SnprintfContract`, `FmtTerminates` | conversions come out right, anything else as it stands, and a buffer of any size gets a string, with nothing stored outside |
| `strings` | `MovesExactly`, `ContractsMet` | copies move what they should and nothing else; searches, comparisons and numbers are right; no loop leaves its operands |
| `kernel` | `TypeOK`, `NothingLost`, `BacktraceExact`, `PanicIsFinal`, `PromptAgain` | the stack, panics and the two ports together: a backtrace is the calls in progress, a panic is final, the prompt returns |

Bounds, and why they are enough:

- `console_*`: a ring of 3 or 4 slots, two characters and NUL, two key events.
  Both positions go round many times, the ring is full, empty, and closed by
  one character too many, from each device. Positions only advance by one and
  wrap, so a larger ring has no new case; the proofs cover every size.
- `stab_search`: five stabs, five addresses, two types; every sorted table,
  every range, every address, the last of all included. Other types are only
  ever skipped, so one stands for all. The proofs cover every size.
- `keyboard`: seven keys: a left shift, both controls (the right one with E0),
  the right alt, CapsLock, a letter and the grey Del. That covers both kinds
  of prefix, make and break, two keys for one modifier, a toggle, a map with
  three columns and Ctrl-Alt-Del. Four bytes wait at most, the longest event
  with its fake shift; the driver may lag behind by several events.
- `monitor`: a buffer of six places and three of argv, two letters, one
  command. A line can be full, have too many words, leading and trailing
  spaces, and be shorter than the one before it.
- `display`: three rows and three columns, any screen and cursor at the start.
  Three rows have a first, a middle and a last line; a tab of five covers more
  than one line and scrolls once or twice.

- `debug_info`: every table of seven stabs with the header first, starting at
  addresses 1 to 3, and every address from 0 to 4 asked for, the user address 0
  included. Seven stabs hold two
  files, two functions, or a function with parameters, an included file and two
  lines, at the same address, one byte apart or more, and two files or functions
  one byte apart, of which the properties claim nothing. `debug_line` needs only six.
- `print`: every format `%` with up to three characters of all cases, and with
  four ending in `s`, `d`, `x` or an unknown one, plus one with text and two
  stars: all pairs of flags, widths, precisions and length modifiers. An int has
  5 bits (`INT_MAX`), a long long 8 (`LLONG_MAX`), with the least and the greatest of each; strings empty,
  null, of three characters with an unprintable one; buffers of 0, 1 and 4, so
  empty, only the NUL, and shorter than most texts. `Numerals` are the numerals
  that occur in those formats, for the properties to look for.
- `strings`: six bytes of three values, words of two bytes: every address, length,
  alignment and overlap. The four letters and digits of `strtol`'s texts come in
  each base, with blanks, signs and prefixes, up to an overflow (`MAXLONG`).
- `kernel`: two polls, as slow a port as is still promised; all nine machines;
  one panic besides that of `mem_init`, so a panic inside a panic, inside a
  command, or between two prints of the first. Two more only repeat that depth.
  A `cprintf` prints one character: more are the same loop. A stack of 50 words is
  never full. Debug information is there or not, and the function behind another
  has no parameters or six.
- `boot`: sectors of two bytes, a header page of two sectors, 16 bytes of memory
  in four pages, every kernel of one or two segments that fits. Segments start
  and end inside a sector, share one, leave gaps, are empty in the file, lie below
  and above address 8 where line 20 counts, and disk and controller are ready or
  busy at any moment.

The runs over `StabSearch`, `DebugInfo`, `PrintFmt`, `StringLib` and `BootLoader`
state CHECK_DEADLOCK FALSE: a call ends; a machine that could not boot spins, and one that could is
in C code that other modules describe.

## 4. Fairness and assumptions

- `console_paced`: weak fairness of the CPU, which runs for ever, and strong
  fairness of `SerialDry` and `KbdDry`: a loop of `cons_intr` that finds its
  device dry again and again leaves in the end. A poll takes microseconds; a
  byte takes about a millisecond at the 9600 baud of `serial_init`, and so does
  a scan code. `PacedArrival` states when input counts as in pace: the bytes
  waiting anywhere leave one slot unused, no byte is sent on top of an unread
  one, no key catches up with the CPU while it drains the keyboard. Without
  these the run `console_flood` applies. A caller that never asks again is not
  excluded by the code but by `CallGetc` being a CPU step: `readline` is called
  for ever.
- `stab_search`: a call runs to its end.
- `display`: the BIOS leaves the cursor on the screen. `cga_init` takes any 16
  bits the display controller holds (`console.c:143-150`) and checks nothing.
- `print`: a call runs to its end. The negation of the least long long
  (`printfmt.c:198`) is a signed overflow, undefined in C; `Magnitude` wraps, as the
  instructions do that gcc makes of it on this machine. A buffer is not null, and a size of 0
  stands for the negative ones, which `vsnprintf` refuses in the same test.
  `WordsAssumption`: the arguments are integers of
  the size they are passed with. `TextAssumption`: formats, strings and messages are
  sequences of characters, none of them NUL, and a numeral of the properties
  does not begin with 0, which is a flag. No caller passes the least int to `%e`,
  nor writes a width beyond an int.
- `kernel`: the CPU goes on, and a port that is alive takes its byte; nothing is
  assumed of a dead one. That the port is ready within `SPEED <= POLLS` polls is
  the assumption `PollsAssumption`: 12800 polls with four delays each take far
  longer than a byte at 9600 baud. Any function that prints may panic: more than the code's
  assertions do.
- `strings`: calls within what C allows: strings end, there is room, and only
  `memmove` is given overlapping operands.
- `boot`: the CPU runs on and the disk and the keyboard controller answer every command.
  `waitdisk` and `seta20` have no timeout, so without the second nothing could be
  promised. Nothing waits for the controller to take the last byte, 0xdf
  (`boot.S:42`): `DiskReady` assumes that it has by the time the disk has
  delivered the kernel's first page, milliseconds later.
  `Linked` is the assumption on the kernel's file: a segment sits at the same
  place of a sector in memory as in the file, because the linker script aligns
  both to pages; two segments share a sector only at the same distance from each
  other in both; the kernel is linked above the scratch page at `ELFHDR`.
- `debug_info`: the table is in the order a compiler or an assembler writes it
  (`Layout`, `Placed`), with a file at least, and nothing starts at the last byte of
  the address space, where the kernel is not; the string table may fail its check.
  Nothing is assumed of the distances of files, functions and lines. The properties
  are silent, though, on addresses in a file or function of one byte: there the code
  takes the next one (section 6), and a function of one byte, a lone `ret`, would be
  reported under its neighbour's name.
- `monitor`: the CPU finishes a command; whether a key ever comes is not
  assumed. `LettersAssumption`: the characters that stand for all ordinary ones
  are none of those `readline` and `runcmd` ask for by name.
- `kernel` also has `CmosAssumption`: the clock chip reports base memory that ends
  below the hole for I/O, as the memory map does (`memlayout.h:86-90`); and no
  function has more than six parameters (`NextNargs`), which the sources confirm.

## 5. What is proved

All theorems hold for every value of the constants that meets the named
assumptions of the modules (a ring of at least two slots; NUL not a character; a
table that is not empty; a blank glyph; those of section 4). TLC evaluates each
assumption in the runs, and checked every inductive invariant below on the run's
instance before it was proved (those of `PrintFmt` on fewer of the run's formats).

- `ConsoleInputProofs!TypeCorrect`: `TypeOK` is inductive.
- `ConsoleInputProofs!ImplementsLossy`: every step of `ConsoleInput` is a step
  or a stutter of `InputQueue!Lossy`. The heart is three lemmas about the
  window of a ring: `WindowStore` (storing appends, or, if that closes the ring,
  empties), `WindowTake` (taking removes the head), `WindowEmpty`.
- `ConsoleInputProofs!ImplementsFifo`: under `PacedSafe` no step is an
  `Overrun`. The invariant `InPace` counts what waits in the ring and in both
  devices; it is inductive only because a poll moves a byte from a device to the
  ring and so keeps the sum.
- `ConsoleInputProofs!KbdTypeCorrect`, `ConsoleInputProofs!NoStuckCorrect` and
  `ConsoleInputProofs!DecodedCorrect`, for any of the keys of `Keyboard`'s table and a
  wire of any length. What a byte says depends on what was sent before it, and what
  a user means by it on the keys at the time; `WireInv` joins the two: if the driver read all that waits, `shift` would go through states
  in which each byte says what its sender meant (`Understood`), to one that agrees
  with the keys (`Agrees`). `PressAgrees`, `PressSays` and `ReleaseAgrees` are the tables, key
  by key; `FakeAgrees` is why a fake shift leaves no trace; `UnderstoodBoth` and
  `UnderstoodTail` are the two ends of the wire. A reboot forgets the wire.
- `StabSearchProofs!TypeCorrect`, by `TypeOK`, inductive: it includes
  `l <= r + 1`.
- `StabSearchProofs!NotFoundCorrect`. The invariant `Unmatched` says that while
  there was no match, all that was left behind has no stab of the type.
- `StabSearchProofs!FindsCorrect`, for stabs at any distance. The invariant relates
  the containing stab to the four indices: every matching stab left of `l` is one
  the results already account for, every one right of `r` starts after the address
  (`Brackets`), and `addr` was only raised past addresses at which a stab starts
  (`SeenExact`), which is the run the answer may have moved along.
- `DebugInfoProofs`, all five properties of `debuginfo_eip` for tables of every
  size: `TypeCorrect`, `RightFunctionCorrect`, `RightSourceCorrect`,
  `CountsParametersCorrect`, `FailsOnlyIfAbsentCorrect`. The module instantiates
  `StabSearchProofs` and takes the contract of one search from it: `FoundReached` for
  the line, and `Found` for a file or a function of more than one byte, away from
  which no run leads (`ReachedSingle`). The
  work is to show that each of the three calls is one the contract covers.
  `TypeCorrect` holds for every address, one-byte files and functions included.
  `FileSearch`, `FunSearch` and `LineSearch` say which search runs, `FileRight` and
  `FunRight` that the region it was given is that of the file or the function, if
  the address has one. Only within a function's region are lines in order
  (`LinesSorted`) and parameters without a gap (`FunctionRegion`). `Counted` and
  `PastFirst` are for addresses that have none: a range begins with a stab of
  another type, so a result can be the stab it begins with but never the one
  before, and no index becomes negative.
- `OutputProofs!TypeCorrect`: the position is on the screen after every
  call. It needs `DivMod` for the newline and one scroll to be enough.
- `OutputProofs!ImplementsTerminal`: the display refines `Terminal`. `Euclid`,
  `CellOf` and `Place` make rows and columns and cells of the buffer one-to-one;
  `LinesWrite` and `LinesScroll` carry a write and the scroll over; then each
  case of the switch ends in `MoveTo`, a place on the screen, or `MoveDown`, the
  start of the next line, scrolled or not. `TypeOK` is all the invariant it needs.
- `OutputProofs!FmtTypeCorrect`: for every format and argument, the format is read only
  up to its NUL and nothing is stored outside the buffer: `buf` has still the places
  it was given, and `b_buf` is one of them. `FmtTypeOK` is not inductive without `ReadInv`: an escape that is
  being read has its `%` behind, so going back for an unknown one (`printfmt.c:240`)
  finds it.
- `OutputProofs!SnprintfCorrect`. `BufferInv` says at every moment what the buffer holds
  of the text: its beginning, as far as there are places before the last, with the
  count going on behind that. A step puts one character or none (`SinkKinds`).
- `OutputProofs!VerbatimCorrect`. `VerbatimInv`: in a format without a conversion
  what was put is the format as read so far, less the escape being read; all that
  follows the `%` is read a second time, as text.
- `OutputProofs!StringsCorrect` and `OutputProofs!NumbersCorrect`: the documented
  conversions, for numerals of any length as width and precision, stars, every
  argument and every size of the two words. The properties speak of the escape when
  it is complete. `ParseInv` speaks of every beginning of one: whatever flag, width,
  precision and `l` it can be read as (`Opening`), the variables hold what they
  mean. It is inductive because an opening one character longer ends in exactly one of
  seven ways (`OpeningLast`), each read by one action. `NumberInv` follows `printnum`
  down its recursion: `num` with the digits that wait behind it always stands for
  the number to be printed, and `width` with their count for the field.
  `SignedIs`, `UnsignedIs` and `PointerIs` are the arithmetic of negative
  arguments, the least one included; `PadsField` and `StringField` are the fields.
  `Value` is a recursive function. `Horner` generalises it to start from any number,
  so that a digit can be added at either end (`HornerAppend`, for a width that is
  read; `HornerCons`, for a number that is divided). That such a function exists
  for every numeral (`HornerExists`) needs no induction theorem: a shortest
  numeral without one is impossible, by `WFMin`.

- `StringLibProofs!MovesCorrect`: `memmove` and `memset`, for every memory and word
  size. The invariant: what lies behind the moving edge (`Stored`) holds its final
  value, and what lies before it is still as at the call wherever the source has
  yet to be read; `OneUnit` is why a unit read whole before it is stored does no
  harm however the operands overlap.
- `StringLibProofs!ContractsKept`: every other routine, for every memory, string, size
  and text. Half of `ContractsMet` speaks of the return (`Fulfilled`); the invariants
  speak of every turn:
  `SearchInv`, what was looked for is not among the bytes passed; `CompareInv`, those
  of both operands are the same, with no NUL among them; `CopyInv`, memory is as at
  the call but for the bytes written, which are the source's. The last is
  inductive because the operands are apart: the byte read is one of the call
  (`SourceByte`). What the order of two sequences is at a first difference
  (`BytesOrder`) or at the end of one (`PrefixOrders`), and what a string is
  behind another (`CopiedAfter`), turns these into the contracts. `NumberInv`
  says which blanks, sign and prefix `strtol` has read (`Heading`) and has a table of the
  values of the digits so far, one longer with each turn (`TableGrows`); `ValueIs`:
  such a table gives the value.
  The other half (`Inside`) follows from them as well (`InBounds`): every pointer that
  is about to be followed lies in memory, and in `strtol` at or before the NUL.
- `StringLibProofs!StringTypeCorrect`: the types, by the same invariants. No run checks
  this `TypeOK` apart from its part `Inside`; `mem` stays a memory because every byte
  stored is one read inside it (`Reaches`).
- `MonitorProofs!TypeCorrect` and `MonitorProofs!DelOnlyFirstCorrect`: for every
  size of line and argument vector, every index `readline` and `runcmd` use is within
  them. `Terminated`, a NUL ahead of `p` while `runcmd` parses, makes its two loops
  end (`ScanFinds`), and leaves it true for the next argument (`GobbleKeeps`).
- `MonitorProofs!RunsWhatIsShownCorrect` and `MonitorProofs!RefusesOnlyLongCorrect`.
  The invariant follows the line from the screen into `argv`: `Edited`, the
  buffer is what the screen shows while it is typed; `Parsed`, the words before `p`
  have their pointers, in order and one each, and a NUL behind them, and from `p` on
  the buffer is still the screen; `Ended` and `Judged`, what that comes to at the
  last word and at the lookup. `ArgumentIsWord` then reads an argument off the
  buffer. What an earlier, longer line left in the buffer lies behind the NUL and
  is not in the invariant, which is the point.
- `BootLoaderProofs!MappedCorrect`. `LineInv` follows the two bytes through the
  controller to the first sector of a segment, by which time the line is open;
  `EntryInv` the three instructions of the switch; `PhysIdentity` is the page table.
- `BootLoaderProofs!KernelInPlaceCorrect` and `BootLoaderProofs!TypeCorrect`.
  `KernelInPlace` speaks of the moment C is entered; `LoadedInv` says of every moment
  before that every byte of the parts read so far is in place, and `ReadInv` that
  the sector asked for is the one that belongs to the address it goes to. The step
  that could break it is `Transfer`, which writes a whole sector whatever is
  there: `Harmless` shows that where it reaches back into an earlier segment it
  brings the very bytes that one has there, because `Linked` keeps the distance of
  two segments that share a sector. `ClearBssKeeps` is the `memset` of `i386_init`.
- `KernelProofs!TypeCorrect`, from `StackInv` below and `ValuesInv`, the values that
  functions print and the memory they measure (`DetectTypes`).
- `KernelProofs!NothingLostCorrect`. `OutputInv` adds that an absent port
  always reads as ready: then giving up on a port that is not ready means that
  it is dead, as a live one would have been ready after `SPEED` polls.
- `KernelProofs!BacktraceCorrect` and `KernelProofs!PanicCorrect`, for a stack of
  any size, any number of panics and any frames already returned from. `BacktraceExact`
  and `PanicIsFinal` say nothing of the words on the stack, so `StackInv` adds them:
  every frame lies where its call put it, right below the caller's frame and its
  arguments, still holds the caller's EBP and return address, and whatever may
  return returns to a statement (`StackOK`). `CodeOK` collects what the functions'
  bodies have in common, and `StepKinds` sorts the steps: one stays in its function,
  pushes a frame (`PushKeeps`) or pops one (`PopKeeps`). On top of it `TraceInv` has
  the frame that is next (`LineExact`), with room for the arguments printed because
  the frame of the function they are counted for lies above, or, for six behind a
  call of `_panic`, the caller's whole frame (`ArgumentsFit`), and `PanicInv` has the
  `_panic` that announced right inside what it interrupted: it never returns
  (`PanicPop`).

Only model-checked:

- liveness (`Delivered`, `Terminates`, `FmtTerminates`, `BackToPrompt`, `Boots`, `PromptAgain`):
  fairness and ENABLED are beyond the prover.

Every safety property of a passing run is proved. Induction over data is beyond the
prover too; where a property speaks of what a loop computes (`printnum`, widths,
`lib/string.c`), the model takes the loop a turn at a time, and the invariant is the
induction.

## 6. What the code does that a reader may not expect

- The 512th unread character discards all 512 (`console.c:387-389`), and
  `cons_getc` then answers 0 although `console.c:393` says "0 if none waiting".
- A second byte that reaches the UART before the first is polled replaces it: a loss
  outside the ring, of which the driver sees nothing.
- With Ctrl down the grey Home key gives nothing: `ctlmap` has it at 0x97
  where the other maps have 0xC7 (`console.c:288`).
- Releasing one of two shift keys ends the shift although the other is still
  down (`console.c:325`).
- CapsLock toggles again on every repeat of a key that is held.
- 7F at the start of a line is stored as a character (`readline.c:25`).
- A search below the first matching stab answers with the range unchanged on
  its left (`kdebug.c:88-92`), so left <= right, where the comment, lines 34-35, has
  left > right.
- An exact match raises the address, and a stab that starts there is taken for an
  exact match too (`kdebug.c:80`): an address that is a whole line, `push %ebp` or
  `leave`, is reported with the line behind it, or the last of several such lines;
  a function or file of one byte is reported as the next one. The comment of
  the search has it find "the single stab entry" that contains the address
  (`kdebug.c:21-22`); `FindsContaining` and `RightSource` say how far from that the
  answer can go.
- A backtrace reports the line of the last stab before the next line: with an
  included file or locals between, the number of another kind of stab
  (`kdebug.c:178`).
- An address of a file below that file's first function gets the file's own
  stab as its function, a consequence of the search leaving its range unchanged.
- `readseg` rounds both ends of a segment to sectors and overwrites what is
  there (`main.c:72-95`). It is harmless only because of how the kernel is
  linked.
- A line of exactly 16 words is refused with a message that 16 are allowed
  (`monitor.c:114-115`).
- `cprintf` returns 0: its `putch` does `*cnt++`, which moves its own pointer
  (`printf.c:14`).
- A number with the flag `-` is padded on the left, with `-` (`printfmt.c:46`);
  a sign stands before the padding; `%.0s` takes the 0 for a flag and shows
  the whole string; an error number without a message, `E_NO_SYS`, prints as one.
  Padding and a field width work for `%s` too, on either side, although
  `printfmt.c:14-15` has them "for the numeric formats only"; `StringsRight` is
  what the case of `%s` does (`printfmt.c:176-191`).
- `strchr(s, 0)` is null; `strtol("0x")` reads the prefix alone and leaves
  `endptr` behind it; overflow of a long is not noticed, as its comment says.
- A backtrace prints as many words of a callee's arguments as its caller has
  parameters (`monitor.c:75-84`): the return address is in the caller. Where the
  address has no debug information it prints six words (`monitor.c:76-79`), for the
  frames at the top of the stack from above `bootstacktop`; `BacktraceExact` bounds
  the words only with debug information.
- The return address of a call that never returns may lie behind its function, as
  that of the `_panic` in `mem_init` can: the backtrace then names the function that
  follows and counts its parameters.
- A panic that interrupts another one before the message is out leaves
  it unfinished; the monitor starts afresh, deeper on the same stack.

## 7. Not modelled

- The physical memory manager beyond `i386_detect_memory`: `mem_init` panics before
  it is reached, and `boot_alloc`, `page_init`, `page_alloc` and `page_free` are
  stubs of an exercise; its two checks would test code that is not there.
- The headers: constants (`mmu.h`, `memlayout.h`) and one instruction per wrapper
  (`x86.h`), each part of the action that uses it. `mc146818_write` and `_warn` have
  no caller.
- The text of messages and commands, and scripts and makefiles.
- How gcc passes arguments in registers inside one file (`-O1`) and lays out more
  than one local: `Frame` has all arguments and one local on the stack.

## 8. Plan

Every component that runs at this commit is modelled. What remains:

1. The composition of `Keyboard` with `ConsoleInput`, and of `Monitor` with
   `InputQueue`.
2. The memory manager, as soon as it is written.
