---------------------------- MODULE ConsoleInput ----------------------------
(***************************************************************************)
(* Console input of kern/console.c: the circular buffer `cons`, the poll   *)
(* routine cons_intr that fills it from the serial port and from the       *)
(* keyboard, cons_getc that polls both and takes one character, and the    *)
(* loop of getchar around it.                                              *)
(*                                                                         *)
(* The kernel runs with interrupts off (boot.S clears them and nothing     *)
(* sets them again), so the buffer is filled only from inside cons_getc.   *)
(* The devices run beside the CPU: a byte may arrive between any two       *)
(* polls.  One action is one iteration of a loop of the code.              *)
(***************************************************************************)
EXTENDS Naturals, Sequences

CONSTANTS
  CONSBUFSIZE,   \* slots of the circular buffer
  Chars,         \* the characters a device may produce (all non-zero)
  NUL,           \* the byte 0
  KbdDepth       \* events the keyboard and its controller can hold

ASSUME SizeAssumption == CONSBUFSIZE \in Nat /\ CONSBUFSIZE >= 2
ASSUME NulAssumption == NUL \notin Chars
ASSUME DepthAssumption == KbdDepth \in Nat \ {0}

VARIABLES
  rbr,           \* the receive register of the UART: at most one byte
  kbdq,          \* what kbd_proc_data will answer for the events that wait
  serial_exists, \* found by serial_init
  buf, rpos, wpos, \* struct cons
  pc,            \* where the CPU is: "run" outside getchar, "serial" and
                 \* "kbd" in the loop of cons_intr, "take" after both polls
  ret            \* the last answer of cons_getc

cons == <<buf, rpos, wpos>>
devices == <<rbr, kbdq>>
vars == <<rbr, kbdq, serial_exists, buf, rpos, wpos, pc, ret>>

Bytes == Chars \union {NUL}
Slots == 0 .. CONSBUFSIZE - 1

-----------------------------------------------------------------------------
(* The buffer as the reader sees it: the slots from r up to w, around the  *)
(* end of the array.                                                       *)

Distance(r, w) == IF r <= w THEN w - r ELSE w + CONSBUFSIZE - r

SlotAt(r, k) == IF r + k < CONSBUFSIZE THEN r + k ELSE r + k - CONSBUFSIZE

Window(b, r, w) == [i \in 1 .. Distance(r, w) |-> b[SlotAt(r, i - 1)]]

Outstanding == Distance(rpos, wpos)

Pending == Window(buf, rpos, wpos)

-----------------------------------------------------------------------------

Init ==
  /\ rbr = <<>>
  /\ kbdq = <<>>
  /\ serial_exists \in BOOLEAN
  /\ buf = [i \in Slots |-> NUL]
  /\ rpos = 0
  /\ wpos = 0
  /\ pc = "run"
  /\ ret = NUL

(* Devices.  With its FIFO off the UART has room for one byte and a byte   *)
(* that nobody fetched in time is replaced by the next.                    *)
SerialArrive(c) ==
  /\ serial_exists
  /\ rbr' = <<c>>
  /\ UNCHANGED <<kbdq, serial_exists, cons, pc, ret>>

(* A key event.  One that completes no character (a modifier, a release,   *)
(* an E0 prefix) makes kbd_proc_data answer 0.                             *)
KeyArrive(c) ==
  /\ Len(kbdq) < KbdDepth
  /\ kbdq' = Append(kbdq, c)
  /\ UNCHANGED <<rbr, serial_exists, cons, pc, ret>>

-----------------------------------------------------------------------------

(* Mutant: the position never wraps.                                       *)
AdvanceStraight(p) == p + 1

Advance(p) == IF p + 1 = CONSBUFSIZE THEN 0 ELSE p + 1

(* Mutants: the slot after the one at wpos is written; 0 is stored.        *)
StoreAhead(c) ==
  IF c = NUL THEN UNCHANGED cons
  ELSE /\ buf' = [buf EXCEPT ![Advance(wpos)] = c]
       /\ wpos' = Advance(wpos)
       /\ UNCHANGED rpos

StoreAlsoNul(c) ==
  /\ buf' = [buf EXCEPT ![wpos] = c]
  /\ wpos' = Advance(wpos)
  /\ UNCHANGED rpos

(* The body of the loop of cons_intr for one answer of proc: 0 is skipped, *)
(* anything else is stored.  Whether there is room is not asked.           *)
Store(c) ==
  IF c = NUL THEN UNCHANGED cons
  ELSE /\ buf' = [buf EXCEPT ![wpos] = c]
       /\ wpos' = Advance(wpos)
       /\ UNCHANGED rpos

CallGetc ==
  /\ pc = "run"
  /\ pc' = "serial"
  /\ UNCHANGED <<devices, serial_exists, cons, ret>>

SerialPoll ==
  /\ pc = "serial" /\ serial_exists /\ rbr # <<>>
  /\ Store(Head(rbr))
  /\ rbr' = <<>>
  /\ UNCHANGED <<kbdq, serial_exists, pc, ret>>

(* Mutant: the keyboard is not polled while the buffer has a character.    *)
SerialDryShortcut ==
  /\ pc = "serial" /\ (serial_exists => rbr = <<>>)
  /\ pc' = IF rpos # wpos THEN "take" ELSE "kbd"
  /\ UNCHANGED <<devices, serial_exists, cons, ret>>

SerialDry ==
  /\ pc = "serial" /\ (serial_exists => rbr = <<>>)
  /\ pc' = "kbd"
  /\ UNCHANGED <<devices, serial_exists, cons, ret>>

KbdPoll ==
  /\ pc = "kbd" /\ kbdq # <<>>
  /\ Store(Head(kbdq))
  /\ kbdq' = Tail(kbdq)
  /\ UNCHANGED <<rbr, serial_exists, pc, ret>>

KbdDry ==
  /\ pc = "kbd" /\ kbdq = <<>>
  /\ pc' = "take"
  /\ UNCHANGED <<devices, serial_exists, cons, ret>>

TakeOne ==
  /\ pc = "take" /\ rpos # wpos
  /\ ret' = buf[rpos]
  /\ rpos' = Advance(rpos)
  /\ pc' = "run"
  /\ UNCHANGED <<devices, serial_exists, buf, wpos>>

(* Nothing waits: cons_getc answers 0 and getchar calls it again.          *)
TakeNone ==
  /\ pc = "take" /\ rpos = wpos
  /\ ret' = NUL
  /\ pc' = "serial"
  /\ UNCHANGED <<devices, serial_exists, cons>>

-----------------------------------------------------------------------------

Cpu == CallGetc \/ SerialPoll \/ SerialDry \/ KbdPoll \/ KbdDry
         \/ TakeOne \/ TakeNone

Arrival == \E c \in Bytes : SerialArrive(c) \/ KeyArrive(c)

Next == Cpu \/ Arrival

(* Input at any speed.                                                     *)
Spec == Init /\ [][Next]_vars

(* Input whose sender stays within the buffer: the bytes that wait anywhere *)
(* leave a slot unused, no byte is sent on top of an unread one, and a key *)
(* event does not catch up with the CPU while it is draining the keyboard. *)
InFlight == Outstanding + Len(rbr) + Len(kbdq)

PacedArrival ==
  /\ InFlight < CONSBUFSIZE - 1
  /\ \E c \in Bytes :
       \/ rbr = <<>> /\ SerialArrive(c)
       \/ (pc = "kbd" => kbdq = <<>>) /\ KeyArrive(c)

PacedNext == Cpu \/ PacedArrival

PacedSafe == Init /\ [][PacedNext]_vars

(* The CPU never stops: WF.  A loop of cons_intr that finds its device dry *)
(* again and again leaves in the end: SF.  A poll takes microseconds and a *)
(* byte at 9600 baud, or a scan code, about a millisecond, so a device     *)
(* does not slip a byte in before every single poll.                       *)
Fairness == WF_vars(Cpu) /\ SF_vars(SerialDry) /\ SF_vars(KbdDry)

PacedSpec == PacedSafe /\ Fairness

-----------------------------------------------------------------------------

TypeOK ==
  /\ rbr \in Seq(Bytes) /\ Len(rbr) <= 1
  /\ kbdq \in Seq(Bytes)
  /\ serial_exists \in BOOLEAN
  /\ buf \in [Slots -> Bytes]
  /\ rpos \in Slots
  /\ wpos \in Slots
  /\ pc \in {"run", "serial", "kbd", "take"}
  /\ ret \in Bytes

Q == INSTANCE InputQueue
       WITH Capacity <- CONSBUFSIZE - 1, queue <- Pending, got <- ret

(* At any input speed the console is the lossy queue: characters come out  *)
(* in the order cons_intr stored them, none twice and none invented, a 0   *)
(* never takes a slot, and the only loss is the wipe-out by the byte that  *)
(* closes the ring (console.c:385-389 and 405-412).                        *)
RefinesLossy == Q!Lossy

(* Input that stays within the buffer is never lost or reordered between   *)
(* cons_intr (console.c:380) and the caller of cons_getc (console.c:394).  *)
RefinesFifo == Q!Fifo

(* End to end, in pace: a byte the UART received and a key the keyboard    *)
(* reported come back from getchar, however the other device behaves.      *)
Delivered ==
  \A c \in Chars :
    /\ (rbr = <<c>>) ~> (pc = "run" /\ ret = c)
    /\ (kbdq # <<>> /\ kbdq[Len(kbdq)] = c) ~> (pc = "run" /\ ret = c)
=============================================================================
