--------------------------- MODULE ConsoleOutput ---------------------------
(***************************************************************************)
(* Console output: cons_putc of kern/console.c puts each character on the  *)
(* serial port, then on the parallel port, then on the display.  Both      *)
(* ports are waited for, but only so long: serial_putc and lpt_putc poll   *)
(* the status POLLS times and then write anyway.                           *)
(*                                                                         *)
(* A port may be absent, when its status reads as all ones and so as       *)
(* ready; alive, when it is ready again at most SPEED polls after a byte;  *)
(* or dead, when it never is.                                              *)
(***************************************************************************)
EXTENDS Integers, Sequences

CONSTANTS POLLS, SPEED, Machines

Ports == {"serial", "lpt"}

ASSUME PollsAssumption == POLLS \in Nat /\ SPEED \in 0 .. POLLS
ASSUME MachinesAssumption ==
  /\ Machines \subseteq [Ports -> {"absent", "alive", "dead"}]
  /\ Machines # {}

VARIABLES
  port,       \* what each port is
  ready,      \* its status bit
  overrun,    \* a byte was written to it before it had taken the one before
  todo,       \* what is still to be printed
  at,         \* where cons_putc is: "idle", "serial", "lpt" or "cga"
  i           \* polls of the port it is at

output == <<port, ready, overrun, todo, at, i>>

OutputInit ==
  /\ port \in Machines
  /\ ready \in [Ports -> BOOLEAN]
  /\ \A q \in Ports : port[q] = "absent" => ready[q]
  /\ overrun = [q \in Ports |-> FALSE]
  /\ todo = <<>> /\ at = "idle" /\ i = 0

-----------------------------------------------------------------------------

(* cputchar of the next character: cons_putc starts with the serial port.  *)
cons_putc ==
  /\ at = "idle" /\ todo # <<>>
  /\ at' = "serial"
  /\ i' = 0
  /\ UNCHANGED <<port, ready, overrun, todo>>

(* Mutant: one poll too few.                                               *)
GivesUpEarly == i + 1 >= POLLS

(* i < 12800 does not hold.                                                *)
GivesUp == i >= POLLS

(* The status is read as not ready.                                        *)
Busy == ~ready[at] /\ (port[at] = "alive" => i < SPEED)

(* Another delay() before another poll.                                    *)
Poll ==
  /\ at \in Ports /\ Busy /\ ~GivesUp
  /\ i' = i + 1
  /\ UNCHANGED <<port, ready, overrun, todo, at>>

(* The byte is written (and, for the parallel port, strobed).              *)
Write ==
  /\ at \in Ports /\ (ready[at] \/ (Busy /\ GivesUp))
  /\ overrun' = [overrun EXCEPT ![at] = @ \/ ~ready[at]]
  /\ ready' = [ready EXCEPT ![at] = port[at] = "absent"]
  /\ at' = IF at = "serial" THEN "lpt" ELSE "cga"
  /\ i' = 0
  /\ UNCHANGED <<port, todo>>

(* cga_putc is CgaDisplay's; here it takes the character.                  *)
Show ==
  /\ at = "cga"
  /\ todo' = Tail(todo)
  /\ at' = "idle"
  /\ UNCHANGED <<port, ready, overrun, i>>

OutputStep == cons_putc \/ Poll \/ Write \/ Show

(* A port has taken its byte.                                              *)
PortReady(q) ==
  /\ port[q] = "alive" /\ ~ready[q]
  /\ ready' = [ready EXCEPT ![q] = TRUE]
  /\ UNCHANGED <<port, overrun, todo, at, i>>

-----------------------------------------------------------------------------

OutputTypeOK ==
  /\ port \in Machines
  /\ ready \in [Ports -> BOOLEAN] /\ overrun \in [Ports -> BOOLEAN]
  /\ at \in Ports \union {"idle", "cga"}
  /\ i \in 0 .. POLLS
  /\ at # "idle" => todo # <<>>

(* Nothing is lost on a port that works: waiting POLLS times is enough for *)
(* every port that is ready within so many polls, with the first byte and  *)
(* with the next (console.c:66-71, 110-114).                               *)
NothingLost == \A q \in Ports : overrun[q] => port[q] = "dead"
=============================================================================
