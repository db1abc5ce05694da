------------------------------ MODULE Keyboard ------------------------------
(***************************************************************************)
(* The keyboard driver of kern/console.c: kbd_proc_data turns scan codes   *)
(* into characters, keeping in `shift` which modifiers it believes down,   *)
(* which locks are on and whether the last byte was an E0 escape.          *)
(*                                                                         *)
(* The keyboard is the environment: fingers press, hold and release keys,  *)
(* and it sends the bytes of each event.  With every byte the model        *)
(* carries what a user expects of it (`want`), worked out from the keys    *)
(* and never from the bytes, to compare with what the driver answers.      *)
(*                                                                         *)
(* The driver serves the loop of ConsoleInput.  The names of the usual     *)
(* definitions begin with Kbd so that one module can extend both.          *)
(***************************************************************************)
EXTENDS Naturals, Sequences

CONSTANTS
  Keys,     \* the keys in use, a subset of AllKeys
  WireCap   \* bytes the keyboard and its controller can hold

VARIABLES
  held,     \* keys that are down
  seen,     \* modifier keys pressed since boot, since when neither they nor
            \* their twin on the other side were released
  caps,     \* whether CapsLock was pressed an odd number of times since boot
  wire,     \* bytes that wait for the driver
  shift     \* the driver's static variable, as the set of its bits

kbdvars == <<held, seen, caps, wire, shift>>

-----------------------------------------------------------------------------
(* The keyboard.                                                           *)

(* Scan code, and whether the key sends the E0 prefix.                     *)
Scan ==
  [ LSHIFT |-> [code |-> \h2A, e0 |-> FALSE],
    RSHIFT |-> [code |-> \h36, e0 |-> FALSE],
    LCTL   |-> [code |-> \h1D, e0 |-> FALSE],
    RCTL   |-> [code |-> \h1D, e0 |-> TRUE],
    LALT   |-> [code |-> \h38, e0 |-> FALSE],
    RALT   |-> [code |-> \h38, e0 |-> TRUE],
    CAPS   |-> [code |-> \h3A, e0 |-> FALSE],
    A      |-> [code |-> \h1E, e0 |-> FALSE],
    ONE    |-> [code |-> \h02, e0 |-> FALSE],
    KPDEL  |-> [code |-> \h53, e0 |-> FALSE],
    DEL    |-> [code |-> \h53, e0 |-> TRUE] ]

AllKeys == DOMAIN Scan

ASSUME KeysAssumption == Keys \subseteq AllKeys /\ WireCap \in Nat

KeysOf == [ SHIFT |-> {"LSHIFT", "RSHIFT"},
            CTL   |-> {"LCTL", "RCTL"},
            ALT   |-> {"LALT", "RALT"} ]

Modifiers == DOMAIN KeysOf

Twins(k) == UNION { KeysOf[m] : m \in {n \in Modifiers : k \in KeysOf[n]} }

(* What a press of k means to the user who has the keys of s down.         *)
Meaning(k, s, c) ==
  LET down(m) == s \intersect KeysOf[m] # {}
  IN CASE k = "A"     -> IF down("CTL") THEN "^A"
                         ELSE IF down("SHIFT") # c THEN "A" ELSE "a"
       [] k = "ONE"   -> IF down("CTL") THEN "NO"
                         ELSE IF down("SHIFT") THEN "!" ELSE "1"
       [] k = "KPDEL" -> IF down("CTL") THEN "NO" ELSE "."
       [] k = "DEL"   -> IF down("CTL") /\ down("ALT") THEN "REBOOT"
                         ELSE "KEY_DEL"
       [] OTHER       -> "NO"

(* The bytes of an event; only its last byte completes it.                 *)
Event(k, byte, want) ==
  (IF Scan[k].e0 THEN <<[byte |-> \hE0, want |-> "NO"]>> ELSE <<>>)
    \o <<[byte |-> byte, want |-> want]>>

(* Around the grey keys a keyboard may send a shift the user never made:   *)
(* E0 2A before a press, E0 AA after a release.                            *)
Fake(byte) == <<[byte |-> \hE0, want |-> "NO"], [byte |-> byte, want |-> "NO"]>>

Fakes(k, byte) == {<<>>} \union (IF k = "DEL" THEN {Fake(byte)} ELSE {})

Send(bytes) ==
  /\ Len(wire) + Len(bytes) <= WireCap
  /\ wire' = wire \o bytes

(* A press, or the repeat of a key that stays down.                        *)
Press(k) ==
  /\ held' = held \union {k}
  /\ seen' = seen \union ({k} \intersect Twins(k))
  /\ caps' = IF k = "CAPS" THEN ~caps ELSE caps
  /\ \E fake \in Fakes(k, \h2A) :
       Send(fake \o Event(k, Scan[k].code, Meaning(k, seen, caps)))
  /\ UNCHANGED shift

Release(k) ==
  /\ k \in held
  /\ held' = held \ {k}
  /\ seen' = seen \ Twins(k)
  /\ \E fake \in Fakes(k, \hAA) :
       Send(Event(k, Scan[k].code + \h80, "NO") \o fake)
  /\ UNCHANGED <<caps, shift>>

-----------------------------------------------------------------------------
(* The driver.                                                             *)

shiftcode(data) ==
  CASE data \in {\h1D, \h9D} -> {"CTL"}
    [] data \in {\h2A, \h36} -> {"SHIFT"}
    [] data \in {\h38, \hB8} -> {"ALT"}
    [] OTHER -> {}

(* Mutant: two rows of the table are swapped.                              *)
togglecodeSwapped(data) ==
  CASE data = \h45 -> {"CAPSLOCK"}
    [] data = \h3A -> {"NUMLOCK"}
    [] data = \h46 -> {"SCROLLLOCK"}
    [] OTHER -> {}

togglecode(data) ==
  CASE data = \h3A -> {"CAPSLOCK"}
    [] data = \h45 -> {"NUMLOCK"}
    [] data = \h46 -> {"SCROLLLOCK"}
    [] OTHER -> {}

(* The rows of the maps for the keys in use.                               *)
normalmap(data) ==
  CASE data = \h1E -> "a" [] data = \h02 -> "1" [] data = \h53 -> "."
    [] data = \hD3 -> "KEY_DEL" [] OTHER -> "NO"

shiftmap(data) ==
  CASE data = \h1E -> "A" [] data = \h02 -> "!" [] data = \h53 -> "."
    [] data = \hD3 -> "KEY_DEL" [] OTHER -> "NO"

ctlmap(data) ==
  CASE data = \h1E -> "^A" [] data = \hD3 -> "KEY_DEL" [] OTHER -> "NO"

charcode(s, data) ==
  IF "CTL" \in s THEN ctlmap(data)
  ELSE IF "SHIFT" \in s THEN shiftmap(data) ELSE normalmap(data)

SwapCase(c) == CASE c = "a" -> "A" [] c = "A" -> "a" [] OTHER -> c

KbdInit ==
  /\ held \in SUBSET Keys      \* fingers may rest on keys at boot
  /\ seen = {}
  /\ caps = FALSE
  /\ wire = <<>>
  /\ shift = {}

Data == Head(wire).byte

ReadByte ==
  /\ wire' = Tail(wire)
  /\ UNCHANGED <<held, seen, caps>>

Escape ==
  /\ wire # <<>> /\ Data = \hE0
  /\ shift' = shift \union {"E0ESC"}
  /\ ReadByte

(* Mutants: the high bit of a release is kept, or dropped, whether or not  *)
(* an escape came before.                                                  *)
ReleasedKeeps ==
  /\ wire # <<>> /\ Data # \hE0 /\ Data >= \h80
  /\ shift' = shift \ (shiftcode(Data) \union {"E0ESC"})
  /\ ReadByte

ReleasedDrops ==
  /\ wire # <<>> /\ Data # \hE0 /\ Data >= \h80
  /\ shift' = shift \ (shiftcode(Data - \h80) \union {"E0ESC"})
  /\ ReadByte

Released ==
  /\ wire # <<>> /\ Data # \hE0 /\ Data >= \h80
  /\ LET data == IF "E0ESC" \in shift THEN Data ELSE Data - \h80
     IN shift' = shift \ (shiftcode(data) \union {"E0ESC"})
  /\ ReadByte

(* The state of `shift`, and the character, after a key went down.         *)
MakeShift(data) ==
  LET s == (shift \ {"E0ESC"}) \union shiftcode(data)
      t == togglecode(data)
  IN (s \ t) \union (t \ s)

MakeCode == IF "E0ESC" \in shift THEN Data + \h80 ELSE Data

MakeChar ==
  LET s == MakeShift(MakeCode)
      c == charcode(s, MakeCode)
  IN IF "CAPSLOCK" \in s THEN SwapCase(c) ELSE c

CtrlAltDel ==
  /\ {"CTL", "ALT"} \subseteq MakeShift(MakeCode)
  /\ MakeChar = "KEY_DEL"

Pressed ==
  /\ wire # <<>> /\ Data < \h80 /\ ~CtrlAltDel
  /\ shift' = MakeShift(MakeCode)
  /\ ReadByte

(* The write to port 92 restarts the machine: the driver's state is zeroed *)
(* and nothing sent before is read, but keys stay where they are.          *)
Reboot ==
  /\ wire # <<>> /\ Data < \h80 /\ CtrlAltDel
  /\ shift' = {}
  /\ wire' = <<>>
  /\ seen' = {} /\ caps' = FALSE
  /\ UNCHANGED held

kbd_proc_data == Escape \/ Released \/ Pressed \/ Reboot

KbdNext == kbd_proc_data \/ \E k \in Keys : Press(k) \/ Release(k)

KbdSpec == KbdInit /\ [][KbdNext]_kbdvars

-----------------------------------------------------------------------------

KbdTypeOK ==
  /\ held \subseteq Keys
  /\ seen \subseteq held
  /\ caps \in BOOLEAN
  /\ Len(wire) <= WireCap
  /\ \A i \in 1 .. Len(wire) : wire[i].byte \in 0 .. 255
  /\ shift \subseteq {"SHIFT", "CTL", "ALT", "CAPSLOCK", "E0ESC"}

(* Once the driver has read all that was sent, no modifier sticks: a       *)
(* modifier it believes down has a key that is down, whichever of the two  *)
(* keys was used, in any overlap with the E0 keys and their fake shifts    *)
(* (console.c:318-334).                                                    *)
NoStuckModifier ==
  wire = <<>> => \A m \in Modifiers :
                   m \in shift => held \intersect KeysOf[m] # {}

(* What each byte gives is what the user meant when sending it, however    *)
(* far the driver lags behind the fingers: the right character in the      *)
(* right case, one per press, and a reboot exactly on Ctrl-Alt-Del         *)
(* (console.c:336-351).                                                    *)
Decoded ==
  [][ /\ Escape \/ Released => Head(wire).want = "NO"
      /\ Pressed => Head(wire).want = MakeChar
      /\ Reboot => Head(wire).want = "REBOOT" ]_kbdvars
=============================================================================
