------------------------- MODULE ConsoleInputProofs -------------------------
(***************************************************************************)
(* The input side of kern/console.c.                                       *)
(*                                                                         *)
(* ConsoleInput for every buffer size: its type invariant, and that it     *)
(* implements the lossy queue at any input speed and the lossless queue in *)
(* pace.  The buffer between rpos and wpos is read as a sequence (Window), *)
(* the lemmas say what a store and a take do to it.                        *)
(*                                                                         *)
(* Then Keyboard, the driver that fills it, for any keys and a wire of any *)
(* length: it decodes what was meant, and no modifier sticks.  Both rest   *)
(* on WireInv: reading all the bytes on the wire would take `shift`        *)
(* through states in which each byte says what its sender meant, to one    *)
(* that agrees with the keys pressed since boot.                           *)
(***************************************************************************)
EXTENDS ConsoleInput, Keyboard, SequenceTheorems, TLAPS

LEMMA AdvanceType == ASSUME NEW p \in Slots PROVE Advance(p) \in Slots
  BY SizeAssumption DEF Advance, Slots

LEMMA StoreType ==
  ASSUME TypeOK, NEW c \in Bytes, Store(c)
  PROVE  buf' \in [Slots -> Bytes] /\ rpos' \in Slots /\ wpos' \in Slots
  <1>1. CASE c = NUL
    BY <1>1 DEF Store, cons, TypeOK
  <1>2. CASE c # NUL
    BY <1>2, AdvanceType DEF Store, TypeOK
  <1>3. QED
    BY <1>1, <1>2

LEMMA TypeStep == TypeOK /\ [Next]_vars => TypeOK'
  <1> SUFFICES ASSUME TypeOK, [Next]_vars PROVE TypeOK'
    OBVIOUS
  <1>1. ASSUME NEW c \in Bytes, SerialArrive(c) PROVE TypeOK'
    BY <1>1 DEF SerialArrive, TypeOK, cons
  <1>2. ASSUME NEW c \in Bytes, KeyArrive(c) PROVE TypeOK'
    BY <1>2 DEF KeyArrive, TypeOK, cons
  <1>3. CASE CallGetc
    BY <1>3 DEF CallGetc, TypeOK, cons, devices
  <1>4. CASE SerialPoll
    <2>1. Head(rbr) \in Bytes
      BY <1>4 DEF SerialPoll, TypeOK
    <2>2. QED
      BY <1>4, <2>1, StoreType DEF SerialPoll, TypeOK
  <1>5. CASE SerialDry
    BY <1>5 DEF SerialDry, TypeOK, cons, devices
  <1>6. CASE KbdPoll
    <2>1. Head(kbdq) \in Bytes /\ Tail(kbdq) \in Seq(Bytes)
      BY <1>6 DEF KbdPoll, TypeOK
    <2>2. QED
      BY <1>6, <2>1, StoreType DEF KbdPoll, TypeOK
  <1>7. CASE KbdDry
    BY <1>7 DEF KbdDry, TypeOK, cons, devices
  <1>8. CASE TakeOne
    BY <1>8, AdvanceType DEF TakeOne, TypeOK, devices
  <1>9. CASE TakeNone
    BY <1>9 DEF TakeNone, TypeOK, cons, devices, Bytes
  <1>10. CASE UNCHANGED vars
    BY <1>10 DEF vars, TypeOK
  <1>11. QED
    BY <1>1, <1>2, <1>3, <1>4, <1>5, <1>6, <1>7, <1>8, <1>9, <1>10
       DEF Next, Cpu, Arrival

LEMMA InitType == Init => TypeOK
  BY SizeAssumption DEF Init, TypeOK, Slots, Bytes

(* The variables of the input path keep their types for every buffer size, *)
(* so no index of cons.buf is ever out of bounds.                          *)
THEOREM TypeCorrect == Spec => []TypeOK
  BY InitType, TypeStep, PTL DEF Spec

-----------------------------------------------------------------------------
(* The window between two positions is a sequence as long as they are      *)
(* apart; it is empty exactly when they are equal.                         *)
LEMMA DistanceBound ==
  ASSUME NEW r \in Slots, NEW w \in Slots
  PROVE  /\ Distance(r, w) \in Slots
         /\ Distance(r, w) = 0 <=> r = w
  BY SizeAssumption DEF Distance, Slots

LEMMA WindowSeq ==
  ASSUME NEW b \in [Slots -> Bytes], NEW r \in Slots, NEW w \in Slots
  PROVE  /\ Window(b, r, w) \in Seq(Bytes)
         /\ Len(Window(b, r, w)) = Distance(r, w)
         /\ \A i \in 1 .. Distance(r, w) :
              Window(b, r, w)[i] = b[SlotAt(r, i - 1)]
  <1>1. \A i \in 1 .. Distance(r, w) : SlotAt(r, i - 1) \in Slots
    BY SizeAssumption DEF SlotAt, Distance, Slots
  <1>2. Distance(r, w) \in Nat
    BY DistanceBound, SizeAssumption DEF Slots
  <1>3. QED
    BY <1>1, <1>2 DEF Window

LEMMA WindowEmpty ==
  ASSUME NEW b \in [Slots -> Bytes], NEW r \in Slots, NEW w \in Slots
  PROVE  Window(b, r, w) = <<>> <=> r = w
  <1>1. Window(b, r, w) \in Seq(Bytes) /\ Len(Window(b, r, w)) = Distance(r, w)
    BY WindowSeq
  <1>2. Window(b, r, w) = <<>> <=> Len(Window(b, r, w)) = 0
    BY <1>1, EmptySeq
  <1>3. QED
    BY <1>1, <1>2, DistanceBound

(* Storing a byte at w appends it to the window if there is room and       *)
(* empties the window if there is none.                                    *)
LEMMA WindowStore ==
  ASSUME NEW b \in [Slots -> Bytes], NEW r \in Slots, NEW w \in Slots,
         NEW c \in Bytes
  PROVE  LET next == Window([b EXCEPT ![w] = c], r, Advance(w))
         IN  IF Distance(r, w) < CONSBUFSIZE - 1
               THEN next = Append(Window(b, r, w), c)
               ELSE next = <<>>
  <1> DEFINE n == Distance(r, w)
             b2 == [b EXCEPT ![w] = c]
             w2 == Advance(w)
             old == Window(b, r, w)
             next == Window(b2, r, w2)
  <1>1. b2 \in [Slots -> Bytes] /\ w2 \in Slots /\ b2[w] = c
    BY AdvanceType
  <1>2. n \in 0 .. CONSBUFSIZE - 1
    BY DistanceBound DEF Slots
  <1>3. CASE ~(n < CONSBUFSIZE - 1)
    <2>1. r = w2
      BY <1>3, SizeAssumption DEF Distance, Advance, Slots
    <2>2. next = <<>>
      BY <1>1, <2>1, WindowEmpty
    <2>3. QED
      BY <1>3, <2>2
  <1>4. CASE n < CONSBUFSIZE - 1
    <2>1. Distance(r, w2) = n + 1
      BY <1>4, SizeAssumption DEF Distance, Advance, Slots
    <2>2. /\ next \in Seq(Bytes)
          /\ Len(next) = n + 1
          /\ \A i \in 1 .. n + 1 : next[i] = b2[SlotAt(r, i - 1)]
      <3> HIDE DEF b2, w2, n
      <3>1. /\ Window(b2, r, w2) \in Seq(Bytes)
            /\ Len(Window(b2, r, w2)) = Distance(r, w2)
            /\ \A i \in 1 .. Distance(r, w2) :
                 Window(b2, r, w2)[i] = b2[SlotAt(r, i - 1)]
        BY <1>1, WindowSeq
      <3>2. QED
        BY <2>1, <3>1
    <2>3. /\ old \in Seq(Bytes)
          /\ Len(old) = n
          /\ \A i \in 1 .. n : old[i] = b[SlotAt(r, i - 1)]
      BY WindowSeq
    <2>4. /\ Append(old, c) \in Seq(Bytes)
          /\ Len(Append(old, c)) = n + 1
          /\ \A i \in 1 .. n : Append(old, c)[i] = old[i]
          /\ Append(old, c)[n + 1] = c
      <3> HIDE DEF old, n
      <3>1. QED
        BY <2>3, AppendProperties
    <2>5. \A i \in 1 .. n : SlotAt(r, i - 1) # w /\ SlotAt(r, i - 1) \in Slots
      BY SizeAssumption DEF SlotAt, Distance, Slots
    <2>6. SlotAt(r, n) = w
      BY SizeAssumption DEF SlotAt, Distance, Slots
    <2>7. \A i \in 1 .. n : b2[SlotAt(r, i - 1)] = b[SlotAt(r, i - 1)]
      BY <2>5
    <2> HIDE DEF next, old, n, b2, w2
    <2>8. \A i \in 1 .. n + 1 : next[i] = Append(old, c)[i]
      <3> TAKE i \in 1 .. n + 1
      <3>1. CASE i = n + 1
        <4>1. i - 1 = n
          BY <1>2, <3>1
        <4>2. QED
          BY <1>1, <2>2, <2>4, <2>6, <3>1, <4>1
      <3>2. CASE i # n + 1
        <4>1. i \in 1 .. n
          BY <1>2, <3>2
        <4>2. QED
          BY <2>2, <2>3, <2>4, <2>7, <4>1
      <3>3. QED
        BY <3>1, <3>2
    <2>9. next = Append(old, c)
      BY <2>2, <2>4, <2>8, SeqEqual
    <2>10. QED
      BY <1>4, <2>9 DEF next, old, n, b2, w2
  <1>5. QED
    BY <1>3, <1>4

(* Taking the byte at r removes the head of the window.                    *)
LEMMA WindowTake ==
  ASSUME NEW b \in [Slots -> Bytes], NEW r \in Slots, NEW w \in Slots,
         r # w
  PROVE  /\ Head(Window(b, r, w)) = b[r]
         /\ Window(b, Advance(r), w) = Tail(Window(b, r, w))
  <1> DEFINE old == Window(b, r, w)
             next == Window(b, Advance(r), w)
  <1>1. Advance(r) \in Slots
    BY AdvanceType
  <1>2. /\ Distance(r, w) \in Nat \ {0}
        /\ Distance(Advance(r), w) = Distance(r, w) - 1
    BY SizeAssumption DEF Distance, Advance, Slots
  <1>3. /\ old \in Seq(Bytes)
        /\ Len(old) = Distance(r, w)
        /\ \A i \in 1 .. Distance(r, w) : old[i] = b[SlotAt(r, i - 1)]
    BY WindowSeq
  <1>4. /\ next \in Seq(Bytes)
        /\ Len(next) = Distance(r, w) - 1
        /\ \A i \in 1 .. Distance(r, w) - 1 :
             next[i] = b[SlotAt(Advance(r), i - 1)]
    <2>1. ASSUME NEW s \in Slots
          PROVE  /\ Window(b, s, w) \in Seq(Bytes)
                 /\ Len(Window(b, s, w)) = Distance(s, w)
                 /\ \A i \in 1 .. Distance(s, w) :
                      Window(b, s, w)[i] = b[SlotAt(s, i - 1)]
      BY WindowSeq
    <2>2. /\ next \in Seq(Bytes)
          /\ Len(next) = Distance(Advance(r), w)
          /\ \A i \in 1 .. Distance(Advance(r), w) :
               next[i] = b[SlotAt(Advance(r), i - 1)]
      BY <1>1, <2>1
    <2>3. QED
      BY <1>2, <2>2
  <1>5. SlotAt(r, 0) = r
    BY SizeAssumption DEF SlotAt, Slots
  <1>6. \A i \in 1 .. Distance(r, w) - 1 :
          SlotAt(Advance(r), i - 1) = SlotAt(r, i)
    <2> SUFFICES ASSUME NEW i \in 1 .. Distance(r, w) - 1
                 PROVE  SlotAt(Advance(r), i - 1) = SlotAt(r, i)
      OBVIOUS
    <2>1. i \in Nat /\ i >= 1 /\ i < CONSBUFSIZE
      <3>1. Distance(r, w) \in Slots
        BY DistanceBound
      <3>2. QED
        BY <3>1, SizeAssumption DEF Slots
    <2>2. CASE r + 1 = CONSBUFSIZE
      <3>1. Advance(r) = 0 /\ SlotAt(0, i - 1) = i - 1
        BY <2>1, <2>2, SizeAssumption DEF Advance, SlotAt
      <3>2. SlotAt(r, i) = i - 1
        BY <2>1, <2>2, SizeAssumption DEF SlotAt, Slots
      <3>3. QED
        BY <3>1, <3>2
    <2>3. CASE r + 1 # CONSBUFSIZE
      <3>1. Advance(r) = r + 1 /\ (r + 1) + (i - 1) = r + i
        BY <2>1, <2>3, SizeAssumption DEF Advance, Slots
      <3>2. QED
        BY <2>1, <3>1, SizeAssumption DEF SlotAt, Slots
    <2>4. QED
      BY <2>2, <2>3
  <1>7. \A i \in 1 .. Distance(r, w) - 1 :
          i + 1 \in 1 .. Distance(r, w) /\ (i + 1) - 1 = i
    BY <1>2
  <1> HIDE DEF old, next
  <1>. old # <<>>
    BY WindowEmpty DEF old
  <1>8. /\ Tail(old) \in Seq(Bytes)
        /\ Len(Tail(old)) = Distance(r, w) - 1
        /\ \A i \in 1 .. Distance(r, w) - 1 : Tail(old)[i] = old[i + 1]
    BY <1>3, HeadTailProperties
  <1>9. \A i \in 1 .. Distance(r, w) - 1 : next[i] = Tail(old)[i]
    BY <1>3, <1>4, <1>6, <1>7, <1>8
  <1>10. next = Tail(old)
    BY <1>4, <1>8, <1>9, SeqEqual
  <1>11. Head(old) = b[r]
    <2>1. 1 \in 1 .. Distance(r, w) /\ 1 - 1 = 0
      BY <1>2
    <2>2. old[1] = b[r]
      BY <1>3, <1>5, <2>1
    <2>3. QED
      BY <1>3, <2>2
  <1>12. QED
    BY <1>10, <1>11 DEF old, next

-----------------------------------------------------------------------------
(* The buffer implements the abstract queue, step by step.                 *)

LEMMA InitMaps == Init => Q!Init
  <1> SUFFICES ASSUME Init PROVE Q!Init
    OBVIOUS
  <1>1. buf \in [Slots -> Bytes] /\ rpos \in Slots /\ wpos \in Slots /\ rpos = wpos
    BY InitType DEF TypeOK, Init
  <1>2. Pending = <<>>
    BY <1>1, WindowEmpty DEF Pending
  <1>3. QED
    BY <1>2 DEF Init, Q!Init

(* Storing a non-zero byte is a Put, or the wipe-out when the ring closes; *)
(* a zero byte leaves the queue alone.                                     *)
LEMMA StoreMaps ==
  ASSUME TypeOK, NEW c \in Bytes, Store(c), UNCHANGED ret
  PROVE  \/ c \in Chars /\ Outstanding < CONSBUFSIZE - 1 /\ Q!Put(c)
         \/ c \in Chars /\ Outstanding = CONSBUFSIZE - 1 /\ Q!Overrun
         \/ UNCHANGED Q!vars
  <1>1. CASE c = NUL
    <2>1. UNCHANGED <<buf, rpos, wpos>>
      BY <1>1 DEF Store, cons
    <2>2. QED
      BY <2>1 DEF Q!vars, Pending
  <1>2. CASE c # NUL
    <2>1. c \in Chars
      BY <1>2 DEF Bytes
    <2>2. Pending' = Window([buf EXCEPT ![wpos] = c], rpos, Advance(wpos))
      BY <1>2 DEF Store, Pending
    <2>3. /\ buf \in [Slots -> Bytes] /\ rpos \in Slots /\ wpos \in Slots
          /\ Len(Pending) = Outstanding
          /\ Outstanding \in 0 .. CONSBUFSIZE - 1
      <3>1. buf \in [Slots -> Bytes] /\ rpos \in Slots /\ wpos \in Slots
        BY DEF TypeOK
      <3>2. Outstanding \in Slots
        BY <3>1, DistanceBound DEF Outstanding
      <3>3. QED
        BY <3>1, <3>2, WindowSeq DEF Pending, Outstanding, Slots
    <2>4. CASE Outstanding < CONSBUFSIZE - 1
      <3>1. Pending' = Append(Pending, c)
        BY <2>2, <2>3, <2>4, WindowStore DEF Pending, Outstanding
      <3>2. QED
        BY <2>1, <2>3, <2>4, <3>1 DEF Q!Put
    <2>5. CASE Outstanding = CONSBUFSIZE - 1
      <3>1. Pending' = <<>>
        <4>1. ~(Distance(rpos, wpos) < CONSBUFSIZE - 1)
          BY <2>5, SizeAssumption DEF Outstanding
        <4>2. QED
          BY <2>2, <2>3, <4>1, WindowStore
      <3>2. QED
        BY <2>1, <2>3, <2>5, <3>1 DEF Q!Overrun
    <2>6. QED
      BY <2>3, <2>4, <2>5, SizeAssumption
  <1>3. QED
    BY <1>1, <1>2

LEMMA TakeOneMaps ==
  ASSUME TypeOK, TakeOne
  PROVE  Q!Get
  <1>1. /\ buf \in [Slots -> Bytes] /\ rpos \in Slots /\ wpos \in Slots
        /\ rpos # wpos
    BY DEF TypeOK, TakeOne
  <1>2. Pending # <<>>
    BY <1>1, WindowEmpty DEF Pending
  <1>3. Pending' = Window(buf, Advance(rpos), wpos) /\ ret' = buf[rpos]
    BY DEF TakeOne, Pending
  <1>4. ret' = Head(Pending) /\ Pending' = Tail(Pending)
    BY <1>1, <1>3, WindowTake DEF Pending
  <1>5. QED
    BY <1>2, <1>4 DEF Q!Get

LEMMA TakeNoneMaps ==
  ASSUME TypeOK, TakeNone
  PROVE  Q!GetNone
  <1>1. /\ buf \in [Slots -> Bytes] /\ rpos \in Slots /\ wpos \in Slots
        /\ rpos = wpos
    BY DEF TypeOK, TakeNone
  <1>2. Pending = <<>>
    BY <1>1, WindowEmpty DEF Pending
  <1>3. Pending' = Pending
    BY DEF TakeNone, cons, Pending
  <1>4. QED
    BY <1>2, <1>3 DEF TakeNone, Q!GetNone

(* Every step of the CPU is a step of the queue or a stutter; it is a      *)
(* wipe-out only on a buffer with no slot left.                            *)
LEMMA CpuMaps ==
  ASSUME TypeOK, Cpu
  PROVE  \/ [Q!FifoNext]_(Q!vars)
         \/ /\ Outstanding = CONSBUFSIZE - 1
            /\ (rbr # <<>> \/ kbdq # <<>>)
            /\ Q!Overrun
  <1>1. CASE CallGetc
    BY <1>1 DEF CallGetc, cons, Q!vars, Pending
  <1>2. CASE SerialPoll
    <2>1. rbr # <<>> /\ Head(rbr) \in Bytes /\ Store(Head(rbr)) /\ UNCHANGED ret
      BY <1>2 DEF SerialPoll, TypeOK
    <2>2. QED
      BY <2>1, StoreMaps DEF Q!FifoNext
  <1>3. CASE SerialDry
    BY <1>3 DEF SerialDry, cons, Q!vars, Pending
  <1>4. CASE KbdPoll
    <2>1. kbdq # <<>> /\ Head(kbdq) \in Bytes /\ Store(Head(kbdq)) /\ UNCHANGED ret
      BY <1>4 DEF KbdPoll, TypeOK
    <2>2. QED
      BY <2>1, StoreMaps DEF Q!FifoNext
  <1>5. CASE KbdDry
    BY <1>5 DEF KbdDry, cons, Q!vars, Pending
  <1>6. CASE TakeOne
    BY <1>6, TakeOneMaps DEF Q!FifoNext
  <1>7. CASE TakeNone
    BY <1>7, TakeNoneMaps DEF Q!FifoNext
  <1>8. QED
    BY <1>1, <1>2, <1>3, <1>4, <1>5, <1>6, <1>7 DEF Cpu

LEMMA ArrivalMaps ==
  ASSUME NEW c \in Bytes, SerialArrive(c) \/ KeyArrive(c)
  PROVE  UNCHANGED Q!vars
  BY DEF SerialArrive, KeyArrive, cons, Q!vars, Pending

(* At any input speed and for every buffer size the console behaves as the *)
(* lossy queue.                                                            *)
THEOREM ImplementsLossy == Spec => RefinesLossy
  <1>1. TypeOK /\ [Next]_vars => [Q!LossyNext]_(Q!vars)
    <2> SUFFICES ASSUME TypeOK, [Next]_vars PROVE [Q!LossyNext]_(Q!vars)
      OBVIOUS
    <2>1. CASE Cpu
      BY <2>1, CpuMaps DEF Q!LossyNext
    <2>2. CASE Arrival
      BY <2>2, ArrivalMaps DEF Arrival
    <2>3. CASE UNCHANGED vars
      BY <2>3 DEF vars, Q!vars, Pending
    <2>4. QED
      BY <2>1, <2>2, <2>3 DEF Next
  <1>2. QED
    BY <1>1, InitMaps, TypeCorrect, PTL DEF Spec, RefinesLossy, Q!Lossy

-----------------------------------------------------------------------------
(* In pace, the bytes in flight always fit, so the wipe-out cannot occur.  *)

InPace == InFlight <= CONSBUFSIZE - 1

LEMMA StoreCount ==
  ASSUME TypeOK, NEW c \in Bytes, Store(c)
  PROVE  Outstanding' <= Outstanding + 1
  BY SizeAssumption DEF TypeOK, Store, cons, Outstanding, Distance, Advance, Slots

LEMMA Counts ==
  TypeOK => Outstanding \in Nat /\ Len(rbr) \in Nat /\ Len(kbdq) \in Nat
  <1>1. TypeOK => Outstanding \in Nat
    BY SizeAssumption DEF TypeOK, Outstanding, Distance, Slots
  <1>2. QED
    BY <1>1 DEF TypeOK

LEMMA PacedIsNext == [PacedNext]_vars => [Next]_vars
  BY DEF PacedNext, Next, PacedArrival, Arrival

LEMMA CpuInPace ==
  ASSUME TypeOK, TypeOK', InPace, Cpu
  PROVE  InPace'
  <1>1. /\ Outstanding \in Nat /\ Len(rbr) \in Nat /\ Len(kbdq) \in Nat
        /\ Outstanding' \in Nat /\ Len(rbr') \in Nat /\ Len(kbdq') \in Nat
    <2>1. Outstanding' \in Nat
      <3>1. rpos' \in Slots /\ wpos' \in Slots
        BY DEF TypeOK
      <3>2. Outstanding' \in Slots
        BY <3>1, DistanceBound DEF Outstanding
      <3>3. QED
        BY <3>2 DEF Slots
    <2>2. Len(rbr') \in Nat /\ Len(kbdq') \in Nat
      BY DEF TypeOK
    <2>3. QED
      BY <2>1, <2>2, Counts
  <1>2. CASE UNCHANGED <<rbr, kbdq, rpos, wpos>>
    BY <1>2 DEF InPace, InFlight, Outstanding
  <1>3. CASE SerialPoll
    <2>1. Head(rbr) \in Bytes /\ Len(rbr) = 1 /\ Len(rbr') = 0 /\ kbdq' = kbdq
      <3>1. rbr \in Seq(Bytes) /\ rbr # <<>> /\ Len(rbr) <= 1
        BY <1>3 DEF SerialPoll, TypeOK
      <3>2. Len(rbr) \in Nat \ {0}
        BY <3>1, EmptySeq
      <3>3. Head(rbr) \in Bytes
        BY <3>1
      <3>4. rbr' = <<>> /\ kbdq' = kbdq
        BY <1>3 DEF SerialPoll
      <3>5. Len(rbr) = 1
        BY <3>1, <3>2
      <3>6. Len(<<>>) = 0
        OBVIOUS
      <3>7. QED
        BY <3>3, <3>4, <3>5, <3>6
    <2>2. Outstanding' <= Outstanding + 1
      BY <1>3, <2>1, StoreCount DEF SerialPoll
    <2>3. QED
      BY <1>1, <2>1, <2>2, SizeAssumption DEF InPace, InFlight
  <1>4. CASE KbdPoll
    <2>1. Head(kbdq) \in Bytes /\ Len(kbdq') = Len(kbdq) - 1 /\ rbr' = rbr
      BY <1>4 DEF KbdPoll, TypeOK
    <2>2. Outstanding' <= Outstanding + 1
      BY <1>4, <2>1, StoreCount DEF KbdPoll
    <2>3. QED
      BY <1>1, <2>1, <2>2, SizeAssumption DEF InPace, InFlight
  <1>5. CASE TakeOne
    <2>1. Outstanding' <= Outstanding
      BY <1>5, SizeAssumption
         DEF TakeOne, TypeOK, Outstanding, Distance, Advance, Slots
    <2>2. QED
      BY <1>1, <1>5, <2>1, SizeAssumption DEF TakeOne, devices, InPace, InFlight
  <1>6. QED
    BY <1>2, <1>3, <1>4, <1>5
       DEF Cpu, CallGetc, SerialDry, KbdDry, TakeNone, cons, devices

LEMMA ArrivalInPace ==
  ASSUME TypeOK, TypeOK', InPace, PacedArrival
  PROVE  InPace'
  <1>1. /\ Outstanding \in Nat /\ Len(rbr) \in Nat /\ Len(kbdq) \in Nat
    BY Counts
  <1>2. InFlight < CONSBUFSIZE - 1
    BY DEF PacedArrival
  <1>3. PICK c \in Bytes : (rbr = <<>> /\ SerialArrive(c)) \/ KeyArrive(c)
    BY DEF PacedArrival
  <1>4. Outstanding' = Outstanding
    BY <1>3 DEF SerialArrive, KeyArrive, cons, Outstanding
  <1>5. CASE rbr = <<>> /\ SerialArrive(c)
    <2>1. Len(rbr) = 0 /\ Len(rbr') = 1 /\ kbdq' = kbdq
      BY <1>5 DEF SerialArrive
    <2>2. QED
      BY <1>1, <1>2, <1>4, <2>1, SizeAssumption DEF InPace, InFlight
  <1>6. CASE KeyArrive(c)
    <2>1. Len(kbdq') = Len(kbdq) + 1 /\ rbr' = rbr
      BY <1>6 DEF KeyArrive, TypeOK
    <2>2. QED
      BY <1>1, <1>2, <1>4, <2>1, SizeAssumption DEF InPace, InFlight
  <1>7. QED
    BY <1>3, <1>5, <1>6

LEMMA PacedInvariant == PacedSafe => [](TypeOK /\ InPace)
  <1>1. Init => InPace
    BY SizeAssumption DEF Init, InPace, InFlight, Outstanding, Distance
  <1>2. TypeOK /\ InPace /\ [PacedNext]_vars => (TypeOK /\ InPace)'
    <2> SUFFICES ASSUME TypeOK, InPace, [PacedNext]_vars PROVE TypeOK' /\ InPace'
      OBVIOUS
    <2>1. TypeOK'
      BY PacedIsNext, TypeStep
    <2>2. CASE UNCHANGED vars
      BY <2>1, <2>2 DEF vars, InPace, InFlight, Outstanding
    <2>3. CASE Cpu
      BY <2>1, <2>3, CpuInPace
    <2>4. CASE PacedArrival
      BY <2>1, <2>4, ArrivalInPace
    <2>5. QED
      BY <2>1, <2>2, <2>3, <2>4 DEF PacedNext
  <1>. QED
    BY <1>1, <1>2, InitType, PTL DEF PacedSafe

(* For every buffer size, input that keeps within the buffer meets a queue *)
(* that loses and reorders nothing.                                        *)
THEOREM ImplementsFifo == PacedSafe => RefinesFifo
  <1>1. TypeOK /\ InPace /\ [PacedNext]_vars => [Q!FifoNext]_(Q!vars)
    <2> SUFFICES ASSUME TypeOK, InPace, [PacedNext]_vars PROVE [Q!FifoNext]_(Q!vars)
      OBVIOUS
    <2>1. CASE Cpu
      <3>1. ~(Outstanding = CONSBUFSIZE - 1 /\ (rbr # <<>> \/ kbdq # <<>>))
        <4>1. Outstanding \in Nat /\ Len(rbr) \in Nat /\ Len(kbdq) \in Nat
          BY Counts
        <4>2. (rbr # <<>> => Len(rbr) > 0) /\ (kbdq # <<>> => Len(kbdq) > 0)
          BY DEF TypeOK
        <4>3. QED
          BY <4>1, <4>2, SizeAssumption DEF InPace, InFlight
      <3>2. QED
        BY <2>1, <3>1, CpuMaps
    <2>2. CASE PacedArrival
      BY <2>2, ArrivalMaps DEF PacedArrival
    <2>3. CASE UNCHANGED vars
      BY <2>3 DEF vars, Q!vars, Pending
    <2>4. QED
      BY <2>1, <2>2, <2>3 DEF PacedNext
  <1>2. QED
    BY <1>1, InitMaps, PacedInvariant, PTL DEF PacedSafe, RefinesFifo, Q!Fifo

-----------------------------------------------------------------------------
(* The keyboard driver that cons_intr polls (Keyboard), for any keys in    *)
(* use and a wire of any length.                                           *)

(* The driver on one byte d, or the table index made of it, in a state s.  *)

Bits == {"SHIFT", "CTL", "ALT", "CAPSLOCK", "E0ESC"}
Wants == {"NO", "^A", "A", "a", "!", "1", ".", "REBOOT", "KEY_DEL"}
Packets == [byte : 0 .. 255, want : Wants]

Made(s, data) ==
  LET u == (s \ {"E0ESC"}) \union shiftcode(data)
      t == togglecode(data)
  IN (u \ t) \union (t \ u)

Code(s, d) == IF "E0ESC" \in s THEN d + 128 ELSE d

Char(s, data) ==
  LET c == charcode(Made(s, data), data)
  IN IF "CAPSLOCK" \in Made(s, data) THEN SwapCase(c) ELSE c

Restarts(s, data) ==
  {"CTL", "ALT"} \subseteq Made(s, data) /\ Char(s, data) = "KEY_DEL"

(* What becomes of the state, and what the byte says.                      *)
Reads(s, d) ==
  IF d = 224 THEN s \union {"E0ESC"}
  ELSE IF d >= 128
       THEN s \ (shiftcode(IF "E0ESC" \in s THEN d ELSE d - 128) \union {"E0ESC"})
       ELSE Made(s, Code(s, d))

Says(s, d) ==
  IF d >= 128 THEN "NO"
  ELSE IF Restarts(s, Code(s, d)) THEN "REBOOT" ELSE Char(s, Code(s, d))

(* The bytes of w mean what the user meant and take the driver from s to t.*)
Understood(w, s, t) ==
  \E S \in [1 .. Len(w) + 1 -> SUBSET Bits] :
    /\ S[1] = s
    /\ S[Len(w) + 1] = t
    /\ \A i \in 1 .. Len(w) : /\ S[i + 1] = Reads(S[i], w[i].byte)
                              /\ w[i].want = Says(S[i], w[i].byte)

(* A state whose modifiers are those of the keys sn, and CapsLock's c.     *)
Agrees(s, sn, c) ==
  /\ s \in SUBSET (Bits \ {"E0ESC"})
  /\ \A m \in {"SHIFT", "CTL", "ALT"} : m \in s <=> sn \intersect KeysOf[m] # {}
  /\ "CAPSLOCK" \in s <=> c

-----------------------------------------------------------------------------
(* The tables, at the codes that are sent.                                 *)

LEMMA ShiftRows ==
  /\ shiftcode(42) = {"SHIFT"} /\ shiftcode(54) = {"SHIFT"}
  /\ shiftcode(29) = {"CTL"} /\ shiftcode(157) = {"CTL"}
  /\ shiftcode(56) = {"ALT"} /\ shiftcode(184) = {"ALT"}
  /\ shiftcode(58) = {} /\ shiftcode(30) = {} /\ shiftcode(2) = {}
  /\ shiftcode(83) = {} /\ shiftcode(211) = {} /\ shiftcode(170) = {}
BY DEF shiftcode

LEMMA ToggleRows ==
  /\ togglecode(42) = {} /\ togglecode(54) = {} /\ togglecode(29) = {}
  /\ togglecode(157) = {} /\ togglecode(56) = {} /\ togglecode(184) = {}
  /\ togglecode(58) = {"CAPSLOCK"} /\ togglecode(30) = {} /\ togglecode(2) = {}
  /\ togglecode(83) = {} /\ togglecode(211) = {} /\ togglecode(170) = {}
BY DEF togglecode

LEMMA MapRows ==
  /\ \A d \in {42, 54, 29, 157, 56, 184, 58, 170} :
       normalmap(d) = "NO" /\ shiftmap(d) = "NO" /\ ctlmap(d) = "NO"
  /\ normalmap(30) = "a" /\ shiftmap(30) = "A" /\ ctlmap(30) = "^A"
  /\ normalmap(2) = "1" /\ shiftmap(2) = "!" /\ ctlmap(2) = "NO"
  /\ normalmap(83) = "." /\ shiftmap(83) = "." /\ ctlmap(83) = "NO"
  /\ normalmap(211) = "KEY_DEL" /\ shiftmap(211) = "KEY_DEL"
  /\ ctlmap(211) = "KEY_DEL"
BY DEF normalmap, shiftmap, ctlmap

LEMMA SwapRows ==
  /\ SwapCase("a") = "A" /\ SwapCase("A") = "a"
  /\ \A c \in {"NO", "^A", "1", "!", ".", "KEY_DEL"} : SwapCase(c) = c
BY DEF SwapCase

LEMMA ScanRows ==
  /\ AllKeys = {"LSHIFT", "RSHIFT", "LCTL", "RCTL", "LALT", "RALT", "CAPS",
                "A", "ONE", "KPDEL", "DEL"}
  /\ Scan["LSHIFT"] = [code |-> 42, e0 |-> FALSE]
  /\ Scan["RSHIFT"] = [code |-> 54, e0 |-> FALSE]
  /\ Scan["LCTL"] = [code |-> 29, e0 |-> FALSE]
  /\ Scan["RCTL"] = [code |-> 29, e0 |-> TRUE]
  /\ Scan["LALT"] = [code |-> 56, e0 |-> FALSE]
  /\ Scan["RALT"] = [code |-> 56, e0 |-> TRUE]
  /\ Scan["CAPS"] = [code |-> 58, e0 |-> FALSE]
  /\ Scan["A"] = [code |-> 30, e0 |-> FALSE]
  /\ Scan["ONE"] = [code |-> 2, e0 |-> FALSE]
  /\ Scan["KPDEL"] = [code |-> 83, e0 |-> FALSE]
  /\ Scan["DEL"] = [code |-> 83, e0 |-> TRUE]
BY DEF AllKeys, Scan

LEMMA TwinRows ==
  /\ KeysOf["SHIFT"] = {"LSHIFT", "RSHIFT"}
  /\ KeysOf["CTL"] = {"LCTL", "RCTL"}
  /\ KeysOf["ALT"] = {"LALT", "RALT"}
  /\ Modifiers = {"SHIFT", "CTL", "ALT"}
  /\ \A k \in KeysOf["SHIFT"] : Twins(k) = KeysOf["SHIFT"]
  /\ \A k \in KeysOf["CTL"] : Twins(k) = KeysOf["CTL"]
  /\ \A k \in KeysOf["ALT"] : Twins(k) = KeysOf["ALT"]
  /\ \A k \in {"CAPS", "A", "ONE", "KPDEL", "DEL"} : Twins(k) = {}
<1>1. /\ KeysOf["SHIFT"] = {"LSHIFT", "RSHIFT"}
      /\ KeysOf["CTL"] = {"LCTL", "RCTL"}
      /\ KeysOf["ALT"] = {"LALT", "RALT"}
      /\ Modifiers = {"SHIFT", "CTL", "ALT"}
  BY DEF KeysOf, Modifiers
<1>2. \A k : Twins(k) =
              UNION {KeysOf[m] : m \in {n \in Modifiers : k \in KeysOf[n]}}
  BY DEF Twins
<1>3. \A k \in KeysOf["SHIFT"] : Twins(k) = KeysOf["SHIFT"]
  BY <1>1, <1>2
<1>4. \A k \in KeysOf["CTL"] : Twins(k) = KeysOf["CTL"]
  BY <1>1, <1>2
<1>5. \A k \in KeysOf["ALT"] : Twins(k) = KeysOf["ALT"]
  BY <1>1, <1>2
<1>6. \A k \in {"CAPS", "A", "ONE", "KPDEL", "DEL"} : Twins(k) = {}
  BY <1>1, <1>2
<1>7. QED
  BY <1>1, <1>3, <1>4, <1>5, <1>6

-----------------------------------------------------------------------------
(* What a press or a release does to a state that agrees with the keys.    *)

(* The state after an E0.                                                  *)
Escaped(s) == s \union {"E0ESC"}

(* The state before the last byte of a press or a release of k.            *)
Prefixed(s, k) == IF Scan[k].e0 THEN Escaped(s) ELSE s

(* The state a press leaves behind.                                        *)
LEMMA MadeRows ==
  ASSUME NEW s \in SUBSET (Bits \ {"E0ESC"}), NEW k \in AllKeys
  PROVE  LET d == Code(Prefixed(s, k), Scan[k].code)
         IN  Made(Prefixed(s, k), d) =
               IF k = "CAPS" THEN (s \ {"CAPSLOCK"}) \union ({"CAPSLOCK"} \ s)
               ELSE s \union {m \in {"SHIFT", "CTL", "ALT"} : k \in KeysOf[m]}
<1>1. CASE k \in {"LSHIFT", "RSHIFT"}
  BY <1>1, ShiftRows, ToggleRows, ScanRows, TwinRows
     DEF Made, Code, Prefixed, Escaped, Bits
<1>2. CASE k \in {"LCTL", "RCTL"}
  BY <1>2, ShiftRows, ToggleRows, ScanRows, TwinRows
     DEF Made, Code, Prefixed, Escaped, Bits
<1>3. CASE k \in {"LALT", "RALT"}
  BY <1>3, ShiftRows, ToggleRows, ScanRows, TwinRows
     DEF Made, Code, Prefixed, Escaped, Bits
<1>4. CASE k = "CAPS"
  BY <1>4, ShiftRows, ToggleRows, ScanRows, TwinRows
     DEF Made, Code, Prefixed, Escaped, Bits
<1>5. CASE k \in {"A", "ONE", "KPDEL", "DEL"}
  BY <1>5, ShiftRows, ToggleRows, ScanRows, TwinRows
     DEF Made, Code, Prefixed, Escaped, Bits
<1>6. QED
  BY <1>1, <1>2, <1>3, <1>4, <1>5, ScanRows

(* It agrees with the keys pressed by then.                                *)
LEMMA PressAgrees ==
  ASSUME NEW k \in AllKeys, NEW sn \in SUBSET AllKeys, NEW c \in BOOLEAN,
         NEW s, Agrees(s, sn, c)
  PROVE  Agrees(Reads(Prefixed(s, k), Scan[k].code),
                sn \union ({k} \intersect Twins(k)),
                IF k = "CAPS" THEN ~c ELSE c)
<1> DEFINE t == Prefixed(s, k)
           r == Reads(t, Scan[k].code)
<1>1. Scan[k].code \in 0 .. 127
  BY ScanRows
<1>2. r = Made(t, Code(t, Scan[k].code))
  BY <1>1 DEF Reads
<1>3. r = IF k = "CAPS" THEN (s \ {"CAPSLOCK"}) \union ({"CAPSLOCK"} \ s)
          ELSE s \union {m \in {"SHIFT", "CTL", "ALT"} : k \in KeysOf[m]}
  BY <1>2, MadeRows DEF Agrees
<1> HIDE DEF r
<1>4. ASSUME k = "CAPS"
      PROVE  Agrees(r, sn \union ({k} \intersect Twins(k)), ~c)
  <2>1. {k} \intersect Twins(k) = {}
    BY <1>4, TwinRows
  <2>2. QED
    BY <1>3, <1>4, <2>1 DEF Agrees, Bits
<1>5. ASSUME NEW m \in {"SHIFT", "CTL", "ALT"}, k \in KeysOf[m]
      PROVE  Agrees(r, sn \union ({k} \intersect Twins(k)), c)
  <2>1. {k} \intersect Twins(k) = {k}
    BY <1>5, TwinRows
  <2>2. \A n \in {"SHIFT", "CTL", "ALT"} : k \in KeysOf[n] <=> n = m
    BY <1>5, TwinRows
  <2>3. k # "CAPS"
    BY <1>5, TwinRows
  <2>4. r = s \union {m}
    BY <1>3, <2>2, <2>3
  <2>5. QED
    BY <2>1, <2>2, <2>4 DEF Agrees, Bits
<1>6. ASSUME k \in {"A", "ONE", "KPDEL", "DEL"}
      PROVE  Agrees(r, sn \union ({k} \intersect Twins(k)), c)
  <2>1. {k} \intersect Twins(k) = {}
    BY <1>6, TwinRows
  <2>2. r = s
    BY <1>3, <1>6, TwinRows
  <2>3. QED
    BY <1>6, <2>1, <2>2
<1>7. k # "CAPS" /\ k \notin {"A", "ONE", "KPDEL", "DEL"}
        => \E m \in {"SHIFT", "CTL", "ALT"} : k \in KeysOf[m]
  BY ScanRows, TwinRows
<1>8. \A m \in {"SHIFT", "CTL", "ALT"} : k \in KeysOf[m] => k # "CAPS"
  BY TwinRows
<1>9. QED
  BY <1>4, <1>5, <1>6, <1>7, <1>8 DEF r

(* The character is the one meant.                                         *)
LEMMA PressSays ==
  ASSUME NEW k \in AllKeys, NEW sn \in SUBSET AllKeys, NEW c \in BOOLEAN,
         NEW s, Agrees(s, sn, c)
  PROVE  /\ Meaning(k, sn, c) = Says(Prefixed(s, k), Scan[k].code)
         /\ Meaning(k, sn, c) \in Wants
<1> DEFINE t == Prefixed(s, k)
           d == Code(t, Scan[k].code)
<1>1. Scan[k].code \in 0 .. 127
  BY ScanRows
<1>2. Says(t, Scan[k].code) = IF Restarts(t, d) THEN "REBOOT" ELSE Char(t, d)
  BY <1>1 DEF Says
<1>3. \A m \in {"SHIFT", "CTL", "ALT"} : m \in s <=> sn \intersect KeysOf[m] # {}
  BY DEF Agrees
<1>4. "CAPSLOCK" \in s <=> c
  BY DEF Agrees
<1>5. s \in SUBSET (Bits \ {"E0ESC"})
  BY DEF Agrees
<1>6. CASE k \in {"LSHIFT", "RSHIFT", "LCTL", "RCTL", "LALT", "RALT", "CAPS"}
  <2>1. Meaning(k, sn, c) = "NO"
    BY <1>6 DEF Meaning
  <2>2. d \in {42, 54, 29, 157, 56, 184, 58}
    BY <1>6, <1>5, ScanRows DEF Code, Prefixed, Escaped, Bits
  <2>3. charcode(Made(t, d), d) = "NO"
    BY <2>2, MapRows DEF charcode
  <2>4. Char(t, d) = "NO"
    BY <2>3, SwapRows DEF Char
  <2>5. QED
    BY <1>2, <2>1, <2>4 DEF Restarts, Wants
<1>7. CASE k \in {"A", "ONE", "KPDEL", "DEL"}
  <2>1. Made(t, d) = s
    <3>1. \A m \in {"SHIFT", "CTL", "ALT"} : k \notin KeysOf[m]
      BY <1>7, TwinRows
    <3>2. Made(t, d) = s \union {m \in {"SHIFT", "CTL", "ALT"} : k \in KeysOf[m]}
      BY <1>5, <1>7, MadeRows
    <3>3. QED
      BY <3>1, <3>2
  <2>2. CASE k = "A"
    <3>1. d = 30
      BY <1>5, <2>2, ScanRows DEF Code, Prefixed, Escaped, Bits
    <3>2. charcode(s, d) = IF "CTL" \in s THEN "^A"
                           ELSE IF "SHIFT" \in s THEN "A" ELSE "a"
      BY <3>1, MapRows DEF charcode
    <3>3. Char(t, d) = IF "CTL" \in s THEN "^A"
                       ELSE IF ("SHIFT" \in s) # c THEN "A" ELSE "a"
      BY <2>1, <3>2, <1>4, SwapRows DEF Char
    <3>4. Meaning(k, sn, c) = IF sn \intersect KeysOf["CTL"] # {} THEN "^A"
                  ELSE IF (sn \intersect KeysOf["SHIFT"] # {}) # c THEN "A" ELSE "a"
      BY <2>2 DEF Meaning
    <3>5. QED
      BY <1>2, <1>3, <3>3, <3>4 DEF Restarts, Wants
  <2>3. CASE k = "ONE"
    <3>1. d = 2
      BY <1>5, <2>3, ScanRows DEF Code, Prefixed, Escaped, Bits
    <3>2. charcode(s, d) = IF "CTL" \in s THEN "NO"
                           ELSE IF "SHIFT" \in s THEN "!" ELSE "1"
      BY <3>1, MapRows DEF charcode
    <3>3. Char(t, d) = charcode(s, d)
      BY <2>1, <3>2, SwapRows DEF Char
    <3>4. Meaning(k, sn, c) = IF sn \intersect KeysOf["CTL"] # {} THEN "NO"
                  ELSE IF sn \intersect KeysOf["SHIFT"] # {} THEN "!" ELSE "1"
      BY <2>3 DEF Meaning
    <3>5. QED
      BY <1>2, <1>3, <3>2, <3>3, <3>4 DEF Restarts, Wants
  <2>4. CASE k = "KPDEL"
    <3>1. d = 83
      BY <1>5, <2>4, ScanRows DEF Code, Prefixed, Escaped, Bits
    <3>2. charcode(s, d) = IF "CTL" \in s THEN "NO" ELSE "."
      BY <3>1, MapRows DEF charcode
    <3>3. Char(t, d) = charcode(s, d)
      BY <2>1, <3>2, SwapRows DEF Char
    <3>4. Meaning(k, sn, c) = IF sn \intersect KeysOf["CTL"] # {} THEN "NO" ELSE "."
      BY <2>4 DEF Meaning
    <3>5. QED
      BY <1>2, <1>3, <3>2, <3>3, <3>4 DEF Restarts, Wants
  <2>5. CASE k = "DEL"
    <3>1. d = 211
      BY <1>5, <2>5, ScanRows DEF Code, Prefixed, Escaped, Bits
    <3>2. charcode(s, d) = "KEY_DEL"
      BY <3>1, MapRows DEF charcode
    <3>3. Char(t, d) = "KEY_DEL"
      BY <2>1, <3>2, SwapRows DEF Char
    <3>4. Meaning(k, sn, c) =
            IF sn \intersect KeysOf["CTL"] # {} /\ sn \intersect KeysOf["ALT"] # {}
            THEN "REBOOT" ELSE "KEY_DEL"
      BY <2>5 DEF Meaning
    <3>5. Restarts(t, d) <=> "CTL" \in s /\ "ALT" \in s
      BY <2>1, <3>3 DEF Restarts
    <3>6. QED
      BY <1>2, <1>3, <3>3, <3>4, <3>5 DEF Wants
  <2>6. QED
    BY <1>7, <2>2, <2>3, <2>4, <2>5
<1>8. QED
  BY <1>6, <1>7, ScanRows

(* A release clears what it should and no more, and says nothing.          *)
LEMMA ReleaseAgrees ==
  ASSUME NEW k \in AllKeys, NEW sn \in SUBSET AllKeys, NEW c \in BOOLEAN,
         NEW s, Agrees(s, sn, c)
  PROVE  /\ Agrees(Reads(Prefixed(s, k), Scan[k].code + 128), sn \ Twins(k), c)
         /\ Says(Prefixed(s, k), Scan[k].code + 128) = "NO"
<1> DEFINE t == Prefixed(s, k)
           r == Reads(t, Scan[k].code + 128)
           down == {m \in {"SHIFT", "CTL", "ALT"} : k \in KeysOf[m]}
<1>1. s \in SUBSET (Bits \ {"E0ESC"})
  BY DEF Agrees
<1>2. r = s \ down
  <2>1. Scan[k].code + 128 \in 128 .. 255 /\ Scan[k].code + 128 # 224
    BY ScanRows
  <2>2. r = t \ (shiftcode(IF "E0ESC" \in t THEN Scan[k].code + 128
                              ELSE Scan[k].code) \union {"E0ESC"})
    BY <2>1, ScanRows DEF Reads
  <2>3. shiftcode(IF "E0ESC" \in t THEN Scan[k].code + 128
                    ELSE Scan[k].code) = down
    <3>1. CASE k \in {"LSHIFT", "RSHIFT"}
      BY <1>1, <3>1, ShiftRows, ScanRows, TwinRows DEF Prefixed, Escaped, Bits
    <3>2. CASE k \in {"LCTL", "RCTL"}
      BY <1>1, <3>2, ShiftRows, ScanRows, TwinRows DEF Prefixed, Escaped, Bits
    <3>3. CASE k \in {"LALT", "RALT"}
      BY <1>1, <3>3, ShiftRows, ScanRows, TwinRows DEF Prefixed, Escaped, Bits
    <3>4. CASE k \in {"CAPS", "A", "ONE", "KPDEL", "DEL"}
      BY <1>1, <3>4, ShiftRows, ScanRows, TwinRows DEF Prefixed, Escaped, Bits
    <3>5. QED
      BY <3>1, <3>2, <3>3, <3>4, ScanRows
  <2>4. QED
    BY <1>1, <2>2, <2>3 DEF Prefixed, Escaped
<1>3. Says(t, Scan[k].code + 128) = "NO"
  BY ScanRows DEF Says
<1> HIDE DEF r
<1>4. ASSUME NEW m \in {"SHIFT", "CTL", "ALT"}
      PROVE  m \in r <=> (sn \ Twins(k)) \intersect KeysOf[m] # {}
  <2>1. CASE k \in KeysOf[m]
    <3>1. Twins(k) = KeysOf[m]
      BY <2>1, TwinRows
    <3>2. QED
      BY <1>2, <2>1, <3>1
  <2>2. CASE k \notin KeysOf[m]
    <3>1. Twins(k) \intersect KeysOf[m] = {}
      BY <2>2, ScanRows, TwinRows
    <3>2. m \in s <=> sn \intersect KeysOf[m] # {}
      BY DEF Agrees
    <3>3. QED
      BY <1>2, <2>2, <3>1, <3>2
  <2>3. QED
    BY <2>1, <2>2
<1>5. r \in SUBSET (Bits \ {"E0ESC"}) /\ ("CAPSLOCK" \in r <=> c)
  BY <1>1, <1>2 DEF Agrees
<1>6. QED
  BY <1>3, <1>4, <1>5 DEF Agrees, r

(* The shifts the user never made leave no trace.                          *)
LEMMA FakeAgrees ==
  ASSUME NEW s \in SUBSET (Bits \ {"E0ESC"}), NEW d \in {42, 170}
  PROVE  /\ Reads(s, 224) = Escaped(s) /\ Says(s, 224) = "NO"
         /\ Reads(Escaped(s), d) = s /\ Says(Escaped(s), d) = "NO"
<1> DEFINE t == s \union {"E0ESC"}
<1> USE DEF Escaped
<1>1. Reads(s, 224) = t /\ Says(s, 224) = "NO"
  BY DEF Reads, Says
<1>2. Made(t, 170) = s
  BY ShiftRows, ToggleRows DEF Made
<1>3. Char(t, 170) = "NO"
  BY MapRows, SwapRows DEF Char, charcode
<1>4. CASE d = 42
  <2>1. Code(t, 42) = 170
    BY DEF Code
  <2>2. QED
    BY <1>1, <1>2, <1>3, <1>4, <2>1 DEF Reads, Says, Restarts
<1>5. CASE d = 170
  BY <1>1, <1>5, ShiftRows DEF Reads, Says
<1>6. QED
  BY <1>4, <1>5

-----------------------------------------------------------------------------
(* Bytes that are understood: none, one, two strings of them one after the *)
(* other, and all but the first.                                           *)

(* The states the driver passes through are a witness.                     *)
LEMMA UnderstoodBy ==
  ASSUME NEW w, NEW s, NEW t, NEW S \in [1 .. Len(w) + 1 -> SUBSET Bits],
         S[1] = s, S[Len(w) + 1] = t,
         \A i \in 1 .. Len(w) : /\ S[i + 1] = Reads(S[i], w[i].byte)
                                /\ w[i].want = Says(S[i], w[i].byte)
  PROVE  Understood(w, s, t)
BY DEF Understood

(* No byte changes nothing.                                                *)
LEMMA UnderstoodNone ==
  ASSUME NEW s \in SUBSET Bits
  PROVE  Understood(<<>>, s, s)
<1> DEFINE S == [i \in 1 .. 1 |-> s]
<1>1. Len(<<>>) = 0
  OBVIOUS
<1>2. S \in [1 .. Len(<<>>) + 1 -> SUBSET Bits] /\ S[1] = s
  BY <1>1
<1> HIDE DEF S
<1>3. S[Len(<<>>) + 1] = s
  BY <1>1, <1>2
<1>4. \A i \in 1 .. Len(<<>>) : FALSE
  BY <1>1
<1>5. QED
  BY <1>2, <1>3, <1>4, UnderstoodBy

LEMMA UnderstoodOne ==
  ASSUME NEW s \in SUBSET Bits, NEW p, Reads(s, p.byte) \in SUBSET Bits,
         p.want = Says(s, p.byte)
  PROVE  Understood(<<p>>, s, Reads(s, p.byte))
<1> DEFINE S == [i \in 1 .. 2 |-> IF i = 1 THEN s ELSE Reads(s, p.byte)]
<1>1. S \in [1 .. Len(<<p>>) + 1 -> SUBSET Bits]
  OBVIOUS
<1>2. S[1] = s /\ S[2] = Reads(s, p.byte)
  OBVIOUS
<1>3. Len(<<p>>) = 1 /\ <<p>>[1] = p
  OBVIOUS
<1> HIDE DEF S
<1>4. QED
  BY <1>1, <1>2, <1>3 DEF Understood

LEMMA UnderstoodBoth ==
  ASSUME NEW v \in Seq(Packets), NEW w \in Seq(Packets), NEW s, NEW t, NEW u,
         Understood(v, s, t), Understood(w, t, u)
  PROVE  Understood(v \o w, s, u)
<1>1. PICK S \in [1 .. Len(v) + 1 -> SUBSET Bits] :
        /\ S[1] = s
        /\ S[Len(v) + 1] = t
        /\ \A i \in 1 .. Len(v) : S[i + 1] = Reads(S[i], v[i].byte)
                                  /\ v[i].want = Says(S[i], v[i].byte)
  BY DEF Understood
<1>2. PICK T \in [1 .. Len(w) + 1 -> SUBSET Bits] :
        /\ T[1] = t
        /\ T[Len(w) + 1] = u
        /\ \A i \in 1 .. Len(w) : T[i + 1] = Reads(T[i], w[i].byte)
                                  /\ w[i].want = Says(T[i], w[i].byte)
  BY DEF Understood
<1> DEFINE n == Len(v)
           m == Len(w)
           U == [i \in 1 .. n + m + 1 |-> IF i <= n THEN S[i] ELSE T[i - n]]
<1>3. n \in Nat /\ m \in Nat
  OBVIOUS
<1>4. Len(v \o w) = n + m /\ \A i \in 1 .. n + m :
        (v \o w)[i] = IF i <= n THEN v[i] ELSE w[i - n]
  BY ConcatProperties
<1>5. U \in [1 .. n + m + 1 -> SUBSET Bits]
  <2>1. \A i \in 1 .. n + m + 1 : i <= n => i \in 1 .. n + 1
    BY <1>3
  <2>2. \A i \in 1 .. n + m + 1 : ~(i <= n) => i - n \in 1 .. m + 1
    BY <1>3
  <2>3. QED
    BY <2>1, <2>2
<1>6. \A i \in 1 .. n + 1 : U[i] = S[i]
  BY <1>1, <1>2, <1>3
<1>7. \A i \in 1 .. m + 1 : U[n + i] = T[i]
  BY <1>3
<1> HIDE DEF U, n, m
<1>8. ASSUME NEW i \in 1 .. n + m
      PROVE  /\ U[i + 1] = Reads(U[i], (v \o w)[i].byte)
             /\ (v \o w)[i].want = Says(U[i], (v \o w)[i].byte)
  <2>1. CASE i <= n
    <3>1. i \in 1 .. n /\ i \in 1 .. n + 1 /\ i + 1 \in 1 .. n + 1
      BY <1>3, <2>1
    <3>2. U[i] = S[i] /\ U[i + 1] = S[i + 1] /\ (v \o w)[i] = v[i]
      BY <1>4, <1>6, <2>1, <3>1
    <3>3. QED
      BY <1>1, <3>1, <3>2 DEF n
  <2>2. CASE i > n
    <3>1. PICK j \in 1 .. m : i = n + j
      <4>1. i - n \in 1 .. m /\ i = n + (i - n)
        BY <1>3, <2>2
      <4>2. QED
        BY <4>1
    <3>2. j \in 1 .. m + 1 /\ j + 1 \in 1 .. m + 1 /\ i + 1 = n + (j + 1) /\ i - n = j
      BY <1>3, <3>1
    <3>3. U[i] = T[j] /\ U[i + 1] = T[j + 1] /\ (v \o w)[i] = w[j]
      BY <1>3, <1>4, <1>7, <2>2, <3>1, <3>2
    <3>4. QED
      BY <1>2, <3>1, <3>3 DEF m
  <2>3. i <= n \/ i > n
    BY <1>3
  <2>4. QED
    BY <2>1, <2>2, <2>3
<1>9. U[1] = s /\ U[n + m + 1] = u
  <2>1. 1 \in 1 .. n + 1 /\ m + 1 \in 1 .. m + 1 /\ n + m + 1 = n + (m + 1)
    BY <1>3
  <2>2. QED
    BY <1>1, <1>2, <1>6, <1>7, <2>1 DEF n, m
<1>10. QED
  BY <1>4, <1>5, <1>8, <1>9, UnderstoodBy

LEMMA UnderstoodTail ==
  ASSUME NEW w \in Seq(Packets), w # <<>>, NEW s, NEW t, Understood(w, s, t)
  PROVE  /\ Head(w).want = Says(s, Head(w).byte)
         /\ Reads(s, Head(w).byte) \in SUBSET Bits
         /\ Understood(Tail(w), Reads(s, Head(w).byte), t)
<1>1. PICK S \in [1 .. Len(w) + 1 -> SUBSET Bits] :
        /\ S[1] = s
        /\ S[Len(w) + 1] = t
        /\ \A i \in 1 .. Len(w) : S[i + 1] = Reads(S[i], w[i].byte)
                                  /\ w[i].want = Says(S[i], w[i].byte)
  BY DEF Understood
<1>2. /\ Len(w) \in Nat \ {0} /\ Head(w) = w[1] /\ Len(Tail(w)) = Len(w) - 1
      /\ \A i \in 1 .. Len(w) - 1 : Tail(w)[i] = w[i + 1]
  OBVIOUS
<1> DEFINE n == Len(w)
           T == [i \in 1 .. n |-> S[i + 1]]
<1>3. S[2] = Reads(s, Head(w).byte) /\ Head(w).want = Says(s, Head(w).byte)
  BY <1>1, <1>2
<1>4. \A i \in 1 .. n : T[i] = S[i + 1] /\ S[i + 1] \in SUBSET Bits
  BY <1>2
<1>5. T \in [1 .. n -> SUBSET Bits]
  BY <1>4
<1>6. S[2] \in SUBSET Bits
  BY <1>2
<1> HIDE DEF T
<1>7. ASSUME NEW i \in 1 .. n - 1
      PROVE  T[i + 1] = Reads(T[i], Tail(w)[i].byte)
             /\ Tail(w)[i].want = Says(T[i], Tail(w)[i].byte)
  <2>1. i \in 1 .. n /\ i + 1 \in 1 .. n
    BY <1>2
  <2>2. QED
    BY <1>1, <1>2, <1>4, <2>1
<1>8. T[1] = S[2] /\ T[n] = t
  BY <1>1, <1>2, <1>4
<1>9. Len(Tail(w)) + 1 = n
  BY <1>2
<1>10. Understood(Tail(w), S[2], t)
  <2>1. \A i \in 1 .. Len(Tail(w)) :
          T[i + 1] = Reads(T[i], Tail(w)[i].byte)
          /\ Tail(w)[i].want = Says(T[i], Tail(w)[i].byte)
    BY <1>2, <1>7
  <2>2. QED
    BY <1>5, <1>8, <1>9, <2>1, UnderstoodBy
<1>11. QED
  BY <1>3, <1>6, <1>10

-----------------------------------------------------------------------------
(* The strings of bytes that the keyboard sends.                           *)

(* What holds of an event's last byte makes the whole event understood.    *)
LEMMA EventUnderstood ==
  ASSUME NEW k \in AllKeys, NEW s \in SUBSET (Bits \ {"E0ESC"}),
         NEW d \in 0 .. 255, NEW m \in Wants,
         m = Says(Prefixed(s, k), d), Reads(Prefixed(s, k), d) \in SUBSET Bits
  PROVE  /\ Event(k, d, m) \in Seq(Packets)
         /\ Understood(Event(k, d, m), s, Reads(Prefixed(s, k), d))
<1> DEFINE e == [byte |-> 224, want |-> "NO"]
           p == [byte |-> d, want |-> m]
           pre == IF Scan[k].e0 THEN <<e>> ELSE <<>>
<1>1. e \in Packets /\ p \in Packets
  BY DEF Packets, Wants
<1>2. pre \in Seq(Packets) /\ <<p>> \in Seq(Packets)
  BY <1>1
<1>3. Understood(<<p>>, Prefixed(s, k), Reads(Prefixed(s, k), d))
  <2>1. Prefixed(s, k) \in SUBSET Bits
    BY DEF Prefixed, Escaped, Bits
  <2>2. p.byte = d /\ p.want = m
    OBVIOUS
  <2>3. QED
    BY <2>1, <2>2, UnderstoodOne
<1>4. Understood(pre, s, Prefixed(s, k))
  <2>1. s \in SUBSET Bits
    OBVIOUS
  <2>2. CASE Scan[k].e0
    <3>1. e.byte = 224 /\ e.want = "NO"
      OBVIOUS
    <3>2. Reads(s, 224) = Prefixed(s, k) /\ Says(s, 224) = "NO"
      BY <2>2, FakeAgrees DEF Prefixed
    <3>3. Prefixed(s, k) \in SUBSET Bits
      BY DEF Prefixed, Escaped, Bits
    <3>4. Understood(<<e>>, s, Prefixed(s, k))
      BY <2>1, <3>1, <3>2, <3>3, UnderstoodOne
    <3>5. QED
      BY <2>2, <3>4
  <2>3. CASE ~Scan[k].e0
    BY <2>1, <2>3, UnderstoodNone DEF Prefixed
  <2>4. QED
    BY <2>2, <2>3
<1>5. Event(k, d, m) = pre \o <<p>>
  BY DEF Event
<1> HIDE DEF pre, p
<1>6. pre \o <<p>> \in Seq(Packets)
  BY <1>2
<1>7. QED
  BY <1>2, <1>3, <1>4, <1>5, <1>6, UnderstoodBoth

(* A fake shift, or none.                                                  *)
LEMMA FakeUnderstood ==
  ASSUME NEW s \in SUBSET (Bits \ {"E0ESC"}), NEW d \in {42, 170}, NEW k,
         NEW fake \in Fakes(k, d)
  PROVE  fake \in Seq(Packets) /\ Understood(fake, s, s)
<1> DEFINE e == [byte |-> 224, want |-> "NO"]
           p == [byte |-> d, want |-> "NO"]
           t == Escaped(s)
<1>1. s \in SUBSET Bits /\ t \in SUBSET Bits
  BY DEF Bits, Escaped
<1>2. <<e>> \in Seq(Packets) /\ <<p>> \in Seq(Packets)
  BY DEF Packets, Wants
<1>3. e.byte = 224 /\ e.want = "NO" /\ p.byte = d /\ p.want = "NO"
  OBVIOUS
<1>4. /\ Reads(s, 224) = t /\ Says(s, 224) = "NO"
      /\ Reads(t, d) = s /\ Says(t, d) = "NO"
  BY FakeAgrees
<1>5. Fake(d) = <<e>> \o <<p>>
  BY DEF Fake
<1> HIDE DEF e, p, t
<1>6. Understood(<<e>>, s, t)
  BY <1>1, <1>3, <1>4, UnderstoodOne
<1>7. Understood(<<p>>, t, s)
  BY <1>1, <1>3, <1>4, UnderstoodOne
<1>8. <<e>> \o <<p>> \in Seq(Packets) /\ Understood(<<e>> \o <<p>>, s, s)
  <2>1. <<e>> \o <<p>> \in Seq(Packets)
    BY <1>2, ConcatProperties
  <2>2. Understood(<<e>> \o <<p>>, s, s)
    BY <1>2, <1>6, <1>7, UnderstoodBoth
  <2>3. QED
    BY <2>1, <2>2
<1>9. fake = <<>> \/ fake = <<e>> \o <<p>>
  BY <1>5 DEF Fakes
<1>10. <<>> \in Seq(Packets) /\ Understood(<<>>, s, s)
  BY <1>1, UnderstoodNone
<1>11. QED
  BY <1>8, <1>9, <1>10

-----------------------------------------------------------------------------
(* What is on the wire means what the user meant, and takes `shift` to a   *)
(* state that agrees with the keys.                                        *)
WireInv ==
  /\ held \subseteq Keys
  /\ seen \subseteq held
  /\ \A k \in seen : k \in Twins(k)
  /\ caps \in BOOLEAN
  /\ wire \in Seq(Packets)
  /\ Len(wire) <= WireCap
  /\ shift \in SUBSET Bits
  /\ \E s : Agrees(s, seen, caps) /\ Understood(wire, shift, s)

LEMMA WireInit == KbdInit => WireInv
<1> SUFFICES ASSUME KbdInit PROVE WireInv
  OBVIOUS
<1>1. Understood(<<>>, {}, {})
  BY UnderstoodNone
<1>2. Agrees({}, {}, FALSE)
  BY DEF Agrees
<1>3. \E s : Agrees(s, seen, caps) /\ Understood(wire, shift, s)
  BY <1>1, <1>2 DEF KbdInit
<1>4. wire \in Seq(Packets) /\ Len(wire) <= WireCap
  BY KeysAssumption DEF KbdInit
<1>5. QED
  BY <1>3, <1>4 DEF KbdInit, WireInv

(* Understood bytes may be sent.                                           *)
LEMMA SentKeeps ==
  ASSUME WireInv, NEW s, NEW t, NEW bytes \in Seq(Packets),
         Understood(wire, shift, s), Understood(bytes, s, t), Send(bytes),
         UNCHANGED shift, Agrees(t, seen', caps'),
         held' \subseteq Keys, seen' \subseteq held',
         \A k \in seen' : k \in Twins(k), caps' \in BOOLEAN
  PROVE  WireInv'
<1>1. wire' = wire \o bytes /\ wire \in Seq(Packets)
  BY DEF Send, WireInv
<1>2. wire' \in Seq(Packets) /\ Len(wire') = Len(wire) + Len(bytes)
  BY <1>1
<1>3. Len(wire') <= WireCap
  BY <1>2 DEF Send
<1>4. Understood(wire', shift', t)
  BY <1>1, UnderstoodBoth
<1>5. QED
  BY <1>2, <1>3, <1>4 DEF WireInv

LEMMA PressKeeps ==
  ASSUME WireInv, NEW k \in Keys, Press(k)
  PROVE  WireInv'
<1>1. k \in AllKeys /\ seen \in SUBSET AllKeys /\ caps \in BOOLEAN
  BY KeysAssumption DEF WireInv
<1>2. PICK s : Agrees(s, seen, caps) /\ Understood(wire, shift, s)
  BY DEF WireInv
<1>3. s \in SUBSET (Bits \ {"E0ESC"})
  BY <1>2 DEF Agrees
<1> DEFINE r == Reads(Prefixed(s, k), Scan[k].code)
           want == Meaning(k, seen, caps)
<1>4. PICK fake \in Fakes(k, 42) : Send(fake \o Event(k, Scan[k].code, want))
  BY DEF Press
<1>5. Agrees(r, seen', caps')
  BY <1>1, <1>2, PressAgrees DEF Press
<1>6. want = Says(Prefixed(s, k), Scan[k].code) /\ want \in Wants
  BY <1>1, <1>2, PressSays
<1>7. Scan[k].code \in 0 .. 255 /\ r \in SUBSET Bits
  BY <1>1, <1>5, ScanRows DEF Agrees
<1> HIDE DEF want
<1>8. /\ Event(k, Scan[k].code, want) \in Seq(Packets)
      /\ Understood(Event(k, Scan[k].code, want), s, r)
  BY <1>1, <1>3, <1>6, <1>7, EventUnderstood
<1>9. fake \in Seq(Packets) /\ Understood(fake, s, s)
  BY <1>3, FakeUnderstood
<1> HIDE DEF r
<1>10. /\ fake \o Event(k, Scan[k].code, want) \in Seq(Packets)
       /\ Understood(fake \o Event(k, Scan[k].code, want), s, r)
  BY <1>8, <1>9, UnderstoodBoth
<1>11. /\ held' \subseteq Keys /\ seen' \subseteq held' /\ caps' \in BOOLEAN
       /\ \A j \in seen' : j \in Twins(j)
       /\ UNCHANGED shift
  BY DEF Press, WireInv
<1>12. QED
  BY <1>2, <1>4, <1>5, <1>10, <1>11, SentKeeps

LEMMA ReleaseKeeps ==
  ASSUME WireInv, NEW k \in Keys, Release(k)
  PROVE  WireInv'
<1>1. k \in AllKeys /\ seen \in SUBSET AllKeys /\ caps \in BOOLEAN
  BY KeysAssumption DEF WireInv
<1>2. PICK s : Agrees(s, seen, caps) /\ Understood(wire, shift, s)
  BY DEF WireInv
<1>3. s \in SUBSET (Bits \ {"E0ESC"})
  BY <1>2 DEF Agrees
<1> DEFINE d == Scan[k].code + 128
           r == Reads(Prefixed(s, k), d)
<1>4. PICK fake \in Fakes(k, 170) : Send(Event(k, d, "NO") \o fake)
  BY DEF Release
<1>5. Agrees(r, seen', caps') /\ Says(Prefixed(s, k), d) = "NO"
  BY <1>1, <1>2, ReleaseAgrees DEF Release
<1>6. d \in 0 .. 255 /\ r \in SUBSET Bits /\ r \in SUBSET (Bits \ {"E0ESC"})
  BY <1>1, <1>5, ScanRows DEF Agrees
<1> HIDE DEF d
<1>7. "NO" \in Wants
  BY DEF Wants
<1>8. Event(k, d, "NO") \in Seq(Packets) /\ Understood(Event(k, d, "NO"), s, r)
  BY <1>1, <1>3, <1>5, <1>6, <1>7, EventUnderstood
<1> HIDE DEF r
<1>9. fake \in Seq(Packets) /\ Understood(fake, r, r)
  BY <1>6, FakeUnderstood
<1>10. /\ Event(k, d, "NO") \o fake \in Seq(Packets)
       /\ Understood(Event(k, d, "NO") \o fake, s, r)
  BY <1>8, <1>9, UnderstoodBoth
<1>11. /\ held' \subseteq Keys /\ caps' \in BOOLEAN
       /\ \A j \in seen' : j \in Twins(j)
       /\ UNCHANGED shift
  BY DEF Release, WireInv
<1>12. seen' \subseteq held'
  <2>1. k \in seen => k \in Twins(k)
    BY DEF WireInv
  <2>2. QED
    BY <2>1 DEF Release, WireInv
<1>13. QED
  BY <1>2, <1>4, <1>5, <1>10, <1>11, <1>12, SentKeeps

(* The driver's actions are Reads and Says of the first byte.              *)
LEMMA DriverReads ==
  ASSUME WireInv, wire # <<>>
  PROVE  /\ Escape \/ Released \/ Pressed => shift' = Reads(shift, Data)
         /\ Escape \/ Released => Says(shift, Data) = "NO"
         /\ Pressed => Says(shift, Data) = MakeChar
         /\ Reboot => Says(shift, Data) = "REBOOT"
<1>1. Data \in 0 .. 255
  <2>1. Head(wire) \in Packets
    BY DEF WireInv
  <2>2. QED
    BY <2>1 DEF Packets, Data
<1>2. Made(shift, Code(shift, Data)) = MakeShift(MakeCode)
  BY DEF Made, Code, MakeShift, MakeCode
<1>3. Char(shift, Code(shift, Data)) = MakeChar
  BY <1>2 DEF Char, Code, MakeCode, MakeChar
<1>4. Restarts(shift, Code(shift, Data)) <=> CtrlAltDel
  BY <1>2, <1>3 DEF Restarts, CtrlAltDel
<1>5. Escape => shift' = Reads(shift, Data) /\ Says(shift, Data) = "NO"
  BY DEF Escape, Reads, Says
<1>6. Released => shift' = Reads(shift, Data) /\ Says(shift, Data) = "NO"
  BY <1>1 DEF Released, Reads, Says
<1>7. Pressed => shift' = Reads(shift, Data) /\ Says(shift, Data) = MakeChar
  BY <1>1, <1>2, <1>3, <1>4 DEF Pressed, Reads, Says
<1>8. Reboot => Says(shift, Data) = "REBOOT"
  BY <1>1, <1>4 DEF Reboot, Says
<1>9. QED
  BY <1>5, <1>6, <1>7, <1>8

LEMMA DriverKeeps ==
  ASSUME WireInv, kbd_proc_data
  PROVE  WireInv'
<1>1. wire # <<>> /\ wire \in Seq(Packets)
  BY DEF kbd_proc_data, Escape, Released, Pressed, Reboot, WireInv
<1>2. CASE Reboot
  <2>1. Understood(<<>>, {}, {})
    BY UnderstoodNone
  <2>2. Agrees({}, {}, FALSE)
    BY DEF Agrees
  <2>3. \E s : Agrees(s, seen', caps') /\ Understood(wire', shift', s)
    BY <1>2, <2>1, <2>2 DEF Reboot
  <2>4. wire' \in Seq(Packets) /\ Len(wire') <= WireCap
    BY <1>2, KeysAssumption DEF Reboot
  <2>5. QED
    BY <1>2, <2>3, <2>4 DEF Reboot, WireInv
<1>3. CASE Escape \/ Released \/ Pressed
  <2>1. PICK s : Agrees(s, seen, caps) /\ Understood(wire, shift, s)
    BY DEF WireInv
  <2>2. shift' = Reads(shift, Data)
    BY <1>1, <1>3, DriverReads
  <2>3. shift' \in SUBSET Bits /\ Understood(Tail(wire), shift', s)
    BY <1>1, <2>1, <2>2, UnderstoodTail DEF Data
  <2>4. wire' = Tail(wire) /\ UNCHANGED <<held, seen, caps>>
    BY <1>3 DEF Escape, Released, Pressed, ReadByte
  <2>5. /\ Tail(wire) \in Seq(Packets)
        /\ Len(Tail(wire)) = Len(wire) - 1 /\ Len(wire) \in Nat
    BY <1>1
  <2>6. Len(wire') <= WireCap
    BY <2>4, <2>5, KeysAssumption DEF WireInv
  <2>7. QED
    BY <2>1, <2>3, <2>4, <2>5, <2>6 DEF WireInv
<1>4. QED
  BY <1>2, <1>3 DEF kbd_proc_data

LEMMA WireStep == WireInv /\ [KbdNext]_kbdvars => WireInv'
<1> SUFFICES ASSUME WireInv, [KbdNext]_kbdvars PROVE WireInv'
  OBVIOUS
<1>1. CASE kbd_proc_data
  BY <1>1, DriverKeeps
<1>2. ASSUME NEW k \in Keys, Press(k) PROVE WireInv'
  BY <1>2, PressKeeps
<1>3. ASSUME NEW k \in Keys, Release(k) PROVE WireInv'
  BY <1>3, ReleaseKeeps
<1>4. CASE UNCHANGED kbdvars
  BY <1>4 DEF kbdvars, WireInv
<1>5. QED
  BY <1>1, <1>2, <1>3, <1>4 DEF KbdNext

LEMMA WireCorrect == KbdSpec => []WireInv
  BY WireInit, WireStep, PTL DEF KbdSpec

(* With any keys and a wire of any length, `shift` never holds a bit but   *)
(* those of the modifiers, CapsLock and the escape (console.c:301-334).    *)
THEOREM KbdTypeCorrect == KbdSpec => []KbdTypeOK
<1>1. WireInv => KbdTypeOK
  <2>1. \A p \in Packets : p.byte \in 0 .. 255
    BY DEF Packets
  <2>2. wire \in Seq(Packets) => \A i \in 1 .. Len(wire) : wire[i] \in Packets
    OBVIOUS
  <2>3. QED
    BY <2>1, <2>2 DEF WireInv, KbdTypeOK, Bits
<1>2. QED
  BY <1>1, WireCorrect, PTL

(* With any keys, and any number of events sent ahead of the driver, no    *)
(* modifier is stuck once all of them are read (console.c:318-334).        *)
THEOREM NoStuckCorrect == KbdSpec => []NoStuckModifier
<1>1. WireInv => NoStuckModifier
  <2> SUFFICES ASSUME WireInv, wire = <<>>, NEW m \in Modifiers, m \in shift
               PROVE  held \intersect KeysOf[m] # {}
    BY DEF NoStuckModifier
  <2>1. PICK s : Agrees(s, seen, caps) /\ Understood(wire, shift, s)
    BY DEF WireInv
  <2>2. s = shift
    <3>1. Len(wire) = 0
      OBVIOUS
    <3>2. QED
      BY <2>1, <3>1 DEF Understood
  <2>3. seen \intersect KeysOf[m] # {}
    BY <2>1, <2>2, TwinRows DEF Agrees
  <2>4. QED
    BY <2>3 DEF WireInv
<1>2. QED
  BY <1>1, WireCorrect, PTL

(* With any keys, and however far it lags behind, the driver answers every *)
(* byte as the user meant it (console.c:336-351).                          *)
THEOREM DecodedCorrect == KbdSpec => Decoded
<1> DEFINE Right == /\ Escape \/ Released => Head(wire).want = "NO"
                    /\ Pressed => Head(wire).want = MakeChar
                    /\ Reboot => Head(wire).want = "REBOOT"
<1>1. ASSUME WireInv, [KbdNext]_kbdvars PROVE [Right]_kbdvars
  <2>1. CASE wire = <<>>
    BY <2>1 DEF Escape, Released, Pressed, Reboot
  <2>2. CASE wire # <<>>
    <3>1. wire \in Seq(Packets) /\ \E s : Understood(wire, shift, s)
      BY <1>1 DEF WireInv
    <3>2. Head(wire).want = Says(shift, Data)
      BY <2>2, <3>1, UnderstoodTail DEF Data
    <3>3. QED
      BY <1>1, <2>2, <3>2, DriverReads
  <2>3. QED
    BY <2>1, <2>2
<1>2. QED
  BY <1>1, WireCorrect, PTL DEF KbdSpec, Decoded
=============================================================================
