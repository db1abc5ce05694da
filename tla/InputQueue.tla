----------------------------- MODULE InputQueue -----------------------------
(***************************************************************************)
(* What the console promises to a reader of input: a queue.  A character   *)
(* that a device hands over joins the end of the queue, cons_getc takes    *)
(* the oldest one, or answers NUL when nothing waits.                      *)
(*                                                                         *)
(* Two promises are stated.  Fifo is the one callers rely on: nothing is   *)
(* ever lost or reordered.  Lossy is what survives when input outruns the  *)
(* reader: a character that arrives on a full queue wipes the queue out,   *)
(* itself included.                                                        *)
(***************************************************************************)
EXTENDS Naturals, Sequences

CONSTANTS
  Capacity,   \* how many characters can wait
  Chars,      \* the characters a device can hand over
  NUL         \* the answer that means "none waiting"

VARIABLES
  queue,      \* the characters waiting, oldest first
  got         \* the answer of the last call

vars == <<queue, got>>

Init == queue = <<>> /\ got = NUL

Put(c) ==
  /\ Len(queue) < Capacity
  /\ queue' = Append(queue, c)
  /\ UNCHANGED got

Overrun ==
  /\ Len(queue) = Capacity
  /\ queue' = <<>>
  /\ UNCHANGED got

Get ==
  /\ queue # <<>>
  /\ got' = Head(queue)
  /\ queue' = Tail(queue)

GetNone ==
  /\ queue = <<>>
  /\ got' = NUL
  /\ UNCHANGED queue

FifoNext == (\E c \in Chars : Put(c)) \/ Get \/ GetNone

LossyNext == FifoNext \/ Overrun

Fifo == Init /\ [][FifoNext]_vars

Lossy == Init /\ [][LossyNext]_vars
=============================================================================
