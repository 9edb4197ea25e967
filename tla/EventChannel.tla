---------------------------- MODULE EventChannel ----------------------------
(***************************************************************************)
(* What the event path between the nRF52840 and the ESP32 promises, with   *)
(* none of its mechanism: a bounded first-in first-out channel.  Events    *)
(* that do not fit are refused at the sender; an accepted event is handed  *)
(* over at most once and in order; it can vanish only from the head, when  *)
(* a transfer fails half way, or with everything else, when the sender     *)
(* resets.  EventLink implements it with a ring buffer, an interrupt line  *)
(* and two I2C transactions per event.                                     *)
(***************************************************************************)
EXTENDS Naturals, Sequences

CONSTANTS
  Capacity,   \* how many events the channel holds
  Event       \* what can be sent

VARIABLES
  chan,       \* accepted, not yet handed over
  got         \* everything the receiver was handed, in order

vars == <<chan, got>>

Init ==
  /\ chan = <<>>
  /\ got = <<>>

Send(e) ==
  /\ Len(chan) < Capacity
  /\ chan' = Append(chan, e)
  /\ UNCHANGED got

Deliver ==
  /\ chan # <<>>
  /\ got' = Append(got, Head(chan))
  /\ chan' = Tail(chan)

LoseHead ==
  /\ chan # <<>>
  /\ chan' = Tail(chan)
  /\ UNCHANGED got

Crash ==
  /\ chan' = <<>>
  /\ UNCHANGED got

Next ==
  \/ \E e \in Event : Send(e)
  \/ Deliver
  \/ LoseHead
  \/ Crash

Spec == Init /\ [][Next]_vars
=============================================================================
