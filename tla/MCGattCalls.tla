---------------------------- MODULE MCGattCalls -----------------------------
(* Instances of GattCalls for TLC.  Handles are alike.                       *)
EXTENDS GattCalls, TLC

Alike == Permutations(Link)

\* What makes two states different.  Nothing reads the kind and the handle of a call
\* that waits no more (its place in the waiter maps is kept), and what it was told is
\* final: its own answer and true, or excused, or else a violation; and how an excused
\* call ended does not count.
Fulfilled(n) == n \in excused \/ (n \notin misled /\ ToldTruth(n))

Live ==
  <<nrf, queue, waiter, results, excused \cap Waiting, troubles,
    [n \in DOMAIN calls |-> IF n \in Waiting THEN calls[n] ELSE <<calls[n].state, Fulfilled(n)>>],
    [n \in Waiting \ excused |-> outcome[n]]>>
=============================================================================
