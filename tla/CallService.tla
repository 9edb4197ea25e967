---------------------------- MODULE CallService ----------------------------
(***************************************************************************)
(* What myhome_ble_i2c promises whoever calls it, with none of its         *)
(* mechanism.  A call is made; its command is carried out, once; its       *)
(* caller is then given the answer to what was carried out, once.  At any  *)
(* time a caller may give up, and the driver may fail, which all callers   *)
(* see.                                                                    *)
(*                                                                         *)
(* The promise has a hole, which is a stage of its own: a call that is     *)
(* lost.  A lost call may still be answered, also with what another call   *)
(* did, or never.                                                          *)
(***************************************************************************)
EXTENDS Naturals, Sequences

VARIABLE
  stage       \* of each call, in the order they were made

Open  == {"made", "carried"}
Waits == Open \cup {"lost"}

Init == stage = <<>>

Losable == {n \in DOMAIN stage : stage[n] \in Open}

Without(S) == [n \in DOMAIN stage |-> IF n \in S THEN "lost" ELSE stage[n]]

\* A new call.  It may join what is carried out already, fail at once, or be lost
\* from the start; and others may be lost by it.
Make(S, s) == stage' = Append(Without(S), s)

Lose(S) == stage' = Without(S)

Carry(n) ==
  /\ stage[n] = "made"
  /\ stage' = [stage EXCEPT ![n] = "carried"]

Answer(n, s) ==
  /\ \/ stage[n] = "carried" /\ s = "answered"
     \/ stage[n] = "lost"
  /\ stage' = [stage EXCEPT ![n] = s]

GiveUp(n) ==
  /\ stage[n] \in Waits
  /\ stage' = [stage EXCEPT ![n] = "given up"]

Fail ==
  stage' = [n \in DOMAIN stage |-> IF stage[n] \in Waits THEN "failed" ELSE stage[n]]

Next ==
  \/ \E S \in SUBSET Losable : Lose(S)
  \/ \E n \in DOMAIN stage :
       Carry(n) \/ GiveUp(n) \/ \E s \in {"answered", "misled"} : Answer(n, s)
  \/ Fail
  \/ \E S \in SUBSET Losable, s \in Waits \cup {"failed"} : Make(S, s)

Spec == Init /\ [][Next]_stage
=============================================================================
