----------------------------- MODULE EventLink ------------------------------
(***************************************************************************)
(* The event path from the nRF52840 to the ESP32.                          *)
(*                                                                         *)
(* nRF side (event_queue.c, i2c_target.c): BLE callbacks push events into  *)
(* a ring buffer.  The IRQ line is pulled LOW by the push that makes the   *)
(* queue non-empty and released by the pop that empties it; the target     *)
(* answers an I2C read from whatever register was selected last.           *)
(*                                                                         *)
(* ESP side (myhome_ble_i2c.erl): a gen_server that sleeps until a falling *)
(* edge, a drain_continue or a check_ready message wakes it, then drains:  *)
(* select EVENT_LEN, read type and length, select EVENT, read the payload, *)
(* at most DrainLimit times.  The type handed to handle_event is the one   *)
(* peeked by the first read, the payload is the one popped by the second.  *)
(*                                                                         *)
(* Either chip may restart at any moment and any I2C transfer may fail.    *)
(***************************************************************************)
EXTENDS Naturals, Sequences

CONSTANTS
  Size,         \* EVENT_QUEUE_SIZE, 32 in the firmware
  DrainLimit,   \* events per drain cycle, 64 in the driver
  Event,        \* events, told apart by type and payload together
  Ready,        \* EVT_READY, announced once per nRF boot
  Junk,         \* what a read of the wrong register or an empty queue yields
  MaxPushes,    \* bounds: events pushed,
  MaxErrors,    \*   I2C transfers that fail on a live bus,
  MaxResets,    \*   nRF restarts,
  MaxRestarts   \*   ESP32 (or gen_server) restarts

ASSUME SizeAssumption  == Size \in Nat \ {0}
ASSUME LimitAssumption == DrainLimit \in Nat \ {0}
ASSUME EventAssumption == Ready \in Event /\ Junk \notin Event
ASSUME BoundAssumption ==
  /\ MaxPushes \in Nat /\ MaxErrors \in Nat
  /\ MaxResets \in Nat /\ MaxRestarts \in Nat

VARIABLES
  \* nRF52840
  phase,      \* "down", "booting" (I2C answers, READY not yet queued), "running"
  ring, head, tail, count,
  irq,        \* level of the IRQ line: "HIGH" is idle, "LOW" is pending
  reg,        \* current_reg, selected by the last I2C write
  \* ESP32
  pc,         \* which transfer of the drain loop comes next; "idle" outside it
  cause,      \* the message that started the current drain
  left,       \* drain_events' Remaining
  peeked,     \* EventType (and length) read from EVENT_LEN
  wakeups,    \* gpio_interrupt messages in the mailbox
  continues,  \* drain_continue messages under way
  polling,    \* the check_ready timer is set
  ready,
  \* history
  handled,    \* payloads handed to handle_event, in order
  torn,       \* some handle_event got a type and a payload of two events
  accepted,   \* events the ring accepted
  pushes, errors, resets, restarts

nrf   == <<phase, ring, head, tail, count, irq, reg>>
esp   == <<pc, cause, left, peeked, wakeups, continues, polling, ready>>
hist  == <<handled, torn, accepted, pushes, errors, resets, restarts>>
vars  == <<nrf, esp, hist>>

Index == 0 .. Size - 1

\* The c entries of ring r from index h on, wrapping round.
Window(r, h, c) == [i \in 1 .. c |-> r[(h + i - 1) % Size]]

\* The queue as a sequence, oldest first.
Contents == Window(ring, head, count)

Init ==
  /\ phase = "booting"
  /\ ring = [i \in Index |-> Ready]
  /\ head = 0 /\ tail = 0 /\ count = 0
  /\ irq = "HIGH"
  /\ reg = "STATUS"
  /\ pc = "idle" /\ cause = "wake" /\ left = 0 /\ peeked = Junk
  /\ wakeups = 0 /\ continues = 0
  /\ polling = TRUE
  /\ ready = FALSE
  /\ handled = <<>> /\ torn = FALSE /\ accepted = 0
  /\ pushes = 0 /\ errors = 0 /\ resets = 0 /\ restarts = 0

-----------------------------------------------------------------------------
(* nRF52840: event_queue.c and the boot sequence of main.c                  *)

\* Mutants of PushOp: the full check is missing; a full queue overwrites its
\* oldest entry.
PushOp_NoFullCheck(e) ==
  /\ ring' = [ring EXCEPT ![tail] = e]
  /\ tail' = (tail + 1) % Size
  /\ count' = count + 1
  /\ accepted' = accepted + 1
  /\ irq' = "LOW"
  /\ wakeups' = IF irq = "HIGH" THEN wakeups + 1 ELSE wakeups
  /\ UNCHANGED head
PushOp_Overwrite(e) ==
  /\ ring' = [ring EXCEPT ![tail] = e]
  /\ tail' = (tail + 1) % Size
  /\ head' = IF count = Size THEN tail' ELSE head
  /\ count' = IF count = Size THEN Size ELSE count + 1
  /\ accepted' = accepted + 1
  /\ irq' = "LOW"
  /\ wakeups' = IF irq = "HIGH" THEN wakeups + 1 ELSE wakeups

\* event_queue_push.  A full queue refuses the event.  The push that makes
\* the queue non-empty drives IRQ LOW, and that edge becomes a message in
\* the driver's mailbox.
PushOp(e) ==
  IF count >= Size
  THEN UNCHANGED <<ring, head, tail, count, irq, wakeups, accepted>>
  ELSE /\ ring' = [ring EXCEPT ![tail] = e]
       /\ tail' = (tail + 1) % Size
       /\ count' = count + 1
       /\ accepted' = accepted + 1
       /\ UNCHANGED head
       /\ IF count = 0
          THEN /\ irq' = "LOW"
               /\ wakeups' = IF irq = "HIGH" THEN wakeups + 1 ELSE wakeups
          ELSE UNCHANGED <<irq, wakeups>>

\* A BLE callback, or the PING handler, queues an event.
Push(e) ==
  /\ phase # "down"
  /\ pushes < MaxPushes
  /\ pushes' = pushes + 1
  /\ PushOp(e)
  /\ UNCHANGED <<phase, reg, pc, cause, left, peeked, continues, polling,
                 ready, handled, torn, errors, resets, restarts>>

\* Last step of main() before the watchdog loop.
AnnounceReady ==
  /\ phase = "booting"
  /\ phase' = "running"
  /\ PushOp(Ready)
  /\ UNCHANGED <<reg, pc, cause, left, peeked, continues, polling, ready,
                 handled, torn, pushes, errors, resets, restarts>>

\* Watchdog, RST pin, CMD_RESET or power: the queue is gone and the IRQ line
\* floats up to the ESP32's pull-up.
NrfReset ==
  /\ phase # "down"
  /\ resets < MaxResets
  /\ resets' = resets + 1
  /\ phase' = "down"
  /\ head' = 0 /\ tail' = 0 /\ count' = 0
  /\ irq' = "HIGH"
  /\ reg' = "STATUS"
  /\ UNCHANGED <<ring, esp, handled, torn, accepted, pushes, errors, restarts>>

\* event_queue_init and i2c_target_init have run.
NrfBoot ==
  /\ phase = "down"
  /\ phase' = "booting"
  /\ UNCHANGED <<ring, head, tail, count, irq, reg, esp, hist>>

\* Mutants of PopOp: the line is never released; the newest entry is dropped
\* instead of the oldest.
PopOp_NoRelease ==
  /\ head' = (head + 1) % Size
  /\ count' = count - 1
  /\ UNCHANGED <<ring, tail, irq>>
PopOp_Newest ==
  /\ tail' = (tail + Size - 1) % Size
  /\ count' = count - 1
  /\ irq' = IF count = 1 THEN "HIGH" ELSE irq
  /\ UNCHANGED <<ring, head>>

\* event_queue_pop on a non-empty queue.
PopOp ==
  /\ head' = (head + 1) % Size
  /\ count' = count - 1
  /\ irq' = IF count = 1 THEN "HIGH" ELSE irq
  /\ UNCHANGED <<ring, tail>>

-----------------------------------------------------------------------------
(* ESP32: the drain loop of myhome_ble_i2c.erl                              *)

StartDrain(why) ==
  /\ pc = "idle"
  /\ pc' = "selectLen"
  /\ cause' = why
  /\ left' = DrainLimit
  /\ UNCHANGED <<nrf, peeked, ready, hist>>

OnInterrupt ==
  /\ wakeups > 0
  /\ wakeups' = wakeups - 1
  /\ StartDrain("wake")
  /\ UNCHANGED <<continues, polling>>

OnContinue ==
  /\ continues > 0
  /\ continues' = continues - 1
  /\ StartDrain("wake")
  /\ UNCHANGED <<wakeups, polling>>

OnCheckReady ==
  /\ polling
  /\ polling' = FALSE
  /\ StartDrain("check")
  /\ UNCHANGED <<wakeups, continues>>

\* drain_events returns.  After a check_ready the handler either goes
\* operational, which writes CMD_LIST_CONNECTIONS to the command register,
\* or sets the timer again.
EndDrain(isReady) ==
  /\ pc' = "idle"
  /\ left' = 0
  /\ cause' = "wake"
  /\ polling' = (polling \/ (cause = "check" /\ ~isReady))
  /\ reg' = IF cause = "check" /\ isReady /\ phase # "down"
            THEN "CMD" ELSE reg

\* Mutant of NextEvent: reaching the limit ends the drain for good.
NextEvent_NoContinue(isReady) ==
  /\ peeked' = Junk
  /\ ready' = isReady
  /\ IF left = 1
     THEN EndDrain(isReady) /\ UNCHANGED continues
     ELSE /\ pc' = "selectLen"
          /\ left' = left - 1
          /\ UNCHANGED <<cause, continues, polling, reg>>

\* drain_events(State1, Remaining - 1), the clause for 0 included.
NextEvent(isReady) ==
  /\ peeked' = Junk
  /\ ready' = isReady
  /\ IF left = 1
     THEN /\ continues' = continues + 1
          /\ EndDrain(isReady)
     ELSE /\ pc' = "selectLen"
          /\ left' = left - 1
          /\ UNCHANGED <<cause, continues, polling, reg>>

SelectLen ==
  /\ pc = "selectLen"
  /\ phase # "down"
  /\ reg' = "EVENT_LEN"
  /\ pc' = "readLen"
  /\ UNCHANGED <<phase, ring, head, tail, count, irq, cause, left, peeked,
                 wakeups, continues, polling, ready, hist>>

\* An empty queue ends the drain.  A nRF that restarted since SelectLen
\* answers from the STATUS register, which is never <<0, 0>>.
ReadLen ==
  /\ pc = "readLen"
  /\ phase # "down"
  /\ IF reg = "EVENT_LEN" /\ count = 0
     THEN /\ EndDrain(ready)
          /\ UNCHANGED peeked
     ELSE /\ peeked' = IF reg = "EVENT_LEN" THEN ring[head] ELSE Junk
          /\ pc' = "selectEvent"
          /\ UNCHANGED <<cause, left, polling, reg>>
  /\ UNCHANGED <<phase, ring, head, tail, count, irq, wakeups,
                  continues, ready, hist>>

SelectEvent ==
  /\ pc = "selectEvent"
  /\ phase # "down"
  /\ reg' = "EVENT"
  /\ pc' = "readEvent"
  /\ UNCHANGED <<phase, ring, head, tail, count, irq, cause, left, peeked,
                 wakeups, continues, polling, ready, hist>>

\* The target pops while it answers, and handle_event runs with the peeked
\* type and the popped payload.  If a reset has emptied the ring in between, it runs
\* on a type without an event: that is torn, and handles nothing.
ReadEvent ==
  /\ pc = "readEvent"
  /\ phase # "down"
  /\ IF reg = "EVENT" /\ count > 0
     THEN /\ PopOp
          /\ handled' = Append(handled, ring[head])
          /\ torn' = (torn \/ peeked # ring[head])
     ELSE /\ torn' = TRUE
          /\ UNCHANGED <<ring, head, tail, count, irq, handled>>
  /\ NextEvent(ready \/ peeked = Ready)
  /\ UNCHANGED <<phase, wakeups, accepted, pushes, errors, resets, restarts>>

\* The target has popped an event whose bytes do not arrive.
PopInTransit ==
  /\ pc = "readEvent"
  /\ reg = "EVENT"
  /\ count > 0
  /\ PopOp

\* A transfer fails, because the nRF is down or on a live bus.
TransferError ==
  \/ phase = "down" /\ UNCHANGED errors
  \/ phase # "down" /\ errors < MaxErrors /\ errors' = errors + 1

\* Either half of the EVENT_LEN exchange fails: the drain stops there.
LenFails ==
  /\ pc \in {"selectLen", "readLen"}
  /\ TransferError
  /\ EndDrain(ready)
  /\ UNCHANGED <<phase, ring, head, tail, count, irq, peeked, wakeups,
                 continues, ready, handled, torn, accepted, pushes, resets,
                 restarts>>

\* Either half of the EVENT exchange fails: the event is skipped and the
\* loop goes on.  If the read had started, the target may have popped.
EventFails ==
  /\ pc \in {"selectEvent", "readEvent"}
  /\ TransferError
  /\ \/ UNCHANGED <<ring, head, tail, count, irq>>
     \/ PopInTransit
  /\ NextEvent(ready)
  /\ UNCHANGED <<phase, wakeups, handled, torn, accepted, pushes, resets,
                 restarts>>

\* A ping or an API call, between drains: the command register is selected.
Command ==
  /\ pc = "idle"
  /\ ready
  /\ phase # "down"
  /\ reg' = "CMD"
  /\ UNCHANGED <<phase, ring, head, tail, count, irq, esp, hist>>

\* Mutant of EspRestart: init does not set the check_ready timer.
EspRestart_NoTimer ==
  /\ restarts < MaxRestarts
  /\ restarts' = restarts + 1
  /\ pc' = "idle" /\ cause' = "wake" /\ left' = 0 /\ peeked' = Junk
  /\ wakeups' = 0 /\ continues' = 0
  /\ polling' = FALSE /\ ready' = FALSE
  /\ UNCHANGED <<nrf, handled, torn, accepted, pushes, errors, resets>>

\* The ESP32 reboots or the gen_server is restarted: mailbox and state are
\* gone, init attaches the interrupt and sets the check_ready timer.  An
\* event the target popped for a read in progress goes with them.
EspRestart ==
  /\ restarts < MaxRestarts
  /\ restarts' = restarts + 1
  /\ pc' = "idle" /\ cause' = "wake" /\ left' = 0 /\ peeked' = Junk
  /\ wakeups' = 0 /\ continues' = 0
  /\ polling' = TRUE
  /\ ready' = FALSE
  /\ \/ UNCHANGED <<ring, head, tail, count, irq>>
     \/ PopInTransit
  /\ UNCHANGED <<phase, reg, handled, torn, accepted, pushes, errors, resets>>

Wake  == OnInterrupt \/ OnContinue \/ OnCheckReady
Drain == SelectLen \/ ReadLen \/ SelectEvent \/ ReadEvent

Next ==
  \/ \E e \in Event \ {Ready} : Push(e)
  \/ AnnounceReady
  \/ NrfReset
  \/ NrfBoot
  \/ Wake
  \/ Drain
  \/ LenFails
  \/ EventFails
  \/ Command
  \/ EspRestart

Spec == Init /\ [][Next]_vars

\* The gen_server is scheduled, timers fire and the nRF boots: each message
\* kind is eventually taken from the mailbox (which is served in order) and
\* a started drain takes its next step.
Fairness ==
  /\ WF_vars(AnnounceReady)
  /\ WF_vars(NrfBoot)
  /\ SF_vars(OnInterrupt)
  /\ SF_vars(OnContinue)
  /\ SF_vars(OnCheckReady)
  /\ WF_vars(Drain)
  /\ WF_vars(phase = "down" /\ (LenFails \/ EventFails))

FairSpec == Spec /\ Fairness
-----------------------------------------------------------------------------
(* Properties                                                               *)

\* Every variable stays in its range.  In particular the uint8_t counters of
\* event_queue.c never leave 0 .. Size.
TypeOK ==
  /\ phase \in {"down", "booting", "running"}
  /\ ring \in [Index -> Event]
  /\ head \in Index /\ tail \in Index /\ count \in 0 .. Size
  /\ irq \in {"LOW", "HIGH"}
  /\ reg \in {"STATUS", "CMD", "EVENT", "EVENT_LEN"}
  /\ pc \in {"idle", "selectLen", "readLen", "selectEvent", "readEvent"}
  /\ cause \in {"wake", "check"}
  /\ left \in 0 .. DrainLimit
  /\ pc # "idle" <=> left > 0
  /\ peeked \in Event \cup {Junk}
  /\ wakeups \in Nat /\ continues \in Nat /\ accepted \in Nat
  /\ pushes \in Nat /\ errors \in Nat /\ resets \in Nat /\ restarts \in Nat
  /\ polling \in BOOLEAN /\ ready \in BOOLEAN /\ torn \in BOOLEAN
  /\ handled \in Seq(Event)

\* The IRQ line is LOW exactly while the queue holds events, whatever the
\* order of pushes, pops and restarts; the queue drives the pin only on its
\* 0 -> 1 and 1 -> 0 transitions (event_queue.c push and pop).
IrqMeansPending == irq = "LOW" <=> count > 0

\* The driver is about to look at the queue.
Awake == pc # "idle" \/ wakeups > 0 \/ continues > 0 \/ polling

\* No lost wakeup: as long as every transfer on a live bus succeeded, queued
\* events always have a drain under way or a message that will start one,
\* although only the first push gives an edge, the drain stops on an empty
\* read that a push may overtake, and either side may restart.
NoLostWakeup == count > 0 /\ errors = 0 => Awake

\* handle_event never combines the type of one queue entry with the payload
\* of another (read_event ignores the type it pops), unless the nRF restarts
\* between the two reads.
WholeEvents == resets = 0 => ~torn

\* What WholeEvents needs to be inductive: between its two reads the driver
\* holds the oldest entry, which only it can remove.
HeadIsPeeked ==
  resets = 0 =>
    /\ phase # "down"
    /\ pc = "readLen" => reg = "EVENT_LEN"
    /\ pc = "readEvent" => reg = "EVENT"
    /\ pc \in {"selectEvent", "readEvent"} => count > 0 /\ peeked = ring[head]

\* The inductive invariant: the ring's indices agree with its count, and the
\* four properties hold together.
LinkInv ==
  /\ TypeOK
  /\ tail = (head + count) % Size
  /\ phase = "down" => count = 0
  /\ IrqMeansPending
  /\ NoLostWakeup
  /\ HeadIsPeeked
  /\ WholeEvents

\* The event path implements a bounded FIFO channel: what handle_event gets
\* is what was queued, in order, at most once, across wrap-around of the
\* ring, failed transfers and restarts.
Channel == INSTANCE EventChannel
  WITH Capacity <- Size, chan <- Contents, got <- handled

ChannelSpec == Channel!Spec

\* Without transfer errors and restarts nothing is lost once accepted: the driver
\* catches up with the queue, every accepted event having been handed to
\* handle_event.
EventuallyHandled ==
  Len(handled) < accepted ~> \/ Len(handled) = accepted
                             \/ errors > 0 \/ resets > 0 \/ restarts > 0

\* With restarts of both chips, but no transfer failing on a live bus, a
\* pending IRQ line is always serviced: the queue is drained to empty.
EventuallyDrained == irq = "LOW" ~> (irq = "HIGH" \/ errors > 0)
=============================================================================
