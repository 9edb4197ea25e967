-------------------------- MODULE EventLinkProofs ---------------------------
(***************************************************************************)
(* Proofs about EventLink, for every queue size, drain limit, event set    *)
(* and number of pushes, transfer errors and restarts.                     *)
(***************************************************************************)
EXTENDS EventLink, SequenceTheorems, TLAPS

USE SizeAssumption, LimitAssumption, EventAssumption, BoundAssumption

-----------------------------------------------------------------------------
(* Arithmetic of the ring indices                                           *)

\* One step round the ring stays in the ring.
LEMMA NextIndex == ASSUME NEW i \in Index PROVE (i + 1) % Size \in Index
BY DEF Index

\* An index is its own slot.
LEMMA InRing == ASSUME NEW i \in Index PROVE i % Size = i
BY DEF Index

\* Slots start at head and wrap at most once.
LEMMA SlotRange ==
  ASSUME NEW h \in Index, NEW c \in 0 .. Size
  PROVE  (h + c) % Size \in Index
BY DEF Index

\* Advancing head and shrinking the count names the same write position.
LEMMA PopKeepsTail ==
  ASSUME NEW h \in Index, NEW c \in 1 .. Size
  PROVE  (((h + 1) % Size) + (c - 1)) % Size = (h + c) % Size
<1>1. CASE h + 1 < Size
  <2>1. (h + 1) % Size = h + 1
    BY <1>1 DEF Index
  <2>2. (h + 1) + (c - 1) = h + c
    BY DEF Index
  <2> QED
    BY <2>1, <2>2
<1>2. CASE h + 1 = Size
  <2>1. (h + 1) % Size = 0
    BY <1>2 DEF Index
  <2>2. (0 + (c - 1)) % Size = c - 1
    BY DEF Index
  <2>3. (h + c) % Size = c - 1
    BY <1>2 DEF Index
  <2> QED
    BY <2>1, <2>2, <2>3
<1> QED
  BY <1>1, <1>2 DEF Index

\* The write position moves on by one when the count grows.
LEMMA PushMovesTail ==
  ASSUME NEW h \in Index, NEW c \in 0 .. Size - 1
  PROVE  (((h + c) % Size) + 1) % Size = (h + (c + 1)) % Size
<1>1. CASE h + c < Size
  BY <1>1 DEF Index
<1>2. CASE h + c >= Size
  <2>1. (h + c) % Size = h + c - Size
    BY <1>2 DEF Index
  <2>2. (h + (c + 1)) % Size = h + c + 1 - Size
    BY <1>2 DEF Index
  <2>3. (h + c - Size + 1) % Size = h + c - Size + 1
    <3>1. h + c - Size + 1 \in Index
      BY <1>2 DEF Index
    <3> QED
      BY <3>1, InRing
  <2> QED
    BY <2>1, <2>2, <2>3 DEF Index
<1> QED
  BY <1>1, <1>2 DEF Index

\* While there is room, the write position is not an occupied slot.
LEMMA TailIsFree ==
  ASSUME NEW h \in Index, NEW c \in 0 .. Size - 1, NEW i \in 1 .. c
  PROVE  (h + c) % Size # (h + i - 1) % Size
BY DEF Index

-----------------------------------------------------------------------------
(* The inductive invariant                                                  *)

\* The initial state satisfies the invariant.
LEMMA InitInv == Init => LinkInv
<1> SUFFICES ASSUME Init PROVE LinkInv
  OBVIOUS
<1>1. TypeOK
  <2>1. ring \in [Index -> Event] /\ 0 \in Index
    BY DEF Init, Index
  <2>2. handled \in Seq(Event)
    BY DEF Init
  <2> QED
    BY <2>1, <2>2 DEF Init, TypeOK
<1>2. tail = (head + count) % Size
  BY DEF Init
<1> QED
  BY <1>1, <1>2 DEF Init, LinkInv, IrqMeansPending, NoLostWakeup, Awake,
                    HeadIsPeeked, WholeEvents

\* A pop keeps head and count in range and leaves the write position where
\* the indices say it is.
LEMMA PopRange ==
  ASSUME TypeOK, count > 0, PopOp
  PROVE  /\ head' \in Index
         /\ count' = count - 1
         /\ count' \in 0 .. Size
         /\ irq' = (IF count' = 0 THEN "HIGH" ELSE irq)
         /\ ring' = ring /\ tail' = tail
<1>1. (head + 1) % Size \in Index
  BY NextIndex DEF TypeOK
<1> QED
  BY <1>1 DEF TypeOK, PopOp

\* A push keeps the ring and its indices in range.
LEMMA PushRange ==
  ASSUME TypeOK, NEW e \in Event, PushOp(e)
  PROVE  /\ ring' \in [Index -> Event]
         /\ head' = head
         /\ tail' \in Index
         /\ count' \in 0 .. Size
         /\ irq' \in {"LOW", "HIGH"}
         /\ wakeups' \in Nat /\ accepted' \in Nat
<1>1. (tail + 1) % Size \in Index
  BY NextIndex DEF TypeOK
<1> QED
  BY <1>1 DEF TypeOK, PushOp

\* Every action keeps the variables in their ranges.
LEMMA TypeStep == TypeOK /\ [Next]_vars => TypeOK'
<1> SUFFICES ASSUME TypeOK, [Next]_vars PROVE TypeOK'
  OBVIOUS
<1> USE DEF TypeOK
<1>1. ASSUME NEW e \in Event \ {Ready}, Push(e) PROVE TypeOK'
  BY <1>1, PushRange DEF Push
<1>2. CASE AnnounceReady
  BY <1>2, PushRange DEF AnnounceReady
<1>3. CASE NrfReset
  BY <1>3 DEF NrfReset, esp, Index
<1>4. CASE NrfBoot
  BY <1>4 DEF NrfBoot, esp, hist
<1>5. CASE Wake
  <2>1. CASE OnInterrupt
    BY <2>1 DEF OnInterrupt, StartDrain, nrf, hist
  <2>2. CASE OnContinue
    BY <2>2 DEF OnContinue, StartDrain, nrf, hist
  <2>3. CASE OnCheckReady
    <3>1. polling' \in BOOLEAN
      BY <2>3, Zenon DEF OnCheckReady
    <3> QED
      BY <2>3, <3>1 DEF OnCheckReady, StartDrain, nrf, hist
  <2> QED
    BY <1>5, <2>1, <2>2, <2>3 DEF Wake
<1>6. CASE SelectLen
  BY <1>6 DEF SelectLen, hist
<1>7. CASE ReadLen
  <2>1. polling' \in BOOLEAN
    BY <1>7, Zenon DEF ReadLen, EndDrain
  <2>2. peeked' \in Event \cup {Junk}
    BY <1>7 DEF ReadLen
  <2> QED
    BY <1>7, <2>1, <2>2 DEF ReadLen, EndDrain, hist
<1>8. CASE SelectEvent
  BY <1>8 DEF SelectEvent, hist
<1>9. CASE ReadEvent
  <2>1. /\ head' \in Index /\ count' \in 0 .. Size
        /\ irq' \in {"LOW", "HIGH"} /\ ring' = ring /\ tail' = tail
    BY <1>9, PopRange DEF ReadEvent
  <2>2. torn' \in BOOLEAN
    BY <1>9, Zenon DEF ReadEvent
  <2>3. handled' \in Seq(Event)
    BY <1>9 DEF ReadEvent
  <2>4. ready' \in BOOLEAN /\ polling' \in BOOLEAN
    BY <1>9, Zenon DEF ReadEvent, NextEvent, EndDrain
  <2> QED
    BY <1>9, <2>1, <2>2, <2>3, <2>4 DEF ReadEvent, NextEvent, EndDrain
<1>10. CASE LenFails
  BY <1>10 DEF LenFails, EndDrain, TransferError
<1>11. CASE EventFails
  <2>1. /\ head' \in Index /\ count' \in 0 .. Size
        /\ irq' \in {"LOW", "HIGH"} /\ ring' = ring /\ tail' = tail
    BY <1>11, PopRange DEF EventFails, PopInTransit
  <2>2. ready' \in BOOLEAN /\ polling' \in BOOLEAN
    BY <1>11, Zenon DEF EventFails, NextEvent, EndDrain
  <2> QED
    BY <1>11, <2>1, <2>2 DEF EventFails, NextEvent, EndDrain, TransferError
<1>12. CASE Command
  BY <1>12 DEF Command, esp, hist
<1>13. CASE EspRestart
  <2>1. /\ head' \in Index /\ count' \in 0 .. Size
        /\ irq' \in {"LOW", "HIGH"} /\ ring' = ring /\ tail' = tail
    BY <1>13, PopRange DEF EspRestart, PopInTransit
  <2>2. polling' \in BOOLEAN /\ ready' \in BOOLEAN
    BY <1>13, Zenon DEF EspRestart
  <2> QED
    BY <1>13, <2>1, <2>2 DEF EspRestart
<1>14. CASE UNCHANGED vars
  BY <1>14 DEF vars, nrf, esp, hist
<1> QED
  BY <1>1, <1>2, <1>3, <1>4, <1>5, <1>6, <1>7, <1>8, <1>9, <1>10, <1>11,
     <1>12, <1>13, <1>14 DEF Next, Drain

\* Seen from the queue, every step is a push on a live nRF, a reset, a pop of
\* a non-empty queue, or leaves it alone.
LEMMA QueueSteps ==
  ASSUME [Next]_vars
  PROVE  \/ phase # "down" /\ \E e \in Event : PushOp(e)
         \/ NrfReset
         \/ count > 0 /\ PopOp
         \/ UNCHANGED <<ring, head, tail, count, irq>>
<1>1. ASSUME NEW e \in Event \ {Ready}, Push(e)
      PROVE  phase # "down" /\ \E d \in Event : PushOp(d)
  BY <1>1 DEF Push
<1>2. ASSUME AnnounceReady PROVE phase # "down" /\ \E d \in Event : PushOp(d)
  BY <1>2 DEF AnnounceReady
<1>3. CASE NrfBoot
  BY <1>3 DEF NrfBoot
<1>4. CASE Wake
  BY <1>4 DEF Wake, OnInterrupt, OnContinue, OnCheckReady, StartDrain, nrf
<1>5. CASE SelectLen \/ ReadLen \/ SelectEvent \/ LenFails \/ Command
  BY <1>5 DEF SelectLen, ReadLen, SelectEvent, LenFails, Command
<1>6. CASE ReadEvent
  BY <1>6 DEF ReadEvent
<1>7. CASE EventFails
  BY <1>7 DEF EventFails, PopInTransit
<1>8. CASE EspRestart
  BY <1>8 DEF EspRestart, PopInTransit
<1>9. CASE UNCHANGED vars
  BY <1>9 DEF vars, nrf
<1> QED
  BY <1>1, <1>2, <1>3, <1>4, <1>5, <1>6, <1>7, <1>8, <1>9 DEF Next, Drain

\* A push leaves nothing but the queue, the line and the edge behind.
LEMMA PushEffect ==
  ASSUME TypeOK, NEW e \in Event, PushOp(e)
  PROVE  /\ head' = head
         /\ \/ count = Size /\ UNCHANGED <<ring, tail, count, irq, wakeups>>
            \/ /\ count < Size
               /\ count' = count + 1
               /\ tail' = (tail + 1) % Size
               /\ ring' = [ring EXCEPT ![tail] = e]
               /\ irq' = IF count = 0 THEN "LOW" ELSE irq
               /\ (count = 0 /\ irq = "HIGH" => wakeups' > 0)
               /\ wakeups' >= wakeups
BY DEF TypeOK, PushOp

\* The write position stays count entries after the read position.
LEMMA TailStep ==
  ASSUME TypeOK, tail = (head + count) % Size, [Next]_vars
  PROVE  tail' = (head' + count') % Size
<1>1. CASE \E e \in Event : PushOp(e)
  <2>1. PICK e \in Event : PushOp(e)
    BY <1>1
  <2>2. CASE count = Size /\ UNCHANGED <<ring, tail, count, irq, wakeups>>
    BY <2>1, <2>2, PushEffect
  <2>3. CASE count < Size /\ count' = count + 1 /\ tail' = (tail + 1) % Size
    <3>1. count \in 0 .. Size - 1 /\ head \in Index
      BY <2>3 DEF TypeOK
    <3> QED
      BY <2>1, <2>3, <3>1, PushEffect, PushMovesTail
  <2> QED
    BY <2>1, <2>2, <2>3, PushEffect
<1>2. CASE NrfReset
  BY <1>2 DEF NrfReset
<1>3. CASE count > 0 /\ PopOp
  <2>1. count \in 1 .. Size /\ head \in Index
    BY <1>3 DEF TypeOK
  <2> QED
    BY <1>3, <2>1, PopKeepsTail DEF PopOp
<1> QED
  BY <1>1, <1>2, <1>3, QueueSteps

\* The line follows the queue, and a nRF that is down has an empty queue.
LEMMA IrqStep ==
  ASSUME TypeOK, IrqMeansPending, phase = "down" => count = 0, [Next]_vars
  PROVE  IrqMeansPending' /\ (phase' = "down" => count' = 0)
<1>1. phase' = "down" => phase = "down" \/ NrfReset
  BY DEF Next, vars, nrf, Push, AnnounceReady, NrfBoot, Wake, OnInterrupt,
         OnContinue, OnCheckReady, StartDrain, Drain, SelectLen, ReadLen,
         SelectEvent, ReadEvent, LenFails, EventFails, Command, EspRestart
<1>2. CASE phase # "down" /\ \E e \in Event : PushOp(e)
  <2>1. PICK e \in Event : PushOp(e)
    BY <1>2
  <2>2. ~NrfReset \/ count' = 0
    BY DEF NrfReset
  <2>3. IrqMeansPending'
    BY <2>1, PushEffect DEF TypeOK, IrqMeansPending
  <2> QED
    BY <1>1, <1>2, <2>2, <2>3
<1>3. CASE NrfReset
  BY <1>3 DEF NrfReset, IrqMeansPending
<1>4. CASE count > 0 /\ PopOp
  BY <1>1, <1>4, PopRange DEF IrqMeansPending, NrfReset, TypeOK
<1>5. CASE UNCHANGED <<ring, head, tail, count, irq>>
  BY <1>1, <1>5 DEF IrqMeansPending, NrfReset
<1> QED
  BY <1>2, <1>3, <1>4, <1>5, QueueSteps

\* No step leaves events behind a sleeping driver: the edge of the first push,
\* the continuation message of a drain that hit its limit, the check_ready
\* timer of a restarted driver, or the drain itself is there.
LEMMA WakeStep ==
  ASSUME LinkInv, [Next]_vars
  PROVE  NoLostWakeup'
<1> USE DEF LinkInv, NoLostWakeup, Awake
<1>1. ASSUME NEW e \in Event, PushOp(e),
             UNCHANGED <<pc, continues, polling, errors>>
      PROVE  NoLostWakeup'
  <2>1. CASE count = 0
    <3>1. irq = "HIGH" /\ count < Size
      BY <2>1 DEF TypeOK, IrqMeansPending
    <3> QED
      BY <1>1, <2>1, <3>1, PushEffect
  <2>2. CASE count > 0
    <3>1. wakeups \in Nat /\ wakeups' \in Nat /\ wakeups' >= wakeups
      BY <1>1, PushEffect, PushRange DEF TypeOK
    <3>2. errors' = 0 => Awake
      BY <1>1, <2>2
    <3> QED
      BY <1>1, <3>1, <3>2
  <2> QED
    BY <2>1, <2>2 DEF TypeOK
<1>2. ASSUME NEW e \in Event \ {Ready}, Push(e) PROVE NoLostWakeup'
  BY <1>1, <1>2 DEF Push
<1>3. CASE AnnounceReady
  BY <1>1, <1>3 DEF AnnounceReady
<1>4. CASE NrfReset
  BY <1>4 DEF NrfReset
<1>5. CASE NrfBoot \/ Command
  BY <1>5 DEF NrfBoot, Command, esp, hist
<1>6. CASE Wake
  BY <1>6 DEF Wake, OnInterrupt, OnContinue, OnCheckReady, StartDrain
<1>7. CASE SelectLen \/ SelectEvent
  BY <1>7 DEF SelectLen, SelectEvent
<1>8. CASE ReadLen
  BY <1>8 DEF ReadLen, EndDrain
<1>9. ASSUME NEW r, NextEvent(r) PROVE NoLostWakeup'
  BY <1>9 DEF NextEvent, EndDrain, TypeOK
<1>10. CASE ReadEvent
  BY <1>9, <1>10 DEF ReadEvent
<1>11. CASE EventFails
  BY <1>9, <1>11 DEF EventFails
<1>12. CASE LenFails
  BY <1>12 DEF LenFails, TransferError, TypeOK
<1>13. CASE EspRestart
  BY <1>13 DEF EspRestart
<1>14. CASE UNCHANGED vars
  BY <1>14 DEF vars, nrf, esp, hist
<1> QED
  BY <1>2, <1>3, <1>4, <1>5, <1>6, <1>7, <1>8, <1>10, <1>11, <1>12, <1>13,
     <1>14 DEF Next, Drain

\* As long as the nRF has not restarted, the entry the driver peeked is still
\* the oldest one when it pops: pushes write elsewhere, and nobody else pops.
LEMMA HeadStep ==
  ASSUME LinkInv, [Next]_vars
  PROVE  HeadIsPeeked' /\ WholeEvents'
<1> USE DEF LinkInv, HeadIsPeeked, WholeEvents
<1>1. ASSUME NEW e \in Event, PushOp(e), phase' # "down",
             UNCHANGED <<pc, reg, peeked, torn, resets>>
      PROVE  HeadIsPeeked' /\ WholeEvents'
  <2>1. CASE count = Size /\ UNCHANGED <<ring, tail, count, irq, wakeups>>
    BY <1>1, <2>1, PushEffect
  <2>2. CASE count < Size /\ count' = count + 1
             /\ ring' = [ring EXCEPT ![tail] = e]
    <3>1. count > 0 => tail # head
      <4>1. SUFFICES ASSUME count > 0 PROVE tail # head
        OBVIOUS
      <4>2. /\ head \in Index /\ count \in 0 .. Size - 1 /\ 1 \in 1 .. count
            /\ head + 1 - 1 = head
        BY <2>2, <4>1 DEF TypeOK, Index
      <4> QED
        BY <4>2, TailIsFree, InRing
    <3>2. count > 0 => ring'[head] = ring[head]
      BY <2>2, <3>1 DEF TypeOK
    <3> QED
      BY <1>1, <2>2, <3>2, PushEffect DEF TypeOK
  <2> QED
    BY <1>1, <2>1, <2>2, PushEffect
<1>2. ASSUME NEW e \in Event \ {Ready}, Push(e)
      PROVE  HeadIsPeeked' /\ WholeEvents'
  BY <1>1, <1>2 DEF Push
<1>3. CASE AnnounceReady
  BY <1>1, <1>3 DEF AnnounceReady
<1>4. CASE NrfReset
  BY <1>4 DEF NrfReset, TypeOK
<1>5. CASE NrfBoot \/ Command
  BY <1>5 DEF NrfBoot, Command, esp, hist
<1>6. CASE Wake
  BY <1>6 DEF Wake, OnInterrupt, OnContinue, OnCheckReady, StartDrain, nrf, hist
<1>7. CASE SelectLen
  BY <1>7 DEF SelectLen, hist
<1>8. CASE ReadLen
  BY <1>8 DEF ReadLen, EndDrain, hist, TypeOK
<1>9. CASE SelectEvent
  BY <1>9 DEF SelectEvent, hist
<1>10. ASSUME NEW r, NextEvent(r)
       PROVE  pc' \in {"idle", "selectLen"}
  BY <1>10 DEF NextEvent, EndDrain
<1>11. CASE ReadEvent
  <2>1. pc' \in {"idle", "selectLen"} /\ UNCHANGED <<phase, resets>>
    BY <1>10, <1>11 DEF ReadEvent
  <2>2. resets = 0 => torn' = FALSE
    BY <1>11, Zenon DEF ReadEvent, TypeOK
  <2> QED
    BY <2>1, <2>2
<1>12. CASE EventFails
  <2>1. pc' \in {"idle", "selectLen"} /\ UNCHANGED <<phase, resets, torn>>
    BY <1>10, <1>12 DEF EventFails
  <2> QED
    BY <2>1
<1>13. CASE LenFails
  BY <1>13 DEF LenFails, EndDrain
<1>14. CASE EspRestart
  BY <1>14 DEF EspRestart
<1>15. CASE UNCHANGED vars
  BY <1>15 DEF vars, nrf, esp, hist
<1> QED
  BY <1>2, <1>3, <1>4, <1>5, <1>6, <1>7, <1>8, <1>9, <1>11, <1>12, <1>13,
     <1>14, <1>15 DEF Next, Drain

\* LinkInv is an invariant of the event path.
THEOREM Invariance == Spec => []LinkInv
<1>1. LinkInv /\ [Next]_vars => LinkInv'
  <2> SUFFICES ASSUME LinkInv, [Next]_vars PROVE LinkInv'
    OBVIOUS
  <2>1. TypeOK' /\ tail' = (head' + count') % Size
    BY TypeStep, TailStep DEF LinkInv
  <2>2. IrqMeansPending' /\ (phase' = "down" => count' = 0)
    BY IrqStep DEF LinkInv
  <2> QED
    BY <2>1, <2>2, WakeStep, HeadStep DEF LinkInv
<1> QED
  BY <1>1, InitInv, PTL DEF Spec

\* The IRQ line tells exactly whether events are queued, for every queue size
\* and every interleaving of pushes, pops and restarts.
THEOREM IrqTheorem == Spec => []IrqMeansPending
BY Invariance, PTL DEF LinkInv

\* Until a transfer fails on a live bus, queued events never sit behind a
\* sleeping driver.
THEOREM WakeupTheorem == Spec => []NoLostWakeup
BY Invariance, PTL DEF LinkInv

\* Until the nRF restarts, handle_event gets type and payload of one event.
THEOREM WholeEventsTheorem == Spec => []WholeEvents
BY Invariance, PTL DEF LinkInv

-----------------------------------------------------------------------------
(* The ring implements the channel                                          *)

\* The window of c entries from h on is a sequence of c events.
LEMMA WindowSeq ==
  ASSUME NEW r \in [Index -> Event], NEW h \in Index, NEW c \in 0 .. Size
  PROVE  /\ Window(r, h, c) \in Seq(Event)
         /\ Len(Window(r, h, c)) = c
         /\ \A i \in 1 .. c : Window(r, h, c)[i] = r[(h + i - 1) % Size]
<1>1. ASSUME NEW i \in 1 .. c PROVE (h + i - 1) % Size \in Index
  <2>1. i - 1 \in 0 .. Size /\ h + (i - 1) = h + i - 1
    BY DEF Index
  <2> QED
    BY <2>1, SlotRange
<1>2. Window(r, h, c) \in [1 .. c -> Event]
  BY <1>1 DEF Window
<1>3. Window(r, h, c) \in Seq(Event) /\ Len(Window(r, h, c)) = c
  BY <1>2
<1> QED
  BY <1>3 DEF Window

\* Writing the free slot after the window and growing it appends the event.
LEMMA PushAppends ==
  ASSUME NEW r \in [Index -> Event], NEW h \in Index, NEW c \in 0 .. Size - 1,
         NEW e \in Event
  PROVE  Window([r EXCEPT ![(h + c) % Size] = e], h, c + 1)
           = Append(Window(r, h, c), e)
<1> DEFINE t  == (h + c) % Size
           r2 == [r EXCEPT ![t] = e]
           w  == Window(r, h, c)
           w2 == Window(r2, h, c + 1)
<1>1. t \in Index /\ r2 \in [Index -> Event]
  BY SlotRange
<1>2. /\ w \in Seq(Event) /\ Len(w) = c
      /\ \A i \in 1 .. c : w[i] = r[(h + i - 1) % Size]
  <2>1. c \in 0 .. Size
    OBVIOUS
  <2> QED
    BY <2>1, WindowSeq
<1>3. /\ w2 \in Seq(Event) /\ Len(w2) = c + 1
      /\ \A i \in 1 .. c + 1 : w2[i] = r2[(h + i - 1) % Size]
  <2>1. c + 1 \in 0 .. Size
    OBVIOUS
  <2> HIDE DEF r2
  <2> QED
    BY <1>1, <2>1, WindowSeq
<1>4. /\ Append(w, e) \in Seq(Event) /\ Len(Append(w, e)) = c + 1
      /\ \A i \in 1 .. c : Append(w, e)[i] = w[i]
      /\ Append(w, e)[c + 1] = e
  <2> HIDE DEF w
  <2> QED
    BY <1>2, AppendProperties
<1>5. ASSUME NEW i \in 1 .. c PROVE w2[i] = Append(w, e)[i]
  <2>1. (h + i - 1) % Size # t
    BY TailIsFree
  <2>2. (h + i - 1) % Size \in Index
    <3>1. i - 1 \in 0 .. Size /\ h + (i - 1) = h + i - 1
      BY DEF Index
    <3> QED
      BY <3>1, SlotRange
  <2>3. r2[(h + i - 1) % Size] = r[(h + i - 1) % Size]
    BY <2>1, <2>2
  <2> HIDE DEF r2, w, w2
  <2> QED
    BY <1>2, <1>3, <1>4, <2>3
<1>6. w2[c + 1] = e
  <2>1. r2[t] = e
    BY <1>1
  <2>2. h + (c + 1) - 1 = h + c /\ c + 1 \in 1 .. c + 1
    BY DEF Index
  <2>3. w2[c + 1] = r2[(h + (c + 1) - 1) % Size]
    <3> HIDE DEF r2, w2
    <3> QED
      BY <1>3, <2>2
  <2> QED
    BY <2>1, <2>2, <2>3
<1>7. \A i \in 1 .. Len(w2) : w2[i] = Append(w, e)[i]
  <2> HIDE DEF r2, w, w2
  <2> QED
    BY <1>3, <1>4, <1>5, <1>6
<1>8. w2 = Append(w, e)
  <2> HIDE DEF r2, w, w2
  <2> QED
    BY <1>3, <1>4, <1>7, SeqEqual
<1> QED
  BY <1>8

\* Advancing past the first entry and shrinking the window takes the tail.
LEMMA PopTakesTail ==
  ASSUME NEW r \in [Index -> Event], NEW h \in Index, NEW c \in 1 .. Size
  PROVE  /\ Window(r, h, c) # <<>>
         /\ Head(Window(r, h, c)) = r[h]
         /\ Window(r, (h + 1) % Size, c - 1) = Tail(Window(r, h, c))
<1> DEFINE w  == Window(r, h, c)
           g  == (h + 1) % Size
           w2 == Window(r, g, c - 1)
<1>1. /\ w \in Seq(Event) /\ Len(w) = c
      /\ \A i \in 1 .. c : w[i] = r[(h + i - 1) % Size]
  BY WindowSeq
<1>2. g \in Index
  BY NextIndex
<1>3. /\ w2 \in Seq(Event) /\ Len(w2) = c - 1
      /\ \A i \in 1 .. c - 1 : w2[i] = r[(g + i - 1) % Size]
  <2>1. c - 1 \in 0 .. Size
    OBVIOUS
  <2> HIDE DEF g
  <2> QED
    BY <1>2, <2>1, WindowSeq
<1>4. w # <<>> /\ Head(w) = r[h]
  <2>1. w # <<>> /\ Head(w) = w[1]
    <3> HIDE DEF w
    <3> QED
      BY <1>1
  <2>2. h + 1 - 1 = h /\ h % Size = h
    BY InRing DEF Index
  <2> QED
    BY <1>1, <2>1, <2>2
<1>5. /\ Tail(w) \in Seq(Event) /\ Len(Tail(w)) = c - 1
      /\ \A i \in 1 .. c - 1 : Tail(w)[i] = w[i + 1]
  <2> HIDE DEF w
  <2> QED
    BY <1>1, <1>4, HeadTailProperties
<1>6. ASSUME NEW i \in 1 .. c - 1 PROVE w2[i] = Tail(w)[i]
  <2>1. (g + i - 1) % Size = (h + (i + 1) - 1) % Size
    <3>1. i \in 1 .. Size
      OBVIOUS
    <3>2. (g + (i - 1)) % Size = (h + i) % Size
      BY <3>1, PopKeepsTail
    <3> QED
      BY <1>2, <3>2 DEF Index
  <2>2. Tail(w)[i] = w[i + 1] /\ i + 1 \in 1 .. c
    BY <1>5
  <2> HIDE DEF w, w2, g
  <2>3. w2[i] = r[(g + i - 1) % Size]
    BY <1>3
  <2>4. w[i + 1] = r[(h + (i + 1) - 1) % Size]
    BY <1>1, <2>2
  <2> QED
    BY <2>1, <2>2, <2>3, <2>4
<1>7. w2 = Tail(w)
  <2> HIDE DEF w, w2
  <2> QED
    BY <1>3, <1>5, <1>6, SeqEqual
<1> QED
  BY <1>4, <1>7

\* Each step of the event path is a step of the channel, or none.
LEMMA ChannelStep ==
  ASSUME LinkInv, [Next]_vars
  PROVE  [Channel!Next]_(Channel!vars)
<1> USE DEF Channel!vars
<1>1. ring \in [Index -> Event] /\ head \in Index /\ count \in 0 .. Size
  BY DEF LinkInv, TypeOK
<1>2. ASSUME UNCHANGED <<ring, head, count, handled>>
      PROVE  UNCHANGED Channel!vars
  BY <1>2 DEF Contents
<1>3. ASSUME NEW e \in Event, PushOp(e), UNCHANGED handled
      PROVE  [Channel!Next]_(Channel!vars)
  <2>1. CASE count = Size
    BY <1>2, <1>3, <2>1, PushEffect DEF LinkInv, TypeOK
  <2>2. CASE count < Size
    <3>1. count \in 0 .. Size - 1
      BY <1>1, <2>2
    <3>2. /\ count' = count + 1 /\ head' = head
          /\ ring' = [ring EXCEPT ![(head + count) % Size] = e]
      BY <1>3, <2>2, PushEffect DEF LinkInv
    <3>3. Contents' = Append(Contents, e)
      BY <1>1, <3>1, <3>2, PushAppends DEF Contents
    <3>4. Len(Contents) < Size
      BY <1>1, <2>2, WindowSeq DEF Contents
    <3>5. Channel!Send(e)
      BY <1>3, <3>3, <3>4 DEF Channel!Send
    <3> QED
      BY <3>5 DEF Channel!Next
  <2> QED
    BY <1>1, <2>1, <2>2
<1>4. ASSUME count > 0, PopOp
      PROVE  /\ Contents # <<>>
             /\ Head(Contents) = ring[head]
             /\ Contents' = Tail(Contents)
  <2>1. count \in 1 .. Size
    BY <1>1, <1>4
  <2> QED
    BY <1>1, <1>4, <2>1, PopTakesTail DEF Contents, PopOp
<1>5. ASSUME count > 0, PopOp, UNCHANGED handled
      PROVE  [Channel!Next]_(Channel!vars)
  BY <1>4, <1>5 DEF Channel!Next, Channel!LoseHead
<1>6. ASSUME NEW e \in Event \ {Ready}, Push(e)
      PROVE  [Channel!Next]_(Channel!vars)
  BY <1>3, <1>6 DEF Push
<1>7. CASE AnnounceReady
  BY <1>3, <1>7 DEF AnnounceReady
<1>8. CASE NrfReset
  <2>1. Contents' = <<>>
    BY <1>8 DEF NrfReset, Contents, Window
  <2> QED
    BY <1>8, <2>1 DEF NrfReset, Channel!Next, Channel!Crash
<1>9. CASE NrfBoot \/ Command
  BY <1>2, <1>9 DEF NrfBoot, Command, hist
<1>10. CASE Wake
  BY <1>2, <1>10 DEF Wake, OnInterrupt, OnContinue, OnCheckReady, StartDrain,
                     nrf, hist
<1>11. CASE SelectLen \/ ReadLen \/ SelectEvent \/ LenFails
  BY <1>2, <1>11 DEF SelectLen, ReadLen, SelectEvent, LenFails, hist
<1>12. CASE ReadEvent
  <2>1. CASE reg = "EVENT" /\ count > 0
    <3>1. PopOp /\ handled' = Append(handled, ring[head])
      BY <1>12, <2>1 DEF ReadEvent
    <3> QED
      BY <1>4, <2>1, <3>1 DEF Channel!Next, Channel!Deliver
  <2>2. CASE ~(reg = "EVENT" /\ count > 0)
    BY <1>2, <1>12, <2>2 DEF ReadEvent
  <2> QED
    BY <2>1, <2>2
<1>13. CASE EventFails
  BY <1>2, <1>5, <1>13 DEF EventFails, PopInTransit
<1>14. CASE EspRestart
  BY <1>2, <1>5, <1>14 DEF EspRestart, PopInTransit
<1>15. CASE UNCHANGED vars
  BY <1>2, <1>15 DEF vars, nrf, hist
<1> QED
  BY <1>6, <1>7, <1>8, <1>9, <1>10, <1>11, <1>12, <1>13, <1>14, <1>15
     DEF Next, Drain

\* Indices and count never leave the ring, and the drain loop is at work exactly while
\* it has events left to its limit.
THEOREM TypesCorrect == Spec => []TypeOK
  BY Invariance, PTL DEF LinkInv

\* The event path implements a bounded FIFO channel, for every queue size,
\* drain limit and pattern of pushes, failed transfers and restarts.
THEOREM Refinement == Spec => ChannelSpec
<1>1. Init => Channel!Init
  BY DEF Init, Channel!Init, Contents, Window
<1>2. LinkInv /\ [Next]_vars => [Channel!Next]_(Channel!vars)
  BY ChannelStep
<1> QED
  BY <1>1, <1>2, Invariance, PTL DEF Spec, ChannelSpec, Channel!Spec
=============================================================================
