---------------------------- MODULE BridgeProofs ----------------------------
(***************************************************************************)
(* The watchdog and the ping timers fit together: for every number of      *)
(* bulbs and handles, every queue size, every watchdog of at least three   *)
(* periods, and any number of nRF resets and reset_xiao requests, an ESP32 *)
(* that does not restart is never taken for dead. And the driver's view of *)
(* the links is what the nRF holds, up to what the event queue is going to *)
(* tell it.                                                                *)
(***************************************************************************)
EXTENDS Bridge, SequenceTheorems, FiniteSetTheorems, TLAPS

\* Pushing one event leaves the oldest one in its place.
LEMMA PushKeepsHead ==
  ASSUME NEW e \in Event, queue \in Seq(Event), queue # <<>>, Push(<<e>>)
  PROVE  queue' \in Seq(Event) /\ queue' # <<>> /\ Head(queue') = Head(queue)
<1> DEFINE room == QueueSize - Len(queue)
           n    == IF room < 1 THEN room ELSE 1
           t    == SubSeq(<<e>>, 1, n)
<1>1. <<e>> \in Seq(Event) /\ Len(<<e>>) = 1
  OBVIOUS
<1>2. n \in Int /\ n <= 1
  BY BridgeAssumption
<1>3. t \in Seq(Event)
  <2>1. CASE n = 1
    BY <2>1, <1>1
  <2>2. CASE n < 1
    BY <2>2, <1>1, <1>2
  <2>3. QED
    BY <2>1, <2>2, <1>2
<1>4. queue' = queue \o t
  BY <1>1 DEF Push
<1>5. QED
  BY <1>3, <1>4

\* The initial states satisfy the invariant.
LEMMA InitAlive == Init => AliveInv
<1>1. READY \in Event
  BY DEF Event
<1>2. <<READY>> \in Seq(Event) /\ <<READY>> # <<>> /\ Head(<<READY>>) = READY
  BY <1>1
<1> SUFFICES ASSUME Init PROVE AliveInv
  OBVIOUS
<1>3. /\ up = TRUE /\ queue = <<READY>> /\ listing = FALSE /\ ready = FALSE
      /\ rebooted = FALSE
  BY DEF Init
<1>4. /\ sincePing = 0 /\ checks = 1 /\ checkDue = 0 /\ pings = 0 /\ pingDue = 0
      /\ casts = 0 /\ restarts = 0
  BY DEF Init
<1>5. TimersOK /\ OneChain
  <2>1. ready \in BOOLEAN
    BY <1>3
  <2>2. QED
    BY <1>4, <2>1 DEF TimersOK, OneChain
<1>6. up /\ ~listing /\ ~rebooted
  BY <1>3
<1>7. queue \in Seq(Event) /\ queue # <<>> /\ Head(queue) = READY
  BY <1>2, <1>3
<1>8. QED
  BY <1>4, <1>5, <1>6, <1>7 DEF AliveInv, NoSpuriousReboot

\* A handler of the nRF that only adds an event leaves the invariant alone.
LEMMA LinkStep ==
  ASSUME AliveInv, NEW e \in Event, Push(<<e>>), up,
         UNCHANGED <<up, listing, sincePing, esp, rebooted, resets, restarts,
                     casts>>
  PROVE  AliveInv'
<1>1. restarts = 0 /\ ~ready =>
        queue' \in Seq(Event) /\ queue' # <<>> /\ Head(queue') = READY
  BY PushKeepsHead DEF AliveInv
<1>2. QED
  BY <1>1 DEF AliveInv, TimersOK, OneChain, NoSpuriousReboot, esp

\* Every step preserves the invariant.
LEMMA AliveStep == AliveInv /\ [Next]_vars => AliveInv'
<1> SUFFICES ASSUME AliveInv, [Next]_vars PROVE AliveInv'
  OBVIOUS
<1> USE BridgeAssumption
    DEF AliveInv, TimersOK, OneChain, NoSpuriousReboot, nrf, esp, bound
<1>1. ASSUME NEW p \in Peer, LinkUp(p) PROVE AliveInv'
  <2>1. PICK s \in Slot : Push(<<CONNECTED(s, p)>>)
    BY <1>1 DEF LinkUp, Free
  <2>2. CONNECTED(s, p) \in Event
    BY DEF Event
  <2>3. QED
    BY <1>1, <2>1, <2>2, LinkStep DEF LinkUp
<1>2. ASSUME NEW s \in Slot, LinkDown(s) PROVE AliveInv'
  <2>1. DISCONNECTED(s) \in Event
    BY DEF Event
  <2>2. QED
    BY <1>2, <2>1, LinkStep DEF LinkDown
<1>3. CASE ReportConnections
  BY <1>3 DEF ReportConnections
<1>4. CASE Boot
  BY <1>4 DEF Boot, Event
<1>5. CASE Reset
  BY <1>5 DEF Reset, GoDown
<1>6. CASE Watchdog
  <2>1. restarts # 0
    BY <1>6 DEF Watchdog
  <2>2. QED
    BY <1>6, <2>1 DEF Watchdog, GoDown
<1>7. CASE HandleEvent
  <2>1. up
    BY <1>7 DEF HandleEvent
  <2>2. UNCHANGED <<up, sincePing, checks, checkDue, pings, pingDue, rebooted,
                    restarts, casts>>
    BY <1>7 DEF HandleEvent
  <2>3. /\ ready' \in BOOLEAN
        /\ ready => ready'
        /\ Head(queue)[1] = "READY" => ready'
        /\ listing' => listing \/ ready'
    <3>1. CASE Head(queue)[1] = "READY" /\ OnReady
      <4>1. CASE ready
        <5>1. ready' = ready
          BY <3>1, <4>1 DEF OnReady
        <5>2. QED
          BY <4>1, <5>1
      <4>2. CASE ~ready
        <5>1. ready' = TRUE
          BY <3>1, <4>2 DEF OnReady
        <5>2. ready'
          BY <5>1
        <5>3. QED
          BY <5>1, <5>2
      <4>3. QED
        BY <4>1, <4>2
    <3>2. CASE Head(queue)[1] # "READY" /\ UNCHANGED <<ready, listing>>
      <4>1. ready' = ready /\ listing' = listing
        BY <3>2
      <4>2. QED
        BY <3>2, <4>1
    <3>3. QED
      BY <1>7, <3>1, <3>2 DEF HandleEvent
  <2>4. restarts = 0 => ready'
    BY <2>1, <2>3 DEF READY
  <2>5. QED
    BY <2>1, <2>2, <2>3, <2>4
<1>8. CASE CheckReady
  BY <1>8 DEF CheckReady, Fired
<1>9. CASE DoPing
  BY <1>9 DEF DoPing
<1>10. CASE ResetXiao
  <2>1. /\ checks' = checks + 1 /\ casts' = casts + 1 /\ sincePing' = 0
        /\ queue' = <<>>
        /\ UNCHANGED <<checkDue, pings, pingDue, rebooted, restarts>>
    BY <1>10 DEF ResetXiao, GoDown
  <2>2. ready' = FALSE /\ up' = FALSE /\ listing' = FALSE
    BY <1>10 DEF ResetXiao, GoDown
  <2>3. ~up' /\ ~listing' /\ ready' \in BOOLEAN
    BY <2>2
  <2>4. TimersOK' /\ OneChain'
    BY <2>1, <2>3
  <2>5. QED
    BY <2>1, <2>3, <2>4
<1>11. CASE EspRestart
  <2>1. /\ checks' = 1 /\ checkDue' = 0 /\ pings' = 0 /\ pingDue' = 0
        /\ restarts' = restarts + 1 /\ ready' = FALSE
        /\ UNCHANGED <<up, queue, sincePing, casts>>
    BY <1>11 DEF EspRestart
  <2>2. restarts' # 0 /\ restarts' \in Nat
    BY <2>1
  <2>3. ready' \in BOOLEAN
    BY <2>1
  <2>4. checks' = 1 /\ checkDue' = 0 /\ pings' = 0 /\ pingDue' = 0 /\ casts' = casts
    BY <2>1
  <2>5. UNCHANGED <<up, queue, sincePing>>
    BY <2>1
  <2>6. TimersOK' /\ OneChain'
    BY <2>2, <2>3, <2>4, <2>5
  <2>7. QED
    BY <2>2, <2>5, <2>6
<1>12. CASE Period
  BY <1>12 DEF Period
<1>13. CASE UNCHANGED vars
  BY <1>13 DEF vars
<1>14. QED
  BY <1>1, <1>2, <1>3, <1>4, <1>5, <1>6, <1>7, <1>8, <1>9, <1>10, <1>11,
     <1>12, <1>13
  DEF Next, Nrf, Esp

\* AliveInv holds in every reachable state of the two chips.
THEOREM Alive == Spec => []AliveInv
  BY InitAlive, AliveStep, PTL DEF Spec

\* The nRF's watchdog never fires as long as the ESP32 does not restart.
THEOREM WatchdogTheorem == Spec => []NoSpuriousReboot
  BY Alive, PTL DEF AliveInv

\* The driver always has one chain of timers, plus one per reset_xiao.
THEOREM ChainTheorem == Spec => []OneChain
  BY Alive, PTL DEF AliveInv

-----------------------------------------------------------------------------
(* Types                                                                    *)

LEMMA EventFacts ==
  /\ READY \in Event
  /\ \A h \in Slot, p \in Peer : CONNECTED(h, p) \in Event
  /\ \A h \in Slot : DISCONNECTED(h) \in Event
  /\ \A e \in Event : /\ e[1] = "CONNECTED" => e[2] \in Slot /\ e[3] \in Peer
                      /\ e[1] = "DISCONNECTED" => e[2] \in Slot
BY DEF Event, READY, CONNECTED, DISCONNECTED

\* event_queue_push fills the queue up to its size.
LEMMA PushTypes ==
  ASSUME queue \in Seq(Event), Len(queue) <= QueueSize, overflowed \in BOOLEAN,
         NEW es \in Seq(Event), Push(es)
  PROVE  queue' \in Seq(Event) /\ Len(queue') <= QueueSize /\ overflowed' \in BOOLEAN
<1> DEFINE room == QueueSize - Len(queue)
           n    == IF room < Len(es) THEN room ELSE Len(es)
           t    == SubSeq(es, 1, n)
<1>1. n \in 0 .. Len(es) /\ n <= room /\ room \in Int
  BY BridgeAssumption
<1>2. t \in Seq(Event) /\ Len(t) = n
  BY <1>1
<1>3. queue' = queue \o t
  BY DEF Push
<1>4. overflowed' \in BOOLEAN
  BY DEF Push
<1>5. \A q, u \in Seq(Event) : q \o u \in Seq(Event) /\ Len(q \o u) = Len(q) + Len(u)
  OBVIOUS
<1> HIDE DEF t, n
<1>6. queue' \in Seq(Event) /\ Len(queue') = Len(queue) + Len(t)
  BY ONLY <1>2, <1>3, <1>5, queue \in Seq(Event)
<1>7. Len(queue') <= QueueSize
  <2>1. Len(queue) \in Nat /\ QueueSize \in Nat
    BY BridgeAssumption
  <2>2. QED
    BY ONLY <1>1, <1>2, <1>6, <2>1 DEF room
<1>8. QED
  BY <1>4, <1>6, <1>7

\* report_connections queues a CONNECTED for every link.
LEMMA ListTypes ==
  ASSUME links \in [Slot -> Peer \cup {None}], NEW live \in SetToSeqs(Slot \ Free)
  PROVE  [i \in 1 .. Len(live) |-> CONNECTED(live[i], links[live[i]])] \in Seq(Event)
<1>1. IsFiniteSet(Slot)
  BY FS_Interval, BridgeAssumption DEF Slot
<1>2. Cardinality(Slot \ Free) \in Nat
  BY <1>1, FS_Subset, FS_CardinalityType
<1>3. live \in [1 .. Cardinality(Slot \ Free) -> Slot \ Free]
  BY DEF SetToSeqs
<1>4. Len(live) \in Nat /\ \A i \in 1 .. Len(live) : live[i] \in Slot \ Free
  <2>1. live \in Seq(Slot \ Free)
    BY <1>2, <1>3, SeqDef
  <2>2. QED
    BY <2>1
<1>5. \A i \in 1 .. Len(live) : CONNECTED(live[i], links[live[i]]) \in Event
  BY <1>4, EventFacts DEF Free
<1>6. QED
  BY <1>4, <1>5

LEMMA TypesStep == TypeOK /\ [Next]_vars => TypeOK'
<1> SUFFICES ASSUME TypeOK, [Next]_vars PROVE TypeOK'
  OBVIOUS
<1> USE BridgeAssumption
<1>1. ASSUME NEW p \in Peer, LinkUp(p) PROVE TypeOK'
  <2>1. PICK h \in Slot : links' = [links EXCEPT ![h] = p] /\ Push(<<CONNECTED(h, p)>>)
    BY <1>1 DEF LinkUp, Free
  <2>2. <<CONNECTED(h, p)>> \in Seq(Event)
    BY EventFacts
  <2>3. queue' \in Seq(Event) /\ Len(queue') <= QueueSize /\ overflowed' \in BOOLEAN
    BY <2>1, <2>2, PushTypes DEF TypeOK
  <2>4. links' \in [Slot -> Peer \cup {None}]
    BY <2>1 DEF TypeOK
  <2>5. QED
    BY <1>1, <2>3, <2>4 DEF TypeOK, LinkUp, esp
<1>2. ASSUME NEW h \in Slot, LinkDown(h) PROVE TypeOK'
  <2>1. <<DISCONNECTED(h)>> \in Seq(Event)
    BY EventFacts
  <2>2. queue' \in Seq(Event) /\ Len(queue') <= QueueSize /\ overflowed' \in BOOLEAN
    BY <1>2, <2>1, PushTypes DEF TypeOK, LinkDown
  <2>3. links' \in [Slot -> Peer \cup {None}]
    BY <1>2 DEF TypeOK, LinkDown
  <2>4. QED
    BY <1>2, <2>2, <2>3 DEF TypeOK, LinkDown, esp
<1>3. CASE ReportConnections
  <2>1. PICK live \in SetToSeqs(Slot \ Free) :
          Push([i \in 1 .. Len(live) |-> CONNECTED(live[i], links[live[i]])])
    BY <1>3 DEF ReportConnections
  <2>2. [i \in 1 .. Len(live) |-> CONNECTED(live[i], links[live[i]])] \in Seq(Event)
    BY ListTypes DEF TypeOK
  <2>3. queue' \in Seq(Event) /\ Len(queue') <= QueueSize /\ overflowed' \in BOOLEAN
    BY <2>1, <2>2, PushTypes DEF TypeOK
  <2>4. QED
    BY <1>3, <2>3 DEF TypeOK, ReportConnections, esp, bound
<1>4. CASE Boot
  <2>1. <<READY>> \in Seq(Event) /\ Len(<<READY>>) = 1
    BY EventFacts
  <2>2. QED
    BY <1>4, <2>1 DEF TypeOK, Boot, esp, bound
<1>5. ASSUME GoDown
      PROVE  /\ up' \in BOOLEAN /\ listing' \in BOOLEAN /\ overflowed' \in BOOLEAN
             /\ queue' \in Seq(Event) /\ Len(queue') <= QueueSize
             /\ links' \in [Slot -> Peer \cup {None}] /\ sincePing' \in 0 .. Wdt + 1
  <2>1. up' \in BOOLEAN /\ listing' \in BOOLEAN /\ overflowed' \in BOOLEAN
    BY <1>5 DEF GoDown
  <2>2. queue' = <<>> /\ sincePing' = 0 /\ links' = [h \in Slot |-> None]
    BY <1>5 DEF GoDown, NoLinks
  <2>3. queue' \in Seq(Event) /\ Len(queue') <= QueueSize /\ sincePing' \in 0 .. Wdt + 1
    BY <2>2
  <2>4. links' \in [Slot -> Peer \cup {None}]
    BY <2>2
  <2>5. QED
    BY <2>1, <2>3, <2>4
<1>6. CASE Reset
  BY <1>5, <1>6 DEF TypeOK, Reset, esp
<1>7. CASE Watchdog
  BY <1>5, <1>7 DEF TypeOK, Watchdog, esp, bound
<1>8. CASE HandleEvent
  <2>1. queue' \in Seq(Event) /\ Len(queue') <= QueueSize /\ Head(queue) \in Event
    BY <1>8 DEF HandleEvent, TypeOK
  <2>2. conns' \in [Slot -> Peer \cup {None}] /\ ready' \in BOOLEAN /\ listing' \in BOOLEAN
    <3>1. CASE OnReady
      BY <3>1 DEF OnReady, NoLinks, TypeOK
    <3>2. CASE Head(queue)[1] = "CONNECTED" /\ UNCHANGED <<ready, listing>>
               /\ conns' = [conns EXCEPT ![Head(queue)[2]] = Head(queue)[3]]
      <4>1. PICK e : e = Head(queue)
        OBVIOUS
      <4>2. e \in Event /\ e[1] = "CONNECTED" /\ conns' = [conns EXCEPT ![e[2]] = e[3]]
        BY <2>1, <3>2, <4>1
      <4>3. e[2] \in Slot /\ e[3] \in Peer
        BY <4>2 DEF Event, READY, CONNECTED, DISCONNECTED
      <4>4. conns' \in [Slot -> Peer \cup {None}]
        BY <4>2, <4>3 DEF TypeOK
      <4>5. QED
        BY <3>2, <4>4 DEF TypeOK
    <3>3. CASE Head(queue)[1] = "DISCONNECTED" /\ UNCHANGED <<ready, listing>>
               /\ conns' = [conns EXCEPT ![Head(queue)[2]] = None]
      BY <3>3, <2>1, EventFacts DEF TypeOK
    <3>4. QED
      BY <1>8, <3>1, <3>2, <3>3 DEF HandleEvent
  <2>3. QED
    BY <1>8, <2>1, <2>2 DEF TypeOK, HandleEvent, bound
<1>9. CASE CheckReady
  BY <1>9 DEF TypeOK, CheckReady, Fired, bound
<1>10. CASE DoPing
  BY <1>10 DEF TypeOK, DoPing, bound
<1>11. CASE ResetXiao
  <2>1. /\ ready' = FALSE /\ checks' = checks + 1 /\ casts' = casts + 1
        /\ UNCHANGED <<conns, checkDue, pings, pingDue, rebooted, linkEvents, resets,
                       restarts>>
    BY <1>11 DEF ResetXiao
  <2>2. checks' \in Nat /\ casts' \in Nat /\ checkDue' \in 0 .. checks'
    BY <2>1 DEF TypeOK
  <2>3. ready' \in BOOLEAN
    BY <2>1
  <2>4. GoDown
    BY <1>11 DEF ResetXiao
  <2>5. QED
    BY <1>5, <2>1, <2>2, <2>3, <2>4 DEF TypeOK
<1>12. CASE EspRestart
  <2>1. /\ ready' = FALSE /\ checks' = 1 /\ checkDue' = 0 /\ pings' = 0 /\ pingDue' = 0
        /\ restarts' = restarts + 1 /\ conns' = [h \in Slot |-> None]
    BY <1>12 DEF EspRestart, NoLinks
  <2>2. UNCHANGED <<up, queue, links, listing, sincePing, overflowed, rebooted, linkEvents,
                    resets, casts>>
    BY <1>12 DEF EspRestart, nrf
  <2>3. checks' \in Nat /\ checkDue' \in 0 .. checks' /\ pings' \in Nat
        /\ pingDue' \in 0 .. pings' /\ restarts' \in Nat
    BY <2>1 DEF TypeOK
  <2>4. conns' \in [Slot -> Peer \cup {None}]
    BY <2>1
  <2>5. ready' \in BOOLEAN
    BY <2>1
  <2>6. QED
    BY <2>2, <2>3, <2>4, <2>5 DEF TypeOK
<1>13. CASE Period
  BY <1>13 DEF TypeOK, Period, bound
<1>14. CASE UNCHANGED vars
  BY <1>14 DEF TypeOK, vars, nrf, esp, bound
<1>15. QED
  BY <1>1, <1>2, <1>3, <1>4, <1>6, <1>7, <1>8, <1>9, <1>10, <1>11, <1>12, <1>13, <1>14
  DEF Next, Nrf, Esp

\* Every variable keeps its type; in particular the queue never exceeds its size, and
\* more than Wdt + 1 periods never pass without a ping or a reboot.
THEOREM TypesCorrect == Spec => []TypeOK
<1>1. Init => TypeOK
  <2>1. <<READY>> \in Seq(Event) /\ Len(<<READY>>) = 1
    BY EventFacts
  <2>2. QED
    <3> SUFFICES ASSUME Init PROVE TypeOK
      OBVIOUS
    <3>1. /\ up \in BOOLEAN /\ listing \in BOOLEAN /\ ready \in BOOLEAN
          /\ overflowed \in BOOLEAN /\ rebooted \in BOOLEAN
      BY DEF Init
    <3>2. queue \in Seq(Event) /\ Len(queue) <= QueueSize
      BY <2>1, BridgeAssumption DEF Init
    <3>3. links \in [Slot -> Peer \cup {None}] /\ conns \in [Slot -> Peer \cup {None}]
      BY DEF Init, NoLinks
    <3>4. sincePing \in 0 .. Wdt + 1
      BY BridgeAssumption DEF Init
    <3>5. /\ checks \in Nat /\ pings \in Nat
          /\ checkDue \in 0 .. checks /\ pingDue \in 0 .. pings
          /\ linkEvents \in Nat /\ resets \in Nat /\ restarts \in Nat /\ casts \in Nat
      BY DEF Init
    <3>6. QED
      BY <3>1, <3>2, <3>3, <3>4, <3>5 DEF TypeOK
<1>2. QED
  BY <1>1, TypesStep, PTL DEF Spec

-----------------------------------------------------------------------------
(* The view of the driver                                                   *)

\* Before its first READY the driver has nothing on record, and a chip that is down has no
\* links.
ViewInv ==
  /\ ViewFollows
  /\ ~ready /\ restarts = 0 /\ casts = 0 => conns = NoLinks
  /\ ~up => links = NoLinks

\* An event is about the handles of which it says something, and says one thing of each.
LEMMA WordFacts ==
  /\ \A e, h, v : Says(e, h, v) /\ h \in Slot /\ v \in Peer \cup {None} => About(e, h)
  /\ \A h \in Slot : About(READY, h) /\ \A v : Says(READY, h, v) => v = None
  /\ \A h, k \in Slot, p \in Peer :
       /\ About(CONNECTED(k, p), h) => h = k
       /\ \A v : Says(CONNECTED(k, p), h, v) => v = p
       /\ Says(CONNECTED(k, p), k, p)
  /\ \A h, k \in Slot :
       /\ About(DISCONNECTED(k), h) => h = k
       /\ \A v : Says(DISCONNECTED(k), h, v) => v = None
       /\ Says(DISCONNECTED(k), k, None)
<1>1. \A h, k \in Slot, p \in Peer :
        /\ About(CONNECTED(k, p), h) => h = k
        /\ \A v : Says(CONNECTED(k, p), h, v) => v = p
        /\ Says(CONNECTED(k, p), k, p)
  BY BridgeAssumption DEF About, Says, READY, CONNECTED, DISCONNECTED
<1>2. \A h, k \in Slot :
        /\ About(DISCONNECTED(k), h) => h = k
        /\ \A v : Says(DISCONNECTED(k), h, v) => v = None
        /\ Says(DISCONNECTED(k), k, None)
  BY DEF About, Says, READY, CONNECTED, DISCONNECTED
<1>3. \A h \in Slot : About(READY, h) /\ \A v : Says(READY, h, v) => v = None
  BY DEF About, Says, READY, CONNECTED, DISCONNECTED
<1>4. \A e, h, v : Says(e, h, v) /\ h \in Slot /\ v \in Peer \cup {None} => About(e, h)
  BY DEF About, Says
<1>5. QED
  BY <1>1, <1>2, <1>3, <1>4

\* Events behind the rest either are not about h or have the last word.
LEMMA PushWord ==
  ASSUME NEW q \in Seq(Event), NEW es \in Seq(Event), NEW c, NEW h, NEW v,
         \/ LastWord(q, c, h, v) /\ \A k \in 1 .. Len(es) : ~About(es[k], h)
         \/ \E k \in 1 .. Len(es) :
              Says(es[k], h, v) /\ \A l \in k + 1 .. Len(es) : ~About(es[l], h)
  PROVE  LastWord(q \o es, c, h, v)
<1> DEFINE t == q \o es
<1>1. /\ Len(q) \in Nat /\ Len(es) \in Nat /\ Len(t) = Len(q) + Len(es)
      /\ \A i \in 1 .. Len(q) : t[i] = q[i]
      /\ \A i \in 1 .. Len(t) : i > Len(q) => i - Len(q) \in 1 .. Len(es) /\ t[i] = es[i - Len(q)]
  OBVIOUS
<1> HIDE DEF t
<1>2. ASSUME NEW i \in 0 .. Len(q), IF i = 0 THEN c[h] = v ELSE Says(q[i], h, v),
             \A j \in i + 1 .. Len(q) : ~About(q[j], h),
             \A k \in 1 .. Len(es) : ~About(es[k], h)
      PROVE  LastWord(t, c, h, v)
  <2>1. i \in 0 .. Len(t)
    BY <1>1
  <2>2. IF i = 0 THEN c[h] = v ELSE Says(t[i], h, v)
    BY <1>1, <1>2
  <2>3. ASSUME NEW j \in i + 1 .. Len(t) PROVE ~About(t[j], h)
    <3>1. CASE j <= Len(q)
      <4>1. j \in i + 1 .. Len(q) /\ j \in 1 .. Len(q)
        BY <1>1, <3>1
      <4>2. QED
        BY <1>1, <1>2, <4>1
    <3>2. CASE j > Len(q)
      <4>1. j \in 1 .. Len(t)
        BY <1>1
      <4>2. j - Len(q) \in 1 .. Len(es) /\ t[j] = es[j - Len(q)]
        BY <1>1, <3>2, <4>1
      <4>3. QED
        BY <1>2, <4>2
    <3>3. QED
      BY <1>1, <3>1, <3>2
  <2>4. QED
    BY <2>1, <2>2, <2>3 DEF LastWord
<1>3. ASSUME NEW k \in 1 .. Len(es), Says(es[k], h, v),
             \A l \in k + 1 .. Len(es) : ~About(es[l], h)
      PROVE  LastWord(t, c, h, v)
  <2>1. PICK i : i = Len(q) + k
    OBVIOUS
  <2>2. i \in 1 .. Len(t) /\ i > Len(q) /\ i - Len(q) = k
    BY <1>1, <2>1
  <2>3. i \in 0 .. Len(t) /\ i # 0 /\ t[i] = es[k]
    BY <1>1, <2>2
  <2>4. ASSUME NEW j \in i + 1 .. Len(t) PROVE ~About(t[j], h)
    <3>1. j \in 1 .. Len(t) /\ j > Len(q) /\ j - Len(q) \in k + 1 .. Len(es)
      BY <1>1, <2>1, <2>2
    <3>2. QED
      BY <1>1, <1>3, <3>1
  <2>5. QED
    BY <1>3, <2>3, <2>4 DEF LastWord
<1>4. QED
  BY <1>2, <1>3 DEF LastWord, t

\* The oldest event is handled: the record changes from c to d.
LEMMA PopWord ==
  ASSUME NEW q \in Seq(Event), q # <<>>, NEW c, NEW d, NEW h, NEW v, LastWord(q, c, h, v),
         ~About(q[1], h) => d[h] = c[h],
         Says(q[1], h, v) => d[h] = v
  PROVE  LastWord(Tail(q), d, h, v)
<1> DEFINE t == Tail(q)
<1>1. /\ Len(q) \in Nat \ {0} /\ Len(t) = Len(q) - 1
      /\ \A i \in 1 .. Len(t) : t[i] = q[i + 1]
  OBVIOUS
<1> HIDE DEF t
<1>2. PICK i \in 0 .. Len(q) :
        /\ IF i = 0 THEN c[h] = v ELSE Says(q[i], h, v)
        /\ \A j \in i + 1 .. Len(q) : ~About(q[j], h)
  BY DEF LastWord
<1>3. CASE i \in {0, 1}
  <2>1. d[h] = v
    <3>1. CASE i = 0
      <4>1. 1 \in i + 1 .. Len(q)
        BY <1>1, <3>1
      <4>2. QED
        BY <1>2, <3>1, <4>1
    <3>2. CASE i = 1
      BY <1>2, <3>2
    <3>3. QED
      BY <1>3, <3>1, <3>2
  <2>2. ASSUME NEW j \in 1 .. Len(t) PROVE ~About(t[j], h)
    <3>1. j + 1 \in i + 1 .. Len(q) /\ t[j] = q[j + 1]
      BY <1>1, <1>3
    <3>2. QED
      BY <1>2, <3>1
  <2>3. 0 \in 0 .. Len(t) /\ 0 + 1 = 1
    BY <1>1
  <2>4. QED
    BY <2>1, <2>2, <2>3 DEF LastWord, t
<1>4. CASE i \notin {0, 1}
  <2>1. PICK k : k = i - 1
    OBVIOUS
  <2>2. k \in 1 .. Len(t) /\ k + 1 = i /\ k # 0 /\ k \in 0 .. Len(t)
    BY <1>1, <1>4, <2>1
  <2>3. Says(t[k], h, v)
    BY <1>1, <1>2, <1>4, <2>2
  <2>4. ASSUME NEW j \in k + 1 .. Len(t) PROVE ~About(t[j], h)
    <3>1. j + 1 \in i + 1 .. Len(q) /\ t[j] = q[j + 1]
      BY <1>1, <2>2
    <3>2. QED
      BY <1>2, <3>1
  <2>5. QED
    BY <2>2, <2>3, <2>4 DEF LastWord, t
<1>5. QED
  BY <1>3, <1>4

\* As long as no event is refused, push appends.
LEMMA PushAll ==
  ASSUME queue \in Seq(Event), overflowed \in BOOLEAN, NEW es \in Seq(Event), Push(es), ~overflowed'
  PROVE  ~overflowed /\ queue' = queue \o es
<1>1. Len(es) \in Nat /\ Len(queue) \in Nat /\ QueueSize \in Nat
  BY BridgeAssumption
<1>2. ~overflowed /\ ~(QueueSize - Len(queue) < Len(es))
  BY DEF Push
<1>3. queue' = queue \o SubSeq(es, 1, Len(es))
  BY <1>2 DEF Push
<1>4. SubSeq(es, 1, Len(es)) = es
  BY SubSeqFull
<1>5. QED
  BY <1>2, <1>3, <1>4


LEMMA LinkUpView == ASSUME TypeOK, ViewInv, NEW p \in Peer, LinkUp(p) PROVE ViewInv'
<1>1. PICK s \in Slot : links' = [links EXCEPT ![s] = p] /\ Push(<<CONNECTED(s, p)>>)
  BY DEF LinkUp, Free
<1>2. /\ up /\ UNCHANGED <<up, ready, conns, restarts, casts>>
  BY DEF LinkUp, esp
<1>3. PICK es : es = <<CONNECTED(s, p)>>
  OBVIOUS
<1>4. es \in Seq(Event) /\ Len(es) = 1 /\ es[1] = CONNECTED(s, p) /\ Push(es)
  BY <1>1, <1>3, EventFacts
<1>5. ASSUME up, ~overflowed', restarts = 0, casts = 0, NEW h \in Slot
      PROVE  LastWord(queue', conns, h, links'[h])
  <2>1. ~overflowed /\ queue' = queue \o es
    BY <1>4, <1>5, PushAll DEF TypeOK
  <2>2. LastWord(queue, conns, h, links[h])
    BY <1>5, <2>1 DEF ViewInv, ViewFollows
  <2>3. CASE h = s
    <3>1. links'[h] = p
      BY <1>1, <2>3 DEF TypeOK
    <3>2. 1 \in 1 .. Len(es) /\ Says(es[1], h, p) /\ \A l \in 2 .. Len(es) : ~About(es[l], h)
      BY <1>4, <2>3, WordFacts
    <3>3. LastWord(queue \o es, conns, h, p)
      BY <1>4, <3>2, PushWord DEF TypeOK
    <3>4. QED
      BY <2>1, <3>1, <3>3
  <2>4. CASE h # s
    <3>1. links'[h] = links[h]
      BY <1>1, <2>4 DEF TypeOK
    <3>2. \A k \in 1 .. Len(es) : ~About(es[k], h)
      BY <1>4, <2>4, WordFacts
    <3>3. LastWord(queue \o es, conns, h, links[h])
      BY <1>4, <2>2, <3>2, PushWord DEF TypeOK
    <3>4. QED
      BY <2>1, <3>1, <3>3
  <2>5. QED
    BY <2>3, <2>4
<1>6. ViewFollows'
  BY <1>2, <1>5 DEF ViewFollows, LastWord
<1>7. QED
  BY <1>2, <1>6 DEF ViewInv

LEMMA LinkDownView == ASSUME TypeOK, ViewInv, NEW s \in Slot, LinkDown(s) PROVE ViewInv'
<1>1. links' = [links EXCEPT ![s] = None] /\ Push(<<DISCONNECTED(s)>>)
  BY DEF LinkDown
<1>2. /\ up /\ UNCHANGED <<up, ready, conns, restarts, casts>>
  BY DEF LinkDown, esp
<1>3. PICK es : es = <<DISCONNECTED(s)>>
  OBVIOUS
<1>4. es \in Seq(Event) /\ Len(es) = 1 /\ es[1] = DISCONNECTED(s) /\ Push(es)
  BY <1>1, <1>3, EventFacts
<1>5. ASSUME up, ~overflowed', restarts = 0, casts = 0, NEW h \in Slot
      PROVE  LastWord(queue', conns, h, links'[h])
  <2>1. ~overflowed /\ queue' = queue \o es
    BY <1>4, <1>5, PushAll DEF TypeOK
  <2>2. LastWord(queue, conns, h, links[h])
    BY <1>5, <2>1 DEF ViewInv, ViewFollows
  <2>3. CASE h = s
    <3>1. links'[h] = None
      BY <1>1, <2>3 DEF TypeOK
    <3>2. 1 \in 1 .. Len(es) /\ Says(es[1], h, None) /\ \A l \in 2 .. Len(es) : ~About(es[l], h)
      BY <1>4, <2>3, WordFacts
    <3>3. LastWord(queue \o es, conns, h, None)
      BY <1>4, <3>2, PushWord DEF TypeOK
    <3>4. QED
      BY <2>1, <3>1, <3>3
  <2>4. CASE h # s
    <3>1. links'[h] = links[h]
      BY <1>1, <2>4 DEF TypeOK
    <3>2. \A k \in 1 .. Len(es) : ~About(es[k], h)
      BY <1>4, <2>4, WordFacts
    <3>3. LastWord(queue \o es, conns, h, links[h])
      BY <1>4, <2>2, <3>2, PushWord DEF TypeOK
    <3>4. QED
      BY <2>1, <3>1, <3>3
  <2>5. QED
    BY <2>3, <2>4
<1>6. ViewFollows'
  BY <1>2, <1>5 DEF ViewFollows, LastWord
<1>7. QED
  BY <1>2, <1>6 DEF ViewInv

\* The list has one event of each link, with what the link table has.
LEMMA ListFacts ==
  ASSUME TypeOK, NEW live \in SetToSeqs(Slot \ Free), NEW es,
         es = [i \in 1 .. Len(live) |-> CONNECTED(live[i], links[live[i]])], NEW h \in Slot
  PROVE  /\ es \in Seq(Event)
         /\ links[h] = None => \A k \in 1 .. Len(es) : ~About(es[k], h)
         /\ links[h] # None => \E k \in 1 .. Len(es) :
              Says(es[k], h, links[h]) /\ \A l \in k + 1 .. Len(es) : ~About(es[l], h)
<1> DEFINE S == Slot \ Free
           D == 1 .. Cardinality(S)
<1>1. IsFiniteSet(S)
  <2>1. IsFiniteSet(Slot)
    BY FS_Interval, BridgeAssumption DEF Slot
  <2>2. QED
    BY <2>1, FS_Subset
<1>2. Cardinality(S) \in Nat
  BY <1>1, FS_CardinalityType
<1>3. IsFiniteSet(D) /\ Cardinality(D) = Cardinality(S)
  BY <1>2, FS_Interval
<1>4. live \in [D -> S] /\ \A i, j \in D : i # j => live[i] # live[j]
  BY DEF SetToSeqs
<1>5. live \in Injection(D, S)
  BY <1>4 DEF Injection, IsInjective
<1>6. live \in Surjection(D, S)
  BY <1>1, <1>3, <1>5, FS_Injection
<1>7. \A r \in S : \E i \in D : live[i] = r
  BY <1>6 DEF Surjection
<1>8. Len(live) = Cardinality(S)
  <2>1. live \in Seq(S)
    BY <1>2, <1>4, SeqDef
  <2>2. DOMAIN live = 1 .. Len(live) /\ Len(live) \in Nat /\ DOMAIN live = D
    BY <1>4, <2>1
  <2>3. QED
    BY <1>2, <2>2
<1> HIDE DEF D
<1>9. es \in Seq(Event)
  BY ListTypes DEF TypeOK
<1>10. DOMAIN es = D /\ Len(es) = Cardinality(S)
  BY <1>2, <1>8, <1>9 DEF D
<1>11. ASSUME NEW k \in D
       PROVE  /\ live[k] \in S /\ live[k] \in Slot /\ links[live[k]] \in Peer
              /\ es[k] = CONNECTED(live[k], links[live[k]])
  BY <1>4, <1>8 DEF TypeOK, Free, D
<1>12. \A k \in 1 .. Len(es) : k \in D
  BY <1>10 DEF D
<1>16. ASSUME NEW k \in D, live[k] # h PROVE ~About(es[k], h)
  <2>1. PICK r, p : r = live[k] /\ p = links[live[k]]
    OBVIOUS
  <2>2. r \in Slot /\ p \in Peer /\ es[k] = CONNECTED(r, p) /\ r # h
    BY <1>11, <1>16, <2>1
  <2>3. QED
    BY <2>2, WordFacts
<1>13. ASSUME links[h] = None, NEW k \in 1 .. Len(es) PROVE ~About(es[k], h)
  <2>1. live[k] # h
    BY <1>11, <1>12, <1>13 DEF Free
  <2>2. QED
    BY <1>12, <1>16, <2>1
<1>14. ASSUME links[h] # None
       PROVE  \E k \in 1 .. Len(es) :
                Says(es[k], h, links[h]) /\ \A l \in k + 1 .. Len(es) : ~About(es[l], h)
  <2>1. h \in S
    BY <1>14 DEF Free
  <2>2. PICK k \in D : live[k] = h
    BY <1>7, <2>1
  <2>3. Says(es[k], h, links[h])
    BY <1>11, <2>2, WordFacts
  <2>4. k \in 1 .. Len(es) /\ k \in Nat
    BY <1>10 DEF D
  <2>5. ASSUME NEW l \in k + 1 .. Len(es) PROVE ~About(es[l], h)
    <3>1. l \in 1 .. Len(es) /\ l # k
      BY <2>4
    <3>2. l \in D /\ live[l] # h
      BY <1>4, <1>12, <2>2, <3>1
    <3>3. QED
      BY <1>16, <3>2
  <2>6. QED
    BY <2>3, <2>4, <2>5
<1>15. QED
  BY <1>9, <1>13, <1>14

LEMMA ReportView == ASSUME TypeOK, ViewInv, ReportConnections PROVE ViewInv'
<1>1. PICK live \in SetToSeqs(Slot \ Free) :
        Push([i \in 1 .. Len(live) |-> CONNECTED(live[i], links[live[i]])])
  BY DEF ReportConnections
<1>2. PICK es : es = [i \in 1 .. Len(live) |-> CONNECTED(live[i], links[live[i]])]
  OBVIOUS
<1>3. up /\ UNCHANGED <<up, links, ready, conns, restarts, casts>>
  BY DEF ReportConnections, esp, bound
<1>4. es \in Seq(Event)
  BY <1>2, ListTypes DEF TypeOK
<1>5. ASSUME ~overflowed', restarts = 0, casts = 0, NEW h \in Slot
      PROVE  LastWord(queue', conns, h, links[h])
  <2>1. ~overflowed /\ queue' = queue \o es
    BY <1>1, <1>2, <1>4, <1>5, PushAll DEF TypeOK
  <2>2. LastWord(queue, conns, h, links[h])
    BY <1>3, <1>5, <2>1 DEF ViewInv, ViewFollows
  <2>3. /\ links[h] = None => \A k \in 1 .. Len(es) : ~About(es[k], h)
        /\ links[h] # None => \E k \in 1 .. Len(es) :
             Says(es[k], h, links[h]) /\ \A l \in k + 1 .. Len(es) : ~About(es[l], h)
    BY <1>2, ListFacts
  <2>4. LastWord(queue \o es, conns, h, links[h])
    BY <1>4, <2>2, <2>3, PushWord DEF TypeOK
  <2>5. QED
    BY <2>1, <2>4
<1>6. ViewFollows'
  BY <1>3, <1>5 DEF ViewFollows, LastWord
<1>7. QED
  BY <1>3, <1>6 DEF ViewInv

LEMMA GoDownView == ASSUME GoDown, conns' = conns, ready' = ready, restarts' = restarts, casts' = casts,
                           ViewInv PROVE ViewInv'
<1>1. up' = FALSE /\ links' = NoLinks
  BY DEF GoDown
<1>2. ~up'
  BY <1>1
<1>3. ViewFollows'
  BY <1>2 DEF ViewFollows
<1>4. NoLinks' = NoLinks
  BY DEF NoLinks, Slot
<1>5. QED
  BY <1>1, <1>3, <1>4 DEF ViewInv

LEMMA BootView == ASSUME TypeOK, ViewInv, Boot PROVE ViewInv'
<1>1. /\ up' = TRUE /\ queue' = <<READY>> /\ links = NoLinks
      /\ UNCHANGED <<links, ready, conns, restarts, casts>>
  BY DEF Boot, esp, bound, ViewInv
<1>2. ASSUME NEW h \in Slot PROVE LastWord(<<READY>>, conns, h, links[h])
  <2>1. links[h] = None
    BY <1>1 DEF NoLinks
  <2>2. PICK q : q = <<READY>>
    OBVIOUS
  <2>3. q[1] = READY /\ Len(q) = 1
    BY <2>2
  <2>4. Says(q[1], h, None)
    BY <2>3 DEF Says
  <2>5. 1 \in 0 .. Len(q) /\ \A j \in 1 + 1 .. Len(q) : ~About(q[j], h)
    BY <2>3
  <2>6. LastWord(q, conns, h, None)
    BY <2>4, <2>5 DEF LastWord
  <2>7. QED
    BY <2>1, <2>2, <2>6
<1>3. ViewFollows'
  BY <1>1, <1>2 DEF ViewFollows, LastWord
<1>4. QED
  BY <1>1, <1>3 DEF ViewInv

LEMMA HandleEventView == ASSUME TypeOK, AliveInv, ViewInv, HandleEvent PROVE ViewInv'
<1>1. /\ queue \in Seq(Event) /\ queue # <<>> /\ queue' = Tail(queue)
      /\ UNCHANGED <<up, links, overflowed, restarts, casts>>
  BY DEF HandleEvent, bound, TypeOK
<1>2. PICK e : e = Head(queue)
  OBVIOUS
<1>3. e \in Event /\ e = queue[1]
  BY <1>1, <1>2
<1>4. \/ e[1] = "READY" /\ OnReady
      \/ /\ e[1] = "CONNECTED" /\ conns' = [conns EXCEPT ![e[2]] = e[3]] /\ UNCHANGED ready
      \/ /\ e[1] = "DISCONNECTED" /\ conns' = [conns EXCEPT ![e[2]] = None] /\ UNCHANGED ready
  BY <1>2 DEF HandleEvent
<1>5. up
  BY <1>1 DEF AliveInv
<1>6. e = READY \/ (\E k \in Slot, p \in Peer : e = CONNECTED(k, p)) \/ (\E k \in Slot : e = DISCONNECTED(k))
  BY <1>3 DEF Event
\* What becomes of the record of each handle
<1>7. ASSUME NEW h \in Slot, NEW v, restarts = 0, casts = 0
      PROVE  (~About(e, h) => conns'[h] = conns[h]) /\ (Says(e, h, v) => conns'[h] = v)
  <2>1. CASE e = READY
    <3>1. OnReady
      BY <1>4, <2>1 DEF READY
    <3>2. conns' = NoLinks
      BY <1>7, <3>1 DEF OnReady, ViewInv
    <3>3. QED
      BY <2>1, <3>2, WordFacts DEF NoLinks
  <2>2. ASSUME NEW k \in Slot, NEW p \in Peer, e = CONNECTED(k, p)
        PROVE  (~About(e, h) => conns'[h] = conns[h]) /\ (Says(e, h, v) => conns'[h] = v)
    <3>1. e[1] = "CONNECTED" /\ e[2] = k /\ e[3] = p
      BY <2>2 DEF CONNECTED
    <3>2. conns' = [conns EXCEPT ![k] = p]
      BY <1>4, <3>1
    <3>3. About(e, k)
      BY <2>2, WordFacts
    <3>4. Says(e, h, v) => h = k /\ v = p
      BY <2>2, BridgeAssumption DEF Says, CONNECTED, DISCONNECTED, READY
    <3>5. QED
      BY <3>2, <3>3, <3>4 DEF TypeOK
  <2>3. ASSUME NEW k \in Slot, e = DISCONNECTED(k)
        PROVE  (~About(e, h) => conns'[h] = conns[h]) /\ (Says(e, h, v) => conns'[h] = v)
    <3>1. e[1] = "DISCONNECTED" /\ e[2] = k
      BY <2>3 DEF DISCONNECTED
    <3>2. conns' = [conns EXCEPT ![k] = None]
      BY <1>4, <3>1
    <3>3. About(e, k)
      BY <2>3, WordFacts
    <3>4. Says(e, h, v) => h = k /\ v = None
      BY <2>3 DEF Says, CONNECTED, DISCONNECTED, READY
    <3>5. QED
      BY <3>2, <3>3, <3>4 DEF TypeOK
  <2>4. QED
    BY <1>6, <2>1, <2>2, <2>3
<1>8. ASSUME ~overflowed, restarts = 0, casts = 0, NEW h \in Slot
      PROVE  LastWord(queue', conns', h, links[h])
  <2>1. PICK d, v : d = conns' /\ v = links[h]
    OBVIOUS
  <2>2. LastWord(queue, conns, h, v)
    BY <1>5, <1>8, <2>1 DEF ViewInv, ViewFollows
  <2>3. (~About(queue[1], h) => d[h] = conns[h]) /\ (Says(queue[1], h, v) => d[h] = v)
    BY <1>3, <1>7, <1>8, <2>1
  <2>4. LastWord(Tail(queue), d, h, v)
    BY <1>1, <2>2, <2>3, PopWord
  <2>5. QED
    BY <1>1, <2>1, <2>4
<1>9. ViewFollows'
  BY <1>1, <1>8 DEF ViewFollows, LastWord
<1>10. ~ready' /\ restarts = 0 /\ casts = 0 => FALSE
  <2>1. ASSUME ~ready, restarts = 0 PROVE e = READY
    BY <1>2, <1>5, <2>1 DEF AliveInv
  <2>2. OnReady => ready'
    <3>1. CASE ready
      BY <3>1 DEF OnReady
    <3>2. CASE ~ready
      BY <3>2 DEF OnReady
    <3>3. QED
      BY <3>1, <3>2
  <2>3. e # READY => UNCHANGED ready
    BY <1>4, <1>6 DEF CONNECTED, DISCONNECTED, READY
  <2>4. e = READY => OnReady
    BY <1>4 DEF READY
  <2>5. QED
    BY <2>1, <2>2, <2>3, <2>4
<1>11. ~up' => links' = NoLinks
  BY <1>1, <1>5
<1>12. QED
  BY <1>1, <1>9, <1>10, <1>11 DEF ViewInv

\* Steps that change neither queue nor record nor links, or restart the ESP32.
LEMMA IdleView ==
  ASSUME ViewInv, UNCHANGED <<up, queue, links, ready, conns, overflowed, restarts, casts>>
  PROVE  ViewInv'
<1>1. ViewFollows'
  BY DEF ViewInv, ViewFollows, LastWord
<1>2. QED
  BY <1>1 DEF ViewInv

LEMMA ViewStep == ASSUME TypeOK, AliveInv, ViewInv, [Next]_vars PROVE ViewInv'
<1>1. CASE \E p \in Peer : LinkUp(p)
  BY <1>1, LinkUpView
<1>2. CASE \E h \in Slot : LinkDown(h)
  BY <1>2, LinkDownView
<1>3. CASE ReportConnections
  BY <1>3, ReportView
<1>4. CASE Boot
  BY <1>4, BootView
<1>5. CASE Reset
  BY <1>5, GoDownView DEF Reset, esp
<1>6. CASE Watchdog
  BY <1>6, GoDownView DEF Watchdog, esp, bound
<1>7. CASE HandleEvent
  BY <1>7, HandleEventView
<1>8. CASE CheckReady
  BY <1>8, IdleView DEF CheckReady, bound
<1>9. CASE DoPing
  BY <1>9, IdleView DEF DoPing, bound
<1>10. CASE ResetXiao
  <2>1. casts' = casts + 1 /\ casts \in Nat /\ up' = FALSE /\ links' = NoLinks
    BY <1>10 DEF ResetXiao, GoDown, TypeOK
  <2>2. casts' # 0 /\ ~up'
    BY <2>1
  <2>3. QED
    BY <2>1, <2>2 DEF ViewInv, ViewFollows
<1>11. CASE EspRestart
  <2>1. restarts' = restarts + 1 /\ restarts \in Nat /\ UNCHANGED <<up, links>>
    BY <1>11 DEF EspRestart, nrf, TypeOK
  <2>2. restarts' # 0
    BY <2>1
  <2>3. QED
    BY <2>1, <2>2 DEF ViewInv, ViewFollows
<1>12. CASE Period
  BY <1>12, IdleView DEF Period, bound
<1>13. CASE UNCHANGED vars
  BY <1>13, IdleView DEF vars, nrf, esp, bound
<1>14. QED
  BY <1>1, <1>2, <1>3, <1>4, <1>5, <1>6, <1>7, <1>8, <1>9, <1>10, <1>11, <1>12, <1>13
  DEF Next, Nrf, Esp

LEMMA ViewInit == Init => ViewInv
<1> SUFFICES ASSUME Init PROVE ViewInv
  OBVIOUS
<1>1. up = TRUE /\ queue = <<READY>> /\ links = NoLinks /\ conns = NoLinks
  BY DEF Init
<1>2. ASSUME NEW h \in Slot PROVE LastWord(queue, conns, h, links[h])
  <2>1. links[h] = None /\ queue[1] = READY /\ Len(queue) = 1
    BY <1>1 DEF NoLinks
  <2>2. Says(queue[1], h, links[h])
    BY <2>1 DEF Says
  <2>3. 1 \in 0 .. Len(queue) /\ \A j \in 1 + 1 .. Len(queue) : ~About(queue[j], h)
    BY <2>1
  <2>4. QED
    BY <2>2, <2>3 DEF LastWord
<1>3. QED
  BY <1>1, <1>2 DEF ViewInv, ViewFollows

\* The connections that myhome_ble_i2c.erl keeps, with the events that are still on their
\* way, are those of the nRF: for any number of bulbs and handles, any queue size, and any
\* resets of the nRF and lists, as long as nothing was refused by a full queue and READY
\* finds the driver as the last boot left it.
THEOREM ViewTheorem == Spec => []ViewFollows
<1>1. Spec => [](TypeOK /\ AliveInv)
  BY TypesCorrect, Alive, PTL
<1>2. Init => ViewInv
  BY ViewInit
<1>3. TypeOK /\ AliveInv /\ ViewInv /\ [Next]_vars => ViewInv'
  BY ViewStep
<1>4. ViewInv => ViewFollows
  BY DEF ViewInv
<1>5. QED
  BY <1>1, <1>2, <1>3, <1>4, PTL DEF Spec
=============================================================================
