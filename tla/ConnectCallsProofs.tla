------------------------- MODULE ConnectCallsProofs -------------------------
(***************************************************************************)
(* Scan and connect calls are answered, and answered truthfully: for any   *)
(* number of addresses, handles, calls and troubles, and every queue size. *)
(*                                                                         *)
(* CallsInv has four parts.  Shape: what refers to a call refers to one of *)
(* its kind and address, through waiter, cmd_buf and the connect cycle.    *)
(* Announced: a CONNECTED in the queue is of a link that stands, or its    *)
(* end is behind it in the queue.  Fresh: nothing on the way is of another *)
(* scan than the driver's own.  Backed: WaiterBacked, with the waiter.     *)
(***************************************************************************)
EXTENDS ConnectCalls, SequenceTheorems, FiniteSetTheorems, TLAPS

Id    == 1 .. MaxCalls
Event ==
  {READY, CMD_ERROR} \cup {CONNECTED(s, p) : s \in Slot, p \in Peer}
    \cup {DISCONNECTED(s) : s \in Slot}
    \cup {SCAN_RESULT(n) : n \in Id} \cup {SCAN_DONE(n) : n \in Id}
Call  == [kind : {"scan", "connect"}, peer : Peer \cup {None},
          state : {"waiting", "ok", "error", "gone"}]
Cycle == [stage : {"none", "creating", "settling", "retry"}, target : Peer \cup {None},
          attempts : 0 .. MaxAttempts, slot : Slot \cup {None}, call : Id \cup {None}]
Cmd   == [kind : {"none", "scan", "connect", "disconnect", "other"},
          arg : Peer \cup Slot \cup {None}, call : Id \cup {None}]

Types ==
  /\ TypeOK
  /\ queue \in Seq(Event) /\ cycle \in Cycle /\ cmd \in Cmd
  /\ scanning \in Id \cup {None}
  /\ calls \in Seq(Call) /\ Len(calls) <= MaxCalls
  /\ misled \subseteq DOMAIN calls
  /\ troubles \in Nat /\ lossy \in BOOLEAN

\* n is a call to connect to p, or to scan
ToConnect(n, p) == n \in DOMAIN calls /\ calls[n].kind = "connect" /\ calls[n].peer = p
ToScan(n)       == n \in DOMAIN calls /\ calls[n].kind = "scan"

Named ==
  /\ \A n \in DOMAIN calls : calls[n].kind = "connect" => calls[n].peer \in Peer
  /\ \A p \in Peer : waiter[p] # None => ToConnect(waiter[p], p)
  /\ scanFrom # None => ToScan(scanFrom)
  /\ asleep # None => asleep \in DOMAIN calls /\ calls[asleep].kind = "connect"
  /\ cycle.call # None => ToConnect(cycle.call, cycle.target)

Command ==
  /\ cmd.kind = "scan" => ToScan(cmd.call)
  /\ cmd.kind = "connect" => cmd.arg \in Peer /\ ToConnect(cmd.call, cmd.arg)
  /\ cmd.kind = "disconnect" => cmd.arg \in Slot
  /\ cmd.kind \notin {"scan", "connect"} => cmd.call = None

Stages ==
  /\ cycle.stage = "none" => cycle = NoCycle
  /\ cycle.stage # "none" => cycle.target \in Peer
  /\ cycle.stage = "creating" => creating = cycle.target
  /\ cycle.stage = "settling" =>
       creating = None /\ cycle.slot \in Slot /\ slot[cycle.slot] = cycle.target
  /\ cycle.stage = "retry" => creating = None /\ cycle.attempts < MaxAttempts
  /\ scanTimer => scanning # None

Shape == Types /\ Named /\ Command /\ Stages

\* The links the driver may have been told of
Standing == {k \in Slot \X Peer : slot[k[1]] = k[2] /\ ~Unsettled(k[1])}

\* Every link announced in q stands, or ends later in q.
Announced(q, links) ==
  \A i \in 1 .. Len(q), s \in Slot, p \in Peer :
    q[i] = CONNECTED(s, p) =>
      <<s, p>> \in links \/ \E j \in i + 1 .. Len(q) : q[j] \in {DISCONNECTED(s), READY}

Links == ~lossy => Announced(queue, Standing) /\ \A n \in misled : calls[n].kind # "connect"

\* The scan events in q are of call n.
OfScan(q, n) == \A i \in 1 .. Len(q) : q[i].kind \in {"scan_result", "scan_done"} => q[i].call = n

Fresh ==
  /\ scanFrom # None /\ scanFrom \notin excused =>
       /\ scanning \in {None, scanFrom} /\ results \subseteq {scanFrom}
       /\ work /\ cmd.kind = "scan" => cmd.call = scanFrom
       /\ OfScan(queue, scanFrom)
  /\ \A n \in misled : calls[n].kind = "scan" => n \in excused

\* The queue holds the answer to the connects to p, or to a scan.
HasLink(q, p) == \E i \in 1 .. Len(q) : q[i].kind = "connected" /\ q[i].peer = p
HasEnd(q)     == \E i \in 1 .. Len(q) : q[i].kind = "scan_done"

\* What will answer connect call n, or scan n
Held(n) ==
  \/ asleep = n
  \/ /\ waiter[calls[n].peer] = n
     /\ (work /\ cmd.call = n) \/ cycle.call = n \/ HasLink(queue, calls[n].peer)
Sought(n) == (work /\ cmd.call = n) \/ (scanTimer /\ scanning = n) \/ HasEnd(queue)

Backed ==
  ~lossy =>
    /\ \A n \in Connects \ excused : Held(n)
    /\ \A n \in Scans : scanFrom = n /\ (n \notin excused => Sought(n))

CallsInv == Shape /\ Links /\ Fresh /\ Backed

-----------------------------------------------------------------------------
(* Values                                                                   *)

LEMMA Names == None \notin Id /\ None \notin Slot /\ None \notin Peer /\ None \notin Nat
BY ConnectCallsAssumption DEF Id, Slot

LEMMA EventsAre ==
  /\ READY \in Event /\ CMD_ERROR \in Event
  /\ \A s \in Slot, p \in Peer : CONNECTED(s, p) \in Event
  /\ \A s \in Slot : DISCONNECTED(s) \in Event
  /\ \A n \in Id : SCAN_RESULT(n) \in Event /\ SCAN_DONE(n) \in Event
BY DEF Event

\* What handle_event reads of an event
LEMMA EventParts ==
  ASSUME NEW e \in Event
  PROVE  /\ e.kind \in {"ready", "cmd_error", "connected", "disconnected", "scan_result", "scan_done"}
         /\ e.kind = "ready" => e = READY
         /\ e.kind = "cmd_error" => e = CMD_ERROR
         /\ e.kind = "connected" => e.slot \in Slot /\ e.peer \in Peer /\ e = CONNECTED(e.slot, e.peer)
         /\ e.kind = "disconnected" => e.slot \in Slot /\ e = DISCONNECTED(e.slot)
         /\ e.kind = "scan_result" => e.call \in Id /\ e = SCAN_RESULT(e.call)
         /\ e.kind = "scan_done" => e.call \in Id /\ e = SCAN_DONE(e.call)
<1>1. CASE e = READY
  BY <1>1 DEF READY
<1>2. CASE e = CMD_ERROR
  BY <1>2 DEF CMD_ERROR
<1>3. CASE \E s \in Slot, p \in Peer : e = CONNECTED(s, p)
  BY <1>3 DEF CONNECTED
<1>4. CASE \E s \in Slot : e = DISCONNECTED(s)
  BY <1>4 DEF DISCONNECTED
<1>5. CASE \E n \in Id : e = SCAN_RESULT(n)
  BY <1>5 DEF SCAN_RESULT
<1>6. CASE \E n \in Id : e = SCAN_DONE(n)
  BY <1>6 DEF SCAN_DONE
<1>7. QED
  BY <1>1, <1>2, <1>3, <1>4, <1>5, <1>6 DEF Event

LEMMA Kinds ==
  /\ READY.kind = "ready" /\ CMD_ERROR.kind = "cmd_error"
  /\ \A s, p : CONNECTED(s, p).kind = "connected" /\ CONNECTED(s, p).slot = s
               /\ CONNECTED(s, p).peer = p
  /\ \A s : DISCONNECTED(s).kind = "disconnected" /\ DISCONNECTED(s).slot = s
  /\ \A n : SCAN_RESULT(n).kind = "scan_result" /\ SCAN_RESULT(n).call = n
            /\ SCAN_DONE(n).kind = "scan_done" /\ SCAN_DONE(n).call = n
BY DEF READY, CMD_ERROR, CONNECTED, DISCONNECTED, SCAN_RESULT, SCAN_DONE

\* event_queue_push within the array: what is refused sets lossy.
LEMMA PushOK ==
  ASSUME Types, NEW e \in Event, Push(e)
  PROVE  /\ queue' \in Seq(Event) /\ Len(queue') <= QueueSize
         /\ lossy' \in BOOLEAN /\ (~lossy' => ~lossy)
         /\ ~lossy' => queue' = Append(queue, e)
         /\ queue' = queue \/ queue' = Append(queue, e)
<1>1. queue \in Seq(Event) /\ Len(queue) <= QueueSize /\ lossy \in BOOLEAN /\ QueueSize \in Nat
  BY ConnectCallsAssumption DEF Types, TypeOK
<1>2. CASE Len(queue) < QueueSize
  <2>1. queue' = Append(queue, e) /\ lossy' = lossy
    BY <1>2 DEF Push
  <2>2. Append(queue, e) \in Seq(Event) /\ Len(Append(queue, e)) <= QueueSize
    BY <1>1, <1>2
  <2>3. QED
    BY <1>1, <2>1, <2>2
<1>3. CASE ~(Len(queue) < QueueSize)
  BY <1>1, <1>3 DEF Push
<1>4. QED
  BY <1>2, <1>3

LEMMA CallParts ==
  ASSUME Types
  PROVE  /\ calls \in Seq(Call) /\ DOMAIN calls = 1 .. Len(calls) /\ Len(calls) \in Nat
         /\ DOMAIN calls \subseteq Id /\ Waiting \subseteq Id
         /\ \A n \in DOMAIN calls : calls[n].kind \in {"scan", "connect"}
<1>1. calls \in Seq(Call) /\ DOMAIN calls = 1 .. Len(calls) /\ Len(calls) \in Nat /\ Len(calls) <= MaxCalls
  BY DEF Types
<1>2. MaxCalls \in Nat
  BY ConnectCallsAssumption
<1>3. DOMAIN calls \subseteq Id
  BY <1>1, <1>2 DEF Id
<1>4. \A n \in DOMAIN calls : calls[n] \in Call
  BY <1>1
<1>5. QED
  BY <1>1, <1>3, <1>4 DEF Waiting, Call

\* The calls are those there were, answered or not, and perhaps a new one.
Kept ==
  /\ calls' \in Seq(Call) /\ Len(calls') <= MaxCalls
  /\ DOMAIN calls \subseteq DOMAIN calls'
  /\ \A n \in DOMAIN calls :
       /\ calls'[n].kind = calls[n].kind /\ calls'[n].peer = calls[n].peer
       /\ calls'[n].state = "waiting" => calls[n].state = "waiting"

LEMMA SetOK ==
  ASSUME Types, NEW n \in DOMAIN calls, NEW st \in {"ok", "error", "gone"}, Set(n, st)
  PROVE  Kept /\ DOMAIN calls' = DOMAIN calls /\ Waiting' = Waiting \ {n}
<1>1. calls \in Seq(Call) /\ DOMAIN calls = 1 .. Len(calls) /\ Len(calls) <= MaxCalls /\ calls[n] \in Call
  BY DEF Types
<1>2. calls' = [calls EXCEPT ![n] = [calls[n] EXCEPT !.state = st]]
  BY DEF Set
<1>3. [calls[n] EXCEPT !.state = st] \in Call
  BY <1>1 DEF Call
<1>4. /\ calls' \in Seq(Call) /\ Len(calls') = Len(calls) /\ DOMAIN calls' = DOMAIN calls
      /\ \A m \in DOMAIN calls : m # n => calls'[m] = calls[m]
      /\ calls'[n] = [calls[n] EXCEPT !.state = st]
  BY <1>1, <1>2, <1>3
<1>5. calls'[n].state = st /\ calls'[n].kind = calls[n].kind /\ calls'[n].peer = calls[n].peer
  BY <1>1, <1>4 DEF Call
<1>6. st # "waiting"
  OBVIOUS
<1>7. Kept
  BY <1>1, <1>4, <1>5, <1>6 DEF Kept
<1>8. Waiting' = Waiting \ {n}
  BY <1>4, <1>5, <1>6 DEF Waiting
<1>9. QED
  BY <1>4, <1>7, <1>8

LEMMA MadeOK ==
  ASSUME Types, NewCall, NEW k \in {"scan", "connect"}, NEW p \in Peer \cup {None},
         NEW st \in {"waiting", "error"}, Made(k, p, st)
  PROVE  /\ Kept /\ New \notin DOMAIN calls /\ DOMAIN calls' = DOMAIN calls \cup {New}
         /\ calls'[New] = [kind |-> k, peer |-> p, state |-> st]
         /\ New \in Id
         /\ Waiting' = Waiting \cup (IF st = "waiting" THEN {New} ELSE {})
<1> DEFINE c == [kind |-> k, peer |-> p, state |-> st]
<1>1. /\ calls \in Seq(Call) /\ DOMAIN calls = 1 .. Len(calls) /\ Len(calls) < MaxCalls
      /\ MaxCalls \in Nat /\ Len(calls) \in Nat
  BY ConnectCallsAssumption DEF Types, NewCall
<1>2. c \in Call
  BY DEF Call
<1>3. calls' = Append(calls, c) /\ New = Len(calls) + 1
  BY DEF Made, New
<1>4. c.kind = k /\ c.peer = p /\ c.state = st
  OBVIOUS
<1> HIDE DEF c
<1>5. /\ calls' \in Seq(Call) /\ Len(calls') = Len(calls) + 1 /\ DOMAIN calls' = DOMAIN calls \cup {New}
      /\ \A m \in DOMAIN calls : calls'[m] = calls[m]
      /\ calls'[New] = c /\ New \notin DOMAIN calls /\ New \in Id
  BY <1>1, <1>2, <1>3 DEF Id
<1>6. Kept
  BY <1>1, <1>5 DEF Kept
<1>7. Waiting' = Waiting \cup (IF st = "waiting" THEN {New} ELSE {})
  BY <1>4, <1>5 DEF Waiting
<1>8. QED
  BY <1>5, <1>6, <1>7 DEF c

-----------------------------------------------------------------------------
(* Shape                                                                    *)

LEMMA Facts ==
  ASSUME Types
  PROVE  /\ None \notin Id /\ None \notin Slot /\ None \notin Peer /\ None \notin Nat
         /\ slot \in [Slot -> Peer \cup {None}] /\ conns \in [Slot -> Peer \cup {None}]
         /\ waiter \in [Peer -> Id \cup {None}]
         /\ scanFrom \in Id \cup {None} /\ asleep \in Id \cup {None}
         /\ cmd.arg \in Peer \cup Slot \cup {None} /\ cmd.call \in Id \cup {None}
         /\ cycle.call \in Id \cup {None} /\ cycle.target \in Peer \cup {None}
         /\ excused \in SUBSET Id /\ misled \in SUBSET Id /\ Unexecuted \in SUBSET Id
         /\ Waiting \in SUBSET Id /\ DOMAIN calls \in SUBSET Id
BY Names, CallParts DEF Types, TypeOK, Id, Cmd, Cycle, Unexecuted

\* What the types say of each variable, as the lemmas on a step ask for it
LEMMA EachType ==
  ASSUME Types
  PROVE  /\ slot \in [Slot -> Peer \cup {None}] /\ dying \subseteq Slot
         /\ creating \in Peer \cup {None} /\ cycle \in Cycle /\ scanTimer \in BOOLEAN
         /\ scanning \in Id \cup {None} /\ work \in BOOLEAN /\ listing \in BOOLEAN /\ cmd \in Cmd
         /\ queue \in Seq(Event) /\ Len(queue) <= QueueSize /\ conns \in [Slot -> Peer \cup {None}]
         /\ waiter \in [Peer -> Id \cup {None}] /\ scanFrom \in Id \cup {None}
         /\ results \subseteq Id /\ asleep \in Id \cup {None} /\ excused \subseteq Id
         /\ misled \subseteq DOMAIN calls /\ troubles \in Nat /\ lossy \in BOOLEAN
BY DEF Types, TypeOK, Id

LEMMA KeptCalls ==
  ASSUME Kept
  PROVE  /\ \A n, p : ToConnect(n, p) => ToConnect(n, p)'
         /\ \A n : ToScan(n) => ToScan(n)'
BY DEF Kept, ToConnect, ToScan

\* A command written over cmd_buf
LEMMA WriteOK ==
  ASSUME Types, Command, NEW k \in {"disconnect", "other"}, NEW h \in Slot, WriteCmd(k, h, None)
  PROVE  cmd' \in Cmd /\ work' \in BOOLEAN /\ excused' \subseteq Id /\ Command'
<1>1. cmd' = [kind |-> k, arg |-> h, call |-> None] /\ work' = TRUE /\ excused' = excused \cup Unexecuted
  BY DEF WriteCmd
<1>2. cmd' \in Cmd
  BY <1>1 DEF Cmd
<1>3. cmd'.kind = k /\ cmd'.arg = h /\ cmd'.call = None
  BY <1>1
<1>4. Command'
  BY <1>3 DEF Command
<1>5. QED
  BY <1>1, <1>2, <1>4, Facts

LEMMA StepTypes ==
  ASSUME Types, Kept, slot' \in [Slot -> Peer \cup {None}], dying' \subseteq Slot,
         creating' \in Peer \cup {None}, cycle' \in Cycle, scanTimer' \in BOOLEAN,
         scanning' \in Id \cup {None}, work' \in BOOLEAN, listing' \in BOOLEAN, cmd' \in Cmd,
         queue' \in Seq(Event), Len(queue') <= QueueSize, conns' \in [Slot -> Peer \cup {None}],
         waiter' \in [Peer -> Id \cup {None}], scanFrom' \in Id \cup {None},
         results' \subseteq Id, asleep' \in Id \cup {None}, excused' \subseteq Id,
         misled' \subseteq DOMAIN calls, troubles' \in Nat, lossy' \in BOOLEAN
  PROVE  Types'
<1>1. misled' \subseteq DOMAIN calls' /\ misled' \subseteq Id
  BY CallParts DEF Kept
<1>2. calls' \in Seq(Call) /\ Len(calls') <= MaxCalls
  BY DEF Kept
<1>3. TypeOK'
  BY <1>1 DEF TypeOK, Id, Cycle, Cmd
<1>4. QED
  BY <1>1, <1>2, <1>3 DEF Types

LEMMA SameCalls == ASSUME Types, calls' = calls PROVE Kept
BY DEF Kept, Types

LEMMA TroubleOK == ASSUME Types PROVE (Trouble => troubles' \in Nat) /\ troubles \in Nat
BY DEF Types, Trouble

LEMMA ScanCallShape ==
  ASSUME Shape, ScanCall
  PROVE  Shape' /\ Kept
<1>0. PICK n : n = New
  OBVIOUS
<1>1. /\ Kept /\ calls'[n] = [kind |-> "scan", peer |-> None, state |-> "waiting"]
      /\ DOMAIN calls' = DOMAIN calls \cup {n} /\ n \in Id
  BY <1>0, MadeOK DEF ScanCall, Shape
<1>2. cmd' = [kind |-> "scan", arg |-> None, call |-> n]
  BY <1>0 DEF ScanCall
<1>3. cmd' \in Cmd /\ cmd'.kind = "scan" /\ cmd'.call = n
  BY <1>1, <1>2 DEF Cmd
<1>4. Types'
  <2>1. Types
    BY DEF Shape
  <2>2. UNCHANGED <<slot, dying, creating, cycle, scanning, scanTimer, listing, queue, conns, waiter,
                    asleep, misled, lossy, troubles>>
    BY DEF ScanCall
  <2>3. work' \in BOOLEAN /\ scanFrom' \in Id \cup {None} /\ results' \subseteq Id
    BY <1>0, <1>1 DEF ScanCall
  <2>4. excused' \subseteq Id
    BY <2>1, <1>0, <1>1, Facts DEF ScanCall
  <2>5. QED
    BY <1>1, <1>3, <2>1, <2>2, <2>3, <2>4, EachType, StepTypes
<1>5. ToScan(n)'
  BY <1>1 DEF ToScan
<1>6. /\ scanFrom' = n /\ waiter' = waiter /\ asleep' = asleep /\ cycle' = cycle
      /\ creating' = creating /\ slot' = slot /\ scanTimer' = scanTimer /\ scanning' = scanning
  BY <1>0 DEF ScanCall
<1>7. Named'
  <2>1. \A m \in DOMAIN calls' : calls'[m].kind = "connect" => calls'[m].peer \in Peer
    BY <1>1 DEF Shape, Named, Kept
  <2>2. asleep' # None => asleep' \in DOMAIN calls' /\ calls'[asleep'].kind = "connect"
    BY <1>1, <1>6 DEF Shape, Named, Kept
  <2>3. QED
    BY <1>1, <1>5, <1>6, <2>1, <2>2, KeptCalls DEF Shape, Named
<1>8. Command'
  BY <1>3, <1>5 DEF Command
<1>9. Stages'
  BY <1>6 DEF Shape, Stages
<1>10. QED
  BY <1>1, <1>4, <1>7, <1>8, <1>9 DEF Shape

LEMMA NamedStep ==
  ASSUME Named, Kept,
         \A n \in DOMAIN calls' \ DOMAIN calls : calls'[n].kind = "connect" => calls'[n].peer \in Peer,
         \A p \in Peer : waiter'[p] \in {None, waiter[p]} \/ ToConnect(waiter[p], p)',
         scanFrom' \in {None, scanFrom},
         asleep' \in {None, asleep} \/ (asleep' \in DOMAIN calls' /\ calls'[asleep'].kind = "connect"),
         \/ cycle'.call = None
         \/ cycle'.call = cycle.call /\ cycle'.target = cycle.target
         \/ ToConnect(cycle.call, cycle.target)'
  PROVE  Named'
<1>1. \A n \in DOMAIN calls' : calls'[n].kind = "connect" => calls'[n].peer \in Peer
  BY DEF Named, Kept
<1>2. \A p \in Peer : waiter'[p] # None => ToConnect(waiter[p], p)'
  <2>1. \A p \in Peer : waiter'[p] = waiter[p] /\ waiter[p] # None => ToConnect(waiter[p], p)'
    BY KeptCalls DEF Named, ToConnect
  <2>2. QED
    BY <2>1
<1>3. scanFrom' # None => ToScan(scanFrom)'
  BY KeptCalls DEF Named, ToScan
<1>4. asleep' # None => asleep' \in DOMAIN calls' /\ calls'[asleep'].kind = "connect"
  BY DEF Named, Kept
<1>5. cycle'.call # None => ToConnect(cycle.call, cycle.target)'
  BY KeptCalls DEF Named, ToConnect
<1>6. QED
  BY <1>1, <1>2, <1>3, <1>4, <1>5 DEF Named

LEMMA CommandSame == ASSUME Command, Kept, cmd' = cmd PROVE Command'
BY KeptCalls DEF Command, ToScan, ToConnect

LEMMA StagesSame ==
  ASSUME Stages, cycle' = cycle, creating' = creating, slot' = slot, scanTimer' = scanTimer,
         scanning' = scanning
  PROVE  Stages'
BY DEF Stages

\* A connect call, or one that failed
LEMMA NewConnect ==
  ASSUME Types, NewCall, NEW p \in Peer, NEW st \in {"waiting", "error"}, Made("connect", p, st),
         NEW n, n = New
  PROVE  /\ Kept /\ n \in Id /\ ToConnect(n, p)' /\ n \notin DOMAIN calls
         /\ \A m \in DOMAIN calls' \ DOMAIN calls : m = n
         /\ n \in DOMAIN calls' /\ calls'[n].kind = "connect" /\ calls'[n].peer = p
         /\ Waiting' = Waiting \cup (IF st = "waiting" THEN {n} ELSE {})
<1>1. /\ Kept /\ n \notin DOMAIN calls /\ DOMAIN calls' = DOMAIN calls \cup {n}
      /\ calls'[n] = [kind |-> "connect", peer |-> p, state |-> st]
      /\ n \in Id /\ Waiting' = Waiting \cup (IF st = "waiting" THEN {n} ELSE {})
  BY MadeOK
<1>2. calls'[n].kind = "connect" /\ calls'[n].peer = p /\ n \in DOMAIN calls'
  BY <1>1
<1>3. ToConnect(n, p)'
  BY <1>2 DEF ToConnect
<1>4. QED
  BY <1>1, <1>2, <1>3

LEMMA RegisteredOK ==
  ASSUME Types, NEW p \in Peer, NEW n \in Id, Registered(p, n)
  PROVE  /\ cmd' = [kind |-> "connect", arg |-> p, call |-> n] /\ cmd' \in Cmd
         /\ cmd'.kind = "connect" /\ cmd'.arg = p /\ cmd'.call = n
         /\ work' = TRUE /\ excused' \subseteq Id
         /\ waiter' \in [Peer -> Id \cup {None}] /\ waiter'[p] = n
         /\ \A r \in Peer : r # p => waiter'[r] = waiter[r]
         /\ waiter[p] \in excused' \cup {None} /\ Unexecuted \subseteq excused'
         /\ excused \subseteq excused'
<1>1. cmd' = [kind |-> "connect", arg |-> p, call |-> n]
  BY DEF Registered
<1>2. cmd' \in Cmd
  BY <1>1 DEF Cmd
<1>3. waiter' \in [Peer -> Id \cup {None}] /\ waiter'[p] = n /\ \A r \in Peer : r # p => waiter'[r] = waiter[r]
  BY Facts DEF Registered
<1>4. /\ excused' \subseteq Id /\ waiter[p] \in excused' \cup {None} /\ Unexecuted \subseteq excused'
      /\ excused \subseteq excused'
  BY Facts DEF Registered
<1>5. work' = TRUE /\ cmd'.kind = "connect" /\ cmd'.arg = p /\ cmd'.call = n
  BY <1>1 DEF Registered
<1>6. QED
  BY <1>1, <1>2, <1>3, <1>4, <1>5

LEMMA ConnectCallShape ==
  ASSUME Shape, NEW p \in Peer, ConnectCall(p)
  PROVE  Shape' /\ Kept
<1> USE DEF Shape
<1>0. PICK n : n = New
  OBVIOUS
<1>1. /\ Kept /\ n \in Id /\ ToConnect(n, p)'
      /\ \A m \in DOMAIN calls' \ DOMAIN calls : m = n
      /\ n \in DOMAIN calls' /\ calls'[n].kind = "connect" /\ calls'[n].peer = p
  BY <1>0, NewConnect DEF ConnectCall
<1>2. /\ slot' = slot /\ dying' = dying /\ creating' = creating /\ cycle' = cycle
      /\ scanning' = scanning /\ scanTimer' = scanTimer /\ listing' = listing /\ queue' = queue
      /\ scanFrom' = scanFrom /\ results' = results /\ misled' = misled /\ lossy' = lossy
  BY DEF ConnectCall
<1>3. Stages'
  BY <1>2, StagesSame
<1>4. CASE \E h \in Slot :
              /\ conns[h] = p /\ conns' = [conns EXCEPT ![h] = None] /\ asleep' = n
              /\ \/ WriteCmd("disconnect", h, None) /\ UNCHANGED troubles
                 \/ Trouble /\ UNCHANGED <<cmd, work, excused>>
              /\ UNCHANGED waiter
  <2>1. PICK h \in Slot :
              /\ conns[h] = p /\ conns' = [conns EXCEPT ![h] = None] /\ asleep' = n
              /\ \/ WriteCmd("disconnect", h, None) /\ UNCHANGED troubles
                 \/ Trouble /\ UNCHANGED <<cmd, work, excused>>
              /\ UNCHANGED waiter
    BY <1>4
  <2>2. cmd' \in Cmd /\ work' \in BOOLEAN /\ excused' \subseteq Id /\ Command' /\ troubles' \in Nat
    <3>1. CASE WriteCmd("disconnect", h, None) /\ UNCHANGED troubles
      BY <3>1, WriteOK, TroubleOK
    <3>2. CASE Trouble /\ UNCHANGED <<cmd, work, excused>>
      BY <1>1, <3>2, CommandSame, TroubleOK, Facts DEF Types, TypeOK
    <3>3. QED
      BY <2>1, <3>1, <3>2
  <2>3. conns' \in [Slot -> Peer \cup {None}]
    BY <2>1, Facts
  <2>4. Named'
    BY <1>1, <1>2, <2>1, NamedStep
  <2>5. Types'
    BY <1>1, <1>2, <2>1, <2>2, <2>3, EachType, StepTypes
  <2>6. QED
    BY <1>1, <1>3, <2>2, <2>4, <2>5
<1>5. CASE /\ \A h \in Slot : conns[h] # p
           /\ Registered(p, n)
           /\ UNCHANGED <<conns, asleep, troubles>>
  <2>1. /\ cmd' \in Cmd /\ cmd'.kind = "connect" /\ cmd'.arg = p /\ cmd'.call = n
        /\ work' = TRUE /\ excused' \subseteq Id
        /\ waiter' \in [Peer -> Id \cup {None}] /\ waiter'[p] = n
        /\ \A r \in Peer : r # p => waiter'[r] = waiter[r]
    BY <1>1, <1>5, RegisteredOK
  <2>2. Command'
    BY <1>1, <2>1 DEF Command, ToConnect
  <2>3. Named'
    <3>1. \A r \in Peer : waiter'[r] \in {None, waiter[r]} \/ ToConnect(waiter[r], r)'
      BY <1>1, <2>1 DEF ToConnect
    <3>2. QED
      BY <1>1, <1>2, <1>5, <3>1, NamedStep
  <2>4. Types'
    BY <1>1, <1>2, <1>5, <2>1, EachType, StepTypes, TroubleOK
  <2>5. QED
    BY <1>1, <1>3, <2>2, <2>3, <2>4
<1>6. QED
  BY <1>0, <1>4, <1>5 DEF ConnectCall

LEMMA ConnectWakesShape ==
  ASSUME Shape, ConnectWakes
  PROVE  Shape' /\ Kept
<1> USE DEF Shape
<1>0. PICK n : n = asleep
  OBVIOUS
<1>1. n \in DOMAIN calls /\ n \in Id /\ calls[n].kind = "connect" /\ calls[n].peer \in Peer
  BY <1>0, Facts DEF ConnectWakes, Named
<1>2. /\ slot' = slot /\ dying' = dying /\ creating' = creating /\ cycle' = cycle
      /\ scanning' = scanning /\ scanTimer' = scanTimer /\ listing' = listing /\ queue' = queue
      /\ conns' = conns /\ asleep' = None
      /\ scanFrom' = scanFrom /\ results' = results /\ misled' = misled /\ lossy' = lossy
  BY DEF ConnectWakes
<1>3. Stages'
  BY <1>2, StagesSame
<1>4. CASE Registered(calls[n].peer, n) /\ UNCHANGED <<calls, troubles>>
  <2>0. PICK p \in Peer : p = calls[n].peer
    BY <1>1
  <2>1. /\ cmd' \in Cmd /\ cmd'.kind = "connect" /\ cmd'.arg = p /\ cmd'.call = n
        /\ work' = TRUE /\ excused' \subseteq Id
        /\ waiter' \in [Peer -> Id \cup {None}] /\ waiter'[p] = n
        /\ \A r \in Peer : r # p => waiter'[r] = waiter[r]
    BY <1>1, <1>4, <2>0, RegisteredOK
  <2>2. Kept /\ ToConnect(n, p)'
    BY <1>1, <1>4, <2>0, SameCalls DEF ToConnect
  <2>3. Command'
    BY <2>1, <2>2 DEF Command, ToConnect
  <2>4. Named'
    <3>1. \A r \in Peer : waiter'[r] \in {None, waiter[r]} \/ ToConnect(waiter[r], r)'
      BY <2>1, <2>2 DEF ToConnect
    <3>2. QED
      BY <1>2, <1>4, <2>2, <3>1, NamedStep
  <2>5. Types'
    BY <1>2, <1>4, <2>1, <2>2, EachType, StepTypes, TroubleOK
  <2>6. QED
    BY <1>3, <2>2, <2>3, <2>4, <2>5
<1>5. CASE Trouble /\ Set(n, "error") /\ UNCHANGED <<cmd, work, waiter, excused>>
  <2>1. Kept /\ DOMAIN calls' = DOMAIN calls
    BY <1>1, <1>5, SetOK
  <2>2. Named'
    BY <1>2, <1>5, <2>1, NamedStep
  <2>3. Types'
    BY <1>2, <1>5, <2>1, EachType, StepTypes, TroubleOK
  <2>4. Command'
    BY <1>5, <2>1, CommandSame
  <2>5. QED
    BY <1>3, <2>1, <2>2, <2>3, <2>4
<1>6. QED
  BY <1>0, <1>4, <1>5 DEF ConnectWakes

LEMMA OtherCallShape ==
  ASSUME Shape, NEW h \in Slot, NEW k \in {"disconnect", "other"}, OtherCall(k, h)
  PROVE  Shape' /\ Kept
<1> USE DEF Shape
<1>1. cmd' \in Cmd /\ work' \in BOOLEAN /\ excused' \subseteq Id /\ Command'
  BY WriteOK DEF OtherCall
<1>2. UNCHANGED <<slot, dying, creating, cycle, scanning, scanTimer, listing, queue,
                 driver, calls, misled, lossy>> /\ Trouble
  BY DEF OtherCall
<1>3. Kept
  BY <1>2, SameCalls
<1>4. Types'
  BY <1>1, <1>2, <1>3, EachType, StepTypes, TroubleOK DEF driver
<1>5. Named'
  BY <1>2, <1>3, NamedStep DEF driver
<1>6. Stages'
  BY <1>2, StagesSame
<1>7. QED
  BY <1>1, <1>3, <1>4, <1>5, <1>6

\* A step of the calls alone
LEMMA CallsOnly ==
  ASSUME Shape, Kept, UNCHANGED <<nrf, queue, driver, excused, misled, lossy>>, troubles' \in Nat,
         \A n \in DOMAIN calls' \ DOMAIN calls : calls'[n].kind = "connect" => calls'[n].peer \in Peer
  PROVE  Shape'
<1> USE DEF Shape
<1>1. Types'
  <2>1. Types
    OBVIOUS
  <2>2. UNCHANGED <<slot, dying, creating, cycle, scanTimer, scanning, work, listing, cmd, conns,
                    waiter, scanFrom, results, asleep>>
    BY DEF driver, nrf
  <2>3. QED
    BY <2>1, <2>2, EachType, StepTypes
<1>2. Named'
  BY NamedStep DEF driver, nrf
<1>3. Command'
  BY CommandSame DEF nrf
<1>4. Stages'
  BY StagesSame DEF nrf
<1>5. QED
  BY <1>1, <1>2, <1>3, <1>4

LEMMA FailedCallShape ==
  ASSUME Shape, NEW k \in {"scan", "connect"}, NEW p \in Peer, FailedCall(k, p)
  PROVE  Shape' /\ Kept /\ Waiting' = Waiting
<1>0. PICK a : a = IF k = "scan" THEN None ELSE p
  OBVIOUS
<1>1. a \in Peer \cup {None} /\ Made(k, a, "error") /\ NewCall /\ troubles' \in Nat
  BY <1>0, TroubleOK DEF FailedCall, Shape
<1>2. /\ Kept /\ DOMAIN calls' = DOMAIN calls \cup {New} /\ Waiting' = Waiting
      /\ calls'[New] = [kind |-> k, peer |-> a, state |-> "error"]
  BY <1>1, MadeOK DEF Shape
<1>3. \A n \in DOMAIN calls' \ DOMAIN calls : calls'[n].kind = "connect" => calls'[n].peer \in Peer
  BY <1>0, <1>2
<1>4. QED
  BY <1>1, <1>2, <1>3, CallsOnly DEF FailedCall

LEMMA GiveUpShape ==
  ASSUME Shape, NEW n \in Waiting, GiveUp(n)
  PROVE  Shape' /\ Kept /\ Waiting' = Waiting \ {n} /\ DOMAIN calls' = DOMAIN calls
<1>1. n \in DOMAIN calls /\ Set(n, "gone") /\ troubles' = troubles
  BY DEF Waiting, GiveUp
<1>2. Kept /\ Waiting' = Waiting \ {n} /\ DOMAIN calls' = DOMAIN calls
  BY <1>1, SetOK DEF Shape
<1>3. QED
  BY <1>1, <1>2, CallsOnly, TroubleOK DEF GiveUp, Shape

\* The nRF does not touch calls or the driver.
LEMMA NrfNamed ==
  ASSUME Shape, UNCHANGED <<calls, driver>>,
         \/ cycle'.call = None
         \/ cycle'.call = cycle.call /\ cycle'.target = cycle.target
         \/ ToConnect(cycle.call, cycle.target)'
  PROVE  Kept /\ Named'
<1>1. Kept
  BY SameCalls DEF Shape
<1>2. QED
  BY <1>1, NamedStep DEF Shape, driver

LEMMA NrfTypes ==
  ASSUME Types, UNCHANGED <<calls, driver, misled>>,
         slot' \in [Slot -> Peer \cup {None}], dying' \subseteq Slot,
         creating' \in Peer \cup {None}, cycle' \in Cycle, scanTimer' \in BOOLEAN,
         scanning' \in Id \cup {None}, work' \in BOOLEAN, listing' \in BOOLEAN, cmd' \in Cmd,
         queue' \in Seq(Event), Len(queue') <= QueueSize, excused' \subseteq Id,
         troubles' \in Nat, lossy' \in BOOLEAN
  PROVE  Types'
<1>1. Kept
  BY SameCalls
<1>2. QED
  BY <1>1, EachType, StepTypes DEF driver

LEMMA NoCycleOK == NoCycle \in Cycle /\ NoCycle.call = None /\ NoCycle.stage = "none"
BY ConnectCallsAssumption DEF NoCycle, Cycle

\* bt_conn_le_create within a cycle
LEMMA CycleStarts ==
  ASSUME NEW p \in Peer, NEW a \in 0 .. MaxAttempts, NEW n \in Id \cup {None}, NEW c,
         c = [stage |-> "creating", target |-> p, attempts |-> a, slot |-> None, call |-> n]
  PROVE  c \in Cycle /\ c.stage = "creating" /\ c.target = p /\ c.call = n
BY DEF Cycle

LEMMA ScanPreemptedOK ==
  ASSUME Types, ScanPreempted
  PROVE  /\ scanning' = None /\ scanTimer' \in BOOLEAN /\ (scanTimer' => scanTimer /\ scanning = None)
         /\ queue' \in Seq(Event) /\ Len(queue') <= QueueSize
         /\ lossy' \in BOOLEAN /\ (~lossy' => ~lossy)
         /\ \/ scanning = None /\ queue' = queue
            \/ scanning \in Id /\ queue' \in {queue, Append(queue, SCAN_DONE(scanning))}
         /\ ~lossy' /\ scanning # None => queue' = Append(queue, SCAN_DONE(scanning))
<1>1. scanning \in Id \cup {None} /\ queue \in Seq(Event) /\ Len(queue) <= QueueSize
      /\ lossy \in BOOLEAN /\ scanTimer \in BOOLEAN
  BY DEF Types, TypeOK
<1>2. CASE scanning = None
  BY <1>1, <1>2 DEF ScanPreempted
<1>3. CASE scanning # None
  <2>0. PICK e \in Event : e = SCAN_DONE(scanning)
    BY <1>1, <1>3, EventsAre
  <2>1. Push(e) /\ scanning' = None /\ scanTimer' = FALSE
    BY <1>3, <2>0 DEF ScanPreempted
  <2>2. QED
    BY <1>1, <1>3, <2>0, <2>1, PushOK
<1>4. QED
  BY <1>2, <1>3

LEMMA CmdExecShape ==
  ASSUME Shape, CmdExec
  PROVE  Shape' /\ Kept
<1> USE DEF Shape
<1>1. /\ work' = FALSE /\ slot' = slot /\ cmd' = cmd /\ listing' = listing /\ calls' = calls
      /\ misled' = misled /\ UNCHANGED driver
  BY DEF CmdExec
<1>2. Kept /\ Command'
  BY <1>1, SameCalls, CommandSame
<1>3. SUFFICES Types' /\ Named' /\ Stages'
  BY <1>2
<1>4. CASE /\ cmd.kind = "scan" /\ ExecScan
           /\ UNCHANGED <<dying, creating, cycle, queue, lossy>>
  <2>1. cmd.call \in Id
    BY <1>4, Facts DEF Command, ToScan
  <2>2. /\ scanTimer' \in BOOLEAN /\ scanning' \in Id \cup {None} /\ (scanTimer' => scanning' # None)
        /\ excused' \subseteq Id /\ troubles' \in Nat
    <3>1. ExecScan /\ excused \subseteq Id /\ scanning \in Id \cup {None} /\ troubles \in Nat
      BY <1>4, Facts DEF Types
    <3>2. scanTimer \in BOOLEAN
      BY EachType
    <3>3. CASE scanning' = cmd.call /\ scanTimer' = TRUE /\ UNCHANGED troubles
               /\ excused' = excused \cup ({scanning} \ {None})
      BY <2>1, <3>1, <3>3, Names
    <3>4. CASE /\ IF creating = None THEN Trouble ELSE UNCHANGED troubles
               /\ scanTimer' = FALSE /\ UNCHANGED scanning
               /\ excused' = excused \cup {cmd.call} \cup ({scanning} \ {None})
      <4>1. troubles' \in Nat
        BY <3>1, <3>4, TroubleOK
      <4>2. QED
        BY <2>1, <3>1, <3>4, <4>1
    <3>5. QED
      BY <3>1, <3>3, <3>4 DEF ExecScan
  <2>3. Types'
    BY <1>1, <1>4, <2>2, NrfTypes DEF Types, TypeOK
  <2>4. Named' /\ Stages'
    BY <1>1, <1>4, <2>2, NrfNamed DEF Stages
  <2>5. QED
    BY <2>3, <2>4
<1>5. CASE cmd.kind = "connect" /\ ExecConnect(cmd.arg) /\ UNCHANGED dying
  <2>0. PICK p \in Peer : p = cmd.arg /\ ToConnect(cmd.call, p) /\ cmd.call \in Id
    BY <1>5, Facts DEF Command, ToConnect
  <2>1. ScanPreempted
    BY <1>5 DEF ExecConnect
  <2>2. CASE /\ MayCreate(p)
             /\ creating' = p
             /\ cycle' = [stage |-> "creating", target |-> p, attempts |-> 1,
                          slot |-> None, call |-> cmd.call]
             /\ excused' = excused \cup ({cycle.call} \ {None})
             /\ UNCHANGED troubles
    <3>1. 1 \in 0 .. MaxAttempts
      BY ConnectCallsAssumption
    <3>2. cycle' \in Cycle /\ cycle'.stage = "creating" /\ cycle'.target = p /\ cycle'.call = cmd.call
      BY <2>0, <2>2, <3>1, CycleStarts
    <3>3. Types'
      BY <1>1, <1>5, <2>1, <2>2, <3>2, NrfTypes, ScanPreemptedOK, TroubleOK, Facts DEF Types, TypeOK
    <3>4. ToConnect(cycle.call, cycle.target)'
      BY <1>1, <2>0, <3>2 DEF ToConnect
    <3>5. Named'
      BY <1>1, <3>4, NrfNamed
    <3>6. Stages'
      BY <2>1, <2>2, <3>2, ScanPreemptedOK DEF Stages
    <3>7. QED
      BY <3>3, <3>5, <3>6
  <2>3. CASE /\ IF MayCreate(p) THEN Trouble ELSE UNCHANGED troubles
             /\ cycle' = NoCycle
             /\ excused' = excused \cup {cmd.call} \cup ({cycle.call} \ {None})
             /\ UNCHANGED creating
    <3>1. troubles' \in Nat /\ excused' \subseteq Id
      BY <2>0, <2>3, TroubleOK, Facts
    <3>2. Types'
      BY <1>1, <1>5, <2>1, <2>3, <3>1, NrfTypes, ScanPreemptedOK, NoCycleOK DEF Types, TypeOK
    <3>3. Named'
      BY <1>1, <2>3, NrfNamed, NoCycleOK
    <3>4. Stages'
      BY <2>1, <2>3, ScanPreemptedOK, NoCycleOK DEF Stages
    <3>5. QED
      BY <3>2, <3>3, <3>4
  <2>4. QED
    BY <1>5, <2>0, <2>2, <2>3 DEF ExecConnect
<1>6. CASE /\ cmd.kind = "disconnect"
           /\ dying' = IF slot[cmd.arg] # None THEN dying \cup {cmd.arg} ELSE dying
           /\ UNCHANGED <<creating, cycle, scanning, scanTimer, queue, lossy, excused, troubles>>
  <2>1. dying' \subseteq Slot
    BY <1>6 DEF Command, Types, TypeOK
  <2>2. Types'
    BY <1>1, <1>6, <2>1, NrfTypes DEF Types, TypeOK, Id
  <2>3. Named' /\ Stages'
    BY <1>1, <1>6, NrfNamed, StagesSame
  <2>4. QED
    BY <2>2, <2>3
<1>7. CASE /\ cmd.kind = "other"
           /\ UNCHANGED <<dying, creating, cycle, scanning, scanTimer, queue, lossy,
                          excused, troubles>>
  <2>1. Types'
    BY <1>1, <1>7, NrfTypes DEF Types, TypeOK, Id
  <2>2. Named' /\ Stages'
    BY <1>1, <1>7, NrfNamed, StagesSame
  <2>3. QED
    BY <2>1, <2>2
<1>8. QED
  BY <1>4, <1>5, <1>6, <1>7 DEF CmdExec

\* SetToSeq of a finite set lists elements of it.
LEMMA SetSeqFacts ==
  ASSUME NEW S, IsFiniteSet(S)
  PROVE  SetToSeq(S) \in Seq(S)
<1> DEFINE D == 1 .. Cardinality(S)
<1>1. Cardinality(S) \in Nat /\ ExistsBijection(D, S)
  BY FS_CardinalityType
<1>2. PICK f \in Bijection(D, S) : TRUE
  BY <1>1 DEF ExistsBijection
<1>3. f \in [D -> S] /\ IsInjective(f)
  BY <1>2 DEF Bijection, Injection, IsInjective
<1>4. SetToSeq(S) \in [D -> S]
  BY <1>3 DEF SetToSeq
<1>5. QED
  BY <1>1, <1>4, SeqDef

\* What CMD_LIST_CONNECTIONS adds to the queue
LEMMA ListOK ==
  ASSUME Types, ListConnections
  PROVE  /\ \E es \in Seq(Event) :
              /\ queue' = queue \o es
              /\ \A i \in 1 .. Len(es) : \E s \in Slot : slot[s] \in Peer /\ es[i] = CONNECTED(s, slot[s])
         /\ queue' \in Seq(Event) /\ Len(queue') <= QueueSize
         /\ lossy' \in BOOLEAN /\ (~lossy' => ~lossy /\ cycle.stage # "settling")
<1> DEFINE S == {s \in Slot : slot[s] # None}
           room == QueueSize - Len(queue)
<1>1. IsFiniteSet(S)
  <2>1. IsFiniteSet(Slot)
    BY FS_Interval, ConnectCallsAssumption DEF Slot
  <2>2. QED
    BY <2>1, FS_Subset
<1>2. PICK up : up = SetToSeq(S)
  OBVIOUS
<1>3. up \in Seq(S)
  BY <1>1, <1>2, SetSeqFacts
<1>4. \A s \in S : s \in Slot /\ slot[s] \in Peer
  BY Facts
<1>5. PICK es : es = [i \in DOMAIN up |-> CONNECTED(up[i], slot[up[i]])]
  OBVIOUS
<1>6. /\ queue' = queue \o SubSeq(es, 1, IF room < Len(es) THEN room ELSE Len(es))
      /\ lossy' = (lossy \/ room < Len(es) \/ cycle.stage = "settling")
  BY <1>2, <1>5 DEF ListConnections
<1> HIDE DEF S
<1>7. DOMAIN up = 1 .. Len(up) /\ Len(up) \in Nat /\ \A i \in 1 .. Len(up) : up[i] \in S
  BY <1>3
<1>8. \A i \in 1 .. Len(up) : CONNECTED(up[i], slot[up[i]]) \in Event
  BY <1>4, <1>7, EventsAre
<1>9. es \in Seq(Event) /\ Len(es) = Len(up) /\ \A i \in 1 .. Len(es) : es[i] = CONNECTED(up[i], slot[up[i]])
  BY <1>5, <1>7, <1>8
<1>10. queue \in Seq(Event) /\ Len(queue) <= QueueSize /\ QueueSize \in Nat /\ lossy \in BOOLEAN
  BY ConnectCallsAssumption DEF Types, TypeOK
<1>11. PICK k : k = IF room < Len(es) THEN room ELSE Len(es)
  OBVIOUS
<1>12. k \in 0 .. Len(es) /\ Len(queue) + k <= QueueSize
  BY <1>9, <1>10, <1>11
<1>13. PICK fs : fs = SubSeq(es, 1, k)
  OBVIOUS
<1>14. fs \in Seq(Event) /\ Len(fs) = k /\ \A i \in 1 .. k : fs[i] = es[i]
  BY <1>9, <1>12, <1>13
<1>15. queue' = queue \o fs
  BY <1>6, <1>11, <1>13
<1>16. queue' \in Seq(Event) /\ Len(queue') <= QueueSize
  BY <1>10, <1>12, <1>14, <1>15
<1>17. \A i \in 1 .. Len(fs) : \E s \in Slot : slot[s] \in Peer /\ fs[i] = CONNECTED(s, slot[s])
  BY <1>4, <1>7, <1>9, <1>12, <1>14
<1>18. lossy' \in BOOLEAN /\ (~lossy' => ~lossy /\ cycle.stage # "settling")
  BY <1>6, <1>10
<1>19. QED
  BY <1>14, <1>15, <1>16, <1>17, <1>18

LEMMA ListConnectionsShape == ASSUME Shape, ListConnections PROVE Shape' /\ Kept
<1> USE DEF Shape
<1>1. /\ listing' = FALSE
      /\ UNCHANGED <<slot, dying, creating, cycle, scanning, scanTimer, cmd, work,
                     driver, history, troubles>>
  BY DEF ListConnections
<1>2. Types'
  BY <1>1, ListOK, NrfTypes DEF Types, TypeOK, history, Id
<1>3. Kept /\ Named'
  BY <1>1, NrfNamed DEF history
<1>4. Command' /\ Stages'
  BY <1>1, <1>3, CommandSame, StagesSame
<1>5. QED
  BY <1>2, <1>3, <1>4

LEMMA AutoConnectShape == ASSUME Shape, NEW p \in Peer, AutoConnect(p) PROVE Shape' /\ Kept
<1> USE DEF Shape
<1>1. /\ creating' = p /\ cycle = NoCycle /\ Trouble
      /\ UNCHANGED <<slot, dying, cycle, scanning, scanTimer, cmd, work, listing, queue,
                 driver, history, lossy>>
  BY DEF AutoConnect
<1>2. Types'
  BY <1>1, NrfTypes, TroubleOK DEF Types, TypeOK, history, Id
<1>3. Kept /\ Named'
  BY <1>1, NrfNamed DEF history
<1>4. Command' /\ Stages'
  BY <1>1, <1>3, CommandSame, NoCycleOK DEF Stages
<1>5. QED
  BY <1>2, <1>3, <1>4

LEMMA CycleFailsOK ==
  ASSUME Types, CycleFails
  PROVE  /\ cycle' = NoCycle /\ cycle' \in Cycle /\ cycle'.call = None /\ cycle'.stage = "none"
         /\ queue' \in Seq(Event) /\ Len(queue') <= QueueSize
         /\ lossy' \in BOOLEAN /\ (~lossy' => ~lossy)
         /\ ~lossy' => queue' = Append(queue, CMD_ERROR)
         /\ queue' = queue \/ queue' = Append(queue, CMD_ERROR)
         /\ excused' \subseteq Id /\ excused \subseteq excused'
         /\ cycle.call # None => cycle.call \in excused'
<1>1. PICK e \in Event : e = CMD_ERROR
  BY EventsAre
<1>2. Push(e) /\ cycle' = NoCycle /\ excused' = excused \cup ({cycle.call} \ {None})
  BY <1>1 DEF CycleFails
<1>3. QED
  BY <1>1, <1>2, PushOK, NoCycleOK, Facts

LEMMA ConnectedShape == ASSUME Shape, Connected PROVE Shape' /\ Kept
<1> USE DEF Shape
<1>1. /\ creating # None /\ creating' = None
      /\ UNCHANGED <<dying, scanning, scanTimer, cmd, work, listing, driver, history, troubles>>
  BY DEF Connected
<1>2. PICK s \in Free :
       /\ slot' = [slot EXCEPT ![s] = creating]
       /\ IF cycle # NoCycle
            THEN /\ cycle' = [cycle EXCEPT !.stage = "settling", !.slot = s]
                 /\ UNCHANGED <<queue, lossy>>
            ELSE Push(CONNECTED(s, creating)) /\ UNCHANGED cycle
  BY DEF Connected
<1>3. s \in Slot /\ creating \in Peer /\ slot' \in [Slot -> Peer \cup {None}] /\ slot'[s] = creating
  BY <1>1, <1>2, Facts DEF Free, Types, TypeOK
<1>4. CASE cycle # NoCycle
  <2>1. cycle.stage = "creating" /\ cycle.target = creating
    BY <1>1, <1>4 DEF Stages, Types, Cycle
  <2>2. PICK d : d = [cycle EXCEPT !.stage = "settling", !.slot = s]
    OBVIOUS
  <2>3. cycle' = d /\ queue' = queue /\ lossy' = lossy
    BY <1>2, <1>4, <2>2
  <2>4. d \in Cycle /\ d.stage = "settling" /\ d.slot = s /\ d.target = creating /\ d.call = cycle.call
    BY <1>3, <2>1, <2>2 DEF Types, Cycle
  <2>5. Types'
    BY <1>1, <1>3, <2>3, <2>4, NrfTypes DEF Types, TypeOK, history, Id
  <2>6. Kept /\ Named'
    BY <1>1, <2>1, <2>3, <2>4, NrfNamed DEF history
  <2>7. Stages'
    BY <1>1, <1>3, <2>3, <2>4 DEF Stages
  <2>8. QED
    BY <1>1, <2>5, <2>6, <2>7, CommandSame
<1>5. CASE cycle = NoCycle
  <2>1. PICK e \in Event : e = CONNECTED(s, creating)
    BY <1>3, EventsAre
  <2>2. Push(e) /\ cycle' = cycle
    BY <1>2, <1>5, <2>1
  <2>3. queue' \in Seq(Event) /\ Len(queue') <= QueueSize /\ lossy' \in BOOLEAN
    BY <2>2, PushOK
  <2>4. Types'
    BY <1>1, <1>3, <2>2, <2>3, NrfTypes DEF Types, TypeOK, history, Id
  <2>5. Kept /\ Named'
    BY <1>1, <2>2, NrfNamed DEF history
  <2>6. Stages'
    BY <1>1, <1>5, <2>2, NoCycleOK DEF Stages
  <2>7. QED
    BY <1>1, <2>4, <2>5, <2>6, CommandSame
<1>6. QED
  BY <1>4, <1>5

LEMMA ConnectFailsShape == ASSUME Shape, ConnectFails PROVE Shape' /\ Kept
<1> USE DEF Shape
<1>1. /\ creating # None /\ creating' = None
      /\ UNCHANGED <<slot, dying, scanning, scanTimer, cmd, work, listing, driver,
                     calls, misled, troubles>>
      /\ IF cycle # NoCycle THEN CycleFails ELSE UNCHANGED <<cycle, queue, lossy, excused>>
  BY DEF ConnectFails
<1>2. CASE cycle # NoCycle
  <2>1. Types'
    BY <1>1, <1>2, CycleFailsOK, NrfTypes DEF Types, TypeOK
  <2>2. Kept /\ Named'
    BY <1>1, <1>2, CycleFailsOK, NrfNamed
  <2>3. Stages'
    BY <1>1, <1>2, CycleFailsOK DEF Stages
  <2>4. QED
    BY <1>1, <2>1, <2>2, <2>3, CommandSame
<1>3. CASE cycle = NoCycle
  <2>1. Types'
    BY <1>1, <1>3, NrfTypes DEF Types, TypeOK, Id
  <2>2. Kept /\ Named'
    BY <1>1, <1>3, NrfNamed
  <2>3. Stages'
    BY <1>1, <1>3, NoCycleOK DEF Stages
  <2>4. QED
    BY <1>1, <2>1, <2>2, <2>3, CommandSame
<1>4. QED
  BY <1>2, <1>3

LEMMA SettlesShape ==
  ASSUME Shape, Settles
  PROVE  /\ Shape' /\ Kept
         /\ \E s \in Slot, p \in Peer :
              /\ s = cycle.slot /\ p = cycle.target /\ slot[s] = p
              /\ ~lossy' => ~lossy /\ queue' = Append(queue, CONNECTED(s, p))
              /\ queue' \in {queue, Append(queue, CONNECTED(s, p))}
<1> USE DEF Shape
<1>1. /\ cycle' = NoCycle
      /\ UNCHANGED <<slot, dying, creating, scanning, scanTimer, cmd, work, listing,
                     driver, history, troubles>>
  BY DEF Settles
<1>2. PICK s \in Slot, p \in Peer : s = cycle.slot /\ p = cycle.target /\ slot[s] = p
  BY DEF Settles, Stages
<1>3. PICK e \in Event : e = CONNECTED(s, p)
  BY EventsAre
<1>4. Push(e)
  BY <1>2, <1>3 DEF Settles
<1>5. Types'
  BY <1>1, <1>4, PushOK, NoCycleOK, NrfTypes DEF Types, TypeOK, history, Id
<1>6. Kept /\ Named'
  BY <1>1, NrfNamed, NoCycleOK DEF history
<1>7. Stages'
  BY <1>1, NoCycleOK DEF Stages
<1>8. QED
  BY <1>1, <1>2, <1>3, <1>4, <1>5, <1>6, <1>7, PushOK, CommandSame

LEMMA LinkDownShape == ASSUME Shape, NEW s \in Slot, LinkDown(s) PROVE Shape' /\ Kept
<1> USE DEF Shape
<1>1. /\ slot[s] # None /\ slot' = [slot EXCEPT ![s] = None] /\ dying' = dying \ {s}
      /\ IF s \in dying \/ Unsettled(s) THEN UNCHANGED troubles ELSE Trouble
      /\ UNCHANGED <<creating, scanning, scanTimer, cmd, work, listing, driver, calls, misled>>
  BY DEF LinkDown
<1>2. /\ slot' \in [Slot -> Peer \cup {None}] /\ dying' \subseteq Slot /\ troubles' \in Nat
      /\ \A t \in Slot : t # s => slot'[t] = slot[t]
  BY <1>1, TroubleOK DEF Types, TypeOK
<1>3. CASE ~Unsettled(s) /\ Push(DISCONNECTED(s)) /\ UNCHANGED <<cycle, excused>>
  <2>1. PICK e \in Event : e = DISCONNECTED(s)
    BY EventsAre
  <2>2. queue' \in Seq(Event) /\ Len(queue') <= QueueSize /\ lossy' \in BOOLEAN
    BY <1>3, <2>1, PushOK
  <2>3. Types'
    BY <1>1, <1>2, <1>3, <2>2, NrfTypes DEF Types, TypeOK, Id
  <2>4. Kept /\ Named'
    BY <1>1, <1>3, NrfNamed
  <2>5. Stages'
    BY <1>1, <1>2, <1>3 DEF Stages, Unsettled
  <2>6. QED
    BY <1>1, <2>3, <2>4, <2>5, CommandSame
<1>4. CASE Unsettled(s) /\ CycleFails
  <2>1. Types'
    BY <1>1, <1>2, <1>4, CycleFailsOK, NrfTypes DEF Types, TypeOK
  <2>2. Kept /\ Named'
    BY <1>1, <1>4, CycleFailsOK, NrfNamed
  <2>3. Stages'
    BY <1>1, <1>4, CycleFailsOK DEF Stages
  <2>4. QED
    BY <1>1, <2>1, <2>2, <2>3, CommandSame
<1>5. CASE /\ Unsettled(s) /\ cycle.attempts < MaxAttempts
           /\ cycle' = [cycle EXCEPT !.stage = "retry", !.slot = None]
           /\ UNCHANGED <<queue, lossy, excused>>
  <2>1. PICK d : d = [cycle EXCEPT !.stage = "retry", !.slot = None]
    OBVIOUS
  <2>2. d \in Cycle /\ d.stage = "retry" /\ d.target = cycle.target /\ d.call = cycle.call
        /\ d.attempts = cycle.attempts
    BY <2>1 DEF Types, Cycle
  <2>3. cycle' = d
    BY <1>5, <2>1
  <2>4. Types'
    BY <1>1, <1>2, <1>5, <2>2, <2>3, NrfTypes DEF Types, TypeOK, Id
  <2>5. Kept /\ Named'
    BY <1>1, <2>2, <2>3, NrfNamed
  <2>6. Stages'
    BY <1>1, <1>5, <2>2, <2>3 DEF Stages, Unsettled
  <2>7. QED
    BY <1>1, <2>4, <2>5, <2>6, CommandSame
<1>6. QED
  BY <1>3, <1>4, <1>5 DEF LinkDown

LEMMA RetryShape == ASSUME Shape, Retry PROVE Shape' /\ Kept
<1> USE DEF Shape
<1>1. /\ cycle.stage = "retry"
      /\ UNCHANGED <<slot, dying, scanning, scanTimer, cmd, work, listing, driver, calls, misled>>
  BY DEF Retry
<1>2. creating = None /\ cycle.attempts < MaxAttempts /\ cycle.target \in Peer
  BY <1>1 DEF Stages
<1>3. CASE /\ MayCreate(cycle.target)
           /\ creating' = cycle.target
           /\ cycle' = [cycle EXCEPT !.stage = "creating", !.attempts = @ + 1]
           /\ UNCHANGED <<queue, lossy, excused, troubles>>
  <2>1. PICK d : d = [cycle EXCEPT !.stage = "creating", !.attempts = @ + 1]
    OBVIOUS
  <2>2. MaxAttempts \in Nat /\ cycle.attempts \in 0 .. MaxAttempts
    BY ConnectCallsAssumption DEF Types, TypeOK
  <2>3. PICK a : a = cycle.attempts + 1
    OBVIOUS
  <2>4. a \in 0 .. MaxAttempts
    BY <1>2, <2>2, <2>3
  <2>5. d = [cycle EXCEPT !.stage = "creating", !.attempts = a]
    BY <2>1, <2>3 DEF Types, Cycle
  <2>6. d \in Cycle /\ d.stage = "creating" /\ d.target = cycle.target /\ d.call = cycle.call
    BY <2>4, <2>5 DEF Types, Cycle
  <2>7. cycle' = d
    BY <1>3, <2>1
  <2>8. Types'
    BY <1>1, <1>2, <1>3, <2>6, <2>7, NrfTypes DEF Types, TypeOK, Id
  <2>9. Kept /\ Named'
    BY <1>1, <2>6, <2>7, NrfNamed
  <2>10. Stages'
    BY <1>1, <1>2, <1>3, <2>6, <2>7 DEF Stages
  <2>11. QED
    BY <1>1, <2>8, <2>9, <2>10, CommandSame
<1>4. CASE /\ IF MayCreate(cycle.target) THEN Trouble ELSE UNCHANGED troubles
           /\ CycleFails
           /\ UNCHANGED creating
  <2>1. Types'
    BY <1>1, <1>4, CycleFailsOK, NrfTypes, TroubleOK DEF Types, TypeOK
  <2>2. Kept /\ Named'
    BY <1>1, <1>4, CycleFailsOK, NrfNamed
  <2>3. Stages'
    BY <1>1, <1>4, CycleFailsOK DEF Stages
  <2>4. QED
    BY <1>1, <2>1, <2>2, <2>3, CommandSame
<1>5. QED
  BY <1>3, <1>4 DEF Retry

LEMMA AdvertShape ==
  ASSUME Shape, Advert
  PROVE  /\ Shape' /\ Kept
         /\ \E n \in Id : /\ n = scanning /\ queue' \in {queue, Append(queue, SCAN_RESULT(n))}
                          /\ ~lossy' => ~lossy
<1> USE DEF Shape
<1>1. UNCHANGED <<nrf, driver, history, troubles>> /\ scanTimer
  BY DEF Advert
<1>2. PICK n \in Id : n = scanning
  BY <1>1, Facts DEF Stages, Types
<1>3. PICK e \in Event : e = SCAN_RESULT(n)
  BY EventsAre
<1>4. Push(e)
  BY <1>2, <1>3 DEF Advert
<1>5. Types'
  BY <1>1, <1>4, PushOK, NrfTypes DEF Types, TypeOK, history, nrf, Id
<1>6. Kept /\ Named'
  BY <1>1, NrfNamed DEF history, nrf
<1>7. Stages'
  BY <1>1, StagesSame DEF nrf
<1>8. QED
  BY <1>1, <1>2, <1>3, <1>4, <1>5, <1>6, <1>7, PushOK, CommandSame DEF nrf

LEMMA ScanTimeoutShape ==
  ASSUME Shape, ScanTimeout
  PROVE  /\ Shape' /\ Kept
         /\ \E n \in Id : /\ n = scanning /\ queue' \in {queue, Append(queue, SCAN_DONE(n))}
                          /\ ~lossy' => ~lossy /\ queue' = Append(queue, SCAN_DONE(n))
<1> USE DEF Shape
<1>1. /\ UNCHANGED <<slot, dying, creating, cycle, cmd, work, listing, driver, history, troubles>>
      /\ scanTimer /\ scanTimer' = FALSE /\ scanning' = None
  BY DEF ScanTimeout
<1>2. PICK n \in Id : n = scanning
  BY <1>1, Facts DEF Stages, Types
<1>3. PICK e \in Event : e = SCAN_DONE(n)
  BY EventsAre
<1>4. Push(e)
  BY <1>2, <1>3 DEF ScanTimeout
<1>5. Types'
  BY <1>1, <1>4, PushOK, NrfTypes DEF Types, TypeOK, history, Id
<1>6. Kept /\ Named'
  BY <1>1, NrfNamed DEF history
<1>7. Stages'
  BY <1>1 DEF Stages
<1>8. QED
  BY <1>1, <1>2, <1>3, <1>4, <1>5, <1>6, <1>7, PushOK, CommandSame

LEMMA ResetShape == ASSUME Shape, Reset PROVE Shape' /\ Kept
<1> USE DEF Shape
<1>1. /\ Trouble
      /\ slot' = NoLinks /\ dying' = {} /\ creating' = None /\ cycle' = NoCycle
      /\ scanning' = None /\ scanTimer' = FALSE
      /\ cmd' = NoCmd /\ work' = FALSE /\ listing' = FALSE
      /\ queue' = <<READY>>
      /\ excused' = excused \cup Waiting
      /\ UNCHANGED <<driver, calls, misled, lossy>>
  BY DEF Reset
<1>2. NoCmd \in Cmd /\ NoCmd.kind = "none" /\ NoCmd.call = None
  BY DEF NoCmd, Cmd
<1>3. PICK e \in Event : e = READY
  BY EventsAre
<1>4. queue' \in Seq(Event) /\ Len(queue') <= QueueSize
  <2>1. <<e>> \in Seq(Event) /\ Len(<<e>>) = 1 /\ 1 <= QueueSize
    BY ConnectCallsAssumption
  <2>2. QED
    BY <1>1, <1>3, <2>1
<1>5. slot' \in [Slot -> Peer \cup {None}]
  BY <1>1 DEF NoLinks
<1>6. Types'
  BY <1>1, <1>2, <1>4, <1>5, NoCycleOK, NrfTypes, TroubleOK, Facts DEF Types, TypeOK
<1>7. Kept /\ Named'
  BY <1>1, NrfNamed, NoCycleOK
<1>8. Command' /\ Stages'
  BY <1>1, <1>2, NoCycleOK DEF Command, Stages
<1>9. QED
  BY <1>6, <1>7, <1>8

\* The driver takes the first event.
LEMMA TailOK ==
  ASSUME Types, queue # <<>>
  PROVE  /\ Head(queue) \in Event /\ Head(queue) = queue[1] /\ Tail(queue) \in Seq(Event)
         /\ Len(queue) \in Nat \ {0} /\ Len(Tail(queue)) = Len(queue) - 1
         /\ Len(Tail(queue)) <= QueueSize
         /\ \A i \in 1 .. Len(queue) - 1 : Tail(queue)[i] = queue[i + 1]
<1>1. queue \in Seq(Event) /\ Len(queue) <= QueueSize /\ QueueSize \in Nat
  BY ConnectCallsAssumption DEF Types, TypeOK
<1>2. QED
  BY <1>1

\* The waiters that Drain can answer
LEMMA OnConnectedOK ==
  ASSUME Shape, NEW h \in Slot, NEW p \in Peer, OnConnected(h, p)
  PROVE  /\ Kept /\ DOMAIN calls' = DOMAIN calls /\ Waiting' = Waiting \ {waiter[p]}
         /\ conns' \in [Slot -> Peer \cup {None}]
         /\ waiter' \in [Peer -> Id \cup {None}] /\ waiter'[p] = None
         /\ \A r \in Peer : r # p => waiter'[r] = waiter[r]
         /\ misled' \subseteq DOMAIN calls
         /\ \A n \in misled' \ misled : ToConnect(n, p) /\ slot[h] # p /\ ~EndsIn(Rest, h)
<1>1. conns' = [conns EXCEPT ![h] = p] /\ waiter' = [waiter EXCEPT ![p] = None]
  BY DEF OnConnected
<1>2. waiter[p] \in Waiting => waiter[p] \in DOMAIN calls /\ waiter[p] # None /\ ToConnect(waiter[p], p)
  BY Facts DEF Waiting, Shape, Named
<1>3. CASE waiter[p] \in Waiting
  <2>1. Set(waiter[p], "ok")
    BY <1>3 DEF OnConnected
  <2>2. Kept /\ DOMAIN calls' = DOMAIN calls /\ Waiting' = Waiting \ {waiter[p]}
    BY <1>2, <1>3, <2>1, SetOK DEF Shape
  <2>3. misled' = IF slot[h] = p \/ EndsIn(Rest, h) THEN misled ELSE misled \cup {waiter[p]}
    BY <1>3 DEF OnConnected
  <2>4. QED
    BY <1>1, <1>2, <1>3, <2>2, <2>3, Facts DEF Shape, Types
<1>4. CASE waiter[p] \notin Waiting
  <2>1. calls' = calls /\ misled' = misled
    BY <1>4 DEF OnConnected
  <2>2. Kept /\ Waiting' = Waiting
    BY <2>1, SameCalls DEF Shape, Waiting
  <2>3. QED
    BY <1>1, <1>4, <2>1, <2>2, Facts DEF Shape, Types
<1>5. QED
  BY <1>3, <1>4

LEMMA OnScanDoneOK ==
  ASSUME Shape, NEW n \in Id, OnScanDone(n)
  PROVE  /\ Kept /\ DOMAIN calls' = DOMAIN calls /\ Waiting' = Waiting \ {scanFrom}
         /\ scanFrom' = None /\ results' = {} /\ misled' \subseteq DOMAIN calls
         /\ \A m \in misled' \ misled :
              m = scanFrom /\ ToScan(m) /\ ~(n = scanFrom /\ results \subseteq {n})
<1>1. scanFrom' = None /\ results' = {}
  BY DEF OnScanDone
<1>2. scanFrom \in Waiting => scanFrom \in DOMAIN calls /\ scanFrom # None /\ ToScan(scanFrom)
  BY Facts DEF Waiting, Shape, Named
<1>3. CASE scanFrom \in Waiting
  <2>1. Set(scanFrom, "ok")
    BY <1>3 DEF OnScanDone
  <2>2. Kept /\ DOMAIN calls' = DOMAIN calls /\ Waiting' = Waiting \ {scanFrom}
    BY <1>2, <1>3, <2>1, SetOK DEF Shape
  <2>3. misled' = IF n = scanFrom /\ results \subseteq {n} THEN misled ELSE misled \cup {scanFrom}
    BY <1>3 DEF OnScanDone
  <2>4. QED
    <3>1. scanFrom \in DOMAIN calls /\ ToScan(scanFrom) /\ misled \subseteq DOMAIN calls
      BY <1>2, <1>3 DEF Shape, Types
    <3>2. misled' \subseteq DOMAIN calls
      BY <2>3, <3>1
    <3>3. \A m \in misled' \ misled :
            m = scanFrom /\ ToScan(m) /\ ~(n = scanFrom /\ results \subseteq {n})
      BY <2>3, <3>1
    <3>4. QED
      BY <1>1, <2>2, <3>2, <3>3
<1>4. CASE scanFrom \notin Waiting
  <2>1. calls' = calls /\ misled' = misled
    BY <1>4 DEF OnScanDone
  <2>2. Kept /\ Waiting' = Waiting
    BY <2>1, SameCalls DEF Shape, Waiting
  <2>3. QED
    BY <1>1, <1>4, <2>1, <2>2 DEF Shape, Types
<1>5. QED
  BY <1>3, <1>4

\* One step for each kind of event
LEMMA DrainCases ==
  ASSUME Shape, Drain
  PROVE  /\ queue # <<>> /\ asleep = None /\ queue' = Tail(queue)
         /\ UNCHANGED <<slot, dying, creating, cycle, scanning, scanTimer, cmd, work,
                        asleep, excused, lossy, troubles>>
         /\ \/ queue[1] = READY /\ OnReady
            \/ \E h \in Slot, p \in Peer : queue[1] = CONNECTED(h, p) /\ OnConnected(h, p)
            \/ \E h \in Slot : queue[1] = DISCONNECTED(h) /\ OnDisconnected(h)
            \/ \E n \in Id : queue[1] = SCAN_RESULT(n) /\ OnScanResult(n)
            \/ \E n \in Id : queue[1] = SCAN_DONE(n) /\ OnScanDone(n)
            \/ queue[1] = CMD_ERROR /\ OnCmdError
<1>1. /\ queue # <<>> /\ asleep = None /\ queue' = Tail(queue)
      /\ UNCHANGED <<slot, dying, creating, cycle, scanning, scanTimer, cmd, work,
                     asleep, excused, lossy, troubles>>
  BY DEF Drain, Rest
<1>2. PICK e \in Event : e = Head(queue) /\ e = queue[1]
  BY <1>1, TailOK DEF Shape
<1>3. \/ e.kind = "ready"        /\ OnReady
      \/ e.kind = "connected"    /\ OnConnected(e.slot, e.peer)
      \/ e.kind = "disconnected" /\ OnDisconnected(e.slot)
      \/ e.kind = "scan_result"  /\ OnScanResult(e.call)
      \/ e.kind = "scan_done"    /\ OnScanDone(e.call)
      \/ e.kind = "cmd_error"    /\ OnCmdError
  BY <1>2 DEF Drain
<1>4. QED
  BY <1>1, <1>2, <1>3, EventParts

LEMMA DrainShape == ASSUME Shape, Drain PROVE Shape' /\ Kept
<1> USE DEF Shape
<1>1. /\ queue # <<>> /\ queue' = Tail(queue)
      /\ UNCHANGED <<slot, dying, creating, cycle, scanning, scanTimer, cmd, work,
                     asleep, excused, lossy, troubles>>
  BY DrainCases
<1>2. queue' \in Seq(Event) /\ Len(queue') <= QueueSize
  BY <1>1, TailOK
<1>3. Stages'
  BY <1>1, StagesSame
<1>4. SUFFICES /\ Kept /\ conns' \in [Slot -> Peer \cup {None}]
               /\ waiter' \in [Peer -> Id \cup {None}]
               /\ \A r \in Peer : waiter'[r] \in {None, waiter[r]}
               /\ scanFrom' \in {None, scanFrom} /\ results' \subseteq Id /\ listing' \in BOOLEAN
               /\ misled' \subseteq DOMAIN calls
               /\ \A n \in DOMAIN calls' \ DOMAIN calls : calls'[n].kind = "connect" => calls'[n].peer \in Peer
  <2>1. Types'
    BY <1>1, <1>2, <1>4, EachType, StepTypes
  <2>2. Named'
    BY <1>1, <1>4, NamedStep
  <2>3. Command'
    BY <1>1, <1>4, CommandSame
  <2>4. QED
    BY <1>3, <1>4, <2>1, <2>2, <2>3
<1> DEFINE Calls == /\ Kept /\ misled' \subseteq DOMAIN calls
                    /\ \A n \in DOMAIN calls' \ DOMAIN calls :
                         calls'[n].kind = "connect" => calls'[n].peer \in Peer
<1>0. ASSUME calls' = calls, misled' = misled PROVE Calls
  BY <1>0, SameCalls, EachType
<1> HIDE DEF Calls
<1>5. CASE OnReady
  <2>1. Calls
    BY <1>0, <1>5 DEF OnReady
  <2>2. QED
    BY <1>5, <2>1, EachType DEF OnReady, NoLinks, Calls
<1>6. CASE \E h \in Slot, p \in Peer : OnConnected(h, p)
  <2>1. PICK h \in Slot, p \in Peer : OnConnected(h, p)
    BY <1>6
  <2>2. scanFrom' = scanFrom /\ results' = results /\ listing' = listing
    BY <2>1 DEF OnConnected
  <2>3. scanFrom \in Id \cup {None} /\ results \subseteq Id /\ listing \in BOOLEAN
    BY EachType
  <2>4. /\ Kept /\ DOMAIN calls' = DOMAIN calls /\ conns' \in [Slot -> Peer \cup {None}]
        /\ waiter' \in [Peer -> Id \cup {None}] /\ waiter'[p] = None
        /\ \A r \in Peer : r # p => waiter'[r] = waiter[r]
        /\ misled' \subseteq DOMAIN calls
    BY <2>1, OnConnectedOK
  <2>5. \A r \in Peer : waiter'[r] \in {None, waiter[r]}
    BY <2>4
  <2>6. \A n \in DOMAIN calls' \ DOMAIN calls : FALSE
    BY <2>4
  <2>7. scanFrom' \in {None, scanFrom} /\ results' \subseteq Id /\ listing' \in BOOLEAN
    BY <2>2, <2>3
  <2>8. QED
    BY ONLY <2>4, <2>5, <2>6, <2>7
<1>7. CASE \E h \in Slot : OnDisconnected(h)
  <2>1. PICK h \in Slot : OnDisconnected(h)
    BY <1>7
  <2>2. Calls
    BY <1>0, <2>1 DEF OnDisconnected
  <2>3. conns' \in [Slot -> Peer \cup {None}]
    BY <2>1, EachType DEF OnDisconnected
  <2>4. UNCHANGED <<waiter, scanFrom, results, listing>>
    BY <2>1 DEF OnDisconnected
  <2>5. QED
    BY <2>2, <2>3, <2>4, EachType DEF Calls
<1>8. CASE \E n \in Id : OnScanResult(n)
  <2>1. PICK n \in Id : OnScanResult(n)
    BY <1>8
  <2>2. Calls
    BY <1>0, <2>1 DEF OnScanResult
  <2>3. results' \subseteq Id /\ UNCHANGED <<conns, waiter, scanFrom, listing>>
    BY <2>1, EachType DEF OnScanResult
  <2>4. QED
    BY <2>2, <2>3, EachType DEF Calls
<1>9. CASE \E n \in Id : OnScanDone(n)
  <2>1. PICK n \in Id : OnScanDone(n)
    BY <1>9
  <2>2. conns' = conns /\ waiter' = waiter /\ listing' = listing
    BY <2>1 DEF OnScanDone
  <2>3. QED
    BY <2>1, <2>2, OnScanDoneOK, Facts DEF Types, TypeOK, Id
<1>10. CASE OnCmdError
  <2>1. Calls /\ UNCHANGED <<conns, waiter, scanFrom, results, listing>>
    BY <1>0, <1>10 DEF OnCmdError
  <2>2. QED
    BY <2>1, EachType DEF Calls
<1>11. QED
  BY <1>5, <1>6, <1>7, <1>8, <1>9, <1>10, DrainCases

LEMMA InitShape == ASSUME Init PROVE Shape
<1>1. NoCmd \in Cmd /\ NoCmd.kind = "none" /\ NoCmd.call = None
  BY DEF NoCmd, Cmd
<1>2. /\ slot \in [Slot -> Peer \cup {None}] /\ dying = {} /\ creating = None /\ cycle = NoCycle
      /\ scanning = None /\ scanTimer = FALSE /\ cmd = NoCmd /\ work = FALSE /\ listing = FALSE
      /\ queue = <<>> /\ conns = slot /\ waiter = [p \in Peer |-> None] /\ scanFrom = None
      /\ results = {} /\ asleep = None /\ calls = <<>> /\ lossy = FALSE /\ excused = {}
      /\ misled = {} /\ troubles = 0
  BY DEF Init
<1>3. queue \in Seq(Event) /\ Len(queue) = 0 /\ calls \in Seq(Call) /\ Len(calls) = 0 /\ DOMAIN calls = {}
  BY <1>2
<1>4. 0 <= QueueSize /\ 0 <= MaxCalls
  BY ConnectCallsAssumption
<1>5. Types
  BY <1>1, <1>2, <1>3, <1>4, NoCycleOK DEF Types, TypeOK, Cycle, Cmd, Id
<1>6. Named
  BY <1>2, <1>3, NoCycleOK DEF Named
<1>7. Command /\ Stages
  BY <1>1, <1>2, NoCycleOK DEF Command, Stages
<1>8. QED
  BY <1>5, <1>6, <1>7 DEF Shape

LEMMA ShapeStep == ASSUME Shape, [Next]_vars PROVE Shape' /\ Kept
<1>1. CASE UNCHANGED vars
  <2>1. UNCHANGED <<nrf, queue, driver, calls, excused, misled, lossy, troubles>>
    BY <1>1 DEF vars, history
  <2>2. Kept
    BY <2>1, SameCalls DEF Shape
  <2>3. QED
    BY <2>1, <2>2, CallsOnly, TroubleOK DEF Shape
<1>2. CASE Esp
  BY <1>2, ScanCallShape, ConnectWakesShape, DrainShape, ConnectCallShape, OtherCallShape,
     FailedCallShape, GiveUpShape DEF Esp
<1>3. CASE Nrf
  BY <1>3, CmdExecShape, ListConnectionsShape, ConnectedShape, ConnectFailsShape, SettlesShape,
     RetryShape, AdvertShape, ScanTimeoutShape, ResetShape, AutoConnectShape, LinkDownShape DEF Nrf
<1>4. QED
  BY <1>1, <1>2, <1>3 DEF Next

-----------------------------------------------------------------------------
(* Announced links                                                          *)

\* Different events
LEMMA EventsDiffer ==
  /\ \A s, t, p, r : CONNECTED(s, p) = CONNECTED(t, r) => s = t /\ p = r
  /\ \A s, t, p : CONNECTED(s, p) # DISCONNECTED(t)
  /\ \A s, p : CONNECTED(s, p) # READY /\ CONNECTED(s, p) # CMD_ERROR
  /\ \A s, p, n : CONNECTED(s, p) # SCAN_RESULT(n) /\ CONNECTED(s, p) # SCAN_DONE(n)
<1>1. \A s, t, p, r : CONNECTED(s, p) = CONNECTED(t, r) => s = t /\ p = r
  <2>1. TAKE s, t, p, r
  <2>2. HAVE CONNECTED(s, p) = CONNECTED(t, r)
  <2>3. CONNECTED(s, p).slot = CONNECTED(t, r).slot /\ CONNECTED(s, p).peer = CONNECTED(t, r).peer
    BY <2>2
  <2>4. QED
    BY <2>3, Kinds
<1>2. \A s, t, p : CONNECTED(s, p).kind # DISCONNECTED(t).kind
  BY Kinds
<1>3. \A s, p : CONNECTED(s, p).kind # READY.kind /\ CONNECTED(s, p).kind # CMD_ERROR.kind
  BY Kinds
<1>4. \A s, p, n : CONNECTED(s, p).kind # SCAN_RESULT(n).kind /\ CONNECTED(s, p).kind # SCAN_DONE(n).kind
  BY Kinds
<1>5. QED
  BY <1>1, <1>2, <1>3, <1>4

\* More links stand, and more events that announce none or one of them.
LEMMA AnnouncedMore ==
  ASSUME NEW q \in Seq(Event), NEW es \in Seq(Event), NEW ls, NEW ms, Announced(q, ls),
         ls \subseteq ms,
         \A i \in 1 .. Len(es), s \in Slot, p \in Peer : es[i] = CONNECTED(s, p) => <<s, p>> \in ms
  PROVE  Announced(q \o es, ms)
<1>1. /\ Len(q) \in Nat /\ Len(es) \in Nat /\ Len(q \o es) = Len(q) + Len(es)
      /\ \A i \in 1 .. Len(q) : (q \o es)[i] = q[i]
      /\ \A i \in 1 .. Len(es) : (q \o es)[Len(q) + i] = es[i]
  OBVIOUS
<1> PICK n : n = Len(q)
  OBVIOUS
<1> PICK f : f = q \o es
  OBVIOUS
<1>2. /\ n \in Nat /\ Len(f) = n + Len(es)
      /\ \A i \in 1 .. n : f[i] = q[i]
      /\ \A i \in 1 .. Len(es) : f[n + i] = es[i]
  BY <1>1
<1>3. ASSUME NEW i \in 1 .. Len(f), NEW s \in Slot, NEW p \in Peer, f[i] = CONNECTED(s, p)
      PROVE  <<s, p>> \in ms \/ \E j \in i + 1 .. Len(f) : f[j] \in {DISCONNECTED(s), READY}
  <2>1. CASE i \in 1 .. n
    <3>1. q[i] = CONNECTED(s, p)
      BY <1>2, <1>3, <2>1
    <3>2. <<s, p>> \in ls \/ \E j \in i + 1 .. n : q[j] \in {DISCONNECTED(s), READY}
      BY <2>1, <3>1 DEF Announced
    <3>3. ASSUME NEW j \in i + 1 .. n, q[j] \in {DISCONNECTED(s), READY}
          PROVE  j \in i + 1 .. Len(f) /\ f[j] \in {DISCONNECTED(s), READY}
      BY <1>1, <1>2, <2>1, <3>3
    <3>4. QED
      BY <3>2, <3>3
  <2>2. CASE i \notin 1 .. n
    <3>1. PICK k \in 1 .. Len(es) : i = n + k
      <4>1. i - n \in 1 .. Len(es) /\ i = n + (i - n)
        BY <1>1, <1>2, <2>2
      <4>2. QED
        BY <4>1
    <3>2. es[k] = CONNECTED(s, p)
      BY <1>2, <1>3, <3>1
    <3>3. QED
      BY <3>2
  <2>3. QED
    BY <2>1, <2>2
<1>4. QED
  BY <1>3 DEF Announced

\* The end of the links of handle t behind all that announced them
LEMMA AnnouncedEnds ==
  ASSUME NEW q \in Seq(Event), NEW t \in Slot, NEW ls, NEW ms, Announced(q, ls),
         \A s \in Slot, p \in Peer : <<s, p>> \in ls /\ s # t => <<s, p>> \in ms
  PROVE  Announced(Append(q, DISCONNECTED(t)), ms)
<1>1. /\ DISCONNECTED(t) \in Event /\ Len(q) \in Nat
  BY EventsAre
<1> PICK n : n = Len(q)
  OBVIOUS
<1> PICK e \in Event : e = DISCONNECTED(t)
  BY <1>1
<1> PICK f : f = Append(q, e)
  OBVIOUS
<1>2. n \in Nat /\ Len(f) = n + 1 /\ f[n + 1] = e /\ \A i \in 1 .. n : f[i] = q[i]
  OBVIOUS
<1>3. ASSUME NEW i \in 1 .. Len(f), NEW s \in Slot, NEW p \in Peer, f[i] = CONNECTED(s, p)
      PROVE  <<s, p>> \in ms \/ \E j \in i + 1 .. Len(f) : f[j] \in {DISCONNECTED(s), READY}
  <2>1. i \in 1 .. n
    <3>1. f[n + 1] # CONNECTED(s, p)
      BY <1>2, EventsDiffer
    <3>2. QED
      BY <1>2, <1>3, <3>1
  <2>2. q[i] = CONNECTED(s, p)
    BY <1>2, <1>3, <2>1
  <2>3. <<s, p>> \in ls \/ \E j \in i + 1 .. n : q[j] \in {DISCONNECTED(s), READY}
    BY <2>1, <2>2 DEF Announced
  <2>4. ASSUME NEW j \in i + 1 .. n, q[j] \in {DISCONNECTED(s), READY}
        PROVE  j \in i + 1 .. Len(f) /\ f[j] \in {DISCONNECTED(s), READY}
    BY <1>2, <2>1, <2>4
  <2>5. CASE s = t
    <3>1. n + 1 \in i + 1 .. Len(f) /\ f[n + 1] \in {DISCONNECTED(s), READY}
      BY <1>2, <2>1, <2>5
    <3>2. QED
      BY <3>1
  <2>6. QED
    BY <2>3, <2>4, <2>5
<1>4. QED
  BY <1>3 DEF Announced

\* The first event has been read: what it announces stands, or its end is to come.
LEMMA AnnouncedTail ==
  ASSUME Types, queue # <<>>, NEW ls, Announced(queue, ls)
  PROVE  /\ Announced(Tail(queue), ls)
         /\ \A s \in Slot, p \in Peer :
              queue[1] = CONNECTED(s, p) => <<s, p>> \in ls \/ EndsIn(Tail(queue), s)
<1> PICK f : f = Tail(queue)
  OBVIOUS
<1> PICK n : n = Len(queue)
  OBVIOUS
<1>1. /\ n \in Nat \ {0} /\ Len(f) = n - 1 /\ f \in Seq(Event)
      /\ \A i \in 1 .. n - 1 : f[i] = queue[i + 1]
  BY TailOK
<1>2. DOMAIN f = 1 .. n - 1
  BY <1>1
<1>3. ASSUME NEW i \in 1 .. n, NEW s \in Slot, NEW p \in Peer, queue[i] = CONNECTED(s, p)
      PROVE  <<s, p>> \in ls \/ \E j \in i .. n - 1 : f[j] \in {DISCONNECTED(s), READY}
  <2>1. <<s, p>> \in ls \/ \E j \in i + 1 .. n : queue[j] \in {DISCONNECTED(s), READY}
    BY <1>3 DEF Announced
  <2>2. ASSUME NEW j \in i + 1 .. n, queue[j] \in {DISCONNECTED(s), READY}
        PROVE  \E k \in i .. n - 1 : f[k] \in {DISCONNECTED(s), READY}
    <3>1. PICK k \in i .. n - 1 : j = k + 1
      <4>1. j - 1 \in i .. n - 1 /\ j = (j - 1) + 1
        BY <1>1
      <4>2. QED
        BY <4>1
    <3>2. k \in 1 .. n - 1
      BY <1>1
    <3>3. f[k] \in {DISCONNECTED(s), READY}
      BY <1>1, <2>2, <3>1, <3>2
    <3>4. QED
      BY <3>3
  <2>3. QED
    BY <2>1, <2>2
<1>4. ASSUME NEW i \in 1 .. Len(f), NEW s \in Slot, NEW p \in Peer, f[i] = CONNECTED(s, p)
      PROVE  <<s, p>> \in ls \/ \E j \in i + 1 .. Len(f) : f[j] \in {DISCONNECTED(s), READY}
  <2>1. i + 1 \in 1 .. n /\ queue[i + 1] = CONNECTED(s, p)
    BY <1>1, <1>4
  <2>2. <<s, p>> \in ls \/ \E j \in i + 1 .. n - 1 : f[j] \in {DISCONNECTED(s), READY}
    BY <1>3, <2>1
  <2>3. QED
    BY <1>1, <2>2
<1>5. ASSUME NEW s \in Slot, NEW p \in Peer, queue[1] = CONNECTED(s, p)
      PROVE  <<s, p>> \in ls \/ EndsIn(f, s)
  <2>1. <<s, p>> \in ls \/ \E j \in 1 .. n - 1 : f[j] \in {DISCONNECTED(s), READY}
    BY <1>1, <1>3, <1>5
  <2>2. QED
    BY <1>2, <2>1 DEF EndsIn
<1>6. QED
  BY <1>4, <1>5 DEF Announced

LEMMA AnnouncedAppend ==
  ASSUME NEW q \in Seq(Event), NEW e \in Event, NEW ls, NEW ms, Announced(q, ls), ls \subseteq ms,
         \A s \in Slot, p \in Peer : e = CONNECTED(s, p) => <<s, p>> \in ms
  PROVE  Announced(q, ms) /\ Announced(Append(q, e), ms)
<1>1. Announced(q, ms)
  BY DEF Announced
<1>2. PICK es : es = <<e>>
  OBVIOUS
<1>3. es \in Seq(Event) /\ Len(es) = 1 /\ es[1] = e /\ Append(q, e) = q \o es
  BY <1>2
<1>4. Announced(q \o es, ms)
  BY <1>3, AnnouncedMore
<1>5. QED
  BY <1>1, <1>3, <1>4

LEMMA LinksKeep ==
  ASSUME Shape, Links, Kept, misled' = misled, ~lossy' => ~lossy,
         Announced(queue, Standing) /\ ~lossy' => Announced(queue, Standing)'
  PROVE  Links'
BY DEF Links, Shape, Types, Kept

\* No link goes, and none is in a cycle that was not.
LEMMA StandingGrows ==
  ASSUME \A s \in Slot : slot[s] \in Peer /\ ~Unsettled(s) => slot'[s] = slot[s] /\ ~Unsettled(s)'
  PROVE  Standing \subseteq Standing'
BY DEF Standing

\* Steps that push nothing, or an event that announces nothing
LEMMA LinksQuiet ==
  ASSUME Shape, Links, Kept, misled' = misled, ~lossy' => ~lossy,
         Standing \subseteq Standing',
         \/ queue' = queue
         \/ queue' \in {queue, Append(queue, CMD_ERROR)}
         \/ \E n \in Id : queue' \in {queue, Append(queue, SCAN_DONE(n)), Append(queue, SCAN_RESULT(n))}
  PROVE  Links'
<1>1. PICK q \in Seq(Event) : q = queue
  BY DEF Shape, Types
<1>2. SUFFICES ASSUME Announced(q, Standing) PROVE Announced(queue', Standing')
  BY <1>1, LinksKeep DEF Announced
<1>3. ASSUME NEW e \in Event, \A s \in Slot, p \in Peer : e # CONNECTED(s, p)
      PROVE  Announced(q, Standing') /\ Announced(Append(q, e), Standing')
  BY <1>2, <1>3, AnnouncedAppend
<1>4. Announced(q, Standing') /\ Announced(Append(q, CMD_ERROR), Standing')
  BY <1>3, EventsAre, EventsDiffer
<1>5. ASSUME NEW n \in Id
      PROVE  Announced(Append(q, SCAN_DONE(n)), Standing') /\ Announced(Append(q, SCAN_RESULT(n)), Standing')
  BY <1>3, EventsAre, EventsDiffer
<1>6. QED
  BY <1>1, <1>4, <1>5

\* The driver does not change the links.
LEMMA LinksSame ==
  ASSUME Shape, Links, Kept, UNCHANGED <<slot, cycle, queue, misled, lossy>>
  PROVE  Links'
<1>1. Standing \subseteq Standing'
  BY StandingGrows DEF Unsettled
<1>2. QED
  BY <1>1, LinksQuiet

LEMMA CmdExecLinks == ASSUME Shape, Links, Kept, CmdExec PROVE Links'
<1>1. slot' = slot /\ misled' = misled
  BY DEF CmdExec
<1>2. CASE cycle' = cycle /\ queue' = queue /\ lossy' = lossy
  BY <1>1, <1>2, LinksSame
<1>3. CASE cmd.kind = "connect" /\ ExecConnect(cmd.arg)
  <2>1. ScanPreempted /\ cycle'.stage # "settling"
    BY <1>3, NoCycleOK DEF ExecConnect
  <2>2. Standing \subseteq Standing'
    BY <1>1, <2>1, StandingGrows DEF Unsettled
  <2>3. /\ ~lossy' => ~lossy
        /\ queue' = queue \/ \E n \in Id : queue' \in {queue, Append(queue, SCAN_DONE(n))}
    BY <2>1, ScanPreemptedOK DEF Shape
  <2>4. QED
    BY <1>1, <2>2, <2>3, LinksQuiet
<1>4. QED
  BY <1>2, <1>3 DEF CmdExec

LEMMA ListConnectionsLinks == ASSUME Shape, Links, Kept, ListConnections PROVE Links'
<1>1. slot' = slot /\ cycle' = cycle /\ misled' = misled
  BY DEF ListConnections, history
<1>2. Standing \subseteq Standing'
  BY <1>1, StandingGrows DEF Unsettled
<1>3. PICK es \in Seq(Event) :
              /\ queue' = queue \o es
              /\ \A i \in 1 .. Len(es) : \E s \in Slot : slot[s] \in Peer /\ es[i] = CONNECTED(s, slot[s])
  BY ListOK DEF Shape
<1>4. ~lossy' => ~lossy /\ cycle.stage # "settling"
  BY ListOK DEF Shape
<1>5. ASSUME Announced(queue, Standing), ~lossy' PROVE Announced(queue, Standing)'
  <2>1. cycle.stage # "settling"
    BY <1>4, <1>5
  <2>2. ASSUME NEW i \in 1 .. Len(es), NEW s \in Slot, NEW p \in Peer, es[i] = CONNECTED(s, p)
        PROVE  <<s, p>> \in Standing'
    <3>1. slot[s] = p
      BY <1>3, <2>2, EventsDiffer
    <3>2. <<s, p>> \in Standing
      BY <2>1, <3>1 DEF Standing, Unsettled
    <3>3. QED
      BY <1>2, <3>2
  <2>3. PICK q \in Seq(Event) : q = queue
    BY DEF Shape, Types
  <2>4. Announced(q \o es, Standing')
    BY <1>2, <1>5, <2>2, <2>3, AnnouncedMore
  <2>5. QED
    BY <1>3, <2>3, <2>4 DEF Announced
<1>6. QED
  BY <1>1, <1>4, <1>5, LinksKeep

LEMMA AutoConnectLinks == ASSUME Shape, Links, Kept, NEW p \in Peer, AutoConnect(p) PROVE Links'
BY LinksSame DEF AutoConnect, history

LEMMA ConnectedLinks == ASSUME Shape, Links, Kept, Connected PROVE Links'
<1>1. /\ creating # None /\ misled' = misled
  BY DEF Connected, history
<1>2. PICK s \in Free :
       /\ slot' = [slot EXCEPT ![s] = creating]
       /\ IF cycle # NoCycle
            THEN /\ cycle' = [cycle EXCEPT !.stage = "settling", !.slot = s]
                 /\ UNCHANGED <<queue, lossy>>
            ELSE Push(CONNECTED(s, creating)) /\ UNCHANGED cycle
  BY DEF Connected
<1>3. /\ s \in Slot /\ creating \in Peer /\ slot[s] = None /\ slot'[s] = creating
      /\ \A t \in Slot : t # s => slot'[t] = slot[t]
  BY <1>1, <1>2, Facts DEF Free, Types, TypeOK, Shape
<1>4. CASE cycle # NoCycle
  <2>1. cycle'.slot = s
    BY <1>2, <1>4 DEF Shape, Types, Cycle
  <2>2. Standing \subseteq Standing'
    BY <1>3, <2>1, Names, StandingGrows DEF Unsettled
  <2>3. QED
    BY <1>1, <1>2, <1>4, <2>2, LinksQuiet
<1>5. CASE cycle = NoCycle
  <2>1. PICK e \in Event : e = CONNECTED(s, creating)
    BY <1>3, EventsAre
  <2>2. Push(e) /\ cycle' = cycle
    BY <1>2, <1>5, <2>1
  <2>3. Standing \subseteq Standing'
    BY <1>3, <2>2, Names, StandingGrows DEF Unsettled
  <2>4. <<s, creating>> \in Standing'
    BY <1>3, <1>5, <2>2, NoCycleOK DEF Standing, Unsettled
  <2>5. ASSUME Announced(queue, Standing), ~lossy' PROVE Announced(queue, Standing)'
    <3>1. PICK q \in Seq(Event) : q = queue
      BY DEF Shape, Types
    <3>2. \A t \in Slot, p \in Peer : e = CONNECTED(t, p) => <<t, p>> \in Standing'
      <4>1. ASSUME NEW t \in Slot, NEW p \in Peer, e = CONNECTED(t, p) PROVE t = s /\ p = creating
          <5>1. CONNECTED(s, creating) = CONNECTED(t, p)
            BY <2>1, <4>1
          <5>2. QED
            BY <5>1, EventsDiffer
      <4>2. QED
        BY <2>4, <4>1
    <3>3. Announced(Append(q, e), Standing')
      BY <2>3, <2>5, <3>1, <3>2, AnnouncedAppend
    <3>4. queue' = Append(q, e)
      BY <2>2, <2>5, <3>1, PushOK DEF Shape
    <3>5. QED
      BY <3>3, <3>4 DEF Announced
  <2>6. ~lossy' => ~lossy
    BY <2>2, PushOK DEF Shape
  <2>7. QED
    BY <1>1, <2>5, <2>6, LinksKeep
<1>6. QED
  BY <1>4, <1>5

LEMMA ConnectFailsLinks == ASSUME Shape, Links, Kept, ConnectFails PROVE Links'
<1>1. slot' = slot /\ misled' = misled
  BY DEF ConnectFails
<1>2. CASE UNCHANGED <<cycle, queue, lossy, excused>>
  BY <1>1, <1>2, LinksSame
<1>3. CASE CycleFails
  <2>1. Standing \subseteq Standing'
    BY <1>1, <1>3, CycleFailsOK, StandingGrows DEF Unsettled, Shape
  <2>2. QED
    BY <1>1, <1>3, <2>1, CycleFailsOK, LinksQuiet DEF Shape
<1>4. QED
  BY <1>2, <1>3 DEF ConnectFails

LEMMA SettlesLinks == ASSUME Shape, Links, Kept, Settles PROVE Links'
<1>1. cycle' = NoCycle /\ slot' = slot /\ misled' = misled
  BY DEF Settles, history
<1>2. PICK s \in Slot, p \in Peer :
         /\ s = cycle.slot /\ p = cycle.target /\ slot[s] = p
         /\ ~lossy' => ~lossy /\ queue' = Append(queue, CONNECTED(s, p))
         /\ queue' \in {queue, Append(queue, CONNECTED(s, p))}
  BY SettlesShape
<1>3. Standing \subseteq Standing'
  BY <1>1, NoCycleOK, StandingGrows DEF Unsettled
<1>4. <<s, p>> \in Standing'
  BY <1>1, <1>2, NoCycleOK DEF Standing, Unsettled
<1>5. ASSUME Announced(queue, Standing), ~lossy' PROVE Announced(queue, Standing)'
  <2>1. PICK q \in Seq(Event) : q = queue
    BY DEF Shape, Types
  <2>2. PICK e \in Event : e = CONNECTED(s, p)
    BY EventsAre
  <2>3. \A t \in Slot, r \in Peer : e = CONNECTED(t, r) => <<t, r>> \in Standing'
    <3>1. ASSUME NEW t \in Slot, NEW r \in Peer, e = CONNECTED(t, r) PROVE t = s /\ r = p
      <4>1. CONNECTED(s, p) = CONNECTED(t, r)
        BY <2>2, <3>1
      <4>2. QED
        BY <4>1, EventsDiffer
    <3>2. QED
      BY <1>4, <3>1
  <2>4. Announced(Append(q, e), Standing')
    BY <1>3, <1>5, <2>1, <2>3, AnnouncedAppend
  <2>5. queue' = Append(q, e)
    BY <1>2, <1>5, <2>1, <2>2
  <2>6. QED
    BY <2>4, <2>5 DEF Announced
<1>6. QED
  BY <1>1, <1>2, <1>5, LinksKeep

LEMMA LinkDownLinks == ASSUME Shape, Links, Kept, NEW s \in Slot, LinkDown(s) PROVE Links'
<1>1. /\ slot[s] # None /\ slot' = [slot EXCEPT ![s] = None] /\ misled' = misled
  BY DEF LinkDown
<1>2. \A t \in Slot : t # s => slot'[t] = slot[t]
  BY <1>1, Facts DEF Shape
<1>3. CASE ~Unsettled(s) /\ Push(DISCONNECTED(s)) /\ UNCHANGED <<cycle, excused>>
  <2>1. PICK e \in Event : e = DISCONNECTED(s)
    BY EventsAre
  <2>2. (~lossy' => ~lossy) /\ (~lossy' => queue' = Append(queue, DISCONNECTED(s)))
    BY <1>3, <2>1, PushOK DEF Shape
  <2>3. \A t \in Slot, p \in Peer : <<t, p>> \in Standing /\ t # s => <<t, p>> \in Standing'
    BY <1>2, <1>3 DEF Standing, Unsettled
  <2>4. PICK q \in Seq(Event) : q = queue
    BY DEF Shape, Types
  <2>5. ASSUME Announced(queue, Standing), ~lossy' PROVE Announced(queue, Standing)'
    <3>1. Announced(Append(q, DISCONNECTED(s)), Standing')
      BY <2>3, <2>4, <2>5, AnnouncedEnds
    <3>2. QED
      BY <2>2, <2>4, <2>5, <3>1 DEF Announced
  <2>6. QED
    BY <1>1, <2>2, <2>5, LinksKeep
<1>4. CASE Unsettled(s) /\ CycleFails
  <2>1. Standing \subseteq Standing'
    BY <1>2, <1>4, CycleFailsOK, StandingGrows DEF Unsettled, Shape
  <2>2. QED
    BY <1>1, <1>4, <2>1, CycleFailsOK, LinksQuiet DEF Shape
<1>5. CASE /\ Unsettled(s) /\ cycle.attempts < MaxAttempts
           /\ cycle' = [cycle EXCEPT !.stage = "retry", !.slot = None]
           /\ UNCHANGED <<queue, lossy, excused>>
  <2>1. cycle'.stage = "retry"
    BY <1>5 DEF Shape, Types, Cycle
  <2>2. Standing \subseteq Standing'
    BY <1>2, <1>5, <2>1, StandingGrows DEF Unsettled
  <2>3. QED
    BY <1>1, <1>5, <2>2, LinksQuiet
<1>6. QED
  BY <1>3, <1>4, <1>5 DEF LinkDown

LEMMA RetryLinks == ASSUME Shape, Links, Kept, Retry PROVE Links'
<1>1. slot' = slot /\ misled' = misled /\ cycle.stage = "retry"
  BY DEF Retry
<1>2. CASE /\ cycle' = [cycle EXCEPT !.stage = "creating", !.attempts = @ + 1]
           /\ UNCHANGED <<queue, lossy, excused, troubles>>
  <2>1. cycle'.stage = "creating"
    BY <1>2 DEF Shape, Types, Cycle
  <2>2. Standing \subseteq Standing'
    BY <1>1, <2>1, StandingGrows DEF Unsettled
  <2>3. QED
    BY <1>1, <1>2, <2>2, LinksQuiet
<1>3. CASE CycleFails
  <2>1. Standing \subseteq Standing'
    BY <1>1, <1>3, CycleFailsOK, StandingGrows DEF Unsettled, Shape
  <2>2. QED
    BY <1>1, <1>3, <2>1, CycleFailsOK, LinksQuiet DEF Shape
<1>4. QED
  BY <1>2, <1>3 DEF Retry

LEMMA ScanEventLinks == ASSUME Shape, Links, Kept, Advert \/ ScanTimeout PROVE Links'
<1>1. UNCHANGED <<slot, cycle, misled>>
  BY DEF Advert, ScanTimeout, history, nrf
<1>2. Standing \subseteq Standing'
  BY <1>1, StandingGrows DEF Unsettled
<1>3. /\ ~lossy' => ~lossy
      /\ \E n \in Id : queue' \in {queue, Append(queue, SCAN_DONE(n)), Append(queue, SCAN_RESULT(n))}
  BY AdvertShape, ScanTimeoutShape
<1>4. QED
  BY <1>1, <1>2, <1>3, LinksQuiet

LEMMA ResetLinks == ASSUME Shape, Links, Kept, Reset PROVE Links'
<1>1. queue' = <<READY>> /\ misled' = misled /\ lossy' = lossy
  BY DEF Reset
<1>2. PICK K : K = Standing'
  OBVIOUS
<1>3. Announced(<<READY>>, K)
  <2>1. PICK q : q = <<READY>>
    OBVIOUS
  <2>2. Len(q) = 1 /\ q[1] = READY
    BY <2>1
  <2>3. Announced(q, K)
    BY <2>2, EventsDiffer DEF Announced
  <2>4. QED
    BY <2>1, <2>3
<1>4. QED
  BY <1>1, <1>2, <1>3, LinksKeep DEF Announced

\* A call is told of a link that has ended only when the end is still to come.
LEMMA DrainLinks == ASSUME Shape, Links, Kept, Drain PROVE Links'
<1>1. /\ queue # <<>> /\ queue' = Tail(queue) /\ UNCHANGED <<slot, cycle, lossy>>
  BY DrainCases
<1>2. Standing \subseteq Standing'
  BY <1>1, StandingGrows DEF Unsettled
<1>3. SUFFICES ASSUME ~lossy PROVE Announced(queue, Standing)' /\ \A n \in misled' : calls'[n].kind # "connect"
  BY <1>1 DEF Links
<1>4. /\ Announced(Tail(queue), Standing)
      /\ \A s \in Slot, p \in Peer :
           queue[1] = CONNECTED(s, p) => <<s, p>> \in Standing \/ EndsIn(Tail(queue), s)
  BY <1>1, <1>3, AnnouncedTail DEF Links, Shape
<1>5. Announced(queue, Standing)'
  BY <1>1, <1>2, <1>4 DEF Announced
<1>6. \A n \in misled : calls'[n].kind # "connect"
  BY <1>3 DEF Links, Kept, Shape, Types
<1>7. \A n \in misled' \ misled : calls[n].kind # "connect" /\ n \in DOMAIN calls
  <2>1. CASE misled' = misled
    BY <2>1
  <2>2. ASSUME NEW h \in Slot, NEW p \in Peer, queue[1] = CONNECTED(h, p), OnConnected(h, p)
        PROVE  misled' \ misled = {}
    <3>1. slot[h] = p \/ EndsIn(Rest, h)
      BY <1>4, <2>2 DEF Standing, Rest
    <3>2. QED
      BY <2>2, <3>1, OnConnectedOK
  <2>3. ASSUME NEW n \in Id, OnScanDone(n)
        PROVE  \A m \in misled' \ misled : calls[m].kind # "connect" /\ m \in DOMAIN calls
    BY <2>3, OnScanDoneOK DEF ToScan
  <2>4. QED
    BY <2>1, <2>2, <2>3, DrainCases DEF OnReady, OnDisconnected, OnScanResult, OnCmdError
<1>8. QED
  BY <1>5, <1>6, <1>7 DEF Kept

LEMMA LinksStep == ASSUME Shape, Links, Kept, [Next]_vars PROVE Links'
<1>1. CASE UNCHANGED vars
  BY <1>1, LinksSame DEF vars, nrf, history
<1>2. CASE Esp
  <2>1. CASE UNCHANGED <<slot, cycle, queue, misled, lossy>>
    BY <2>1, LinksSame
  <2>2. CASE Drain
    BY <2>2, DrainLinks
  <2>3. QED
    BY <1>2, <2>1, <2>2 DEF Esp, ScanCall, ConnectWakes, ConnectCall, OtherCall, FailedCall, GiveUp, nrf
<1>3. CASE Nrf
  BY <1>3, CmdExecLinks, ListConnectionsLinks, ConnectedLinks, ConnectFailsLinks, SettlesLinks,
     RetryLinks, ScanEventLinks, ResetLinks, AutoConnectLinks, LinkDownLinks DEF Nrf
<1>4. QED
  BY <1>1, <1>2, <1>3 DEF Next

-----------------------------------------------------------------------------
(* One scan at a time                                                       *)

LEMMA OfScanConcat ==
  ASSUME NEW q \in Seq(Event), NEW es \in Seq(Event), NEW n, OfScan(q, n), OfScan(es, n)
  PROVE  OfScan(q \o es, n)
<1>1. /\ Len(q) \in Nat /\ Len(es) \in Nat /\ Len(q \o es) = Len(q) + Len(es)
      /\ \A i \in 1 .. Len(q) : (q \o es)[i] = q[i]
      /\ \A i \in 1 .. Len(es) : (q \o es)[Len(q) + i] = es[i]
  OBVIOUS
<1> PICK m : m = Len(q)
  OBVIOUS
<1> PICK f : f = q \o es
  OBVIOUS
<1>2. ASSUME NEW i \in 1 .. Len(f)
      PROVE  f[i].kind \in {"scan_result", "scan_done"} => f[i].call = n
  <2>1. CASE i \in 1 .. m
    BY <1>1, <2>1 DEF OfScan
  <2>2. CASE i \notin 1 .. m
    <3>1. PICK k \in 1 .. Len(es) : i = m + k
      <4>1. i - m \in 1 .. Len(es) /\ i = m + (i - m)
        BY <1>1, <2>2
      <4>2. QED
        BY <4>1
    <3>2. f[i] = es[k]
      BY <1>1, <3>1
    <3>3. QED
      BY <3>2 DEF OfScan
  <2>3. QED
    BY <2>1, <2>2
<1>3. QED
  BY <1>2 DEF OfScan

LEMMA OfScanAppend ==
  ASSUME NEW q \in Seq(Event), NEW e \in Event, NEW n, OfScan(q, n),
         e.kind \in {"scan_result", "scan_done"} => e.call = n
  PROVE  OfScan(Append(q, e), n)
<1>1. PICK es : es = <<e>>
  OBVIOUS
<1>2. es \in Seq(Event) /\ Len(es) = 1 /\ es[1] = e /\ Append(q, e) = q \o es
  BY <1>1
<1>3. OfScan(es, n)
  BY <1>2 DEF OfScan
<1>4. QED
  BY <1>2, <1>3, OfScanConcat

LEMMA OfScanTail ==
  ASSUME Types, queue # <<>>, NEW n, OfScan(queue, n)
  PROVE  OfScan(Tail(queue), n) /\ (queue[1].kind \in {"scan_result", "scan_done"} => queue[1].call = n)
<1>1. /\ Len(queue) \in Nat \ {0} /\ Len(Tail(queue)) = Len(queue) - 1
      /\ \A i \in 1 .. Len(queue) - 1 : Tail(queue)[i] = queue[i + 1]
  BY TailOK
<1>2. PICK f : f = Tail(queue)
  OBVIOUS
<1>3. ASSUME NEW i \in 1 .. Len(f)
      PROVE  f[i].kind \in {"scan_result", "scan_done"} => f[i].call = n
  <2>1. i + 1 \in 1 .. Len(queue) /\ f[i] = queue[i + 1]
    BY <1>1, <1>2
  <2>2. QED
    BY <2>1 DEF OfScan
<1>4. OfScan(f, n)
  BY <1>3 DEF OfScan
<1>5. 1 \in 1 .. Len(queue)
  BY <1>1
<1>6. QED
  BY <1>2, <1>4, <1>5 DEF OfScan

\* Calls are excused for good.
LEMMA ExcusedGrows == ASSUME Shape, Next PROVE excused \subseteq excused'
<1>1. CASE Esp
  BY <1>1 DEF Esp, ScanCall, ConnectCall, ConnectWakes, Drain, OtherCall, FailedCall, GiveUp,
              WriteCmd, Registered
<1>2. CASE Nrf
  BY <1>2 DEF Nrf, CmdExec, ExecScan, ExecConnect, ListConnections, Connected, ConnectFails, Settles,
              Retry, Advert, ScanTimeout, Reset, AutoConnect, LinkDown, CycleFails, history
<1>3. QED
  BY <1>1, <1>2 DEF Next

\* The scan of the driver goes on: what is on the way is of its call, as before.
LEMMA FreshKeep ==
  ASSUME Shape, Fresh, Kept, misled' = misled, excused \subseteq excused',
         scanFrom' = scanFrom, results' = results,
         ASSUME scanFrom \in Id, scanFrom \notin excused',
                scanning \in {None, scanFrom}, work /\ cmd.kind = "scan" => cmd.call = scanFrom,
                OfScan(queue, scanFrom)
         PROVE  /\ scanning' \in {None, scanFrom}
                /\ work' /\ cmd'.kind = "scan" => cmd'.call = scanFrom
                /\ OfScan(queue', scanFrom)
  PROVE  Fresh'
<1>1. \A n \in misled' : calls'[n].kind = "scan" => n \in excused'
  BY DEF Fresh, Kept, Shape, Types
<1>2. scanFrom \in Id \cup {None}
  BY Facts DEF Shape
<1>3. ASSUME scanFrom # None, scanFrom \notin excused'
      PROVE  /\ scanning' \in {None, scanFrom} /\ results' \subseteq {scanFrom}
             /\ work' /\ cmd'.kind = "scan" => cmd'.call = scanFrom
             /\ OfScan(queue', scanFrom)
  BY <1>2, <1>3 DEF Fresh
<1>4. QED
  BY <1>1, <1>3 DEF Fresh, OfScan

\* No new scan command, and no event but of the running scan
LEMMA FreshQuiet ==
  ASSUME Shape, Fresh, Kept, misled' = misled, excused \subseteq excused',
         scanFrom' = scanFrom, results' = results,
         scanning' \in {None, scanning},
         work' /\ cmd'.kind = "scan" => work /\ cmd.kind = "scan" /\ cmd'.call = cmd.call,
         \/ queue' = queue
         \/ \E e \in Event : /\ queue' \in {queue, Append(queue, e)}
                             /\ e.kind \in {"scan_result", "scan_done"} => scanning # None /\ e.call = scanning
  PROVE  Fresh'
<1>1. ASSUME scanFrom \in Id, scanFrom \notin excused',
             scanning \in {None, scanFrom}, work /\ cmd.kind = "scan" => cmd.call = scanFrom,
             OfScan(queue, scanFrom)
      PROVE  /\ scanning' \in {None, scanFrom}
             /\ work' /\ cmd'.kind = "scan" => cmd'.call = scanFrom
             /\ OfScan(queue', scanFrom)
  <2>1. PICK q \in Seq(Event) : q = queue
    BY DEF Shape, Types
  <2>2. OfScan(q, scanFrom)
    BY <1>1, <2>1
  <2>3. ASSUME NEW e \in Event, e.kind \in {"scan_result", "scan_done"} => scanning # None /\ e.call = scanning
        PROVE  OfScan(Append(q, e), scanFrom)
    BY <1>1, <2>2, <2>3, OfScanAppend
  <2>4. OfScan(queue', scanFrom)
    BY <2>1, <2>2, <2>3
  <2>5. QED
    BY <1>1, <2>4
<1>2. QED
  BY <1>1, FreshKeep

LEMMA ScanCallFresh == ASSUME Shape, Fresh, Kept, ScanCall, excused \subseteq excused' PROVE Fresh'
<1>1. PICK n : n = New
  OBVIOUS
<1>2. /\ scanFrom' = n /\ results' = {} /\ misled' = misled /\ scanning' = scanning /\ queue' = queue
      /\ cmd' = [kind |-> "scan", arg |-> None, call |-> n]
      /\ excused' = excused \cup Unexecuted \cup (IF ScanLeftOver /\ Scans = {} THEN {n} ELSE {})
      /\ Scans = {}
  BY <1>1 DEF ScanCall, ScanAllowed
<1>3. \A m \in misled' : calls'[m].kind = "scan" => m \in excused'
  BY <1>2 DEF Fresh, Kept, Shape, Types
<1>4. ASSUME n \notin excused'
      PROVE  scanning' \in {None, n} /\ cmd'.call = n /\ OfScan(queue', n)
  <2>1. ~ScanLeftOver
    BY <1>2, <1>4
  <2>2. \A i \in 1 .. Len(queue) : queue[i].kind \notin {"scan_result", "scan_done"}
    <3>1. DOMAIN queue = 1 .. Len(queue)
      BY DEF Shape, Types
    <3>2. QED
      BY <2>1, <3>1 DEF ScanLeftOver
  <2>3. scanning = None
    BY <2>1 DEF ScanLeftOver
  <2>4. QED
    BY <1>2, <2>2, <2>3 DEF OfScan
<1>5. QED
  BY <1>2, <1>3, <1>4 DEF Fresh, OfScan

LEMMA CmdExecFresh == ASSUME Shape, Fresh, Kept, CmdExec, excused \subseteq excused' PROVE Fresh'
<1>1. /\ misled' = misled /\ scanFrom' = scanFrom /\ results' = results /\ work' = FALSE /\ work
  BY DEF CmdExec, driver
<1>2. CASE cmd.kind = "scan" /\ ExecScan /\ queue' = queue
  <2>1. scanning' \in {scanning, cmd.call}
    BY <1>2 DEF ExecScan
  <2>2. ASSUME scanning \in {None, scanFrom}, work /\ cmd.kind = "scan" => cmd.call = scanFrom
        PROVE  scanning' \in {None, scanFrom}
    BY <1>1, <1>2, <2>1, <2>2
  <2>3. QED
    BY <1>1, <1>2, <2>2, FreshKeep
<1>3. CASE ScanPreempted
  <2>1. PICK n : n = scanning
    OBVIOUS
  <2>2. /\ scanning' = None
        /\ \/ queue' = queue
           \/ n \in Id /\ queue' \in {queue, Append(queue, SCAN_DONE(n))}
    BY <1>3, <2>1, ScanPreemptedOK DEF Shape
  <2>3. n \in Id => SCAN_DONE(n) \in Event /\ SCAN_DONE(n).call = n
    BY EventsAre, Kinds
  <2>4. QED
    BY <1>1, <2>1, <2>2, <2>3, Names, FreshQuiet
<1>4. CASE scanning' = scanning /\ queue' = queue
  BY <1>1, <1>4, FreshQuiet
<1>5. QED
  BY <1>2, <1>3, <1>4 DEF CmdExec, ExecConnect

LEMMA ListConnectionsFresh == ASSUME Shape, Fresh, Kept, ListConnections PROVE Fresh'
<1>1. UNCHANGED <<misled, excused, scanFrom, results, scanning, work, cmd>>
  BY DEF ListConnections, history, driver
<1>2. PICK es \in Seq(Event) :
              /\ queue' = queue \o es
              /\ \A i \in 1 .. Len(es) : \E s \in Slot : slot[s] \in Peer /\ es[i] = CONNECTED(s, slot[s])
  BY ListOK DEF Shape
<1>3. \A i \in 1 .. Len(es) : es[i].kind = "connected"
  BY <1>2, Kinds
<1>4. ASSUME OfScan(queue, scanFrom) PROVE OfScan(queue', scanFrom)
  <2>1. PICK n : n = scanFrom
    OBVIOUS
  <2>2. OfScan(es, n)
    BY <1>3 DEF OfScan
  <2>3. PICK q \in Seq(Event) : q = queue
    BY DEF Shape, Types
  <2>4. QED
    BY <1>2, <1>4, <2>1, <2>2, <2>3, OfScanConcat
<1>5. QED
  BY <1>1, <1>4, FreshKeep

\* Connects and links have no part in it.
LEMMA LinkFresh ==
  ASSUME Shape, Fresh, Kept, excused \subseteq excused',
         Connected \/ ConnectFails \/ Settles \/ Retry \/ \E s \in Slot : LinkDown(s)
  PROVE  Fresh'
<1>1. UNCHANGED <<misled, scanFrom, results, scanning, work, cmd>>
  BY DEF Connected, ConnectFails, Settles, Retry, LinkDown, driver, history
<1>2. \/ queue' = queue
      \/ \E e \in Event : queue' \in {queue, Append(queue, e)} /\ e.kind \notin {"scan_result", "scan_done"}
  <2>0. Types
    BY DEF Shape
  <2>1. ASSUME NEW e \in Event, Push(e) PROVE queue' \in {queue, Append(queue, e)}
    BY <2>0, <2>1, PushOK
  <2>2. CASE Connected
    <3>1. PICK s \in Slot : slot' = [slot EXCEPT ![s] = creating] /\
            IF cycle # NoCycle THEN UNCHANGED <<queue, lossy>> ELSE Push(CONNECTED(s, creating))
      BY <2>2 DEF Connected, Free
    <3>2. PICK p \in Peer : p = creating
      BY <2>0, <2>2 DEF Connected, Types, TypeOK
    <3>3. PICK e \in Event : e = CONNECTED(s, creating) /\ e.kind = "connected"
      <4>1. CONNECTED(s, p) \in Event /\ CONNECTED(s, p).kind = "connected"
        BY EventsAre, Kinds
      <4>2. QED
        BY <3>2, <4>1
    <3>4. QED
      BY <2>1, <3>1, <3>3
  <2>3. CASE CycleFails
    BY <2>0, <2>3, CycleFailsOK, EventsAre, Kinds
  <2>4. CASE Settles
    <3>1. PICK s \in Slot, p \in Peer : queue' \in {queue, Append(queue, CONNECTED(s, p))}
      BY <2>4, SettlesShape
    <3>2. CONNECTED(s, p) \in Event /\ CONNECTED(s, p).kind = "connected"
      BY EventsAre, Kinds
    <3>3. QED
      BY <3>1, <3>2
  <2>5. ASSUME NEW s \in Slot, Push(DISCONNECTED(s))
        PROVE  \E e \in Event : queue' \in {queue, Append(queue, e)} /\ e.kind \notin {"scan_result", "scan_done"}
    <3>1. PICK e \in Event : e = DISCONNECTED(s) /\ e.kind = "disconnected"
      BY EventsAre, Kinds
    <3>2. QED
      BY <2>1, <2>5, <3>1
  <2>6. QED
    BY <2>2, <2>3, <2>4, <2>5 DEF ConnectFails, Retry, LinkDown
<1>3. QED
  BY <1>1, <1>2, FreshQuiet

\* The events of the running scan
LEMMA ScanEventFresh == ASSUME Shape, Fresh, Kept, Advert \/ ScanTimeout PROVE Fresh'
<1>1. UNCHANGED <<misled, excused, scanFrom, results, work, cmd>>
  BY DEF Advert, ScanTimeout, driver, history, nrf
<1>2. scanning' \in {None, scanning}
  BY DEF Advert, ScanTimeout, nrf
<1>3. PICK n \in Id : n = scanning /\ queue' \in {queue, Append(queue, SCAN_DONE(n)), Append(queue, SCAN_RESULT(n))}
  BY AdvertShape, ScanTimeoutShape
<1>4. \A e \in {SCAN_DONE(n), SCAN_RESULT(n)} : e \in Event /\ e.call = n
  BY EventsAre, Kinds
<1>5. n # None
  BY Names
<1>6. QED
  BY <1>1, <1>2, <1>3, <1>4, <1>5, FreshQuiet

LEMMA ResetFresh == ASSUME Shape, Fresh, Kept, Reset, excused \subseteq excused' PROVE Fresh'
<1>1. /\ UNCHANGED <<misled, scanFrom, results>> /\ scanning' = None /\ work' = FALSE
      /\ queue' = <<READY>>
  BY DEF Reset, driver
<1>2. PICK n : n = scanFrom
  OBVIOUS
<1>3. OfScan(<<READY>>, n)
  <2>1. PICK q : q = <<READY>>
    OBVIOUS
  <2>2. Len(q) = 1 /\ q[1] = READY
    BY <2>1
  <2>3. OfScan(q, n)
    BY <2>2, Kinds DEF OfScan
  <2>4. QED
    BY <2>1, <2>3
<1>4. QED
  BY <1>1, <1>2, <1>3, FreshKeep

\* The driver answers the scan with what it was told of its own.
LEMMA DrainFresh == ASSUME Shape, Fresh, Kept, Drain PROVE Fresh'
<1>0. Types
  BY DEF Shape
<1>1. /\ queue # <<>> /\ queue' = Tail(queue)
      /\ UNCHANGED <<scanning, cmd, work, excused>>
  BY DrainCases
<1>2. ASSUME OfScan(queue, scanFrom)
      PROVE  /\ OfScan(queue', scanFrom)
             /\ queue[1].kind \in {"scan_result", "scan_done"} => queue[1].call = scanFrom
  <2>1. PICK n : n = scanFrom
    OBVIOUS
  <2>2. OfScan(Tail(queue), n) /\ (queue[1].kind \in {"scan_result", "scan_done"} => queue[1].call = n)
    BY <1>0, <1>1, <1>2, <2>1, OfScanTail
  <2>3. QED
    BY <1>1, <2>1, <2>2
<1>3. CASE UNCHANGED <<misled, scanFrom, results>>
  BY <1>1, <1>2, <1>3, FreshKeep
<1>4. ASSUME NEW h \in Slot, NEW p \in Peer, OnConnected(h, p)
      PROVE  Fresh'
  <2>1. scanFrom' = scanFrom /\ results' = results
    BY <1>4 DEF OnConnected
  <2>2. \A n \in misled' \ misled : n \in DOMAIN calls /\ calls[n].kind = "connect"
    BY <1>4, OnConnectedOK DEF ToConnect
  <2>3. \A n \in misled' : calls'[n].kind = "scan" => n \in excused'
    BY <1>0, <1>1, <2>2 DEF Fresh, Kept, Types
  <2>4. QED
    BY <1>1, <1>2, <2>1, <2>3 DEF Fresh, OfScan
<1>5. ASSUME NEW n \in Id, queue[1] = SCAN_RESULT(n), OnScanResult(n)
      PROVE  Fresh'
  <2>1. results' = results \cup {n} /\ scanFrom' = scanFrom /\ misled' = misled
    BY <1>5 DEF OnScanResult
  <2>2. queue[1].kind = "scan_result" /\ queue[1].call = n
    BY <1>5, Kinds
  <2>3. ASSUME OfScan(queue, scanFrom) PROVE n = scanFrom
    BY <1>2, <2>2, <2>3
  <2>4. \A m \in misled' : calls'[m].kind = "scan" => m \in excused'
    BY <1>0, <1>1, <2>1 DEF Fresh, Kept, Types
  <2>5. QED
    BY <1>1, <1>2, <2>1, <2>3, <2>4 DEF Fresh, OfScan
<1>6. ASSUME NEW n \in Id, queue[1] = SCAN_DONE(n), OnScanDone(n)
      PROVE  Fresh'
  <2>1. scanFrom' = None
    BY <1>6 DEF OnScanDone
  <2>2. queue[1].kind = "scan_done" /\ queue[1].call = n
    BY <1>6, Kinds
  <2>3. \A m \in misled' \ misled : m \in DOMAIN calls /\ m \in excused
    <3>1. TAKE m \in misled' \ misled
    <3>2. m = scanFrom /\ m \in DOMAIN calls /\ ~(n = scanFrom /\ results \subseteq {n})
      BY <1>6, OnScanDoneOK DEF ToScan
    <3>3. scanFrom # None
      BY <1>0, <3>2, Names, CallParts
    <3>4. CASE scanFrom \notin excused
      <4>1. OfScan(queue, scanFrom) /\ results \subseteq {scanFrom}
        BY <3>3, <3>4 DEF Fresh
      <4>2. QED
        BY <1>2, <2>2, <3>2, <4>1
    <3>5. QED
      BY <3>2, <3>4
  <2>4. \A m \in misled' : calls'[m].kind = "scan" => m \in excused'
    BY <1>0, <1>1, <2>3 DEF Fresh, Kept, Types
  <2>5. QED
    BY <2>1, <2>4 DEF Fresh
<1>7. QED
  BY <1>3, <1>4, <1>5, <1>6, DrainCases DEF OnReady, OnDisconnected, OnCmdError

LEMMA FreshStep == ASSUME Shape, Fresh, Kept, [Next]_vars PROVE Fresh'
<1>1. CASE UNCHANGED vars
  BY <1>1, FreshQuiet DEF vars, nrf, driver, history
<1>2. ASSUME Next PROVE excused \subseteq excused'
  BY <1>2, ExcusedGrows
<1>3. ASSUME excused \subseteq excused', ConnectWakes \/ (\E p \in Peer : ConnectCall(p))
                \/ (\E h \in Slot, k \in {"disconnect", "other"} : OtherCall(k, h))
      PROVE  Fresh'
  <2>1. UNCHANGED <<misled, scanFrom, results, scanning, queue>>
    BY <1>3 DEF ConnectWakes, ConnectCall, OtherCall, driver
  <2>2. work' /\ cmd'.kind = "scan" => work /\ cmd'= cmd
    <3>1. \A k, a, n : WriteCmd(k, a, n) => cmd'.kind = k
      BY DEF WriteCmd
    <3>2. \A p, n : Registered(p, n) => cmd'.kind = "connect"
      BY DEF Registered
    <3>3. CASE ConnectWakes
      BY <3>2, <3>3 DEF ConnectWakes
    <3>4. CASE \E p \in Peer : ConnectCall(p)
      BY <3>1, <3>2, <3>4 DEF ConnectCall
    <3>5. CASE \E h \in Slot, k \in {"disconnect", "other"} : OtherCall(k, h)
      BY <3>1, <3>5 DEF OtherCall
    <3>6. QED
      BY <1>3, <3>3, <3>4, <3>5
  <2>3. QED
    BY <1>3, <2>1, <2>2, FreshQuiet
<1>4. ASSUME \/ \E n \in Waiting : GiveUp(n)
             \/ \E k \in {"scan", "connect"}, p \in Peer : FailedCall(k, p)
             \/ \E p \in Peer : AutoConnect(p)
      PROVE  Fresh'
  BY <1>4, FreshQuiet DEF GiveUp, FailedCall, AutoConnect, nrf, driver, history
<1>5. CASE Esp
  BY <1>2, <1>3, <1>4, <1>5, ScanCallFresh, DrainFresh DEF Esp, Next
<1>6. CASE Nrf
  BY <1>2, <1>4, <1>6, CmdExecFresh, ListConnectionsFresh, LinkFresh, ScanEventFresh, ResetFresh
     DEF Nrf, Next
<1>7. QED
  BY <1>1, <1>5, <1>6 DEF Next

-----------------------------------------------------------------------------
(* Every call that waits will be answered                                   *)

LEMMA GrowsOK ==
  ASSUME NEW q \in Seq(Event), NEW es \in Seq(Event)
  PROVE  /\ \A p : HasLink(q, p) => HasLink(q \o es, p)
         /\ HasEnd(q) => HasEnd(q \o es)
<1>1. /\ Len(q) \in Nat /\ Len(es) \in Nat /\ Len(q \o es) = Len(q) + Len(es)
      /\ \A i \in 1 .. Len(q) : (q \o es)[i] = q[i]
  OBVIOUS
<1>2. PICK f : f = q \o es
  OBVIOUS
<1>3. \A i \in 1 .. Len(q) : i \in 1 .. Len(f) /\ f[i] = q[i]
  BY <1>1, <1>2
<1>4. \A p : HasLink(q, p) => HasLink(f, p)
  BY <1>3 DEF HasLink
<1>5. HasEnd(q) => HasEnd(f)
  BY <1>3 DEF HasEnd
<1>6. QED
  BY <1>2, <1>4, <1>5

LEMMA AppendOK ==
  ASSUME NEW q \in Seq(Event), NEW e \in Event
  PROVE  /\ \A p : HasLink(q, p) => HasLink(Append(q, e), p)
         /\ HasEnd(q) => HasEnd(Append(q, e))
         /\ e.kind = "connected" => HasLink(Append(q, e), e.peer)
         /\ e.kind = "scan_done" => HasEnd(Append(q, e))
<1>1. PICK es : es = <<e>>
  OBVIOUS
<1>2. es \in Seq(Event) /\ Append(q, e) = q \o es
  BY <1>1
<1>3. PICK f : f = Append(q, e)
  OBVIOUS
<1>4. Len(f) \in 1 .. Len(f) /\ f[Len(f)] = e
  BY <1>3
<1>5. (e.kind = "connected" => HasLink(f, e.peer)) /\ (e.kind = "scan_done" => HasEnd(f))
  BY <1>4 DEF HasLink, HasEnd
<1>6. QED
  BY <1>2, <1>3, <1>5, GrowsOK

LEMMA TailHas ==
  ASSUME Types, queue # <<>>
  PROVE  /\ \A p : HasLink(queue, p) /\ ~(queue[1].kind = "connected" /\ queue[1].peer = p) =>
                     HasLink(Tail(queue), p)
         /\ HasEnd(queue) /\ queue[1].kind # "scan_done" => HasEnd(Tail(queue))
<1>1. PICK f : f = Tail(queue)
  OBVIOUS
<1>2. /\ Len(queue) \in Nat \ {0} /\ Len(f) = Len(queue) - 1
      /\ \A i \in 1 .. Len(queue) - 1 : f[i] = queue[i + 1]
  BY <1>1, TailOK
<1>3. ASSUME NEW j \in 1 .. Len(queue), j # 1
      PROVE  \E i \in 1 .. Len(f) : f[i] = queue[j]
  <2>1. j - 1 \in 1 .. Len(f) /\ (j - 1) + 1 = j
    BY <1>2, <1>3
  <2>2. f[j - 1] = queue[j]
    BY <1>2, <2>1
  <2>3. QED
    BY <2>1, <2>2
<1>4. ASSUME NEW p, HasLink(queue, p), ~(queue[1].kind = "connected" /\ queue[1].peer = p)
      PROVE  HasLink(f, p)
  BY <1>3, <1>4 DEF HasLink
<1>5. ASSUME HasEnd(queue), queue[1].kind # "scan_done" PROVE HasEnd(f)
  BY <1>3, <1>5 DEF HasEnd
<1>6. QED
  BY <1>1, <1>4, <1>5

\* A call that waits after a step waited before, or is new.
LEMMA BackedKeep ==
  ASSUME Shape, Backed, Kept, excused \subseteq excused', ~lossy' => ~lossy,
         \A n \in Connects' \ excused' :
           ~lossy' /\ (n \in DOMAIN calls => n \in Connects \ excused /\ Held(n)) => Held(n)',
         \A n \in Scans' :
           ~lossy' /\ (n \in DOMAIN calls => n \in Scans /\ scanFrom = n /\ (n \notin excused => Sought(n)))
             => scanFrom' = n /\ (n \notin excused' => Sought(n)')
  PROVE  Backed'
<1>1. \A n \in DOMAIN calls : (n \in Connects' => n \in Connects) /\ (n \in Scans' => n \in Scans)
  BY DEF Kept, Connects, Scans, Waiting
<1>2. SUFFICES ASSUME ~lossy'
               PROVE  /\ \A n \in Connects' \ excused' : Held(n)'
                      /\ \A n \in Scans' : scanFrom' = n /\ (n \notin excused' => Sought(n)')
  BY DEF Backed
<1>3. /\ \A n \in Connects \ excused : Held(n)
      /\ \A n \in Scans : scanFrom = n /\ (n \notin excused => Sought(n))
  BY <1>2 DEF Backed
<1>4. \A n \in Connects' \ excused' : Held(n)'
  BY <1>1, <1>2, <1>3
<1>5. \A n \in Scans' : scanFrom' = n /\ (n \notin excused' => Sought(n)')
  BY <1>1, <1>2, <1>3
<1>6. QED
  BY <1>4, <1>5

\* The nRF neither makes calls nor answers them.
LEMMA NrfBacked ==
  ASSUME Shape, Backed, UNCHANGED <<calls, driver>>, excused \subseteq excused', ~lossy' => ~lossy,
         \A n \in Connects \ excused' :
           ~lossy' /\ ((work /\ cmd.call = n) \/ cycle.call = n \/ HasLink(queue, calls[n].peer)) =>
             (work' /\ cmd'.call = n) \/ cycle'.call = n \/ HasLink(queue', calls[n].peer),
         \A n \in Scans \ excused' :
           ~lossy' /\ Sought(n) =>
             (work' /\ cmd'.call = n) \/ (scanTimer' /\ scanning' = n) \/ HasEnd(queue')
  PROVE  Backed'
<1>1. Kept
  BY SameCalls DEF Shape
<1>2. Connects' = Connects /\ Scans' = Scans
  BY DEF Connects, Scans, Waiting
<1>3. asleep' = asleep /\ waiter' = waiter /\ scanFrom' = scanFrom /\ calls' = calls
  BY DEF driver
<1>4. HasEnd(queue)' <=> HasEnd(queue')
  BY DEF HasEnd
<1>5. \A p : HasLink(queue, p)' <=> HasLink(queue', p)
  BY DEF HasLink
<1>6. \A n \in Connects' \ excused' :
           ~lossy' /\ (n \in DOMAIN calls => n \in Connects \ excused /\ Held(n)) => Held(n)'
  <2>1. SUFFICES ASSUME NEW n \in Connects', n \notin excused', ~lossy',
                        n \in DOMAIN calls => n \in Connects \ excused /\ Held(n)
                 PROVE  Held(n)'
    OBVIOUS
  <2>2. n \in Connects /\ n \in DOMAIN calls /\ Held(n)
    BY <1>2, <2>1 DEF Connects, Waiting
  <2>3. calls'[n].peer = calls[n].peer
    BY <1>3
  <2>4. asleep' = n \/ (waiter'[calls'[n].peer] = n /\
          ((work' /\ cmd'.call = n) \/ cycle'.call = n \/ HasLink(queue', calls'[n].peer)))
    BY <1>3, <2>1, <2>2 DEF Held
  <2>5. QED
    BY <2>4 DEF Held, HasLink
<1>7. \A n \in Scans' :
           ~lossy' /\ (n \in DOMAIN calls => n \in Scans /\ scanFrom = n /\ (n \notin excused => Sought(n)))
             => scanFrom' = n /\ (n \notin excused' => Sought(n)')
  <2>1. SUFFICES ASSUME NEW n \in Scans', ~lossy',
                        n \in DOMAIN calls => n \in Scans /\ scanFrom = n /\ (n \notin excused => Sought(n))
                 PROVE  scanFrom' = n /\ (n \notin excused' => Sought(n)')
    OBVIOUS
  <2>2. n \in DOMAIN calls /\ n \in Scans
    BY <1>2 DEF Scans, Waiting
  <2>3. ASSUME n \notin excused' PROVE Sought(n)'
    <3>1. (work' /\ cmd'.call = n) \/ (scanTimer' /\ scanning' = n) \/ HasEnd(queue')
      BY <2>1, <2>2, <2>3
    <3>2. QED
      BY <3>1 DEF Sought, HasEnd
  <2>4. QED
    BY <1>3, <2>1, <2>2, <2>3
<1>8. QED
  BY <1>1, <1>6, <1>7, BackedKeep

\* Whose command is executed
LEMMA CommandOf ==
  ASSUME Shape, NEW n \in Waiting, cmd.call = n
  PROVE  /\ n \in Connects => cmd.kind = "connect" /\ cmd.arg = calls[n].peer
         /\ n \in Scans => cmd.kind = "scan"
<1>1. n # None /\ n \in DOMAIN calls
  BY Names, CallParts DEF Waiting, Shape
<1>2. cmd.kind \in {"scan", "connect"}
  BY <1>1 DEF Shape, Command
<1>3. cmd.kind = "scan" => calls[n].kind = "scan"
  BY DEF Shape, Command, ToScan
<1>4. cmd.kind = "connect" => calls[n].kind = "connect" /\ cmd.arg = calls[n].peer
  BY DEF Shape, Command, ToConnect
<1>5. QED
  BY <1>2, <1>3, <1>4 DEF Connects, Scans

LEMMA QueueIs == ASSUME Shape PROVE queue \in Seq(Event)
BY DEF Shape, Types

LEMMA CmdExecBacked == ASSUME Shape, Backed, CmdExec, excused \subseteq excused' PROVE Backed'
<1>1. /\ UNCHANGED <<calls, driver>> /\ work
  BY DEF CmdExec
<1>2. \A n \in Waiting : n \in Id /\ n # None
  BY Facts DEF Shape
<1>3. CASE cmd.kind = "scan" /\ ExecScan /\ UNCHANGED <<dying, creating, cycle, queue, lossy>>
  <2>1. \A n \in Connects : cmd.call # n
    BY <1>3, CommandOf DEF Connects
  <2>2. ASSUME NEW n \in Scans, n \notin excused', Sought(n)
        PROVE  (scanTimer' /\ scanning' = n) \/ HasEnd(queue')
    <3>1. n # scanning
      BY <1>2, <1>3, <2>2 DEF ExecScan, Scans
    <3>2. CASE cmd.call = n
      BY <1>3, <2>2, <3>2 DEF ExecScan
    <3>3. CASE HasEnd(queue)
      BY <1>3, <3>3
    <3>4. QED
      BY <2>2, <3>1, <3>2, <3>3 DEF Sought
  <2>3. QED
    BY <1>1, <1>3, <2>1, <2>2, NrfBacked
<1>4. CASE cmd.kind = "connect" /\ ExecConnect(cmd.arg)
  <2>0. /\ scanning' = None /\ (scanTimer' => scanTimer /\ scanning = None)
        /\ (~lossy' => ~lossy)
        /\ \/ scanning = None /\ queue' = queue
           \/ scanning \in Id /\ queue' \in {queue, Append(queue, SCAN_DONE(scanning))}
        /\ ~lossy' /\ scanning # None => queue' = Append(queue, SCAN_DONE(scanning))
    BY <1>4, ScanPreemptedOK DEF ExecConnect, Shape
  <2>1. PICK m : m = scanning
    OBVIOUS
  <2>2. m \in Id => SCAN_DONE(m) \in Event /\ SCAN_DONE(m).kind = "scan_done"
    BY EventsAre, Kinds
  <2>3. /\ \A p : HasLink(queue, p) => HasLink(queue', p)
        /\ HasEnd(queue) => HasEnd(queue')
        /\ ~lossy' /\ m # None => HasEnd(queue')
    BY <2>0, <2>1, <2>2, QueueIs, AppendOK
  <2>4. ASSUME NEW n \in Connects, n \notin excused',
               cmd.call = n \/ cycle.call = n \/ HasLink(queue, calls[n].peer)
        PROVE  cycle'.call = n \/ HasLink(queue', calls[n].peer)
    <3>1. cycle.call # n
      BY <1>2, <1>4, <2>4 DEF ExecConnect, Connects
    <3>2. CASE cmd.call = n
      BY <1>4, <2>4, <3>2 DEF ExecConnect
    <3>3. QED
      BY <2>3, <2>4, <3>1, <3>2
  <2>5. ASSUME NEW n \in Scans, ~lossy', Sought(n) PROVE HasEnd(queue')
    <3>1. cmd.call # n
      BY <1>4, CommandOf DEF Scans
    <3>2. scanning = n \/ HasEnd(queue)
      BY <2>5, <3>1 DEF Sought
    <3>3. QED
      BY <1>2, <2>1, <2>3, <2>5, <3>2 DEF Scans
  <2>6. QED
    BY <1>1, <2>0, <2>4, <2>5, NrfBacked
<1>5. CASE /\ cmd.kind \notin {"scan", "connect"}
           /\ UNCHANGED <<cycle, scanning, scanTimer, queue, lossy>>
  <2>1. \A n \in Waiting : cmd.call # n
    BY <1>2, <1>5 DEF Shape, Command
  <2>2. QED
    BY <1>1, <1>5, <2>1, NrfBacked DEF Connects, Scans, Sought
<1>6. QED
  BY <1>3, <1>4, <1>5 DEF CmdExec

\* Steps that leave the commands and scans alone
LEMMA QuietBacked ==
  ASSUME Shape, Backed, UNCHANGED <<calls, driver, work, cmd>>, excused \subseteq excused',
         ~lossy' => ~lossy,
         \/ UNCHANGED <<scanning, scanTimer>>
         \/ ~lossy' /\ scanTimer => HasEnd(queue'),
         \/ cycle'.call = cycle.call \/ cycle.call = None \/ cycle.call \in excused'
         \/ ~lossy' => HasLink(queue', cycle.target),
         \/ queue' = queue
         \/ \E e \in Event : queue' \in {queue, Append(queue, e)}
         \/ \E es \in Seq(Event) : queue' = queue \o es
  PROVE  Backed'
<1>1. /\ \A p : HasLink(queue, p) => HasLink(queue', p)
      /\ HasEnd(queue) => HasEnd(queue')
  BY QueueIs, AppendOK, GrowsOK
<1>2. ASSUME NEW n \in Connects \ excused', ~lossy',
             (work /\ cmd.call = n) \/ cycle.call = n \/ HasLink(queue, calls[n].peer)
      PROVE  (work' /\ cmd'.call = n) \/ cycle'.call = n \/ HasLink(queue', calls[n].peer)
  <2>1. CASE cycle.call = n /\ cycle'.call # n
    <3>1. n # None /\ n \in DOMAIN calls
      BY Facts DEF Connects, Waiting, Shape
    <3>2. calls[n].peer = cycle.target
      BY <2>1, <3>1 DEF Shape, Named, ToConnect
    <3>3. QED
      BY <1>2, <2>1, <3>1, <3>2
  <2>2. QED
    BY <1>1, <1>2, <2>1
<1>3. ASSUME NEW n \in Scans, ~lossy', Sought(n)
      PROVE  (work' /\ cmd'.call = n) \/ (scanTimer' /\ scanning' = n) \/ HasEnd(queue')
  BY <1>1, <1>3 DEF Sought
<1>4. QED
  BY <1>2, <1>3, NrfBacked

LEMMA NrfQuietBacked ==
  ASSUME Shape, Backed, excused \subseteq excused',
         \/ ListConnections \/ Connected \/ ConnectFails \/ Settles \/ Retry \/ Advert \/ ScanTimeout
         \/ (\E p \in Peer : AutoConnect(p)) \/ (\E s \in Slot : LinkDown(s))
  PROVE  Backed'
<1>0. Types
  BY DEF Shape
<1>1. UNCHANGED <<calls, driver, work, cmd>>
  BY DEF ListConnections, Connected, ConnectFails, Settles, Retry, Advert, ScanTimeout, AutoConnect,
         LinkDown, history, nrf
<1>2. ASSUME NEW e \in Event, Push(e) PROVE (~lossy' => ~lossy) /\ queue' \in {queue, Append(queue, e)}
  BY <1>0, <1>2, PushOK
<1>3. CASE ListConnections
  <2>1. UNCHANGED <<scanning, scanTimer, cycle>> /\ (~lossy' => ~lossy)
        /\ \E es \in Seq(Event) : queue' = queue \o es
    BY <1>0, <1>3, ListOK DEF ListConnections
  <2>2. QED
    BY <1>1, <2>1, QuietBacked
<1>4. CASE Connected
  <2>1. PICK s \in Slot :
         IF cycle # NoCycle
           THEN cycle' = [cycle EXCEPT !.stage = "settling", !.slot = s] /\ UNCHANGED <<queue, lossy>>
           ELSE Push(CONNECTED(s, creating)) /\ UNCHANGED cycle
    BY <1>4 DEF Connected, Free
  <2>2. creating \in Peer /\ UNCHANGED <<scanning, scanTimer>>
    BY <1>0, <1>4 DEF Connected, Types, TypeOK
  <2>3. CASE cycle # NoCycle
    <3>1. cycle'.call = cycle.call
      BY <1>0, <2>1, <2>3 DEF Types, Cycle
    <3>2. QED
      BY <1>1, <2>1, <2>2, <2>3, <3>1, QuietBacked
  <2>4. CASE cycle = NoCycle
    <3>1. PICK e \in Event : e = CONNECTED(s, creating)
      BY <2>2, EventsAre
    <3>2. Push(e) /\ cycle' = cycle
      BY <2>1, <2>4, <3>1
    <3>3. QED
      BY <1>1, <1>2, <2>2, <3>2, QuietBacked
  <2>5. QED
    BY <2>3, <2>4
<1>5. ASSUME CycleFails, UNCHANGED <<scanning, scanTimer>> PROVE Backed'
  <2>1. /\ (~lossy' => ~lossy) /\ queue' \in {queue, Append(queue, CMD_ERROR)}
        /\ cycle.call = None \/ cycle.call \in excused'
    BY <1>0, <1>5, CycleFailsOK
  <2>2. CMD_ERROR \in Event
    BY EventsAre
  <2>3. QED
    BY <1>1, <1>5, <2>1, <2>2, QuietBacked
<1>6. ASSUME UNCHANGED <<cycle, queue, lossy, scanning, scanTimer>> PROVE Backed'
  BY <1>1, <1>6, QuietBacked
<1>7. CASE ConnectFails
  BY <1>5, <1>6, <1>7 DEF ConnectFails
<1>8. CASE Settles
  <2>1. PICK s \in Slot, p \in Peer :
              /\ s = cycle.slot /\ p = cycle.target
              /\ ~lossy' => ~lossy /\ queue' = Append(queue, CONNECTED(s, p))
              /\ queue' \in {queue, Append(queue, CONNECTED(s, p))}
    BY <1>8, SettlesShape
  <2>2. PICK e \in Event : e = CONNECTED(s, p) /\ e.kind = "connected" /\ e.peer = p
    BY EventsAre, Kinds
  <2>3. ~lossy' => HasLink(queue', cycle.target)
    BY <2>1, <2>2, QueueIs, AppendOK
  <2>4. UNCHANGED <<scanning, scanTimer>>
    BY <1>8 DEF Settles
  <2>5. QED
    BY <1>1, <2>1, <2>2, <2>3, <2>4, QuietBacked
<1>9. CASE Retry
  <2>1. CASE CycleFails
    BY <1>5, <1>9, <2>1 DEF Retry
  <2>2. CASE /\ cycle' = [cycle EXCEPT !.stage = "creating", !.attempts = @ + 1]
             /\ UNCHANGED <<queue, lossy, excused, troubles>>
    <3>1. cycle'.call = cycle.call
      BY <1>0, <2>2 DEF Types, Cycle
    <3>2. QED
      BY <1>1, <1>9, <2>2, <3>1, QuietBacked DEF Retry
  <2>3. QED
    BY <1>9, <2>1, <2>2 DEF Retry
<1>10. CASE Advert
  <2>1. PICK n \in Id : queue' \in {queue, Append(queue, SCAN_RESULT(n))} /\ (~lossy' => ~lossy)
    BY <1>10, AdvertShape
  <2>2. PICK e \in Event : e = SCAN_RESULT(n)
    BY EventsAre
  <2>3. UNCHANGED <<scanning, scanTimer, cycle>>
    BY <1>10 DEF Advert, nrf
  <2>4. QED
    BY <1>1, <2>1, <2>2, <2>3, QuietBacked
<1>11. CASE ScanTimeout
  <2>1. PICK n \in Id : /\ queue' \in {queue, Append(queue, SCAN_DONE(n))}
                        /\ ~lossy' => ~lossy /\ queue' = Append(queue, SCAN_DONE(n))
    BY <1>11, ScanTimeoutShape
  <2>2. PICK e \in Event : e = SCAN_DONE(n) /\ e.kind = "scan_done"
    BY EventsAre, Kinds
  <2>3. ~lossy' => HasEnd(queue')
    BY <2>1, <2>2, QueueIs, AppendOK
  <2>4. cycle' = cycle
    BY <1>11 DEF ScanTimeout
  <2>5. QED
    BY <1>1, <2>1, <2>2, <2>3, <2>4, QuietBacked
<1>12. CASE \E p \in Peer : AutoConnect(p)
  BY <1>6, <1>12 DEF AutoConnect
<1>13. ASSUME NEW s \in Slot, LinkDown(s) PROVE Backed'
  <2>1. UNCHANGED <<scanning, scanTimer>>
    BY <1>13 DEF LinkDown
  <2>2. CASE Push(DISCONNECTED(s)) /\ UNCHANGED <<cycle, excused>>
    <3>1. PICK e \in Event : e = DISCONNECTED(s)
      BY EventsAre
    <3>2. QED
      BY <1>1, <1>2, <2>1, <2>2, <3>1, QuietBacked
  <2>3. CASE CycleFails
    BY <1>5, <2>1, <2>3
  <2>4. CASE /\ cycle' = [cycle EXCEPT !.stage = "retry", !.slot = None]
             /\ UNCHANGED <<queue, lossy, excused>>
    <3>1. cycle'.call = cycle.call
      BY <1>0, <2>4 DEF Types, Cycle
    <3>2. QED
      BY <1>1, <2>1, <2>4, <3>1, QuietBacked
  <2>5. QED
    BY <1>13, <2>2, <2>3, <2>4 DEF LinkDown
<1>14. QED
  BY <1>3, <1>4, <1>7, <1>8, <1>9, <1>10, <1>11, <1>12, <1>13

LEMMA ResetBacked == ASSUME Shape, Backed, Reset PROVE Backed'
<1>1. UNCHANGED <<calls, driver, lossy>> /\ excused' = excused \cup Waiting
  BY DEF Reset
<1>2. Connects \ excused' = {} /\ Scans \ excused' = {}
  BY <1>1 DEF Connects, Scans
<1>3. QED
  BY <1>1, <1>2, NrfBacked

\* A command written over cmd_buf, or not: whoever loses it is excused.
LEMMA OverwrittenOK ==
  ASSUME Shape, NEW n \in Waiting, n \notin excused', Unexecuted \subseteq excused' \/ UNCHANGED <<cmd, work>>,
         work, cmd.call = n
  PROVE  work' /\ cmd'.call = n
<1>1. n # None
  BY Facts DEF Shape
<1>2. n \in Unexecuted
  BY <1>1 DEF Unexecuted
<1>3. QED
  BY <1>2

\* What holds or seeks a call outside of the driver goes on while the nRF rests.
LEMMA DriverBacked ==
  ASSUME Shape, Backed, Kept, excused \subseteq excused', UNCHANGED <<cycle, scanning, scanTimer, queue, lossy>>,
         Unexecuted \subseteq excused' \/ UNCHANGED <<cmd, work>>,
         \A n \in Connects' \ excused' :
           \/ n \in Connects /\ n \in DOMAIN calls /\ asleep = n /\ asleep' = n
           \/ n \in Connects /\ n \in DOMAIN calls /\ asleep # n
                /\ (waiter[calls[n].peer] = n => waiter'[calls[n].peer] = n)
           \/ asleep' = n
           \/ waiter'[calls'[n].peer] = n /\ work' /\ cmd'.call = n,
         \A n \in Scans' :
           \/ n \in Scans /\ n \in DOMAIN calls /\ scanFrom' = scanFrom
           \/ scanFrom' = n /\ work' /\ cmd'.call = n
  PROVE  Backed'
<1>1. \A n \in Connects' \ excused' :
        ~lossy' /\ (n \in DOMAIN calls => n \in Connects \ excused /\ Held(n)) => Held(n)'
  <2>1. SUFFICES ASSUME NEW n \in Connects', n \notin excused',
                        n \in DOMAIN calls => n \in Connects \ excused /\ Held(n)
                 PROVE  Held(n)'
    OBVIOUS
  <2>2. CASE asleep' = n
    BY <2>2 DEF Held
  <2>3. CASE waiter'[calls'[n].peer] = n /\ work' /\ cmd'.call = n
    BY <2>3 DEF Held
  <2>4. CASE n \in Connects /\ n \in DOMAIN calls /\ asleep # n
                /\ (waiter[calls[n].peer] = n => waiter'[calls[n].peer] = n)
    <3>1. /\ waiter[calls[n].peer] = n
          /\ (work /\ cmd.call = n) \/ cycle.call = n \/ HasLink(queue, calls[n].peer)
      BY <2>1, <2>4 DEF Held
    <3>2. waiter'[calls'[n].peer] = n
      BY <2>4, <3>1 DEF Kept
    <3>3. work /\ cmd.call = n => work' /\ cmd'.call = n
      BY <2>1, <2>4, OverwrittenOK DEF Connects
    <3>4. HasLink(queue, calls[n].peer) => HasLink(queue, calls[n].peer)'
      BY <2>4 DEF HasLink, Kept
    <3>5. QED
      BY <3>1, <3>2, <3>3, <3>4 DEF Held
  <2>5. QED
    BY <2>1, <2>2, <2>3, <2>4
<1>2. \A n \in Scans' :
        ~lossy' /\ (n \in DOMAIN calls => n \in Scans /\ scanFrom = n /\ (n \notin excused => Sought(n)))
          => scanFrom' = n /\ (n \notin excused' => Sought(n)')
  <2>1. SUFFICES ASSUME NEW n \in Scans',
                        n \in DOMAIN calls => n \in Scans /\ scanFrom = n /\ (n \notin excused => Sought(n))
                 PROVE  scanFrom' = n /\ (n \notin excused' => Sought(n)')
    OBVIOUS
  <2>2. CASE scanFrom' = n /\ work' /\ cmd'.call = n
    BY <2>2 DEF Sought
  <2>3. CASE n \in Scans /\ n \in DOMAIN calls /\ scanFrom' = scanFrom
    <3>1. n \notin excused' /\ work /\ cmd.call = n => work' /\ cmd'.call = n
      BY <2>3, OverwrittenOK DEF Scans
    <3>2. QED
      BY <2>1, <2>3, <3>1 DEF Sought, HasEnd
  <2>4. QED
    BY <2>1, <2>2, <2>3
<1>3. QED
  BY <1>1, <1>2, BackedKeep

LEMMA ScanCallBacked == ASSUME Shape, Backed, ScanCall, excused \subseteq excused' PROVE Backed'
<1>1. PICK n : n = New
  OBVIOUS
<1>2. Kept /\ Waiting' = Waiting \cup {n} /\ n \notin DOMAIN calls /\ DOMAIN calls' = DOMAIN calls \cup {n}
      /\ calls'[n].kind = "scan"
  <2>1. NewCall /\ Made("scan", None, "waiting") /\ Types
    BY DEF ScanCall, Shape
  <2>2. /\ Kept /\ Waiting' = Waiting \cup {n} /\ n \notin DOMAIN calls /\ DOMAIN calls' = DOMAIN calls \cup {n}
        /\ calls'[n] = [kind |-> "scan", peer |-> None, state |-> "waiting"]
    BY <1>1, <2>1, MadeOK
  <2>3. QED
    BY <2>2
<1>3. /\ scanFrom' = n /\ work' /\ cmd'.call = n /\ asleep = None /\ asleep' = None /\ waiter' = waiter
      /\ Unexecuted \subseteq excused' /\ Scans = {}
      /\ UNCHANGED <<cycle, scanning, scanTimer, queue, lossy>>
  BY <1>1 DEF ScanCall, NewCall, ScanAllowed
<1>4. Connects' = Connects /\ Scans' = {n} /\ \A m \in Connects : m \in DOMAIN calls /\ m # None
  BY <1>2, <1>3, Facts DEF Connects, Scans, Waiting, Kept, Shape
<1>5. QED
  BY <1>2, <1>3, <1>4, DriverBacked

LEMMA ConnectCallBacked ==
  ASSUME Shape, Backed, NEW p \in Peer, ConnectCall(p), excused \subseteq excused' PROVE Backed'
<1>1. PICK n : n = New
  OBVIOUS
<1>2. Kept /\ Waiting' = Waiting \cup {n} /\ n \notin DOMAIN calls /\ n \in Id /\ n # None
      /\ calls'[n].kind = "connect" /\ calls'[n].peer = p /\ n \in DOMAIN calls'
  BY <1>1, NewConnect, Names DEF ConnectCall, Shape
<1>3. /\ asleep = None /\ scanFrom' = scanFrom /\ UNCHANGED <<cycle, scanning, scanTimer, queue, lossy>>
  BY DEF ConnectCall, NewCall
<1>4. /\ \A m \in Connects' : m \in Connects \/ m = n
      /\ \A m \in Scans' : m \in Scans
      /\ \A m \in Waiting : m \in DOMAIN calls /\ m # None
  BY <1>2, Facts DEF Connects, Scans, Waiting, Kept, Shape
<1>5. CASE /\ asleep' = n /\ UNCHANGED waiter
           /\ Unexecuted \subseteq excused' \/ UNCHANGED <<cmd, work>>
  BY <1>2, <1>3, <1>4, <1>5, DriverBacked DEF Connects, Scans
<1>6. CASE Registered(p, n) /\ asleep' = asleep
  <2>1. /\ cmd'.call = n /\ work' = TRUE /\ waiter'[p] = n
        /\ \A r \in Peer : r # p => waiter'[r] = waiter[r]
        /\ waiter[p] \in excused' \cup {None} /\ Unexecuted \subseteq excused'
    BY <1>2, <1>6, RegisteredOK DEF Shape
  <2>2. ASSUME NEW m \in Connects, m \notin excused', waiter[calls[m].peer] = m
        PROVE  waiter'[calls[m].peer] = m
    <3>1. m # None /\ calls[m].peer \in Peer
      BY <1>4 DEF Connects, Shape, Named
    <3>2. QED
      BY <2>1, <2>2, <3>1
  <2>3. QED
    BY <1>2, <1>3, <1>4, <2>1, <2>2, DriverBacked DEF Connects, Scans
<1>7. QED
  BY <1>1, <1>5, <1>6 DEF ConnectCall, WriteCmd

LEMMA ConnectWakesBacked ==
  ASSUME Shape, Backed, ConnectWakes, excused \subseteq excused' PROVE Backed'
<1>1. PICK n : n = asleep
  OBVIOUS
<1>2. n \in DOMAIN calls /\ n \in Id /\ calls[n].kind = "connect" /\ calls[n].peer \in Peer
  BY <1>1, Facts DEF ConnectWakes, Shape, Named
<1>3. scanFrom' = scanFrom /\ UNCHANGED <<cycle, scanning, scanTimer, queue, lossy>>
  BY DEF ConnectWakes
<1>4. \A m \in Waiting : m \in DOMAIN calls /\ m # None
  BY Facts DEF Waiting, Shape
<1>5. CASE Registered(calls[n].peer, n) /\ UNCHANGED <<calls, troubles>>
  <2>1. PICK p \in Peer : p = calls[n].peer
    BY <1>2
  <2>2. /\ cmd'.call = n /\ work' = TRUE /\ waiter'[p] = n
        /\ \A r \in Peer : r # p => waiter'[r] = waiter[r]
        /\ waiter[p] \in excused' \cup {None} /\ Unexecuted \subseteq excused'
    BY <1>2, <1>5, <2>1, RegisteredOK DEF Shape
  <2>3. Kept /\ Connects' = Connects /\ Scans' = Scans /\ calls'[n].peer = p
    BY <1>5, <2>1, SameCalls DEF Connects, Scans, Waiting, Shape
  <2>4. ASSUME NEW m \in Connects, m \notin excused', waiter[calls[m].peer] = m
        PROVE  waiter'[calls[m].peer] = m
    <3>1. m # None /\ calls[m].peer \in Peer
      BY <1>4 DEF Connects, Shape, Named
    <3>2. QED
      BY <2>2, <2>4, <3>1
  <2>5. QED
    BY <1>1, <1>3, <1>4, <2>2, <2>3, <2>4, DriverBacked DEF Connects, Scans
<1>6. CASE Trouble /\ Set(n, "error") /\ UNCHANGED <<cmd, work, waiter, excused>>
  <2>1. Kept /\ Waiting' = Waiting \ {n}
    BY <1>2, <1>6, SetOK DEF Shape
  <2>2. /\ \A m \in Connects' : m \in Connects /\ m # n
        /\ \A m \in Scans' : m \in Scans
    BY <1>4, <2>1 DEF Connects, Scans, Kept
  <2>3. QED
    BY <1>1, <1>3, <1>4, <1>6, <2>1, <2>2, DriverBacked DEF Connects, Scans
<1>7. QED
  BY <1>1, <1>5, <1>6 DEF ConnectWakes

\* Calls that only end, and commands of others
LEMMA OthersBacked ==
  ASSUME Shape, Backed, Kept, excused \subseteq excused',
         UNCHANGED <<cycle, scanning, scanTimer, queue, lossy, driver>>,
         Unexecuted \subseteq excused' \/ UNCHANGED <<cmd, work>>, Waiting' \subseteq Waiting
  PROVE  Backed'
<1>1. \A m \in Waiting : m \in DOMAIN calls
  BY DEF Waiting
<1>2. Connects' \subseteq Connects /\ Scans' \subseteq Scans
  BY <1>1 DEF Connects, Scans, Kept
<1>3. QED
  BY <1>1, <1>2, DriverBacked DEF Connects, Scans, driver

LEMMA DrainBacked == ASSUME Shape, Backed, Drain PROVE Backed'
<1>0. Types
  BY DEF Shape
<1>1. /\ queue # <<>> /\ asleep = None /\ queue' = Tail(queue)
      /\ UNCHANGED <<cycle, scanning, scanTimer, cmd, work, asleep, excused, lossy>>
  BY DrainCases
<1>2. \A m \in Waiting : m \in DOMAIN calls /\ m # None
  BY Facts DEF Waiting, Shape
<1>3. /\ \A p : HasLink(queue, p) /\ ~(queue[1].kind = "connected" /\ queue[1].peer = p) => HasLink(queue', p)
      /\ HasEnd(queue) /\ queue[1].kind # "scan_done" => HasEnd(queue')
  BY <1>0, <1>1, TailHas
<1>4. ASSUME Kept, Waiting' \subseteq Waiting,
             \A n \in Connects' \ excused :
               /\ ~(queue[1].kind = "connected" /\ queue[1].peer = calls[n].peer
                      /\ waiter[calls[n].peer] = n)
               /\ waiter[calls[n].peer] = n => waiter'[calls[n].peer] = n,
             \A n \in Scans' : scanFrom = n => queue[1].kind # "scan_done" /\ scanFrom' = scanFrom
      PROVE  Backed'
  <2>1. Connects' \subseteq Connects /\ Scans' \subseteq Scans
    BY <1>2, <1>4 DEF Connects, Scans, Kept
  <2>2. ASSUME NEW n \in Connects', n \notin excused',
               n \in DOMAIN calls => n \in Connects \ excused /\ Held(n)
        PROVE  Held(n)'
    <3>1. n \in Connects /\ n \in DOMAIN calls /\ n # None /\ n \notin excused
      BY <1>1, <1>2, <2>1, <2>2 DEF Connects
    <3>2. /\ waiter[calls[n].peer] = n
          /\ (work /\ cmd.call = n) \/ cycle.call = n \/ HasLink(queue, calls[n].peer)
      BY <1>1, <2>2, <3>1 DEF Held
    <3>3. PICK r : r = calls[n].peer /\ r = calls'[n].peer
      BY <1>4, <3>1 DEF Kept
    <3>4. waiter'[r] = n
      BY <1>4, <2>2, <3>1, <3>2, <3>3
    <3>5. HasLink(queue, r) => HasLink(queue', r)
      BY <1>3, <1>4, <2>2, <3>1, <3>2, <3>3
    <3>6. HasLink(queue', r) => HasLink(queue, r)'
      BY DEF HasLink
    <3>7. QED
      BY <1>1, <3>2, <3>3, <3>4, <3>5, <3>6 DEF Held
  <2>3. ASSUME NEW n \in Scans',
               n \in DOMAIN calls => n \in Scans /\ scanFrom = n /\ (n \notin excused => Sought(n))
        PROVE  scanFrom' = n /\ (n \notin excused' => Sought(n)')
    <3>1. n \in Scans /\ n \in DOMAIN calls
      BY <1>2, <2>1 DEF Scans
    <3>2. HasEnd(queue) => HasEnd(queue)'
      BY <1>3, <1>4, <2>3, <3>1 DEF HasEnd
    <3>3. QED
      BY <1>1, <1>4, <2>3, <3>1, <3>2 DEF Sought
  <2>4. QED
    BY <1>1, <1>4, <2>2, <2>3, BackedKeep
<1>5. ASSUME UNCHANGED <<waiter, scanFrom, calls>>, queue[1].kind \notin {"connected", "scan_done"} PROVE Backed'
  <2>1. Kept /\ Waiting' = Waiting
    BY <1>0, <1>5, SameCalls DEF Waiting
  <2>2. QED
    BY <1>4, <1>5, <2>1
<1>6. ASSUME NEW h \in Slot, NEW p \in Peer, queue[1] = CONNECTED(h, p), OnConnected(h, p)
      PROVE  Backed'
  <2>1. /\ Kept /\ Waiting' = Waiting \ {waiter[p]}
        /\ \A r \in Peer : r # p => waiter'[r] = waiter[r]
    BY <1>6, OnConnectedOK
  <2>2. queue[1].kind = "connected" /\ scanFrom' = scanFrom
    BY <1>6, Kinds DEF OnConnected
  <2>3. ASSUME NEW n \in Connects' PROVE n # waiter[p] /\ calls[n].peer \in Peer
    <3>1. n \in Waiting /\ n # waiter[p] /\ calls'[n].kind = "connect"
      BY <2>1, <2>3 DEF Connects
    <3>2. n \in DOMAIN calls /\ calls[n].kind = "connect"
      BY <1>2, <2>1, <3>1 DEF Kept
    <3>3. QED
      BY <3>1, <3>2 DEF Shape, Named
  <2>4. \A n \in Connects' :
          /\ ~(queue[1].kind = "connected" /\ queue[1].peer = calls[n].peer /\ waiter[calls[n].peer] = n)
          /\ waiter[calls[n].peer] = n => waiter'[calls[n].peer] = n
    <3>1. queue[1].peer = p
      BY <1>6, Kinds
    <3>2. QED
      BY <2>1, <2>3, <3>1
  <2>5. QED
    BY <1>4, <2>1, <2>2, <2>4
<1>7. ASSUME NEW m \in Id, queue[1] = SCAN_DONE(m), OnScanDone(m)
      PROVE  Backed'
  <2>1. Kept /\ Waiting' = Waiting \ {scanFrom} /\ waiter' = waiter
    BY <1>7, OnScanDoneOK DEF OnScanDone
  <2>2. queue[1].kind = "scan_done"
    BY <1>7, Kinds
  <2>3. \A n \in Scans' : n # scanFrom
    BY <2>1 DEF Scans
  <2>4. QED
    BY <1>4, <2>1, <2>2, <2>3
<1>8. /\ READY.kind = "ready" /\ CMD_ERROR.kind = "cmd_error"
      /\ \A h : DISCONNECTED(h).kind = "disconnected"
      /\ \A n : SCAN_RESULT(n).kind = "scan_result"
  BY Kinds
<1>9. CASE queue[1] = READY /\ OnReady
  BY <1>5, <1>8, <1>9 DEF OnReady
<1>10. CASE \E h \in Slot : queue[1] = DISCONNECTED(h) /\ OnDisconnected(h)
  BY <1>5, <1>8, <1>10 DEF OnDisconnected
<1>11. CASE \E n \in Id : queue[1] = SCAN_RESULT(n) /\ OnScanResult(n)
  BY <1>5, <1>8, <1>11 DEF OnScanResult
<1>12. CASE queue[1] = CMD_ERROR /\ OnCmdError
  BY <1>5, <1>8, <1>12 DEF OnCmdError
<1>13. QED
  BY <1>6, <1>7, <1>9, <1>10, <1>11, <1>12, DrainCases

LEMMA BackedStep == ASSUME Shape, Backed, Kept, [Next]_vars PROVE Backed'
<1>1. CASE UNCHANGED vars
  BY <1>1, OthersBacked DEF vars, nrf, driver, history, Waiting
<1>2. ASSUME Next PROVE excused \subseteq excused'
  BY <1>2, ExcusedGrows
<1>3. ASSUME NEW h \in Slot, NEW k \in {"disconnect", "other"}, OtherCall(k, h), excused \subseteq excused'
      PROVE  Backed'
  BY <1>3, OthersBacked DEF OtherCall, WriteCmd, Waiting
<1>4. ASSUME NEW k \in {"scan", "connect"}, NEW p \in Peer, FailedCall(k, p) PROVE Backed'
  BY <1>4, FailedCallShape, OthersBacked DEF FailedCall, nrf
<1>5. ASSUME NEW n \in Waiting, GiveUp(n) PROVE Backed'
  BY <1>5, GiveUpShape, OthersBacked DEF GiveUp, nrf
<1>6. CASE Esp
  BY <1>2, <1>3, <1>4, <1>5, <1>6, ScanCallBacked, ConnectWakesBacked, DrainBacked, ConnectCallBacked
     DEF Esp, Next
<1>7. CASE Nrf
  BY <1>2, <1>7, CmdExecBacked, NrfQuietBacked, ResetBacked DEF Nrf, Next
<1>8. QED
  BY <1>1, <1>6, <1>7 DEF Next

LEMMA InitInv == ASSUME Init PROVE CallsInv
<1>1. Shape
  BY InitShape
<1>2. /\ queue = <<>> /\ Len(queue) = 0 /\ misled = {} /\ scanFrom = None /\ calls = <<>> /\ DOMAIN calls = {}
  BY DEF Init
<1>3. Links
  BY <1>2 DEF Links, Announced
<1>4. Fresh
  BY <1>2 DEF Fresh
<1>5. Backed
  BY <1>2 DEF Backed, Connects, Scans, Waiting
<1>6. QED
  BY <1>1, <1>3, <1>4, <1>5 DEF CallsInv

\* CallsInv holds in every state.
THEOREM Invariance == Spec => []CallsInv
<1>1. Init => CallsInv
  BY InitInv
<1>2. CallsInv /\ [Next]_vars => CallsInv'
  BY ShapeStep, LinksStep, FreshStep, BackedStep DEF CallsInv
<1>3. QED
  BY <1>1, <1>2, PTL DEF Spec

\* Every variable has its type.
THEOREM TypesCorrect == Spec => []TypeOK
<1>1. CallsInv => TypeOK
  BY DEF CallsInv, Shape, Types
<1>2. QED
  BY <1>1, Invariance, PTL

\* A connect or scan call that waits has something under way that will answer it, unless
\* it met one of the ways to lose its answer that excused counts.
THEOREM EveryWaiterBacked == Spec => []WaiterBacked
<1>1. CallsInv => WaiterBacked
  <2>1. SUFFICES ASSUME CallsInv, ~lossy
                 PROVE  WaiterBacked
    BY DEF WaiterBacked
  <2>2. Backed /\ Shape
    BY <2>1 DEF CallsInv
  <2>3. DOMAIN queue = 1 .. Len(queue)
    BY <2>2 DEF Shape, Types
  <2>4. \A n \in Connects \ excused :
         \/ asleep = n \/ (work /\ cmd.call = n)
         \/ waiter[calls[n].peer] = n /\
              \/ cycle.call = n
              \/ \E i \in DOMAIN queue :
                   queue[i].kind = "connected" /\ queue[i].peer = calls[n].peer
    BY <2>1, <2>2, <2>3 DEF Backed, Held, HasLink
  <2>5. \A n \in Scans \ excused :
         scanFrom = n /\
           \/ work /\ cmd.call = n
           \/ scanTimer /\ scanning = n
           \/ \E i \in DOMAIN queue : queue[i].kind = "scan_done"
    BY <2>1, <2>2, <2>3 DEF Backed, Sought, HasEnd
  <2>6. QED
    BY <2>4, <2>5 DEF WaiterBacked
<1>2. QED
  BY <1>1, Invariance, PTL

\* Whoever connect tells of a link has it, or the driver is still to hear of its end.
THEOREM LinkTold == Spec => []AnsweredLink
<1>1. CallsInv => AnsweredLink
  BY DEF CallsInv, Links, AnsweredLink
<1>2. QED
  BY <1>1, Invariance, PTL

\* A scan is answered by its own end and with its own results, unless the scan of a caller
\* that gave up was still about when it was made.
THEOREM ScanTold == Spec => []HonestScan
<1>1. CallsInv => HonestScan
  BY DEF CallsInv, Fresh, HonestScan
<1>2. QED
  BY <1>1, Invariance, PTL
=============================================================================
