----------------------------- MODULE ConnectCalls -----------------------------
(***************************************************************************)
(* Calls that have no link yet: scan and connect, and disconnect.          *)
(*                                                                         *)
(* myhome_ble_i2c.erl keeps one scan caller (scan_from) and one connect    *)
(* caller per address (conn_waiters).  A connect to an address the driver  *)
(* believes connected first writes CMD_DISCONNECT and sleeps.  On the      *)
(* nRF52840 all three are commands in the one cmd_buf; an answer is any    *)
(* CONNECTED for the address, or any SCAN_DONE.  Nothing carries the       *)
(* identity of a call: the fields call below are history, never read.      *)
(*                                                                         *)
(* Of ble_central.c only what decides the answers is here; who owns the    *)
(* radio is the subject of BleCentral, calls on a link that of GattCalls,  *)
(* the boot handshake that of Bridge.                                      *)
(***************************************************************************)
EXTENDS Naturals, Sequences, SequencesExt

CONSTANTS
  Peer,
  MaxConn,      \* MAX_CONNECTIONS, 5
  None,
  MaxAttempts,  \* CONNECT_MAX_ATTEMPTS, 3
  QueueSize,    \* EVENT_QUEUE_SIZE, 32
  MaxCalls,     \* bounds: calls,
  MaxTroubles   \*   and resets, drops, refusals, links and commands of others

ASSUME ConnectCallsAssumption ==
  /\ None \notin Peer /\ None \notin Nat
  /\ MaxConn \in Nat \ {0} /\ MaxAttempts \in Nat \ {0} /\ QueueSize \in Nat \ {0}
  /\ MaxCalls \in Nat /\ MaxTroubles \in Nat

VARIABLES
  \* nRF52840
  slot,       \* connections[]: peer by handle
  dying,      \* handles that bt_conn_disconnect was called for
  creating,   \* peer of the host's connection attempt
  cycle,      \* the connect cycle while connect_pending, else NoCycle
  scanning,   \* None, or whose scan set the flag
  scanTimer,  \* scan_timeout_work is scheduled and the host scans
  cmd, work,  \* cmd_buf, and cmd_work submitted
  listing,    \* CMD_LIST_CONNECTIONS waits for its work item
  queue,
  \* driver
  conns, waiter, scanFrom,
  results,    \* scan_results: whose scans they are of
  asleep,     \* the connect call whose 100 ms sleep blocks the driver
  \* history
  calls,
  lossy,      \* an event was refused, or a link announced that had not settled
  excused,    \* calls that met a known way to lose an answer
  misled,     \* calls told of a link that is gone, or of another's scan
  troubles

nrf     == <<slot, dying, creating, cycle, scanning, scanTimer, work, cmd, listing>>
driver  == <<conns, waiter, scanFrom, results, asleep>>
history == <<calls, excused, misled>>
vars    == <<nrf, queue, driver, history, lossy, troubles>>

Slot    == 0 .. MaxConn - 1
NoLinks == [s \in Slot |-> None]
Free    == {s \in Slot : slot[s] = None}
Linked  == {slot[s] : s \in Slot} \ {None}
NoCycle == [stage |-> "none", target |-> None, attempts |-> 0, slot |-> None, call |-> None]
NoCmd   == [kind |-> "none", arg |-> None, call |-> None]

Waiting  == {n \in DOMAIN calls : calls[n].state = "waiting"}
Connects == {n \in Waiting : calls[n].kind = "connect"}
Scans    == {n \in Waiting : calls[n].kind = "scan"}

READY           == [kind |-> "ready",        slot |-> None, peer |-> None, call |-> None]
CONNECTED(s, p) == [kind |-> "connected",    slot |-> s,    peer |-> p,    call |-> None]
DISCONNECTED(s) == [kind |-> "disconnected", slot |-> s,    peer |-> None, call |-> None]
CMD_ERROR       == [kind |-> "cmd_error",    slot |-> None, peer |-> None, call |-> None]
SCAN_RESULT(n)  == [kind |-> "scan_result",  slot |-> None, peer |-> None, call |-> n]
SCAN_DONE(n)    == [kind |-> "scan_done",    slot |-> None, peer |-> None, call |-> n]

Init ==
  /\ slot \in [Slot -> Peer \cup {None}]
  /\ \A s, t \in Slot : s # t /\ slot[s] # None => slot[s] # slot[t]
  /\ dying = {} /\ creating = None /\ cycle = NoCycle
  /\ scanning = None /\ scanTimer = FALSE
  /\ cmd = NoCmd /\ work = FALSE /\ listing = FALSE
  /\ queue = <<>>
  /\ conns = slot
  /\ waiter = [p \in Peer |-> None] /\ scanFrom = None /\ results = {}
  /\ asleep = None
  /\ calls = <<>> /\ lossy = FALSE /\ excused = {} /\ misled = {}
  /\ troubles = 0

Trouble == troubles < MaxTroubles /\ troubles' = troubles + 1

-----------------------------------------------------------------------------
(* ESP32: making a call                                                     *)

\* A call is made, or answered.
Made(k, p, st) == calls' = Append(calls, [kind |-> k, peer |-> p, state |-> st])
Set(n, st)     == calls' = [calls EXCEPT ![n].state = st]

\* Calls whose command is in cmd_buf, not executed.
Unexecuted == IF work THEN {cmd.call} \ {None} ELSE {}

\* i2c:write_bytes to REG_CMD, over whatever cmd_buf holds.
WriteCmd(k, a, n) ==
  /\ cmd' = [kind |-> k, arg |-> a, call |-> n]
  /\ work' = TRUE
  /\ excused' = excused \cup Unexecuted

NewCall == Len(calls) < MaxCalls /\ asleep = None
New     == Len(calls) + 1

\* Mutant of ScanAllowed: myhome_scanner would not wait for its own call.
ScanAllowed_Always == TRUE

\* Only myhome_scanner scans, and it waits for the answer or the time-out.
ScanAllowed == Scans = {}

\* A scan of a caller that gave up can still run, or its events be queued.
ScanLeftOver ==
  \/ scanning # None \/ (work /\ cmd.kind = "scan")
  \/ \E i \in DOMAIN queue : queue[i].kind \in {"scan_result", "scan_done"}

\* handle_call({scan, Duration}, ...)
ScanCall ==
  /\ NewCall /\ ScanAllowed
  /\ Made("scan", None, "waiting")
  /\ cmd' = [kind |-> "scan", arg |-> None, call |-> New]
  /\ work' = TRUE
  /\ excused' = excused \cup Unexecuted \cup
       (IF ScanLeftOver /\ Scans = {} THEN {New} ELSE {})
  /\ scanFrom' = New /\ results' = {}
  /\ UNCHANGED <<slot, dying, creating, cycle, scanning, scanTimer, listing, queue,
                 conns, waiter, asleep, misled, lossy, troubles>>

\* The second half of handle_call({connect, ...}): the command and its waiter,
\* which replaces an earlier one of the same address.
Registered(p, n) ==
  /\ cmd' = [kind |-> "connect", arg |-> p, call |-> n]
  /\ work' = TRUE
  /\ excused' = excused \cup Unexecuted \cup ({waiter[p]} \ {None})
  /\ waiter' = [waiter EXCEPT ![p] = n]

\* The first half: an old link of the address is taken down and forgotten.  Nobody
\* looks whether that command was written.
ConnectCall(p) ==
  /\ NewCall
  /\ Made("connect", p, "waiting")
  /\ \/ \E h \in Slot :
          /\ conns[h] = p
          /\ conns' = [conns EXCEPT ![h] = None]
          /\ asleep' = New
          /\ \/ WriteCmd("disconnect", h, None) /\ UNCHANGED troubles
             \/ Trouble /\ UNCHANGED <<cmd, work, excused>>
          /\ UNCHANGED waiter
     \/ /\ \A h \in Slot : conns[h] # p
        /\ Registered(p, New)
        /\ UNCHANGED <<conns, asleep, troubles>>
  /\ UNCHANGED <<slot, dying, creating, cycle, scanning, scanTimer, listing, queue,
                 scanFrom, results, misled, lossy>>

\* timer:sleep(100) is over; the command can fail to be written, and the call.
ConnectWakes ==
  /\ asleep # None
  /\ asleep' = None
  /\ \/ Registered(calls[asleep].peer, asleep) /\ UNCHANGED <<calls, troubles>>
     \/ Trouble /\ Set(asleep, "error") /\ UNCHANGED <<cmd, work, waiter, excused>>
  /\ UNCHANGED <<slot, dying, creating, cycle, scanning, scanTimer, listing, queue,
                 conns, scanFrom, results, misled, lossy>>

\* handle_call({disconnect, Handle}, ...), answered at once, and the calls of
\* GattCalls, whose commands mean nothing here.
OtherCall(k, h) ==
  /\ asleep = None /\ Trouble
  /\ WriteCmd(k, h, None)
  /\ UNCHANGED <<slot, dying, creating, cycle, scanning, scanTimer, listing, queue,
                 driver, calls, misled, lossy>>

\* The command was not written: {error, _} at once.
FailedCall(k, p) ==
  /\ NewCall /\ Trouble
  /\ IF k = "scan" THEN ScanAllowed ELSE \A h \in Slot : conns[h] # p
  /\ Made(k, IF k = "scan" THEN None ELSE p, "error")
  /\ UNCHANGED <<nrf, queue, driver, excused, misled, lossy>>

\* safe_call times out, after 15 s or 30 s; the waiter stays.
GiveUp(n) ==
  /\ n \in Waiting
  /\ Set(n, "gone")
  /\ UNCHANGED <<nrf, queue, driver, excused, misled, lossy, troubles>>

-----------------------------------------------------------------------------
(* nRF52840                                                                 *)

\* Mutant of Push: no full check.
Push_Unbounded(e) == queue' = Append(queue, e) /\ UNCHANGED lossy

\* event_queue_push, refused when the queue is full: any answer can be lost.
Push(e) ==
  IF Len(queue) < QueueSize
    THEN queue' = Append(queue, e) /\ UNCHANGED lossy
    ELSE UNCHANGED queue /\ lossy' = TRUE

\* bt_conn_le_create as the host can grant it.
MayCreate(p) == creating = None /\ p \notin Linked /\ Free # {}

\* ble_central_scan_start.  An active scan is stopped, and its timer, without
\* a SCAN_DONE.  The host can refuse during a connection attempt.
ExecScan ==
  \/ /\ scanning' = cmd.call /\ scanTimer' = TRUE
     /\ excused' = excused \cup ({scanning} \ {None})
     /\ UNCHANGED troubles
  \/ /\ IF creating = None THEN Trouble ELSE UNCHANGED troubles
     /\ scanTimer' = FALSE
     /\ excused' = excused \cup {cmd.call} \cup ({scanning} \ {None})
     /\ UNCHANGED scanning

\* Mutant of ScanPreempted: the flag is cleared, nobody is told.
ScanPreempted_Silent ==
  /\ scanning' = None /\ scanTimer' = FALSE
  /\ UNCHANGED <<queue, lossy>>

\* ble_central_connect stops a scan, and says so.
ScanPreempted ==
  IF scanning # None
    THEN scanning' = None /\ scanTimer' = FALSE /\ Push(SCAN_DONE(scanning))
    ELSE UNCHANGED <<scanning, scanTimer, queue, lossy>>

\* The rest of ble_central_connect: the cycle before it is dropped without a
\* word; a refused attempt is an error that only REG_CMD_STATUS shows.
ExecConnect(p) ==
  /\ ScanPreempted
  /\ \/ /\ MayCreate(p)
        /\ creating' = p
        /\ cycle' = [stage |-> "creating", target |-> p, attempts |-> 1,
                     slot |-> None, call |-> cmd.call]
        /\ excused' = excused \cup ({cycle.call} \ {None})
        /\ UNCHANGED troubles
     \/ /\ IF MayCreate(p) THEN Trouble ELSE UNCHANGED troubles
        /\ cycle' = NoCycle
        /\ excused' = excused \cup {cmd.call} \cup ({cycle.call} \ {None})
        /\ UNCHANGED creating

\* cmd_work_handler, in one step; that cmd_buf can be written while it reads is in
\* GattCalls.
CmdExec ==
  /\ work
  /\ work' = FALSE
  /\ \/ /\ cmd.kind = "scan" /\ ExecScan
        /\ UNCHANGED <<dying, creating, cycle, queue, lossy>>
     \/ /\ cmd.kind = "connect" /\ ExecConnect(cmd.arg)
        /\ UNCHANGED dying
     \/ /\ cmd.kind = "disconnect"
        /\ dying' = IF slot[cmd.arg] # None THEN dying \cup {cmd.arg} ELSE dying
        /\ UNCHANGED <<creating, cycle, scanning, scanTimer, queue, lossy, excused, troubles>>
     \/ /\ cmd.kind = "other"
        /\ UNCHANGED <<dying, creating, cycle, scanning, scanTimer, queue, lossy,
                       excused, troubles>>
  /\ UNCHANGED <<slot, cmd, listing, driver, calls, misled>>

\* CMD_LIST_CONNECTIONS, asked for after a reset.  A link that has not settled
\* is announced too, and its end will be told as a CMD_ERROR only.
ListConnections ==
  /\ listing
  /\ listing' = FALSE
  /\ LET up == SetToSeq({s \in Slot : slot[s] # None})
         es == [i \in DOMAIN up |-> CONNECTED(up[i], slot[up[i]])]
         room == QueueSize - Len(queue)
     IN  /\ queue' = queue \o SubSeq(es, 1, IF room < Len(es) THEN room ELSE Len(es))
         /\ lossy' = (lossy \/ room < Len(es) \/ cycle.stage = "settling")
  /\ UNCHANGED <<slot, dying, creating, cycle, scanning, scanTimer, cmd, work,
                 driver, history, troubles>>

\* autoconnect_on_advert
AutoConnect(p) ==
  /\ scanning = None /\ cycle = NoCycle /\ MayCreate(p)
  /\ Trouble
  /\ creating' = p
  /\ UNCHANGED <<slot, dying, cycle, scanning, scanTimer, cmd, work, listing, queue,
                 driver, history, lossy>>

\* connected_cb.  In a cycle the link has to settle before it is reported.
Connected ==
  /\ creating # None
  /\ creating' = None
  /\ \E s \in Free :
       /\ \A t \in Free : s <= t
       /\ slot' = [slot EXCEPT ![s] = creating]
       /\ IF cycle # NoCycle
            THEN /\ cycle' = [cycle EXCEPT !.stage = "settling", !.slot = s]
                 /\ UNCHANGED <<queue, lossy>>
            ELSE Push(CONNECTED(s, creating)) /\ UNCHANGED cycle
  /\ UNCHANGED <<dying, scanning, scanTimer, cmd, work, listing, driver, history, troubles>>

\* The cycle ends in an error event: of one byte, which the driver's clause for
\* EVT_CMD_ERROR, of two, does not match.
CycleFails ==
  /\ cycle' = NoCycle
  /\ Push(CMD_ERROR)
  /\ excused' = excused \cup ({cycle.call} \ {None})

\* connected_cb with an error.  Without a cycle it is silent, which a background
\* attempt is; one left over from a cycle that was refused pushes a CMD_ERROR, which
\* answers nobody (below) and here does not take its place in the queue.
ConnectFails ==
  /\ creating # None
  /\ creating' = None
  /\ IF cycle # NoCycle THEN CycleFails ELSE UNCHANGED <<cycle, queue, lossy, excused>>
  /\ UNCHANGED <<slot, dying, scanning, scanTimer, cmd, work, listing, driver,
                 calls, misled, troubles>>

\* connect_settle_handler, and settle_now
Settles ==
  /\ cycle.stage = "settling"
  /\ Push(CONNECTED(cycle.slot, slot[cycle.slot]))
  /\ cycle' = NoCycle
  /\ UNCHANGED <<slot, dying, creating, scanning, scanTimer, cmd, work, listing,
                 driver, history, troubles>>

\* Mutant of Unsettled: any link that drops during a cycle counts as its own.
Unsettled_AnyLink(s) == cycle # NoCycle

\* was_settling
Unsettled(s) == cycle.stage = "settling" /\ cycle.slot = s

\* disconnected_cb.  A link that drops before it has settled is tried again, for
\* reason 0x3e and while attempts are left, or ends the cycle.
LinkDown(s) ==
  /\ slot[s] # None
  /\ IF s \in dying \/ Unsettled(s) THEN UNCHANGED troubles ELSE Trouble
  /\ slot' = [slot EXCEPT ![s] = None]
  /\ dying' = dying \ {s}
  /\ \/ /\ ~Unsettled(s)
        /\ Push(DISCONNECTED(s))
        /\ UNCHANGED <<cycle, excused>>
     \/ /\ Unsettled(s)
        /\ CycleFails
     \/ /\ Unsettled(s) /\ cycle.attempts < MaxAttempts
        /\ cycle' = [cycle EXCEPT !.stage = "retry", !.slot = None]
        /\ UNCHANGED <<queue, lossy, excused>>
  /\ UNCHANGED <<creating, scanning, scanTimer, cmd, work, listing, driver, calls, misled>>

\* connect_retry_handler
Retry ==
  /\ cycle.stage = "retry"
  /\ \/ /\ MayCreate(cycle.target)
        /\ creating' = cycle.target
        /\ cycle' = [cycle EXCEPT !.stage = "creating", !.attempts = @ + 1]
        /\ UNCHANGED <<queue, lossy, excused, troubles>>
     \/ /\ IF MayCreate(cycle.target) THEN Trouble ELSE UNCHANGED troubles
        /\ CycleFails
        /\ UNCHANGED creating
  /\ UNCHANGED <<slot, dying, scanning, scanTimer, cmd, work, listing, driver, calls, misled>>

\* scan_recv_cb in a discovery scan; one advert of each scan is enough.
Advert ==
  /\ scanTimer
  /\ \A i \in DOMAIN queue : queue[i] # SCAN_RESULT(scanning)
  /\ Push(SCAN_RESULT(scanning))
  /\ UNCHANGED <<nrf, driver, history, troubles>>

\* scan_timeout_handler
ScanTimeout ==
  /\ scanTimer
  /\ scanTimer' = FALSE /\ scanning' = None
  /\ Push(SCAN_DONE(scanning))
  /\ UNCHANGED <<slot, dying, creating, cycle, cmd, work, listing, driver, history, troubles>>

\* Watchdog, crash or RST: everything but the bonds is gone.
Reset ==
  /\ Trouble
  /\ slot' = NoLinks /\ dying' = {} /\ creating' = None /\ cycle' = NoCycle
  /\ scanning' = None /\ scanTimer' = FALSE
  /\ cmd' = NoCmd /\ work' = FALSE /\ listing' = FALSE
  /\ queue' = <<READY>>
  /\ excused' = excused \cup Waiting
  /\ UNCHANGED <<driver, calls, misled, lossy>>

-----------------------------------------------------------------------------
(* ESP32: handle_event                                                      *)

Rest == Tail(queue)

\* The end of handle h, or of everything, is among the events still to come.
EndsIn(es, h) == \E i \in DOMAIN es : es[i] \in {DISCONNECTED(h), READY}

OnReady ==
  /\ conns' = NoLinks /\ listing' = TRUE
  /\ UNCHANGED <<waiter, scanFrom, results, calls, misled>>

\* Any CONNECTED of an address answers whoever waits for it.
OnConnected(h, p) ==
  /\ conns' = [conns EXCEPT ![h] = p]
  /\ waiter' = [waiter EXCEPT ![p] = None]
  /\ IF waiter[p] \in Waiting
       THEN /\ Set(waiter[p], "ok")
            /\ misled' = IF slot[h] = p \/ EndsIn(Rest, h) THEN misled
                                                          ELSE misled \cup {waiter[p]}
       ELSE UNCHANGED <<calls, misled>>
  /\ UNCHANGED <<scanFrom, results, listing>>

OnDisconnected(h) ==
  /\ conns' = [conns EXCEPT ![h] = None]
  /\ UNCHANGED <<waiter, scanFrom, results, listing, calls, misled>>

OnScanResult(n) ==
  /\ results' = results \cup {n}
  /\ UNCHANGED <<conns, waiter, scanFrom, listing, calls, misled>>

\* Any SCAN_DONE answers scan_from with what has been collected.
OnScanDone(n) ==
  /\ scanFrom' = None /\ results' = {}
  /\ IF scanFrom \in Waiting
       THEN /\ Set(scanFrom, "ok")
            /\ misled' = IF n = scanFrom /\ results \subseteq {n} THEN misled
                                                                ELSE misled \cup {scanFrom}
       ELSE UNCHANGED <<calls, misled>>
  /\ UNCHANGED <<conns, waiter, listing>>

\* The catch-all clause, see CycleFails.
OnCmdError == UNCHANGED <<conns, waiter, scanFrom, results, listing, calls, misled>>

Drain ==
  /\ queue # <<>> /\ asleep = None
  /\ queue' = Rest
  /\ LET e == Head(queue)
     IN  \/ e.kind = "ready"        /\ OnReady
         \/ e.kind = "connected"    /\ OnConnected(e.slot, e.peer)
         \/ e.kind = "disconnected" /\ OnDisconnected(e.slot)
         \/ e.kind = "scan_result"  /\ OnScanResult(e.call)
         \/ e.kind = "scan_done"    /\ OnScanDone(e.call)
         \/ e.kind = "cmd_error"    /\ OnCmdError
  /\ UNCHANGED <<slot, dying, creating, cycle, scanning, scanTimer, cmd, work,
                 asleep, excused, lossy, troubles>>

-----------------------------------------------------------------------------

Esp ==
  \/ ScanCall \/ ConnectWakes \/ Drain
  \/ \E p \in Peer : ConnectCall(p)
  \/ \E h \in Slot, k \in {"disconnect", "other"} : OtherCall(k, h)
  \/ \E k \in {"scan", "connect"}, p \in Peer : FailedCall(k, p)
  \/ \E n \in Waiting : GiveUp(n)

Nrf ==
  \/ CmdExec \/ ListConnections \/ Connected \/ ConnectFails \/ Settles \/ Retry
  \/ Advert \/ ScanTimeout \/ Reset
  \/ \E p \in Peer : AutoConnect(p)
  \/ \E s \in Slot : LinkDown(s)

Next == Esp \/ Nrf

Spec == Init /\ [][Next]_vars

-----------------------------------------------------------------------------
(* Properties                                                               *)

\* Every variable has its type: handles are table indices, at most one cycle,
\* at most one waiter per address, the queue within its array.
TypeOK ==
  /\ slot \in [Slot -> Peer \cup {None}] /\ dying \subseteq Slot
  /\ creating \in Peer \cup {None}
  /\ cycle.stage \in {"none", "creating", "settling", "retry"}
  /\ cycle.attempts \in 0 .. MaxAttempts
  /\ scanTimer \in BOOLEAN /\ work \in BOOLEAN /\ listing \in BOOLEAN
  /\ cmd.kind \in {"none", "scan", "connect", "disconnect", "other"}
  /\ Len(queue) <= QueueSize
  /\ conns \in [Slot -> Peer \cup {None}]
  /\ waiter \in [Peer -> 1 .. MaxCalls \cup {None}]
  /\ scanFrom \in 1 .. MaxCalls \cup {None}
  /\ results \subseteq 1 .. MaxCalls
  /\ asleep \in 1 .. MaxCalls \cup {None}
  /\ excused \subseteq 1 .. MaxCalls /\ misled \subseteq 1 .. MaxCalls

\* A connect or scan call that waits has something that will answer it: its own
\* sleep, its command, its cycle or scan, or the event in the queue.  The ways to
\* lose it are those of excused: a command or waiter written over, a cycle or a
\* scan restarted, refused by the host, failed (CMD_ERROR is not understood) or
\* reset, a full queue.
WaiterBacked ==
  ~lossy =>
    /\ \A n \in Connects \ excused :
         \/ asleep = n \/ (work /\ cmd.call = n)
         \/ waiter[calls[n].peer] = n /\
              \/ cycle.call = n
              \/ \E i \in DOMAIN queue :
                   queue[i].kind = "connected" /\ queue[i].peer = calls[n].peer
    /\ \A n \in Scans \ excused :
         scanFrom = n /\
           \/ work /\ cmd.call = n
           \/ scanTimer /\ scanning = n
           \/ \E i \in DOMAIN queue : queue[i].kind = "scan_done"

\* Whoever is told of a link by connect has it, although any CONNECTED of the
\* address answers it, or the driver is still to hear of its end.  Excepted (lossy) are
\* histories in which an event was refused, or a list command announced a link in
\* its settle window, which may drop with no word but CMD_ERROR.
AnsweredLink ==
  ~lossy => \A n \in misled : calls[n].kind # "connect"

\* A scan is answered by its own end and with its own results, whatever connects
\* pre-empt it, unless it follows one whose caller gave up.
HonestScan ==
  ~lossy => \A n \in misled : calls[n].kind = "scan" => n \in excused

\* EVT_CMD_ERROR fails any pending connect waiters (myhome_ble_i2c.erl:637).
CmdErrorFailsWaiters ==
  [][(queue # <<>> /\ Head(queue) = CMD_ERROR /\ queue' = Rest) => waiter' = [p \in Peer |-> None]]_vars
=============================================================================
