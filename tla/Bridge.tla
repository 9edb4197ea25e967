------------------------------- MODULE Bridge -------------------------------
(***************************************************************************)
(* The two chips as one system: who is up, who believes what of the other. *)
(*                                                                         *)
(* The nRF52840 (main.c) announces READY once per boot, keeps links to the *)
(* bulbs and reboots itself when no PING has come for WDT_TIMEOUT_SEC.     *)
(* The ESP32 (myhome_ble_i2c.erl) polls for READY once a second until it   *)
(* has seen it, then pings every ten seconds and follows the nRF's links   *)
(* by CONNECTED and DISCONNECTED events and the list command.              *)
(*                                                                         *)
(* The event path is a queue of events here, drained one event at a time;  *)
(* EventLink shows what stands behind that.  Links come and go by          *)
(* themselves; BleCentral shows how.  Transfers work: a ping or list       *)
(* command that is not written, and a read that fails after the pop and    *)
(* loses its event, are excepted from all that is said here; EventLink has *)
(* the second.                                                             *)
(*                                                                         *)
(* Time passes in periods of ten seconds: within one, each ping timer      *)
(* fires exactly once, each check_ready timer at least once, and a chip    *)
(* that reboots is back.                                                   *)
(***************************************************************************)
EXTENDS Naturals, Sequences, SequencesExt

CONSTANTS
  Peer,           \* bulbs
  MaxConn,        \* MAX_CONNECTIONS, 5
  None,
  QueueSize,      \* EVENT_QUEUE_SIZE, 32
  Wdt,            \* WDT_TIMEOUT_SEC in periods, 3
  MaxLinkEvents,  \* bounds: links that come up or go down,
  MaxResets,      \*   nRF resets from outside (power, RST pin),
  MaxRestarts,    \*   ESP32 restarts,
  MaxCasts        \*   reset_xiao requests

ASSUME BridgeAssumption ==
  /\ MaxConn \in Nat \ {0} /\ QueueSize \in Nat \ {0}
  /\ Wdt \in Nat /\ Wdt > 2
  /\ None \notin Peer
  /\ MaxLinkEvents \in Nat /\ MaxResets \in Nat
  /\ MaxRestarts \in Nat /\ MaxCasts \in Nat

VARIABLES
  \* nRF52840
  up,          \* it runs, and has queued READY
  queue,       \* events not yet drained
  links,       \* connections[], by handle
  listing,     \* CMD_LIST_CONNECTIONS waits for its work item
  sincePing,   \* periods since the last PING
  \* ESP32
  ready,
  conns,       \* #state.connections
  checks,      \* check_ready timers set
  checkDue,    \* those that have not fired in this period
  pings,       \* do_ping timers set
  pingDue,     \* those that have not fired in this period
  \* history
  overflowed,  \* an event was refused by a full queue since the last boot
  rebooted,    \* the watchdog has fired
  linkEvents, resets, restarts, casts

nrf   == <<up, queue, links, listing, sincePing>>
esp   == <<ready, conns, checks, checkDue, pings, pingDue>>
bound == <<linkEvents, resets, restarts, casts>>
vars  == <<nrf, esp, overflowed, rebooted, bound>>

Slot    == 0 .. MaxConn - 1
NoLinks == [s \in Slot |-> None]
Free    == {s \in Slot : links[s] = None}

READY              == <<"READY">>
CONNECTED(s, p)    == <<"CONNECTED", s, p>>
DISCONNECTED(s)    == <<"DISCONNECTED", s>>
Event == {READY} \cup {CONNECTED(s, p) : s \in Slot, p \in Peer}
                 \cup {DISCONNECTED(s) : s \in Slot}

Init ==
  /\ up = TRUE /\ queue = <<READY>>
  /\ links = NoLinks /\ listing = FALSE /\ sincePing = 0
  /\ ready = FALSE /\ conns = NoLinks
  /\ checks = 1 /\ checkDue = 0 /\ pings = 0 /\ pingDue = 0
  /\ overflowed = FALSE /\ rebooted = FALSE
  /\ linkEvents = 0 /\ resets = 0 /\ restarts = 0 /\ casts = 0

-----------------------------------------------------------------------------
(* nRF52840                                                                 *)

\* Mutant of Push: no full check.
Push_Unbounded(es) ==
  /\ queue' = queue \o es
  /\ UNCHANGED overflowed

\* event_queue_push of the events es, one after the other: those that do not
\* fit are refused.
Push(es) ==
  LET room == QueueSize - Len(queue)
  IN  /\ queue' = queue \o SubSeq(es, 1, IF room < Len(es) THEN room ELSE Len(es))
      /\ overflowed' = (overflowed \/ room < Len(es))

\* A bonded bulb is connected: report_connected with the first free handle.
LinkUp(p) ==
  /\ up
  /\ linkEvents < MaxLinkEvents
  /\ linkEvents' = linkEvents + 1
  /\ \A s \in Slot : links[s] # p
  /\ \E s \in Free :
       /\ \A t \in Free : s <= t
       /\ links' = [links EXCEPT ![s] = p]
       /\ Push(<<CONNECTED(s, p)>>)
  /\ UNCHANGED <<up, listing, sincePing, esp, rebooted, resets, restarts, casts>>

\* disconnected_cb
LinkDown(s) ==
  /\ up
  /\ linkEvents < MaxLinkEvents
  /\ linkEvents' = linkEvents + 1
  /\ links[s] # None
  /\ links' = [links EXCEPT ![s] = None]
  /\ Push(<<DISCONNECTED(s)>>)
  /\ UNCHANGED <<up, listing, sincePing, esp, rebooted, resets, restarts, casts>>

\* ble_central_report_connections
ReportConnections ==
  /\ up
  /\ listing
  /\ listing' = FALSE
  /\ \E live \in SetToSeqs(Slot \ Free) :
       /\ \A i, j \in DOMAIN live : i < j => live[i] < live[j]
       /\ Push([i \in 1 .. Len(live) |-> CONNECTED(live[i], links[live[i]])])
  /\ UNCHANGED <<up, links, sincePing, esp, rebooted, bound>>

\* A reboot closes every link and empties the queue.
GoDown ==
  /\ up' = FALSE
  /\ queue' = <<>>
  /\ links' = NoLinks
  /\ listing' = FALSE
  /\ sincePing' = 0
  /\ overflowed' = FALSE

\* main(), up to the READY event and the first last_ping_time.
Boot ==
  /\ ~up
  /\ up' = TRUE
  /\ queue' = <<READY>>
  /\ UNCHANGED <<links, listing, sincePing, esp, overflowed, rebooted, bound>>

Reset ==
  /\ up
  /\ resets < MaxResets
  /\ resets' = resets + 1
  /\ GoDown
  /\ UNCHANGED <<esp, rebooted, linkEvents, restarts, casts>>

\* The watchdog of the main loop: more than Wdt periods may have passed.
Watchdog ==
  /\ up
  /\ sincePing >= Wdt
  /\ GoDown
  /\ rebooted' = TRUE
  /\ UNCHANGED <<esp, bound>>

-----------------------------------------------------------------------------
(* ESP32                                                                    *)

\* Mutant of OnReady: a second READY is handled like the first.
OnReady_First ==
  /\ ready' = TRUE
  /\ UNCHANGED <<conns, listing>>

\* handle_event(EVT_READY): a READY while operational means that the nRF has
\* lost its links.
OnReady ==
  IF ready
  THEN /\ conns' = NoLinks
       /\ listing' = up
       /\ UNCHANGED ready
  ELSE /\ ready' = TRUE
       /\ UNCHANGED <<conns, listing>>

\* One event of drain_events and what handle_event makes of it.
HandleEvent ==
  /\ queue # <<>>
  /\ queue' = Tail(queue)
  /\ LET e == Head(queue)
     IN  \/ /\ e[1] = "READY"
            /\ OnReady
         \/ /\ e[1] = "CONNECTED"
            /\ conns' = [conns EXCEPT ![e[2]] = e[3]]
            /\ UNCHANGED <<ready, listing>>
         \/ /\ e[1] = "DISCONNECTED"
            /\ conns' = [conns EXCEPT ![e[2]] = None]
            /\ UNCHANGED <<ready, listing>>
  /\ UNCHANGED <<up, links, sincePing, checks, checkDue, pings, pingDue,
                 overflowed, rebooted, bound>>

Fired(n) == IF n = 0 THEN 0 ELSE n - 1

\* Mutants of CheckReady: it stops polling before READY has come; it goes on
\* polling afterwards.
CheckReady_GivesUp ==
  /\ checks > 0 /\ queue = <<>>
  /\ checkDue' = Fired(checkDue)
  /\ checks' = checks - 1
  /\ pings' = IF ready THEN pings + 1 ELSE pings
  /\ listing' = (listing \/ (ready /\ up))
  /\ UNCHANGED <<up, queue, links, sincePing, ready, conns, pingDue,
                 overflowed, rebooted, bound>>
CheckReady_KeepsPolling ==
  /\ checks > 0 /\ queue = <<>>
  /\ checkDue' = Fired(checkDue)
  /\ pings' = IF ready THEN pings + 1 ELSE pings
  /\ pings < 3
  /\ listing' = (listing \/ (ready /\ up))
  /\ UNCHANGED <<up, queue, links, sincePing, ready, conns, checks, pingDue,
                 overflowed, rebooted, bound>>

\* handle_info(check_ready), after its drain: operational, or once more.
CheckReady ==
  /\ checks > 0
  /\ queue = <<>>
  /\ checkDue' = Fired(checkDue)
  /\ IF ready
     THEN /\ checks' = checks - 1
          /\ pings' = pings + 1
          /\ listing' = (listing \/ up)
     ELSE UNCHANGED <<checks, pings, listing>>
  /\ UNCHANGED <<up, queue, links, sincePing, ready, conns, pingDue,
                 overflowed, rebooted, bound>>

\* Mutant of DoPing: the timer is not set again.
DoPing_Once ==
  /\ pingDue > 0
  /\ pingDue' = pingDue - 1
  /\ pings' = pings - 1
  /\ sincePing' = 0
  /\ UNCHANGED <<up, queue, links, listing, ready, conns, checks, checkDue,
                 overflowed, rebooted, bound>>

\* handle_info(do_ping).  A PING that reaches a running nRF feeds the
\* watchdog; its PONG carries nothing that is modelled.
DoPing ==
  /\ pingDue > 0
  /\ pingDue' = pingDue - 1
  /\ sincePing' = 0
  /\ UNCHANGED <<up, queue, links, listing, ready, conns, checks, checkDue,
                 pings, overflowed, rebooted, bound>>

\* handle_cast(reset_xiao): the RST pin reboots the nRF.
ResetXiao ==
  /\ casts < MaxCasts
  /\ casts' = casts + 1
  /\ GoDown
  /\ ready' = FALSE
  /\ checks' = checks + 1
  /\ UNCHANGED <<conns, checkDue, pings, pingDue, rebooted, linkEvents,
                 resets, restarts>>

\* The ESP32 reboots, or the gen_server is restarted: init.
EspRestart ==
  /\ restarts < MaxRestarts
  /\ restarts' = restarts + 1
  /\ ready' = FALSE
  /\ conns' = NoLinks
  /\ checks' = 1 /\ checkDue' = 0
  /\ pings' = 0 /\ pingDue' = 0
  /\ UNCHANGED <<nrf, overflowed, rebooted, linkEvents, resets, casts>>

\* Ten seconds pass; nothing that takes milliseconds is left to do.
Period ==
  /\ up
  /\ queue = <<>> /\ ~listing
  /\ pingDue = 0 /\ checkDue = 0
  /\ sincePing <= Wdt
  /\ sincePing' = sincePing + 1
  /\ pingDue' = pings
  /\ checkDue' = checks
  /\ UNCHANGED <<up, queue, links, listing, ready, conns, checks, pings,
                 overflowed, rebooted, bound>>

Nrf ==
  \/ \E p \in Peer : LinkUp(p)
  \/ \E s \in Slot : LinkDown(s)
  \/ ReportConnections
  \/ Boot
  \/ Reset
  \/ Watchdog

Esp ==
  \/ HandleEvent
  \/ CheckReady
  \/ DoPing
  \/ ResetXiao
  \/ EspRestart

Next == Nrf \/ Esp \/ Period

Spec == Init /\ [][Next]_vars

\* Time passes, timers fire, queued events are drained, work items run and
\* the nRF boots.  Nothing makes a chip fail or a link change.
Fairness ==
  /\ WF_vars(Period)
  /\ WF_vars(Boot)
  /\ WF_vars(Watchdog)
  /\ WF_vars(ReportConnections)
  /\ WF_vars(HandleEvent)
  /\ WF_vars(CheckReady)
  /\ WF_vars(DoPing)

FairSpec == Spec /\ Fairness
-----------------------------------------------------------------------------
(* Properties                                                               *)

\* Every variable stays in its range.
TypeOK ==
  /\ up \in BOOLEAN /\ listing \in BOOLEAN /\ ready \in BOOLEAN
  /\ overflowed \in BOOLEAN /\ rebooted \in BOOLEAN
  /\ queue \in Seq(Event) /\ Len(queue) <= QueueSize
  /\ links \in [Slot -> Peer \cup {None}] /\ conns \in [Slot -> Peer \cup {None}]
  /\ sincePing \in 0 .. Wdt + 1
  /\ checks \in Nat /\ pings \in Nat
  /\ checkDue \in 0 .. checks /\ pingDue \in 0 .. pings
  /\ linkEvents \in Nat /\ resets \in Nat /\ restarts \in Nat /\ casts \in Nat

\* The driver's timers form one chain that never ends and never forks: it
\* polls for READY or it pings.  Only a reset_xiao starts another chain
\* (do_reset sets a check_ready timer although the ping timer is running).
OneChain == checks + pings >= 1 /\ checks + pings <= 1 + casts

\* A running ESP32 keeps the nRF alive: whatever resets the nRF suffers, and
\* however READY and the first ping fall, the watchdog fires only after a
\* restart of the ESP32; as long as I2C transfers work, since the loss of READY in a
\* read that fails, or of pings that are not written, would end in a reboot.
NoSpuriousReboot == restarts = 0 => ~rebooted

\* The inductive invariant behind the two properties above.  Before the first
\* restart a running nRF has READY on its way or has been heard; the first
\* ping comes within two periods of a boot, every other one within the next
\* period.
TimersOK ==
  /\ checks \in Nat /\ pings \in Nat /\ sincePing \in Nat
  /\ casts \in Nat /\ restarts \in Nat
  /\ checkDue \in 0 .. checks /\ pingDue \in 0 .. pings
  /\ ready \in BOOLEAN
AliveInv ==
  /\ TimersOK
  /\ OneChain
  /\ NoSpuriousReboot
  /\ ~up => sincePing = 0 /\ queue = <<>>
  /\ restarts = 0 =>
       /\ listing => ready
       /\ up /\ ~ready =>
            queue \in Seq(Event) /\ queue # <<>> /\ Head(queue) = READY
       /\ pings = 0 /\ sincePing > 0 =>
            ready /\ sincePing = 1 /\ checkDue = checks
       /\ pings > 0 => sincePing <= IF pingDue = 0 THEN 1 ELSE 2

\* Event e changes what the driver has on record of handle h: READY, of all handles.
About(e, h) == e \in {READY, DISCONNECTED(h)} \cup {CONNECTED(h, p) : p \in Peer}

\* Event e, which is about handle h, says that v has it.
Says(e, h, v) == IF v = None THEN e \in {READY, DISCONNECTED(h)} ELSE e = CONNECTED(h, v)

\* The last word on handle h, an event of q or else the record c, is that v has it.
LastWord(q, c, h, v) ==
  \E i \in 0 .. Len(q) :
    /\ IF i = 0 THEN c[h] = v ELSE Says(q[i], h, v)
    /\ \A j \in i + 1 .. Len(q) : ~About(q[j], h)

\* The events on their way always lead the driver's view to the nRF's links,
\* across resets of the nRF (which lose events and links alike), list
\* commands that overlap link changes, and reused handles.  Excepted are a
\* full queue, the cases in which READY finds ready = false although the driver
\* has links on record, and events lost by a transfer that fails (none does here).
ViewFollows ==
  up /\ ~overflowed /\ restarts = 0 /\ casts = 0
    => \A h \in Slot : LastWord(queue, conns, h, links[h])

Operational == up /\ ready /\ pings > 0

\* After any number of resets and restarts the two chips get back to work by
\* themselves, and stay there: the watchdog brings READY back when the ESP32
\* alone has restarted.
EventuallyOperational == <>[]Operational
=============================================================================
