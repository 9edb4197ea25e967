------------------------------- MODULE HueBulb -------------------------------
(***************************************************************************)
(* What a bulb process believes of its own link.                           *)
(*                                                                         *)
(* Links of the nRF52840 come and go by themselves.  News of them travels  *)
(* through queues: the nRF's event queue, drained by the driver            *)
(* (myhome_ble_i2c.erl), which keeps its own view and publishes; and the   *)
(* mailboxes of the event bus (myhome_event_bus.erl) and of the bulb       *)
(* process (myhome_hue_ble.erl), which reads only between handlers that    *)
(* can block for seconds in GATT calls.  The bus relays in order, so the   *)
(* two mailboxes are one here.  One message overtakes them: a bulb that    *)
(* has just subscribed asks the driver for its view.                       *)
(*                                                                         *)
(* Handles are indices of a table and are used again at once, by any peer. *)
(* The model has one bulb process, that of Me; other peers are only links. *)
(* GATT calls only take time, so a handler that makes some is one that     *)
(* stays long before the next message: what they read or write, and the    *)
(* commands, heartbeats and retried reads that do nothing else (they use   *)
(* the handle the bulb has, while connected), are left out.                *)
(***************************************************************************)
EXTENDS Naturals, Sequences, SequencesExt

CONSTANTS
  Peer, Me,       \* bulbs, and the one whose process is modelled
  MaxConn,        \* MAX_CONNECTIONS, 5
  None,
  QueueSize,      \* EVENT_QUEUE_SIZE, 32
  MaxLinks,       \* bound: links that come up
  MaxTroubles     \* bound: resets, restarts, crashes, failed calls, unpairings

ASSUME HueBulbAssumption ==
  /\ Me \in Peer /\ None \notin Peer /\ None \notin Nat
  /\ MaxConn \in Nat \ {0} /\ QueueSize \in Nat \ {0}
  /\ MaxLinks \in Nat /\ MaxTroubles \in Nat

VARIABLES
  \* nRF52840
  slot, enc,     \* connections[]: peer, and bonded, by handle
  queue,         \* events not yet drained
  listing,       \* CMD_LIST_CONNECTIONS waits for its work item
  cmds,          \* other commands that wait for theirs
  \* driver
  ready, checking,
  conns, encd,   \* #state.connections, #state.encrypted
  \* bulb process
  phase,         \* "starting", "init" (subscribed), "idle" (between two handlers)
  box,           \* what waits in the mailboxes of the bus and of the bulb
  handle, connected,
  \* history
  lossy,         \* the driver's view can differ from the nRF's until the next boot
  missed,        \* the bulb had no chance to learn of its present link
  links, troubles

nrf    == <<slot, enc, queue, listing, cmds>>
driver == <<ready, checking, conns, encd>>
bulb   == <<phase, box, handle, connected>>
bound  == <<links, troubles>>
vars   == <<nrf, driver, bulb, lossy, missed, bound>>

Slot    == 0 .. MaxConn - 1
NoLinks == [s \in Slot |-> None]
Free    == {s \in Slot : slot[s] = None}

READY           == <<"ready">>
CONNECTED(s, p) == <<"connected", s, p>>
ENC(s)          == <<"enc", s>>
DISCONNECTED(s) == <<"disconnected", s>>
RECONCILE       == <<"reconcile">>
UNPAIR          == <<"unpair">>

Init ==
  /\ slot = NoLinks /\ enc = {} /\ queue = <<READY>>
  /\ listing = FALSE /\ cmds = <<>>
  /\ ready = FALSE /\ checking = TRUE /\ conns = NoLinks /\ encd = {}
  /\ phase = "starting" /\ box = <<>>
  /\ handle = None /\ connected = FALSE
  /\ lossy = FALSE /\ missed = FALSE
  /\ links = 0 /\ troubles = 0

NewLink == links < MaxLinks /\ links' = links + 1
Trouble == troubles < MaxTroubles /\ troubles' = troubles + 1

-----------------------------------------------------------------------------
(* nRF52840                                                                 *)

\* Mutant of Push: no full check.
Push_Unbounded(es) == queue' = queue \o es /\ UNCHANGED lossy

\* event_queue_push of the events es; those that do not fit are refused.
Push(es) ==
  LET room == QueueSize - Len(queue)
  IN  /\ queue' = queue \o SubSeq(es, 1, IF room < Len(es) THEN room ELSE Len(es))
      /\ lossy' = (lossy \/ room < Len(es))

\* connected_cb, and report_connected where the link has settled
LinkUp(p) ==
  /\ NewLink
  /\ \A s \in Slot : slot[s] # p
  /\ \E s \in Free :
       /\ \A t \in Free : s <= t
       /\ slot' = [slot EXCEPT ![s] = p]
       /\ Push(<<CONNECTED(s, p)>>)
  /\ UNCHANGED <<enc, listing, cmds, driver, bulb, missed,
                 troubles>>

\* security_changed_cb
Encrypted(s) ==
  /\ slot[s] # None /\ s \notin enc
  /\ enc' = enc \cup {s}
  /\ Push(<<ENC(s)>>)
  /\ UNCHANGED <<slot, listing, cmds, driver, bulb, missed, bound>>

\* disconnected_cb
Dropped(ss) ==
  /\ slot' = [s \in Slot |-> IF s \in ss THEN None ELSE slot[s]]
  /\ enc' = enc \ ss
  /\ Push([i \in 1 .. Len(SetToSeq(ss)) |-> DISCONNECTED(SetToSeq(ss)[i])])

LinkDown(s) ==
  /\ slot[s] # None
  /\ Dropped({s})
  /\ UNCHANGED <<listing, cmds, driver, bulb, missed, bound>>

\* By handle, and CONNECTED before ENC_CHANGE
InOrder(news) ==
  \A i, j \in DOMAIN news :
    i < j => /\ news[i][2] <= news[j][2]
             /\ news[i][2] = news[j][2] => news[j][1] = "enc"

\* ble_central_report_connections: an encrypted link is announced with its ENC_CHANGE.
ReportConnections ==
  /\ listing
  /\ listing' = FALSE
  /\ \E news \in SetToSeqs({CONNECTED(s, slot[s]) : s \in Slot \ Free}
                            \cup {ENC(s) : s \in enc}) :
       InOrder(news) /\ Push(news)
  /\ UNCHANGED <<slot, enc, cmds, driver, bulb, missed, bound>>

\* ble_central_disconnect, ble_central_unpair: the host drops the link, if any.
CmdExec ==
  /\ cmds # <<>>
  /\ cmds' = Tail(cmds)
  /\ Dropped({s \in Slot : /\ slot[s] # None
                           /\ Head(cmds) \in {<<"disconnect", s>>, <<"unpair", slot[s]>>}})
  /\ UNCHANGED <<listing, driver, bulb, missed, bound>>

\* The nRF reboots (power, RST pin, watchdog) up to its READY event.
Reset ==
  /\ Trouble
  /\ slot' = NoLinks /\ enc' = {} /\ queue' = <<READY>>
  /\ listing' = FALSE /\ cmds' = <<>>
  /\ lossy' = FALSE
  /\ UNCHANGED <<driver, bulb, missed, links>>

-----------------------------------------------------------------------------
(* The driver                                                               *)

\* myhome_event_bus:publish, a cast, which the bus forwards to its subscribers
Publish(es) == box' = IF phase = "starting" THEN <<>> ELSE box \o es

\* Mutant of OnReady: a restart of the nRF is not published.
OnReady_Silent ==
  /\ ready' = TRUE
  /\ conns' = NoLinks /\ encd' = {}
  /\ listing' = TRUE
  /\ UNCHANGED <<lossy, box>>

\* handle_event(EVT_READY): a READY while operational means that the nRF has lost
\* its links.  The first one leaves a view alone that can be of an earlier boot.
OnReady ==
  \/ /\ ready
     /\ LET known == SetToSeq({s \in Slot : conns[s] # None})
        IN  Publish([i \in 1 .. Len(known) |-> DISCONNECTED(known[i])])
     /\ conns' = NoLinks /\ encd' = {}
     /\ listing' = TRUE
     /\ UNCHANGED <<ready, lossy>>
  \/ /\ ~ready
     /\ ready' = TRUE
     /\ lossy' = (lossy \/ conns # NoLinks)
     /\ UNCHANGED <<conns, encd, listing, box>>

\* One event of drain_events and what handle_event makes of it.
HandleEvent ==
  /\ queue # <<>>
  /\ queue' = Tail(queue)
  /\ LET e == Head(queue)
     IN  \/ e = READY /\ OnReady
         \/ /\ e # READY
            /\ Publish(<<e>>)
            /\ conns' = CASE e[1] = "connected"    -> [conns EXCEPT ![e[2]] = e[3]]
                          [] e[1] = "disconnected" -> [conns EXCEPT ![e[2]] = None]
                          [] OTHER                 -> conns
            /\ encd' = IF e[1] = "enc" THEN encd \cup {e[2]} ELSE encd \ {e[2]}
            /\ UNCHANGED <<ready, lossy, listing>>
  /\ UNCHANGED <<slot, enc, cmds, checking, phase, handle, connected,
                 missed, bound>>

\* handle_info(check_ready), once READY has been drained: ask for the live links.
CheckReady ==
  /\ checking /\ ready
  /\ checking' = FALSE
  /\ listing' = TRUE
  /\ UNCHANGED <<slot, enc, queue, cmds, ready, conns, encd, bulb,
                 lossy, missed, bound>>

-----------------------------------------------------------------------------
(* The bulb process                                                         *)

\* init: the subscription is in the mailbox of the bus; what is published from now on
\* is for this process too.
Subscribe ==
  /\ phase = "starting"
  /\ phase' = "init"
  /\ UNCHANGED <<nrf, driver, box, handle, connected, lossy, missed, bound>>

\* init, once the bus has answered: a message to itself.  The news behind it was still
\* in the mailbox of the bus.
InitEnds ==
  /\ phase = "init"
  /\ phase' = "idle"
  /\ \E i \in 1 .. Len(box) + 1 : box' = InsertAt(box, i, RECONCILE)
  /\ UNCHANGED <<nrf, driver, handle, connected, lossy, missed, bound>>

\* The link is usable, or not yet
Ready(h) == handle' = h /\ connected' = TRUE
Noted(h) == handle' = h /\ connected' = FALSE

Ignored  == UNCHANGED <<handle, connected>>

\* Mutant of OnDisconnected: whose handle it is is not looked at.
OnDisconnected_Any(s) == Noted(None)

\* ble_connected is matched by address, the others by handle.
OnConnected(s, p) == IF p = Me THEN Noted(s) ELSE Ignored
OnEncChange(s)    == IF s = handle THEN Ready(s) ELSE Ignored
OnDisconnected(s) == IF s = handle THEN Noted(None) ELSE Ignored

\* reconcile_connection: connection_state is answered from the driver's view of the
\* moment; a call that fails, or no link, changes nothing.
OnReconcile ==
  \/ /\ LET mine == {s \in Slot : conns[s] = Me}
        IN  \/ \E s \in mine : IF s \in encd THEN Ready(s) ELSE Noted(s)
            \/ mine = {} /\ Ignored
     /\ UNCHANGED <<missed, troubles>>
  \/ /\ Trouble
     /\ missed' = TRUE
     /\ Ignored

\* handle_call(unpair): two commands that nobody waits for; the second can replace
\* the first one in cmd_buf.
OnUnpair ==
  /\ \/ /\ handle # None
        /\ \E first \in {<<>>, <<<<"disconnect", handle>>>>} :
             cmds' = cmds \o first \o <<<<"unpair", Me>>>>
     \/ /\ handle = None
        /\ cmds' = Append(cmds, <<"unpair", Me>>)
  /\ Noted(None)
  /\ missed' = TRUE

\* The next message of the mailbox
BulbHandle ==
  /\ phase = "idle" /\ box # <<>>
  /\ box' = Tail(box)
  /\ LET m == Head(box)
     IN  \/ /\ m[1] = "connected" /\ OnConnected(m[2], m[3])
            /\ missed' = (missed /\ m[3] # Me)
            /\ UNCHANGED <<cmds, troubles>>
         \/ /\ m[1] = "enc" /\ OnEncChange(m[2])
            /\ UNCHANGED <<cmds, missed, troubles>>
         \/ /\ m[1] = "disconnected" /\ OnDisconnected(m[2])
            /\ UNCHANGED <<cmds, missed, troubles>>
         \/ m = RECONCILE /\ OnReconcile /\ UNCHANGED cmds
         \/ m = UNPAIR /\ OnUnpair /\ UNCHANGED troubles
  /\ UNCHANGED <<slot, enc, queue, listing, driver, phase,
                 lossy, links>>

\* myhome_hue_ble:unpair
Unpair ==
  /\ Trouble
  /\ phase # "starting"
  /\ box' = Append(box, UNPAIR)
  /\ UNCHANGED <<nrf, driver, phase, handle, connected, lossy,
                 missed, links>>

\* init of a new process: its mailbox is empty, the old subscription is gone.
Starts ==
  /\ phase' = "starting" /\ box' = <<>>
  /\ handle' = None /\ connected' = FALSE
  /\ missed' = FALSE

\* The bulb process crashes and is restarted; terminate drops the link when the crash
\* is an exception of a handler.
BulbCrash ==
  /\ Trouble
  /\ phase = "idle"
  /\ Starts
  /\ \/ UNCHANGED cmds
     \/ handle # None /\ cmds' = Append(cmds, <<"disconnect", handle>>)
  /\ UNCHANGED <<slot, enc, queue, listing, driver, lossy, links>>

\* The driver or the whole ESP32 restarts (rest_for_one: the bulbs with it).  Links that
\* are up are unknown until the nRF boots, or READY has not been drained yet.
EspRestart ==
  /\ Trouble
  /\ Starts
  /\ ready' = FALSE /\ checking' = TRUE /\ conns' = NoLinks /\ encd' = {}
  /\ lossy' = (lossy \/ (slot # NoLinks /\ READY \notin ToSet(queue)))
  /\ UNCHANGED <<nrf, links>>

-----------------------------------------------------------------------------
Nrf    == \/ \E p \in Peer : LinkUp(p)
          \/ \E s \in Slot : Encrypted(s) \/ LinkDown(s)
          \/ ReportConnections \/ CmdExec \/ Reset
Driver == HandleEvent \/ CheckReady
Bulb   == Subscribe \/ InitEnds \/ BulbHandle

Next == Nrf \/ Driver \/ Bulb \/ Unpair \/ BulbCrash \/ EspRestart

Spec == Init /\ [][Next]_vars

-----------------------------------------------------------------------------
(* Properties                                                               *)

LinkNews == {CONNECTED(s, p) : s \in Slot, p \in Peer}
            \cup {ENC(s) : s \in Slot} \cup {DISCONNECTED(s) : s \in Slot}

\* Types of all variables.
TypeOK ==
  /\ slot \in [Slot -> Peer \cup {None}] /\ enc \subseteq Slot
  /\ queue \in Seq(LinkNews \cup {READY}) /\ Len(queue) <= QueueSize
  /\ listing \in BOOLEAN
  /\ cmds \in Seq({<<"disconnect", s>> : s \in Slot} \cup {<<"unpair", Me>>})
  /\ ready \in BOOLEAN /\ checking \in BOOLEAN
  /\ conns \in [Slot -> Peer \cup {None}] /\ encd \subseteq Slot
  /\ phase \in {"starting", "init", "idle"}
  /\ box \in Seq(LinkNews \cup {RECONCILE, UNPAIR})
  /\ handle \in Slot \cup {None} /\ connected \in BOOLEAN
  /\ lossy \in BOOLEAN /\ missed \in BOOLEAN
  /\ links \in Nat /\ troubles \in Nat

\* The end of the link with handle h is on its way to the bulb.
NoticeOf(h) ==
  \/ DISCONNECTED(h) \in ToSet(queue) \cup ToSet(box)
  \/ READY \in ToSet(queue)

\* A bulb process may use a handle whose link is gone, or is another bulb's by now
\* (its mailbox waits while it is in GATT calls); but never without the notice
\* being on its way, so it is not for longer than the queues take.  Refused events are
\* excepted, and those that a failing read would lose (none fails here).
StaleHandleNoticed ==
  handle # None /\ slot[handle] # Me => NoticeOf(handle) \/ lossy

Quiet == queue = <<>> /\ box = <<>> /\ phase = "idle"

Truth ==
  IF \E s \in Slot : slot[s] = Me
  THEN LET s == CHOOSE t \in Slot : slot[t] = Me IN <<s, s \in enc>>
  ELSE <<None, FALSE>>

\* When all news has been read, the bulb knows its handle and whether the link is
\* encrypted, although the answer to reconcile overtakes older news and the list
\* command repeats some.  A bulb that was unpaired, or whose reconcile call
\* failed, may have no handle until its next link; an event refused by the full
\* queue, or lost by a failing read (none fails here), and a restart of the ESP32
\* alone, can mislead it until the nRF boots.
SettledView ==
  Quiet /\ ~lossy => <<handle, connected>> = Truth \/ (missed /\ handle = None)
=============================================================================
