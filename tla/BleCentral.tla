----------------------------- MODULE BleCentral -----------------------------
(***************************************************************************)
(* ble_central.c: the one radio of the nRF52840 shared by three users.     *)
(*                                                                         *)
(*  - a discovery scan the ESP32 asks for (scanning, scan_timeout_work);   *)
(*  - a connect cycle the ESP32 asks for: a connection attempt, a settle   *)
(*    window before the ESP32 is told, and silent retries when the link    *)
(*    fails to establish (connect_pending, settling_conn, two timers);     *)
(*  - the background auto-connect engine that keeps every bonded peer      *)
(*    connected: scan, stop, connect to the advertiser, re-arm.            *)
(*                                                                         *)
(* Each command runs on the system work queue, each callback in the        *)
(* Bluetooth receive thread; both are cooperative, and a handler is one    *)
(* action here.  The Zephyr host is external: it runs one scanner, one     *)
(* connection attempt at a time and never both                             *)
(* (CONFIG_BT_SCAN_AND_INITIATE_IN_PARALLEL is not set), holds at most     *)
(* CONFIG_BT_MAX_CONN connections, one per peer, and may refuse a request  *)
(* for reasons of its own.                                                 *)
(***************************************************************************)
EXTENDS Naturals

CONSTANTS
  Peer,         \* BLE addresses
  MaxConn,      \* MAX_CONNECTIONS = CONFIG_BT_MAX_CONN, 5
  None,
  MaxAttempts,  \* CONNECT_MAX_ATTEMPTS, 3
  Reachable,    \* the peers in range
  MaxCmds,      \* bounds: commands from the ESP32,
  MaxDrops,     \*   links that drop,
  MaxFaults     \*   requests the host refuses for reasons of its own

ASSUME ConnAssumption    == MaxConn \in Nat \ {0}
ASSUME NoneAssumption    == None \notin Peer /\ None \notin Nat
ASSUME ReachableAssumption == Reachable \subseteq Peer
ASSUME AttemptAssumption == MaxAttempts \in Nat \ {0}
ASSUME BoundAssumption   == MaxCmds \in Nat /\ MaxDrops \in Nat /\ MaxFaults \in Nat

VARIABLES
  \* discovery scan
  scanning, scanTimer,
  \* connect cycle
  pending,      \* connect_pending
  target,       \* connect_target
  attempts,     \* connect_attempts
  settling,     \* slot of settling_conn, or None
  settleTimer, retryTimer,
  \* auto-connect
  enabled,      \* autoconnect_enabled
  autoScan,     \* autoconnect_scanning
  autoConn,     \* autoconnect_connecting
  autoWork,     \* autoconnect_work is scheduled
  \* connection table
  slots,        \* connections[].conn, by peer
  enc,          \* slots with .bonded set
  \* Zephyr host
  scanOn,       \* its scanner runs
  seen,         \* addresses the background scan's duplicate filter holds
  creating,     \* peer of the connection attempt in flight, or None
  bonds,        \* stored bonds
  \* what the queued events tell the ESP32
  told,         \* CONNECTED minus DISCONNECTED, by handle
  toldEnc,      \* handles announced as encrypted since they were connected
  \* history
  stalled,      \* a command stopped auto-connect, failed, and nothing re-armed
  unsure,       \* slots whose settle window was cut short, see ViewMatches
  asked,        \* the last connect command was accepted
  answers,      \* CONNECTED and CMD_ERROR events that answered it ...
  early,        \* ... those that a list command sent while it was settling
  cmds, drops, faults

scan  == <<scanning, scanTimer>>
conn  == <<pending, target, attempts, settling, settleTimer, retryTimer>>
auto  == <<enabled, autoScan, autoConn, autoWork>>
table == <<slots, enc>>
host  == <<scanOn, seen, creating, bonds>>
view  == <<told, toldEnc, unsure>>
cycle == <<asked, answers, early>>
bound == <<cmds, drops, faults>>
vars  == <<scan, conn, auto, table, host, view, stalled, cycle, bound>>

Slot      == 0 .. MaxConn - 1
Free      == {s \in Slot : slots[s] = None}
Connected == {p \in Peer : \E s \in Slot : slots[s] = p}

\* autoconnect_addr_connected asks the host, which counts an attempt in
\* flight as a connection.
HasConn(p) == p \in Connected \/ p = creating
Wanted     == {p \in bonds : ~HasConn(p)}

Init ==
  /\ scanning = FALSE /\ scanTimer = FALSE
  /\ pending = FALSE /\ target = None /\ attempts = 0 /\ settling = None
  /\ settleTimer = FALSE /\ retryTimer = FALSE
  /\ bonds \in SUBSET Peer
  /\ enabled = (bonds # {})
  /\ autoWork = enabled
  /\ autoScan = FALSE /\ autoConn = FALSE
  /\ slots = [s \in Slot |-> None] /\ enc = {}
  /\ scanOn = FALSE /\ seen = {} /\ creating = None
  /\ told = [s \in Slot |-> None] /\ toldEnc = {}
  /\ stalled = FALSE /\ unsure = {}
  /\ asked = FALSE /\ answers = 0 /\ early = 0
  /\ cmds = 0 /\ drops = 0 /\ faults = 0

-----------------------------------------------------------------------------
(* Requests to the host                                                     *)

\* The host's own reason to refuse.
Fault == faults < MaxFaults /\ faults' = faults + 1

\* bt_conn_le_create while the host's scanner is in state s: granted when
\* nothing rules it out, and otherwise, or for a fault, refused.
MayCreate(p, s) == creating = None /\ p \notin Connected /\ Free # {} /\ ~s
Granted(p, s) ==
  /\ MayCreate(p, s)
  /\ creating' = p
  /\ UNCHANGED faults
Refused(p, s) ==
  /\ IF MayCreate(p, s) THEN Fault ELSE UNCHANGED faults
  /\ UNCHANGED creating

\* bt_le_scan_start while the host's scanner is in state s.  During a
\* connection attempt the controller may or may not accept it.
ScanGranted(s) ==
  /\ ~s
  /\ scanOn' = TRUE
  /\ UNCHANGED faults
ScanRefused(s) ==
  /\ scanOn' = s
  /\ IF s \/ creating # None THEN UNCHANGED faults ELSE Fault

\* The host's scanner once bt_le_scan_stop was called for every scan that
\* ble_central.c believes is running.
ScanLeft == scanOn /\ ~(scanning \/ autoScan)

(* Helpers of ble_central.c                                                 *)

\* Mutant of Rearm: not while the connect command it follows is pending.
Rearm_NotPending ==
  /\ autoWork' = (autoWork \/ (enabled /\ ~pending))
  /\ stalled' = FALSE

Rearm ==
  /\ autoWork' = (autoWork \/ enabled)
  /\ stalled' = FALSE

\* Mutant of StopAuto: autoconnect_scanning stays set.
StopAuto_FlagStays ==
  /\ autoWork' = FALSE
  /\ seen' = {}
  /\ UNCHANGED autoScan

StopAuto ==
  /\ autoWork' = FALSE
  /\ autoScan' = FALSE
  /\ seen' = {}

ReportConnected(s) ==
  /\ told' = [told EXCEPT ![s] = slots[s]]
  /\ unsure' = unsure \ {s}

\* The ESP32 gets an answer to its connect command, CONNECTED or CMD_ERROR.
Answered == answers' = IF asked THEN answers + 1 ELSE answers

\* A connect cycle ends with one; none of its handlers sends another.
EndCycle == Answered /\ UNCHANGED <<asked, early>>

\* A new connect command, accepted or not.
NewCycle(accepted) == asked' = accepted /\ answers' = 0 /\ early' = 0

-----------------------------------------------------------------------------
(* Discovery scan                                                           *)

Cmd == cmds < MaxCmds /\ cmds' = cmds + 1

\* ble_central_scan_start, with a duration of 1 to 30 s as myhome_scanner
\* demands.  When a running scan cannot be restarted the flag stays set with
\* neither a scanner nor a timer behind it.
CmdScanStart ==
  /\ Cmd
  /\ StopAuto
  /\ \/ /\ ScanGranted(ScanLeft)
        /\ scanning' = TRUE
        /\ scanTimer' = TRUE
        /\ UNCHANGED stalled
     \/ /\ ScanRefused(ScanLeft)
        /\ scanTimer' = FALSE
        /\ stalled' = TRUE
        /\ UNCHANGED scanning
  /\ UNCHANGED <<conn, enabled, autoConn, table, creating, bonds, view, cycle,
                 drops>>

\* ble_central_scan_stop returns -EALREADY when not scanning.
CmdScanStop ==
  /\ Cmd
  /\ scanning
  /\ scanning' = FALSE
  /\ scanTimer' = FALSE
  /\ scanOn' = FALSE
  /\ Rearm
  /\ UNCHANGED <<conn, enabled, autoScan, autoConn, table, seen, creating,
                 bonds, view, cycle, drops, faults>>

\* scan_timeout_handler
ScanTimeout ==
  /\ scanTimer
  /\ scanTimer' = FALSE
  /\ scanning' = FALSE
  /\ scanOn' = (scanOn /\ ~scanning)
  /\ Rearm
  /\ UNCHANGED <<conn, enabled, autoScan, autoConn, table, seen, creating,
                 bonds, view, cycle, bound>>

-----------------------------------------------------------------------------
(* Auto-connect                                                             *)

Busy == scanning \/ pending \/ autoConn

\* autoconnect_work_handler.  A busy radio, or a scan the host refuses, sets
\* the timer again.
AutoWork ==
  /\ autoWork
  /\ enabled
  /\ ~Busy
  /\ IF Wanted = {} \/ Free = {}
     THEN /\ autoWork' = FALSE
          /\ autoScan' = FALSE
          /\ scanOn' = (scanOn /\ ~autoScan)
          /\ seen' = {}
          /\ UNCHANGED faults
     ELSE IF autoScan
     THEN /\ autoWork' = FALSE
          /\ UNCHANGED <<autoScan, scanOn, seen, faults>>
     ELSE /\ \/ /\ ScanGranted(scanOn)
                /\ autoScan' = TRUE
                /\ autoWork' = FALSE
             \/ /\ ScanRefused(scanOn)
                /\ UNCHANGED <<autoScan, autoWork>>
          /\ UNCHANGED seen
  /\ UNCHANGED <<scan, conn, enabled, autoConn, table, creating, bonds, view,
                 stalled, cycle, cmds, drops>>

\* Mutant of Acceptable: one background connection at a time.
Acceptable_First(p) == Connected = {} /\ p \in Wanted

\* The advert the background scan is for: a bonded peer that is missing.
Acceptable(p) == Free # {} /\ p \in Wanted

\* scan_recv_cb while the background scan owns the radio.  The scan filters
\* duplicates: one report per address until it is started again.
Report(p) ==
  /\ scanOn
  /\ autoScan /\ ~scanning
  /\ p \notin seen

\* autoconnect_on_advert, the cases it returns from at once.  The duplicate filter is
\* taken as exact: it keeps each address until the scan is started anew.
IgnoreAdvert(p) ==
  /\ Report(p)
  /\ autoConn \/ ~Acceptable(p)
  /\ seen' = seen \cup {p}
  /\ UNCHANGED <<scan, conn, auto, table, scanOn, creating, bonds, view,
                 stalled, cycle, bound>>

\* autoconnect_on_advert, for a peer to connect to.
Advert(p) ==
  /\ Report(p)
  /\ ~autoConn
  /\ Acceptable(p)
  /\ scanOn' = FALSE
  /\ seen' = {}
  /\ autoScan' = FALSE
  /\ \/ /\ Granted(p, FALSE)
        /\ autoConn' = TRUE
        /\ UNCHANGED <<autoWork, stalled>>
     \/ /\ Refused(p, FALSE)
        /\ autoConn' = FALSE
        /\ Rearm
  /\ UNCHANGED <<scan, conn, enabled, table, bonds, view, cycle, cmds, drops>>

\* refresh_bonds_and_rearm, run with the new set of bonds b.  It stops the
\* background scan, never a discovery scan.
RefreshBonds(b) ==
  /\ bonds' = b
  /\ scanOn' = (scanOn /\ ~autoScan)
  /\ autoScan' = FALSE
  /\ seen' = {}
  /\ enabled' = (b # {})
  /\ autoWork' = enabled'
  /\ stalled' = FALSE

-----------------------------------------------------------------------------
(* Connect cycle                                                            *)

\* Mutant of CancelCycle: a scheduled retry survives.
CancelCycle_SettleOnly ==
  /\ settling' = None
  /\ settleTimer' = FALSE
  /\ UNCHANGED retryTimer

CancelCycle ==
  /\ settling' = None
  /\ settleTimer' = FALSE
  /\ retryTimer' = FALSE

\* ble_central_connect.  It stops both scanners, abandons an earlier cycle
\* and tries at once; a refusal is returned in REG_CMD_STATUS only.
CmdConnect(p) ==
  /\ Cmd
  /\ StopAuto
  /\ scanning' = FALSE
  /\ scanOn' = ScanLeft
  /\ scanTimer' = (scanTimer /\ ~scanning)
  /\ CancelCycle
  /\ unsure' = IF settling = None THEN unsure ELSE unsure \cup {settling}
  /\ target' = p
  /\ \/ /\ Granted(p, ScanLeft)
        /\ attempts' = 1
        /\ pending' = TRUE
        /\ NewCycle(TRUE)
        /\ UNCHANGED stalled
     \/ /\ Refused(p, ScanLeft)
        /\ attempts' = 0
        /\ pending' = FALSE
        /\ NewCycle(FALSE)
        /\ stalled' = TRUE
  /\ UNCHANGED <<enabled, autoConn, table, bonds, told, toldEnc, drops>>

\* Mutant of CreateFails: a failed background attempt is reported too.
CreateFails_Always ==
  /\ creating # None
  /\ creating' = None
  /\ autoConn' = FALSE
  /\ pending' = FALSE
  /\ settling' = None
  /\ EndCycle
  /\ Rearm
  /\ UNCHANGED <<scan, target, attempts, settleTimer, retryTimer, enabled,
                 autoScan, table, scanOn, seen, bonds, view, bound>>

\* connected_cb with an error.
CreateFails ==
  /\ creating # None
  /\ creating' = None
  /\ IF autoConn
     THEN /\ autoConn' = FALSE
          /\ UNCHANGED <<pending, settling, cycle>>
     ELSE /\ pending' = FALSE
          /\ settling' = None
          /\ EndCycle
          /\ UNCHANGED autoConn
  /\ Rearm
  /\ UNCHANGED <<scan, target, attempts, settleTimer, retryTimer, enabled,
                 autoScan, table, scanOn, seen, bonds, view, bound>>

\* connected_cb.  The link takes the first free slot; a link the ESP32 asked
\* for has to settle before it is reported.
CreateSucceeds ==
  /\ creating # None
  /\ creating' = None
  /\ \E s \in Free :
       /\ \A t \in Free : s <= t
       /\ slots' = [slots EXCEPT ![s] = creating]
       /\ IF pending
          THEN /\ settling' = s
               /\ settleTimer' = TRUE
               /\ UNCHANGED <<autoConn, autoWork, stalled, told, unsure>>
          ELSE /\ autoConn' = FALSE
               /\ told' = [told EXCEPT ![s] = creating]
               /\ unsure' = unsure \ {s}
               /\ Rearm
               /\ UNCHANGED <<settling, settleTimer>>
  /\ UNCHANGED <<scan, pending, target, attempts, retryTimer, enabled,
                 autoScan, enc, scanOn, seen, bonds, toldEnc, cycle,
                 bound>>

\* The end of the settle window of slot s, when the link is up.
SettleReport(s) ==
  IF s = settling
  THEN /\ settleTimer' = FALSE
       /\ settling' = None
       /\ pending' = FALSE
       /\ ReportConnected(s)
       /\ EndCycle
  ELSE UNCHANGED <<settleTimer, settling, pending, told, unsure, cycle>>

\* connect_settle_handler
Settle ==
  /\ settleTimer
  /\ IF settling = None
     THEN /\ settleTimer' = FALSE
          /\ UNCHANGED <<settling, pending, told, unsure, cycle, autoWork,
                         stalled>>
     ELSE SettleReport(settling) /\ Rearm
  /\ UNCHANGED <<scan, target, attempts, retryTimer, enabled, autoScan,
                 autoConn, table, host, toldEnc, bound>>

\* connect_retry_handler.  A retry that cannot start ends the cycle with a
\* CMD_ERROR, and auto-connect is not re-armed.
Retry ==
  /\ retryTimer
  /\ retryTimer' = FALSE
  /\ \/ /\ Granted(target, scanOn)
        /\ attempts' = attempts + 1
        /\ UNCHANGED <<pending, cycle, stalled>>
     \/ /\ Refused(target, scanOn)
        /\ pending' = FALSE
        /\ EndCycle
        /\ stalled' = TRUE
        /\ UNCHANGED attempts
  /\ UNCHANGED <<scan, target, settling, settleTimer, auto, table, scanOn,
                 seen, bonds, view, cmds, drops>>

\* Mutants of MayRetry and WasSettling: one attempt too many; whichever link
\* drops.
MayRetry_OneMore == attempts <= MaxAttempts
WasSettling_Any(s) == settling # None

MayRetry == attempts < MaxAttempts
WasSettling(s) == s = settling

\* disconnected_cb, for a reason that is 0x3e (the link never came up) or not.
Drop(s, failedToEstablish) ==
  /\ drops < MaxDrops
  /\ drops' = drops + 1
  /\ slots[s] # None
  /\ slots' = [slots EXCEPT ![s] = None]
  /\ enc' = enc \ {s}
  /\ IF WasSettling(s)
     THEN /\ settling' = None
          /\ settleTimer' = FALSE
          /\ IF failedToEstablish /\ pending /\ MayRetry
             THEN /\ retryTimer' = TRUE
                  /\ UNCHANGED <<pending, cycle, autoWork, stalled>>
             ELSE /\ pending' = FALSE
                  /\ EndCycle
                  /\ Rearm
                  /\ UNCHANGED retryTimer
          /\ UNCHANGED view
     ELSE /\ told' = [told EXCEPT ![s] = None]
          /\ toldEnc' = toldEnc \ {s}
          /\ unsure' = unsure \ {s}
          /\ Rearm
          /\ UNCHANGED <<pending, settling, settleTimer, retryTimer, cycle>>
  /\ UNCHANGED <<scan, target, attempts, enabled, autoScan, autoConn, host,
                 cmds, faults>>

-----------------------------------------------------------------------------
(* Security                                                                 *)

\* settle_now: an event that proves the link is up ends the settle window.
SettleNow(s) ==
  /\ SettleReport(s)
  /\ IF s = settling THEN Rearm ELSE UNCHANGED <<autoWork, stalled>>

\* security_changed_cb, for a link that is now encrypted.
Encrypted(s) ==
  /\ slots[s] # None
  /\ SettleNow(s)
  /\ enc' = enc \cup {s}
  /\ toldEnc' = toldEnc \cup {s}
  /\ UNCHANGED <<scan, target, attempts, retryTimer, enabled, autoScan,
                 autoConn, slots, host, bound>>

\* security_changed_cb with an error and pairing_failed, which leave .bonded
\* alone, and pairing_complete without bonding, which clears it.
NotBonded(s) ==
  /\ slots[s] # None
  /\ SettleNow(s)
  /\ enc' \in {enc, enc \ {s}}
  /\ UNCHANGED <<scan, target, attempts, retryTimer, enabled, autoScan,
                 autoConn, slots, host, toldEnc, bound>>

\* pairing_complete, with bonding.
PairingComplete(s) ==
  /\ slots[s] # None
  /\ SettleReport(s)
  /\ enc' = enc \cup {s}
  /\ RefreshBonds(bonds \cup {slots[s]})
  /\ UNCHANGED <<scan, target, attempts, retryTimer, autoConn, slots,
                 creating, toldEnc, bound>>

-----------------------------------------------------------------------------
(* Other commands                                                           *)

\* ble_central_unpair, and ble_central_unpair_all for P = Peer.  The host
\* then closes the links of those peers, see Drop.
CmdUnpair(P) ==
  /\ Cmd
  /\ RefreshBonds(bonds \ P)
  /\ UNCHANGED <<scan, conn, autoConn, table, creating, view, cycle, drops,
                 faults>>

\* ble_central_report_connections: CONNECTED for every slot in use, the settling one
\* included, whose connect command it answers with that.
CmdList ==
  /\ Cmd
  /\ told' = [s \in Slot |-> IF s \in Free THEN told[s] ELSE slots[s]]
  /\ toldEnc' = toldEnc \cup enc
  /\ unsure' = (unsure \cap Free) \cup ({settling} \ {None})
  /\ IF settling = None
     THEN UNCHANGED <<answers, early>>
     ELSE Answered /\ early' = early + 1
  /\ UNCHANGED <<scan, conn, auto, table, host, stalled, asked, drops, faults>>

Discovery == CmdScanStart \/ CmdScanStop \/ ScanTimeout
Create    == CreateFails \/ CreateSucceeds

Next ==
  \/ Discovery
  \/ AutoWork
  \/ \E p \in Peer : Advert(p) \/ IgnoreAdvert(p)
  \/ \E p \in Peer : CmdConnect(p)
  \/ Create
  \/ Settle
  \/ Retry
  \/ \E s \in Slot, r \in BOOLEAN : Drop(s, r)
  \/ \E s \in Slot : Encrypted(s) \/ NotBonded(s) \/ PairingComplete(s)
  \/ \E P \in {{p} : p \in Peer} \cup {Peer} : CmdUnpair(P)
  \/ CmdList

Spec == Init /\ [][Next]_vars

\* Work items run and attempts end; the peers in Reachable keep advertising,
\* so one that the scan would report is reported, and an attempt to connect to
\* one of them does not fail for ever.
Fairness ==
  /\ WF_vars(ScanTimeout)
  /\ WF_vars(AutoWork)
  /\ WF_vars(Settle)
  /\ WF_vars(Retry)
  /\ WF_vars(Create)
  /\ \A p \in Reachable :
       /\ SF_vars(Advert(p))
       /\ SF_vars(creating = p /\ CreateSucceeds)

FairSpec == Spec /\ Fairness
-----------------------------------------------------------------------------
(* Properties                                                               *)

\* Every variable stays in its range; in particular a cycle never makes more
\* than CONNECT_MAX_ATTEMPTS attempts.
FlagsOK ==
  /\ scanning \in BOOLEAN /\ scanTimer \in BOOLEAN /\ scanOn \in BOOLEAN
  /\ pending \in BOOLEAN /\ settleTimer \in BOOLEAN /\ retryTimer \in BOOLEAN
  /\ enabled \in BOOLEAN /\ autoScan \in BOOLEAN
  /\ autoConn \in BOOLEAN /\ autoWork \in BOOLEAN /\ stalled \in BOOLEAN
  /\ asked \in BOOLEAN
DataOK ==
  /\ target \in Peer \cup {None} /\ creating \in Peer \cup {None}
  /\ attempts \in 0 .. MaxAttempts
  /\ settling \in Slot \cup {None}
  /\ seen \in SUBSET Peer /\ bonds \in SUBSET Peer
  /\ answers \in Nat /\ early \in Nat
  /\ cmds \in Nat /\ drops \in Nat /\ faults \in Nat
TableOK ==
  /\ slots \in [Slot -> Peer \cup {None}] /\ enc \in SUBSET Slot
  /\ told \in [Slot -> Peer \cup {None}] /\ toldEnc \in SUBSET Slot
  /\ unsure \in SUBSET Slot
TypeOK == FlagsOK /\ DataOK /\ TableOK

\* The two users of the scanner never both believe they own it, and the
\* host's scanner runs exactly for a discovery scan that has a timeout or for
\* the background scan: nobody leaves it running, or stops another's scan.
ScannerOwned ==
  /\ ~(scanning /\ autoScan)
  /\ scanTimer => scanning
  /\ scanOn <=> scanTimer \/ autoScan

\* A connect cycle never shares the initiator with the background engine: an
\* attempt in flight during a cycle is the cycle's own (connect_pending
\* decides in connected_cb whether the link must settle).
PendingOwnsCreate ==
  pending => /\ ~autoScan /\ ~autoConn
             /\ creating # None => creating = target

\* A cycle is always about to end or go on: exactly one of an attempt, a
\* settle window with its timer, or a retry timer is under way.  Otherwise
\* connect_pending would block auto-connect for ever.
PendingProgress ==
  /\ settleTimer <=> settling # None
  /\ pending => \/ creating # None /\ settling = None /\ ~retryTimer
                \/ creating = None /\ settling # None /\ ~retryTimer
                \/ creating = None /\ settling = None /\ retryTimer
  /\ ~pending => settling = None /\ ~retryTimer

\* An accepted connect command gets one answer: none while its cycle lasts,
\* CONNECTED or CMD_ERROR once when it ends, whatever drops, retries, timers and
\* security events race for it.  The one exception is the list command: each that
\* falls into the settle window answers CONNECTED too soon (early), and the cycle
\* answers all the same, CONNECTED again or CMD_ERROR.
SingleVerdict ==
  /\ pending => asked
  /\ asked => answers = early + IF pending THEN 0 ELSE 1

\* What the ESP32 was told by CONNECTED and DISCONNECTED is the connection
\* table, a settling link excepted, and ENC_CHANGE is never the first it hears of a
\* link.  It is off only for slots whose settle window was cut short by another
\* connect command, which forgets to report the link, or by a list command, which
\* reports it too early.
ViewMatches ==
  \A s \in Slot \ unsure :
    /\ told[s] = IF s = settling THEN None ELSE slots[s]
    /\ s \in toldEnc => told[s] # None

\* Something will look for missing peers.
EngineAtWork ==
  autoWork \/ autoScan \/ autoConn \/ pending \/ creating # None \/ scanTimer

\* Auto-connect never stops while a bonded peer is missing and there is room
\* for it, except after a command that stopped it and was then refused.
NoStall == enabled /\ Wanted # {} /\ Free # {} => EngineAtWork \/ stalled

\* What the properties above need to be inductive: an attempt in flight has a
\* slot to go to (so connected_cb never finds the table full) and a peer that
\* is not connected yet; the settling slot holds a link that was neither
\* encrypted nor announced as such; a cycle has a target and retries within
\* the limit; only the background engine's own attempt sets
\* autoconnect_connecting.
Bookkeeping ==
  /\ creating # None => Free # {} /\ creating \notin Connected
  /\ settling # None => slots[settling] # None
  /\ settling \in toldEnc => settling \in unsure
  /\ pending => target # None
  /\ retryTimer => attempts < MaxAttempts
  /\ autoConn => creating # None

\* An attempt that is not the engine's belongs to a cycle that has not ended, or was
\* abandoned for a command that was refused.
AttemptOpen == creating # None /\ ~autoConn /\ asked => pending

\* What is announced as encrypted is in the table, and the settling link is not.
EncAfterConnected ==
  /\ enc \cap Free = {}
  /\ toldEnc \cap Free \subseteq unsure
  /\ settling \notin enc

\* The inductive invariant.
CentralInv ==
  /\ TypeOK
  /\ ScannerOwned
  /\ PendingOwnsCreate
  /\ PendingProgress
  /\ SingleVerdict
  /\ ViewMatches
  /\ EncAfterConnected
  /\ NoStall
  /\ Bookkeeping
  /\ AttemptOpen

\* scanning is set but no timer will ever clear it, after a refused restart.
StaleScan == scanning /\ ~scanTimer

\* A missing peer is hidden: the filter of the background scan holds its address and
\* that of every other missing peer in range, so that no report will restart the scan,
\* which goes on for one that is out of range, or until somebody else re-arms it.
Hidden(p) ==
  /\ autoScan /\ p \in Wanted
  /\ {p} \cup (Wanted \cap Reachable) \subseteq seen

\* A bonded peer in range is connected again after any sequence of drops,
\* failed attempts, scans and connect commands, and whoever else is out of range,
\* unless there is no room, its bond is removed, a refused command has stopped the
\* engine, or the background scan's duplicate filter hides the peer.
BondedReconnects ==
  \A p \in Reachable :
    p \in bonds ~> \/ p \in Connected \/ p \notin bonds
                   \/ Free = {} \/ stalled \/ StaleScan \/ Hidden(p)

\* As the comments promise it, filter or not: "whenever a bonded bulb that is not yet
\* connected advertises" (ble_central.c:301), "so it reconnects as soon as it
\* advertises again" (:687).
ReconnectsInRange ==
  \A p \in Reachable :
    p \in bonds ~> \/ p \in Connected \/ p \notin bonds
                   \/ Free = {} \/ stalled \/ StaleScan
=============================================================================
