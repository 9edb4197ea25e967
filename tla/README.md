# A formal model of myhome-assistant

TLA+ specifications, TLC model checks and TLAPS proofs for the two-chip home
assistant in this repository: an ESP32-S3 running Erlang on AtomVM (`src/*.erl`)
and a Seeed XIAO nRF52840 running Zephyr C (`firmware/xiao_ble/src/*.c`), joined by
an I2C bus, an interrupt line (IRQ, active low) and a reset line (RST). The nRF
owns the Bluetooth radio; the ESP32 owns everything else.

Paths below are relative to the repository root.

## 1. Inventory

### nRF52840 firmware

| Component | State | Operations | What must be right |
|---|---|---|---|
| `event_queue.c` | ring of 32 entries: `head`, `tail`, `count`; level of IRQ | `init`, `push`, `peek`, `pop`, `count`, each under a spinlock | FIFO, nothing overwritten, IRQ LOW iff events are queued |
| `i2c_target.c` | `current_reg`, `cmd_buf`, `last_cmd_*`, `ping_received` | write callback (selects a register or delivers a command), read callback (answers, and pops for REG_EVENT), `cmd_work_handler` | a read always answers for the register selected; commands are not lost |
| `ble_central.c` | discovery scan, connect cycle (target, attempts, settle and retry timers), auto-connect engine, connection table, bonds | 10 commands on the work queue, 5 work items, 5 callbacks from the host | one owner of the radio; one verdict per connect; the ESP32's view equals the table; bonded bulbs get reconnected |
| `gatt_client.c` | parameters of the one discover, read, write or subscribe in flight | start an operation, its callback queues the answer | answers are labelled with their own link and attribute |
| `main.c` | `last_ping_time` | boot, READY, watchdog of 30 s, RST pin | reboots when the ESP32 is dead, never otherwise |

### ESP32

| Component | State | Operations | What must be right |
|---|---|---|---|
| `myhome_ble_i2c` (driver) | `ready`, `connections`, `encrypted`, waiters for every kind of call, timers | drain loop, handle_event per event type, calls, ping, boot polling, reset | no event lost or torn, every call answered once, view follows the nRF |
| `myhome_event_bus` | subscribers with filters and monitors | subscribe, publish, DOWN | order per publisher is kept |
| `myhome_hue_ble` (per bulb) | handle, connected, GATT handles, cached light state | bus events, heartbeat, reconcile, commands, unpair | commands go to the bulb's current link only |
| `myhome_scanner` | last results | scan, deduplicate | one scan at a time, durations 1 to 30 s |
| `myhome_discovery` | bulbs, pairing in progress, NVS keys | pair, pair_all, remove, load and save | numbering without clashes, a restart finds every bulb |
| `myhome_wiz` | lamp cache, parked requests, scan in progress | pilot, get_state, discover, periodic refresh | every parked request is answered once and in a sensible order |
| `myhome_rules`, `myhome_lights` | policies, `last_fired`, readings | tick, sensor_update, set_policy; actions spawned | cooldowns hold, policies do not fight |
| `myhome_time` | none | UTC to local time, DST | right on every boundary |
| `myhome_log` | last 50 entries, `seq` | log, read since | no gap unnoticed |
| `myhome_http` | IP, reboot timer | WiFi callbacks, delayed reboot | a recovered WiFi never reboots |
| `myhome_sensors`, `myhome_lcd` | last readings, page | poll, draw | - |
| `myhome_top_sup`, `myhome_sup` | children | restart (`rest_for_one`, `one_for_one`) | restarts of one process reach those that depend on it |

### How they interact

- Events flow from BLE callbacks through the queue; IRQ wakes the driver, which
  reads each event with two I2C transactions and dispatches it: replies to
  waiting callers, or publications on the event bus that the bulb processes get.
- Commands flow the other way: bulb, scanner or HTTP process, `gen_server:call` to
  the driver, one I2C write to REG_CMD, `cmd_work_handler` on the nRF's work queue,
  a call into `ble_central.c` or `gatt_client.c`. Their result comes back as an event.
- Keep-alive: the driver pings every 10 s once it has seen READY; 30 s without a
  ping make the nRF reboot.

### Hard behaviours

Two processors without a common clock; an edge-triggered line over a level-like
condition; peek and pop in separate transactions; handlers of several threads and
timers sharing flags in `ble_central.c`; a radio that does one thing at a time;
restarts of either side, alone, at any point; a queue that drops when full;
handles (table indices) that are reused; timeouts of callers against late
answers. `PROJECT.json` lists the hazards one by one at their lines, with the
property that covers each.

## 2. Modules

| Module | Contents |
|---|---|
| `EventChannel` | abstract: a bounded FIFO channel with loss at its head and crashes |
| `EventLink` | `event_queue.c`, the register machine of `i2c_target.c` and the drain loop of `myhome_ble_i2c.erl`; refines `EventChannel` |
| `EventLinkProofs` | inductive invariant, three safety theorems, refinement |
| `BleCentral` | `ble_central.c` |
| `MCBleCentral` | `BleCentral` with a symmetry set for TLC |
| `BleCentralProofs` | inductive invariant, five safety theorems |
| `Bridge` | both chips: boot handshake, pings, watchdog, connection view |
| `BridgeProofs` | type correctness, inductive invariants of the timers and of the view, three safety theorems |
| `CallService` | abstract: a call is made, carried out once, answered once; or lost, given up, failed |
| `GattCalls` | both chips: bond and GATT calls from `gen_server:call` to their answer; refines `CallService` |
| `MCGattCalls` | `GattCalls` with a symmetry set and a view for TLC |
| `GattCallsProofs` | four inductive invariants, type correctness, four safety theorems, refinement theorem |
| `ConnectCalls` | both chips: scan, connect and disconnect calls, the connect cycle as far as it answers them |
| `MCConnectCalls` | `ConnectCalls` with a symmetry set for TLC |
| `ConnectCallsProofs` | inductive invariant, type correctness, three safety theorems |
| `HueBulb` | from the connection table through driver and event bus to one bulb process |
| `HueBulbProofs` | inductive invariants of a handle's way, of the queue and of the mailbox, type correctness, two safety theorems |
| `Discovery` | `myhome_discovery.erl`: numbers, NVS keys, processes and the list of bulbs |
| `Wiz` | `myhome_wiz.erl` with its discovery worker, its callers and a network where lamps move |
| `MCWiz` | the lamps and addresses of the instance TLC checks |
| `WizProofs` | two inductive invariants, four safety theorems |
| `Rules` | `myhome_sensors.erl`, `myhome_rules.erl` and the actions of `myhome_lights.erl` |
| `HomeProofs` | of `Rules` and of `Discovery`: three inductive invariants, type correctness of discovery, four safety theorems |

How they compose: `EventLink` implements the channel of `EventChannel`, and `GattCalls` the service of `CallService`.
`Bridge`, `GattCalls`,
`ConnectCalls` and `HueBulb` use such a channel (refusing when full, emptied by a reset)
between the two chips, each for another kind of traffic: the handshake and the view of the
links, calls on a link, calls before there is a link, and what becomes of the events
behind the driver. `BleCentral` is the radio in full; the four take from it links that come
and go, and `ConnectCalls` the connect cycle too. `Discovery` stands on pairings
that succeed or fail, `Rules` on bulbs that obey or refuse. `Wiz` shares nothing with
the Bluetooth side.

### EventLink

nRF state: `ring`, `head`, `tail`, `count` as in the code, `irq`, the selected `reg`,
and `phase` of the boot (the I2C target answers before READY is queued). ESP32
state: the program counter `pc` of the drain loop (its four transfers), `left` (the
limit), `peeked` (the type read from EVENT_LEN), the messages in the driver's
mailbox that start a drain (`wakeups` for gpio interrupts, `continues`), the
check_ready timer `polling`, `ready`.

`PushOp` and `PopOp` are `event_queue_push` and `event_queue_pop`; `SelectLen`, `ReadLen`,
`SelectEvent` and `ReadEvent` are one I2C transfer each, so pushes interleave with
every one of them. A transfer can fail (`LenFails`, `EventFails`); a failing read of
REG_EVENT may have popped the event already. Both chips restart at any point. An
event is one value: its type and payload are told apart only by `torn`, which
records that the driver combined the peeked type with another entry's payload.

Abstracted: payload contents and lengths; the bus's electrical side (a
transfer works or fails as a whole); a check_ready that starts a new timer counts
as "the timer is set". The nRF's work queue has no part in the event path.

### BleCentral

One action per command, work item and callback of `ble_central.c`, each with all it
calls. Variables carry the code's flags: `scanning`, `pending` (`connect_pending`), `target`,
`attempts`, `settling` (`settling_conn`, as a slot), `autoScan`, `autoConn`, `enabled`, the delayed
work items as booleans (`scanTimer`, `settleTimer`, `retryTimer`, `autoWork`), the table `slots`
with its `bonded` column `enc`.

The Zephyr host is external and modelled from how the code uses it: one scanner
(`scanOn`), one connection attempt in flight (`creating`), never both, at most one
connection per peer and CONFIG_BT_MAX_CONN in all; a request it cannot grant is
refused, and up to MaxFaults others are too. A scan with
BT_LE_SCAN_OPT_FILTER_DUPLICATE reports an address once until the scan is started
anew (`seen`). This is the filter of the host and controller taken as exact: a
controller with a small cache may forget addresses earlier.

What the queued events tell the ESP32 is kept as `told` (CONNECTED minus DISCONNECTED)
and `toldEnc`; `asked`, `answers` and `early` count the answers to the last accepted connect
command, and those of them that a list command gave in its settle window; `stalled` records
that a command stopped auto-connect and failed; `unsure` holds the slots whose
settle window was cut short by another command.

Handlers are atomic here: commands and work items run on the system work queue,
callbacks in the Bluetooth receive thread, both with cooperative priority, so one
handler is not preempted by another. A handler that sleeps inside a host call
(waiting for an HCI command to complete) could be overtaken there; that is not
modelled.

### Bridge

The queue is a sequence of READY, CONNECTED(handle, bulb) and DISCONNECTED(handle);
`links` is the nRF's table and `conns` the driver's map. `listing` is a list command under
way. Time passes in periods of ten seconds (`Period`), in which every ping timer
fires once and every check_ready at least once, and nothing that takes milliseconds
is left undone; `sincePing` counts periods, and the watchdog fires when Wdt = 3 or more
have gone by. `checks` and `pings` count the driver's timer chains. `reset_xiao`
(`do_reset`) is part of the driver's API although nothing in the repository calls it.
A restart of the ESP32 whose start-up glitches the RST pin is `EspRestart` followed by
`Reset`.

PONG is left out: it would occupy a queue slot for a moment and carries
diagnostics only. The ENC_CHANGE events that accompany CONNECTED are in `BleCentral`.

### GattCalls

The code gives a call no identity: a command names a kind and a handle, the nRF
labels the answer with the handle of the last operation of that kind it started, and
the driver hands it to whoever waits under that kind and handle. The model numbers
the calls and lets commands, requests and events remember whose they are in a field
`call` that no guard of the code reads; `misled` records replies that went to somebody
else's caller, `outcome` how each write and bond ended on the nRF, at the step where it did, and `oks` who was told ok.

| Model | Code |
|---|---|
| `cmd`, `work`, `running` | `cmd_buf`, the pending `cmd_work`, `cmd_id` read by a running `cmd_work_handler` |
| `label` | `discover_conn_handle`, `read_conn_handle`, `write_conn_handle` |
| `att`, `pos`, `sec` | the host: requests per link, the place of the discovery in `discover_params`, pairing |
| `waiter`, `results` | `discover_waiters`, `gatt_read_waiters`, `gatt_write_waiters`, `bond_waiters`; `discover_results` |
| `Call`, `CallFails` | `handle_call`, with a transfer that works or fails (and may have arrived) |
| `CmdStart`, `CmdExec` | `cmd_work_handler` in two steps: the callback of the I2C target runs in an interrupt and may write `cmd_buf` in between, so the parameters read can be another command's |
| `HostAnswers`, `Encrypted`, `PairingComplete`, `PairingFails` | callbacks of `gatt_client.c` and `ble_central.c` |
| `ReadRsp` ... `ServicesDone` | clauses of `handle_event` |

`excused` names what the code loses, at the step where it does: a command overwritten
in `cmd_buf`, a request the host refuses (only `last_cmd_result` records it, and the driver
never reads REG_CMD_STATUS), a bond on a link that is encrypted already (no event follows), a full
event queue, a reset of the nRF, a call that overlaps another of its kind (`Rivals`, `Entangled`)
and a handle that is given to another connection under the call. A call of which
none of this is true must be answered, by its own answer: `WaiterBacked` and `OwnAnswer`
say that there is no further way to lose or confuse one, in particular
not through callers that gave up, links that drop or a driver that restarts.

`CallService` says what is left of it for the callers, and `Stages` how the stage of a call is read off the two chips: a
call on an attribute is `made` while its command is in `cmd_buf`, and `carried` as one request or one
event that ends it, never two of them; a call to bond is `carried` by whatever pairing its link
is in. A call that is `lost` is one of `excused`; of it the service promises nothing but that it is not answered twice.

Host, external: one request at a time per link and at most `AttSize` held; each of
them is answered or fails, before the link's disconnect is reported; a security
request joins the pairing under way; a stored key needs no pairing. Left out: payloads,
attribute handles (the driver ignores them in answers), subscriptions and
notifications (the driver answers `subscribe` itself), scan and connect (`ConnectCalls`).

### ConnectCalls

| Model | Code |
|---|---|
| `slot`, `dying`, `creating`, `cycle` | `connections[]`, links that `bt_conn_disconnect` was called for, the host's attempt, and `connect_pending` with target, attempts and `settling_conn` |
| `scanning`, `scanTimer` | the flag of the discovery scan and its timer |
| `cmd`, `work`, `listing` | `cmd_buf`, the submitted `cmd_work`, the list command's own work item |
| `waiter`, `scanFrom`, `results` | `conn_waiters`, `scan_from`, `scan_results` |
| `asleep` | the `timer:sleep(100)` of a connect that has just disconnected a stale handle: the driver neither drains nor serves |

A call is numbered as in `GattCalls`, for history only. A connect is answered by any
CONNECTED of its address and a scan by any SCAN_DONE; `misled` collects the callers for whom
that was wrong, `excused` those that met a known way to lose their answer: a command
or waiter written over, a cycle or a scan restarted, refused or failed, a reset.
`lossy` says that an event was refused, or that the list command announced a
link that had not settled. The background links that auto-connect brings up are
events of the environment here.

### HueBulb

One bulb process, with everything that news of its link passes through: the table of the nRF, its
queue, the driver's `connections` and `encrypted`, and the mailboxes of the bus and of
the bulb, which are one sequence because the bus relays in order. The bulb reads one message
at a time and can stay in a handler for as long as it likes (GATT calls time out after
seconds), so any number of links may have come and gone before it looks. Only `reconcile`, the
call of a bulb that has just subscribed, sees the driver's view directly and so overtakes what waits.
`lossy` is set where the driver's own view can be wrong (a refused event, a restart of the
ESP32 alone), and cleared when the nRF boots; `missed` where the bulb had no chance to learn of its
link (a failed reconcile call, an unpairing).

### Discovery

`nvs`, `child` and `config` are the three places in which a bulb is registered: the keys, the
children of `myhome_sup` and the list. `down` are children that crashed and are not registered for a
moment: `next_bulb_number` looks for a registered name and takes theirs for free. A
discovery is a series of steps (`todo`, `next`, `paired`), and a restart can fall between
any two. `holed` and `failed` record the circumstances in which the code keeps its books no
longer: the numbers in use are not 1 .. k with k at most 4, or a discovery took the number of a process that was
down (`holed`); an NVS access failed (`failed`). Neither can be left out. With a second failure of NVS `NumbersSound`
breaks too: a removed bulb whose erase failed keeps its key, the next bulb gets its
number, and if saving that fails as well, key and process are of different bulbs. The list is a set of entries,
because nothing in the code reads its order; the list that `skip_known` returns keeps its order, which decides the numbers.

### Wiz

| Model | Code |
|---|---|
| `cache`, `scanning`, `waiters`, `pending` | the fields of `#state` |
| `worker`, `result` | the process spawned by `start_scan`, and `{discovery_result, _}` in the mailbox |
| `Call` | `handle_call` of `pilot` and `get_state`: unknown lamp, known address, or parked |
| `DiscoveryOk`, `DiscoveryError` | `handle_info({discovery_result, _})` with `drain_pending` |
| `addr`, `Move` | DHCP: where a lamp is |

A reply to `getPilot` is heard or not, so loss needs no action of its own. Requests are
handled in the order of arrival and so at the moment they are sent; only the
discovery's result waits. `sent` keeps the order of commands on the network. Static lamps may not move.

### Rules

Time passes in units of the shorter cooldown; `offset` is the wall clock minus the true
time and jumps when SNTP sets it. `Evaluate` is `evaluate_policies` with trigger, cooldown and condition of every
rule of the template's policies; `early` and `late` judge each firing against true time (`fired`, which
unlike the code's `last_fired` survives a restart); `forgotten` holds the rules whose last firing a
restart of the process made the code forget. An
action (`jobs`) is a process of its own that calls the bulbs one after the other: it waits in a
bulb's mailbox (`mail`), then sleeps (`naps`), then calls the next. It dies when its call times out
or the bulb crashes, but what it asked for stays in the mailbox. All sleeps last 2 s, so they end in the
order in which they began (two that begin in the same millisecond included, which is an
assumption); evaluations are seconds apart, so an action is in the first
mailbox before the next one is spawned.

## 3. Runs

| Run | Result | Shows |
|---|---|---|
| `event_link` | passes | `TypeOK`, `NoLostWakeup`, `WholeEvents`, refinement of `EventChannel` (`ChannelSpec`), `EventuallyHandled`, `EventuallyDrained` |
| `ble_central` | passes | `TypeOK`, `ScannerOwned`, `PendingProgress`, `SingleVerdict`, `ViewMatches`, `NoStall` |
| `ble_central_live` | passes | `BondedReconnects` |
| `ble_central_hidden` | violation of `ReconnectsInRange` | with another bonded bulb out of range, a bulb that drops may stay away |
| `bridge` | passes | `TypeOK`, `OneChain`, `NoSpuriousReboot`, `ViewFollows`, `EventuallyOperational` |
| `gatt_calls` | passes | `TypeOK`, `WaiterBacked`, `OwnAnswer`, `HonestOutcome`, refinement of `CallService` (`ServiceSpec`) |
| `connect_calls` | passes | `TypeOK`, `WaiterBacked`, `AnsweredLink`, `HonestScan` |
| `connect_cmd_error` | violation of `CmdErrorFailsWaiters` | a CMD_ERROR fails no connect caller |
| `hue_bulb` | passes | `TypeOK`, `StaleHandleNoticed`, `SettledView` |
| `wiz` | passes | `ScanBacked`, `OrderKept`, `HonestAnswers`, `CacheFresh`, `EventuallyAnswered` |
| `discovery` | passes | `TypeOK`, `NumbersSound`, `Remembered` |
| `rules` | passes | `CooldownHolds`, `LastFiredWins` |

The violations are disagreements between the code and comments of its own; `PROJECT.json`
quotes them under "findings".

### Bounds

- `event_link`: a ring of 2 wraps, fills and refuses; a drain limit of 1 ends every drain
  with what it leaves; 2 pushes besides READY, one failed transfer, one nRF reset and one
  restart of the ESP32 meet each other at every point. The proofs lift all of these bounds.
- `ble_central`: three peers compete for two slots, so the table fills with a bonded
  peer missing; 2 attempts per cycle are one retry; three commands, two drops and
  one fault are enough for a second connect in every phase of a first one, and
  for a list or unpair between. All sets of bonds are initial. The liveness run has
  three bulbs too, one of them out of range, two commands and two drops, and no faults; the run of the
  violation needs two bulbs, no command and one drop.
- `bridge`: a queue of 3 overflows; 3 link events reuse a handle across a READY; two
  resets, a restart and a reset_xiao in every order.
- `gatt_calls`: two links, one characteristic (its entry and the end of the discovery are
  two events), two requests held per link (the third is refused), a queue of two
  (an entry and the end of one discovery fill it). Calls and troubles share one budget of 3: three calls
  that overlap in every way, two calls and one trouble, or one call and two. States are told
  apart by the view `Live`: of a call that waits no more it keeps only whether it was answered as the properties
  ask, because nothing reads the rest. The proofs lift the bound and know no view.
- `connect_calls`: two peers and two handles, so the second call can be for the same peer, for the other
  one, or find its handle reused; two attempts are one retry; two calls and two troubles (drops,
  background links, refusals, resets, commands of others). `connect_cmd_error` needs one of each.
- `hue_bulb`: the bulb and one other peer on two handles; two links are enough for
  a handle to pass from one peer to the other while the bulb has the news of the
  first still before it; a queue of 3 holds CONNECTED, ENC_CHANGE and DISCONNECTED of one link and refuses
  those of the next; one trouble (reset, restart, crash, failed call, unpairing).
- `wiz`: a lamp known by its MAC that can leave the controller's own /24, one known by
  its address, a name no lamp has; three calls, so that two are parked behind one
  discovery and the third comes before, between or after; one move, periodic
  refresh and restart each.
- `discovery`: `load_bulbs` reads 2 keys instead of 4 and `next_bulb_number` tries 3 instead of 8, with
  four bulbs, so both limits are passed; three discoveries of up to two bulbs, one removal, two failures (one
  that starts trouble and one that completes it), two restarts or crashes.
- `rules`: two bulbs are one gap; three actions with two troubles overlap in every way. A day has 8 units and the clock
  can be set to the evening, just after or before its edge; cooldowns of 1 and 2 units in a time of 2.
- Bounds on faults and commands end; nothing else depends on them. The runs other than `bridge` do not
  check deadlock because the system is idle, legitimately, once
  the bounds are used up. `Bridge` is never idle (time passes) and is checked for it.

### Fairness

- `EventLink`: the gen_server's mailbox is served in order, so each kind of message in
  it is eventually taken (strong fairness, since other messages may come first); a
  started drain takes its next transfer; timers fire; the nRF boots. Failures,
  pushes and restarts are never forced.
- `BleCentral`: delayed work items run and an attempt in flight ends. A peer in
  `Reachable` keeps advertising and an attempt to connect to it does not fail for ever;
  without that no code could promise a connection.
- `Bridge`: time passes, timers fire, queued events are drained, work items run. Not
  that links come up, nor that anything is reset.
- `Wiz`: a worker ends (its deadline, or the `catch` around it), and a result in the mailbox is
  handled. Nothing is assumed of lamps or callers.

## 4. Proofs

All with TLAPS, for every value of the constants under the modules' assumptions
(sizes and limits positive, READY an event, at least three ping periods per
watchdog, no more keys loaded than numbers tried, `Me` one of the bulbs, `None` not among the
values it stands beside).

- `EventLinkProofs`. `LinkInv` adds to the properties that `tail = (head + count) % Size`, and
  that between its two reads the driver holds the oldest entry
  (`HeadIsPeeked`): neither `IrqMeansPending` (the IRQ line is LOW exactly while events are
  queued) nor `WholeEvents` is inductive alone. The ring
  arithmetic is in five lemmas. The refinement rests on three more: what a push, a
  pop and a reset do to the window of the ring, so that each step is a step of
  `EventChannel` or leaves its variables alone.
- `BleCentralProofs`. `CentralInv` is the conjunction of the run's invariants with four more:
  `PendingOwnsCreate` (an attempt in flight during a cycle is the cycle's) and `Bookkeeping`:
  an attempt in flight has a free slot and an unconnected peer, and a cycle retries
  only within its limit; `AttemptOpen`: an attempt that is not the engine's belongs to a cycle that has not
  ended, or was abandoned for a command that was refused; `EncAfterConnected`: what was announced as encrypted is in the table. One lemma per conjunct, one step per action in each. The
  conjuncts lean on each other: `SingleVerdict` needs `PendingProgress`, which needs
  `PendingOwnsCreate`; it counts the answers that list commands gave early, so every list in the settle window
  is a case of its proof.
- `BridgeProofs`. `AliveInv` says where the time goes before the first restart: a
  running nRF has READY at the head of its queue or has been heard; the first ping comes
  within two periods of a boot, later ones within the next. That is why `Wdt > 2` is
  needed and why `NoSpuriousReboot` holds for any number of resets. `ViewFollows` is stated handle by handle: the
  last event in the queue that is about a handle, or else the driver's record, says who has it (`LastWord`). Four
  lemmas say what pushing one event, pushing the whole list and handling the oldest one do to that last
  word. `ViewInv` adds what the first READY after a boot needs: until then the driver has nothing on record, and a chip that is down
  has no links.
- `HueBulbProofs`. `StaleHandleNoticed` is about the two ends of a path with two queues and says nothing of the
  middle, so `BulbInv` follows one handle along it. What the driver has on record counts as a CONNECTED before
  the event queue, at index 0, and the bulb's handle as one before its mailbox; what a bulb will have when it has
  read everything is what it `Keeps`. Then: whoever is given a handle that the table gives to another loses it
  further on (`Closed`); between two owners of a handle in the queue there is its DISCONNECTED or a READY (`Apart`);
  a handle that the bulb keeps is on the driver's record (`Recorded`), and as the bulb's own unless a READY is queued
  (`Own`). `Recorded` holds even where events were lost, because a restarted nRF makes the driver publish the end of
  every link on record, which is what `OnReady` is for. One lemma per action; pushing, popping, appending and
  inserting are lemmas about sequences of their own.
  `SettledView` asks what the bulb knows once both queues are empty, so its two invariants say it of queues that are not.
  `QueueInv`: the last word on each handle, in the queue or else on the driver's record, is the table's, encryption
  included (`Leads`), and the bulb is given one handle at a time (`Single`, `OneLink`). `MailInv`, while no event
  was lost and no READY waits: the last word in the mailbox on the bulb's own link is the driver's
  (`Told`); an encryption that the driver does not know of is followed by a newer link (`Outdated`); a
  bulb that takes the handle ends with the driver's view of its encryption (`Judged`); and one that nothing will tell
  of its handle has it (`Reached`).
- `GattCallsProofs`. `CallsInv` has two halves: `NrfInv`, what the handlers of the nRF keep (a
  submitted work item finds a command for a handle, a held request has its label), and
  `EspInv`, what those of the driver keep (a waiter is a call of that kind on that handle). The
  heart is `ReplyOK`: a reply through one entry of the waiter maps ends a call that no
  other entry refers to, because an entry's kind and handle are the call's. Hence no second answer. `WaiterBacked` and `OwnAnswer` need the whole path at once, since answers are matched by
  handle alone: `AllAssured` says of each waiting call that is not excused where it stands (in `cmd_buf`, at the host,
  in the queue), that from there on its own answer is the first thing on its handle that its kind of call would take, and
  that a discovery finds before it exactly the characteristics that its list still lacks, in order. Each is
  false after some step of the other alone: a caller is told its own answer because none of another's is before it,
  and none of another's is before it because an overlap in kind excuses the call.
  `HonestOutcome` compares what a caller is told, now, with how its operation ended on the nRF, earlier. `HonestInv` says of
  each write and bond still waiting that it has `Truth`: as soon as its operation has ended, and not before, there is an
  event in the queue that will answer it, and the first such event says how it ended. It rests on `AllAssured`, which
  makes that event the caller's own.
  The refinement of `CallService` needs that an answer is the only one: `AllProgress` says that what comes for a call
  on an attribute is exactly one of its command, a request of the host and an event that ends it, and `Sourced` that each of these is of a
  call that was made, so that nothing comes for a new one. Every step then leaves the waiting calls where they are, but
  for one that it carries out (`Moved`), and is one of five kinds (`StepKinds`): it touches no call, answers one, ends one by
  time-out, fails them all, or makes one. Each kind is a step of the service or a stutter.
- `ConnectCallsProofs`. `CallsInv` has four parts. `Shape`: an entry of the waiters, of `cmd_buf` and of the connect
  cycle refers to a call of its kind and address, and the stages of command, cycle and scan fit. `Links`: a
  CONNECTED in the queue is of a link that stands, or its end is behind it in the queue (`Announced`); so whoever
  is answered by it has the link or is going to hear of its end. `Fresh`: unless the scan is excused, no result or end of
  another scan is on its way. `Backed`: `WaiterBacked`, per call. `Links` is the part that reordering could break: the
  list command queues CONNECTED for links of which the DISCONNECTED may follow at once.
- `HomeProofs`, rules. `CooldownHolds` follows from `CoolInv`: `last_fired` of a rule is the moment of its last firing on the
  clock of that moment, so what the code subtracts is the true time plus the jump of the clock; a rule
  without `last_fired` that has fired is one that a restart made the process forget (`forgotten`). `LastFiredWins`
  follows from `OrderInv`: at every bulb the mailbox is in the order of firing, behind what the bulb has taken
  already and ahead of what is still napping before it, and the naps of one gap are in that order too. It is
  the equal length of the gaps that keeps it: actions that overlap never overtake.
- `HomeProofs`, discovery. `NumbersSound` speaks of every moment of a discovery, and `Remembered` of the time between two, so neither is inductive.
  `Kept` says what is under way: the numbers that pairing has given, and all from the next one on, are
  free, and its bulbs are new and different (`Fresh`, `Pairing`); while saving, the entries are in two parts, those
  that are in NVS under their number and those whose number is still free there, and NVS holds
  nothing but these and what runs (`Saving`). So a restart between any two writes finds in NVS what runs and
  a first part of what was paired, in numbers that nothing else has (`Books`). `NextIsFree` is where the limits meet: the number
  chosen is above all in use only because `load_bulbs` reads no more keys than `next_bulb_number` tries (4 and 8).
- `WizProofs`. `WizInv` joins both theorems with `Heard`: what the worker has heard, and what its result says, is
  true of every lamp that has not moved since the discovery started. That, and not the cache, is what a
  move can spoil, so `CacheFresh` alone is not inductive; and two addresses heard of one lamp mean that it moved.
  `OrderKept` and `HonestAnswers` are about what has been sent, and follow from `TrafficInv`: a call is parked in one place
  (`Queued`), what is parked is newest first and younger than all that was sent to its lamp (`Newer`), a call is sent
  once exactly when it was answered ok (`Posted`, `Fulfilled`), the batch numbers only grow (`Numbered`), and two of
  what was sent to one lamp are in turn unless they were parked together (`InTurn`). What one discovery serves is
  described by its order (`Served`), not by a filter: the lemmas need only that it is a sequence without
  repetition, in the order of `Parked`.

The assumptions on constants are those of the modules and say nothing that the code does not: limits are positive, and the
value for nothing (`None`) is none of the kinds, links or peers that it stands beside.

Only model-checked: everything under fairness (`EventuallyHandled`, `EventuallyDrained`,
`BondedReconnects`, `EventuallyOperational`, `EventuallyAnswered`), which is out of this prover's reach. All
other properties that the passing runs check are theorems. The findings are counterexamples of TLC's.

## 5. Known divergences

What the models show of the code, the two findings included. The properties that would fail because of them
name them as exceptions, at the property or at the variable that records them (`excused`, `lossy`, `stalled`, ...). Not all are in every module: transfers fail in
`EventLink`, `GattCalls` and `ConnectCalls`, whereas `Bridge` and `HueBulb` take every ping, list command and read to
work, so what they say is of histories without such a loss.

- A transfer that fails in a drain ends it with events left and the line LOW: no push drives an edge any
  more, so nothing looks at them before one of the chips restarts (`myhome_ble_i2c.erl:445`).
- A command that stopped auto-connect and is then refused by the host does not start it again
  (`ble_central.c:775`, 297): a bonded bulb stays away until something else re-arms the engine.
- A bulb that was heard while connected and drops is hidden by the duplicate filter as long as the same background scan goes on
  for a bulb that is out of range (`ble_central.c:439`, 687): run `ble_central_hidden`, a finding. `BondedReconnects` states the
  filter as its condition (`Hidden`).
- Links do not outlive a restart of the ESP32 alone, although `README.md:83` says so: no READY comes, so no ping, and the watchdog
  reboots the nRF (`myhome_ble_i2c.erl:371`).
- The first READY after a start of the driver keeps connections that were adopted before it (`myhome_ble_i2c.erl:365-367`, 486).
- A bond call is answered ok when the link is encrypted (`myhome_ble_i2c.erl:564-582`); the keys are distributed after that, and if
  it fails nobody tells the caller. `HonestOutcome` holds such a bond to its encryption only.
- A read that fails on the nRF is answered like a read of an empty value (`gatt_client.c:142-149`).
- EVT_CMD_ERROR is queued with one byte and matched with two: it is dropped (`myhome_ble_i2c.erl:637`; run `connect_cmd_error`, a finding).
- The list command announces a link in its settle window, which answers the connect too soon: it is announced again when it has settled, and if it drops, the driver hears only a CMD_ERROR and keeps the
  link (`ble_central.c:659`, 901).
- A discovery scan whose restart is refused leaves its flag set without the timer that would clear it.
- Commands parked behind one WiZ discovery are sent newest first, so the oldest has the last word; calls that
  are parked behind a full scan can outlast their callers' time-out and are carried out nevertheless. Of two addresses heard of one
  lamp, the higher one is kept (`myhome_wiz.erl:242-257`, 304-314).
- `next_bulb_number` and `pair_all` count a bulb process that is down as a free number, and NVS is read up to the first gap: bulbs
  behind a gap, or beyond the fourth, are not loaded, and two bulbs may share a number (`myhome_discovery.erl:121-122`, 250).
- A light sensor that cannot be read counts as lux 0.0, that is as darkness. A restart of the rules process forgets cooldowns, so each rule may fire once more within its own although
  `AUTOMATION_RULES.md:30` promises a minimum between firings, and readings until a
  sensor value changes.

## 6. Plan

Done, in this order: the event path, the radio, the two chips, calls on links, calls before a link, the bulb process,
WiZ, discovery, rules. What is left, the most important first:

1. `ConnectCalls` as an implementation of `CallService`: a connect is carried out by a cycle that may serve several callers,
   so its stages need the cycle's history.
2. `HttpWifi`: the reboot timer against a message that is in the mailbox already.
3. `LogRing`, `LocalTime`: pure functions against reference definitions.

## 7. Not modelled

- Log ring (`myhome_log.erl`): one process, a list and a counter; nothing depends on it.
- Local time (`myhome_time.erl`): arithmetic without state. `Rules` takes the wall clock as it is.
- WiFi and HTTP start-up (`myhome_http.erl`): the network stack and its server are outside the
  repository; the one timer of it is a hazard in `PROJECT.json`.
- HTTP routing and JSON (`myhome_http_handler.erl`), LCD layout, the web viewer, the MCP
  server, the AtomVM patch, build files and the documents under `plans/`: formatting, I/O
  or clients without state of their own.
- Subscriptions and notifications: the driver never writes the command.
- The Zephyr host and controller, the I2C and GPIO drivers, AtomVM, SNTP and DHCP are external and appear only
  as their effects.
