------------------------------ MODULE GattCalls ------------------------------
(***************************************************************************)
(* A call on a link, from gen_server:call to its answer.                   *)
(*                                                                         *)
(* myhome_ble_i2c.erl writes the command over I2C and keeps the caller in  *)
(* a map keyed by kind and connection handle.  On the nRF52840,            *)
(* handle_command_isr copies the command into the only cmd_buf and submits *)
(* the only work item; cmd_work_handler starts the operation in            *)
(* gatt_client.c or ble_central.c, whose callbacks queue the answer,       *)
(* labelled from the globals of the last operation of that kind.  The      *)
(* driver gives an answer to whoever waits under that kind and handle.     *)
(*                                                                         *)
(* No call carries an identity through all this.  Here it does: call n is  *)
(* the n-th, and commands, operations and events remember in their field   *)
(* call whose they are.  Nothing the code does reads that field.           *)
(*                                                                         *)
(* The Zephyr host is external: per link one ATT request at a time, the    *)
(* others waiting behind it, and one pairing; a link that drops ends its   *)
(* requests with an error first.  Payloads, attributes and the addresses   *)
(* of peers are left out; links come and go by themselves (BleCentral) and *)
(* only the events that answer calls are in the queue.                     *)
(***************************************************************************)
EXTENDS Naturals, Sequences, SequencesExt

CONSTANTS
  Link,         \* connection handles
  None,
  NChars,       \* characteristics of a bulb
  AttSize,      \* ATT requests the host holds per link
  QueueSize,    \* EVENT_QUEUE_SIZE, 32
  MaxSteps      \* bound: calls and troubles (commands without an answer, callers
                \*   that give up, links that drop, refused operations, failed
                \*   transfers, restarts) together

Gatt == {"discover", "read", "write"}
Kind == Gatt \cup {"bond"}

CharRecord == [src : Link, pos : 1 .. NChars]

ASSUME GattCallsAssumption ==
  /\ None \notin Link /\ None \notin Nat /\ None \notin Kind /\ None \notin CharRecord
  /\ NChars \in Nat \ {0} /\ AttSize \in Nat \ {0} /\ QueueSize \in Nat \ {0}
  /\ MaxSteps \in Nat

VARIABLES
  \* nRF52840
  up,        \* handles with a connection in connections[]
  sec,       \* security of each link: "plain", "pairing", "keys", "secured"
  cmd,       \* cmd_buf
  work,      \* cmd_work is submitted
  running,   \* cmd_work_handler has read this cmd_buf[0], not yet the rest
  att,       \* requests the host holds, by link
  label,     \* discover_conn_handle, read_conn_handle, write_conn_handle
  pos,       \* characteristics found since discover_params was set up
  queue,     \* events not yet drained
  \* ESP32
  calls,     \* the calls made so far
  waiter,    \* discover_, gatt_read_, gatt_write_ and bond_waiters
  results,   \* discover_results
  \* history
  excused,   \* calls that met one of the known ways to lose an answer
  misled,    \* calls given another call's answer
  oks,       \* calls told "ok"
  outcome,   \* of writes and bonds while their callers wait: "open", "failed", "done";
             \*   of bonds also "encrypted", keys to come, and "unbonded", they did not
  troubles

nrf   == <<up, sec, cmd, work, running, att, label, pos>>
esp   == <<calls, waiter, results>>
told  == <<misled, oks>>
vars  == <<nrf, queue, esp, excused, told, outcome, troubles>>

Waiting == {n \in DOMAIN calls : calls[n].state = "waiting"}
CallId  == 1 .. MaxSteps
Char(l, i) == [src |-> l, pos |-> i]
Whole(l)   == [i \in 1 .. NChars |-> Char(l, i)]

NoCmd == [kind |-> "none", link |-> None, call |-> None]

Init ==
  /\ up = Link /\ sec \in [Link -> {"plain", "secured"}]
  /\ cmd = NoCmd
  /\ work = FALSE /\ running = None
  /\ att = [l \in Link |-> <<>>]
  /\ label = [k \in Gatt |-> None] /\ pos = 0
  /\ queue = <<>>
  /\ calls = <<>>
  /\ waiter = [k \in Kind |-> [l \in Link |-> None]]
  /\ results = [l \in Link |-> <<>>]
  /\ excused = {} /\ misled = {} /\ oks = {}
  /\ outcome = [n \in CallId |-> "open"]
  /\ troubles = 0

Trouble == troubles + Len(calls) < MaxSteps /\ troubles' = troubles + 1

-----------------------------------------------------------------------------
(* ESP32: making a call                                                     *)

\* The call whose command is in cmd_buf and has not been executed yet.
Unexecuted == IF work \/ running # None THEN {cmd.call} \ {None} ELSE {}

\* i2c:write_bytes to REG_CMD: handle_command_isr copies the command over
\* whatever cmd_buf holds and submits the work item.
WriteCmd(k, l, n) ==
  /\ cmd' = [kind |-> k, link |-> l, call |-> n]
  /\ work' = TRUE

\* The events that answer a call of kind k.
Answers(k) == IF k = "bond" THEN {"bond", "enc"} ELSE {k}

\* Something of another call of kind k could still be taken for an answer to a
\* call on l: its waiter, its command, its operation (their globals are shared
\* by all links) or its event.
Entangled(k, l) ==
  \/ waiter[k][l] \in Waiting
  \/ \E i \in DOMAIN queue : queue[i].kind \in Answers(k) /\ queue[i].link = l
  \/ k \in Gatt /\ \E h \in Link : \E i \in DOMAIN att[h] : att[h][i].kind = k
  \/ work /\ cmd.kind = k
  \/ running = k

\* Calls of kind k that a new one on l can disturb.
Rivals(k, l) ==
  {n \in Waiting : calls[n].kind = k /\ (k \in Gatt \/ calls[n].link = l)}

\* Mutant of Register: discover_results is not reset.
Register_KeepsResults(k, l, n) ==
  /\ waiter' = [waiter EXCEPT ![k][l] = n]
  /\ UNCHANGED results

\* The caller becomes the waiter of kind k for l, in the place of any other.
Register(k, l, n) ==
  /\ waiter' = [waiter EXCEPT ![k][l] = n]
  /\ results' = IF k = "discover" THEN [results EXCEPT ![l] = <<>>] ELSE results

\* handle_call of bond, gatt_discover, gatt_read and gatt_write
Call(k, l) ==
  LET n == Len(calls) + 1
  IN  /\ troubles + n <= MaxSteps
      /\ calls' = Append(calls, [kind |-> k, link |-> l, state |-> "waiting"])
      /\ WriteCmd(k, l, n)
      /\ Register(k, l, n)
      /\ excused' = excused \cup Unexecuted
                            \cup IF Entangled(k, l) THEN Rivals(k, l) \cup {n} ELSE {}
      /\ UNCHANGED <<up, sec, running, att, label, pos, queue, told, outcome,
                     troubles>>

\* The transfer fails: the caller is told at once and does not wait.  The nRF
\* may have received the command all the same.
CallFails(k, l) ==
  /\ troubles + Len(calls) + 2 <= MaxSteps
  /\ Trouble
  /\ calls' = Append(calls, [kind |-> k, link |-> l, state |-> "failed"])
  /\ \/ /\ WriteCmd(k, l, None)
        /\ excused' = excused \cup Unexecuted
                              \cup IF k \in Gatt THEN Rivals(k, l) ELSE {}
     \/ UNCHANGED <<cmd, work, excused>>
  /\ UNCHANGED <<up, sec, running, att, label, pos, queue,
                 waiter, results, told, outcome>>

\* Commands whose callers are answered when they are written: gatt_write_nr,
\* disconnect, delete_bond, the connection list.
Plain(l) ==
  /\ Trouble
  /\ WriteCmd("plain", l, None)
  /\ excused' = excused \cup Unexecuted
  /\ UNCHANGED <<up, sec, running, att, label, pos, queue, esp, told, outcome>>

\* safe_call gives up; the driver is not told, its waiter stays.
Timeout(n) ==
  /\ Trouble
  /\ n \in Waiting
  /\ calls' = [calls EXCEPT ![n].state = "timeout"]
  /\ UNCHANGED <<nrf, queue, waiter, results, excused, told, outcome>>

\* The driver restarts alone: its callers see it exit, the nRF goes on.
Restart ==
  /\ Trouble
  /\ calls' = [n \in DOMAIN calls |->
                 IF n \in Waiting THEN [calls[n] EXCEPT !.state = "failed"] ELSE calls[n]]
  /\ waiter' = [k \in Kind |-> [l \in Link |-> None]]
  /\ results' = [l \in Link |-> <<>>]
  /\ UNCHANGED <<nrf, queue, excused, told, outcome>>

-----------------------------------------------------------------------------
(* nRF52840: the work item                                                  *)

\* Mutant of CmdStart: the work item stays submitted and runs again.
CmdStart_RunsAgain ==
  /\ work /\ running = None
  /\ running' = cmd.kind
  /\ UNCHANGED <<up, sec, cmd, work, att, label, pos, queue, esp, excused, told, outcome,
                 troubles>>

\* cmd_work_handler reads the command's identifier ...
CmdStart ==
  /\ work /\ running = None
  /\ work' = FALSE
  /\ running' = cmd.kind
  /\ UNCHANGED <<up, sec, cmd, att, label, pos, queue, esp, excused, told, outcome,
                 troubles>>

\* gatt_client_discover, gatt_client_read, gatt_client_write: the globals are set
\* before the host is asked, whatever it holds already.  A refusal is recorded
\* in last_cmd_result only, which the driver never reads.
StartGatt(k, l, n) ==
  /\ label' = [label EXCEPT ![k] = l]
  /\ pos' = IF k = "discover" THEN 0 ELSE pos
  /\ \/ /\ Len(att[l]) < AttSize
        /\ att' = [att EXCEPT ![l] = Append(@, [kind |-> k, call |-> n])]
        /\ UNCHANGED <<excused, troubles>>
     \/ /\ IF Len(att[l]) < AttSize THEN Trouble ELSE UNCHANGED troubles
        /\ excused' = excused \cup ({n} \ {None})
        /\ UNCHANGED att

\* ble_central_bond: the host starts pairing, joins the one under way, or has
\* nothing to do on a link that is encrypted.
StartBond(l, n) ==
  \/ /\ sec[l] = "plain"
     /\ sec' = [sec EXCEPT ![l] = "pairing"]
     /\ UNCHANGED <<excused, troubles>>
  \/ /\ sec[l] \in {"pairing", "keys"}
     /\ UNCHANGED <<sec, excused, troubles>>
  \/ /\ IF sec[l] = "secured" THEN UNCHANGED troubles ELSE Trouble
     /\ sec[l] \in {"plain", "secured"}
     /\ excused' = excused \cup ({n} \ {None})
     /\ UNCHANGED sec

\* ... and then the rest of cmd_buf, which may be another command's by now.  Nobody
\* reads cmd_buf after that until it is written again.
CmdExec ==
  LET l == cmd.link
      n == IF cmd.kind = running THEN cmd.call ELSE None
  IN  /\ running # None
      /\ running' = None
      /\ cmd' = IF work THEN cmd ELSE NoCmd
      /\ \/ /\ running = "plain"
            /\ UNCHANGED <<sec, att, label, pos, excused, troubles>>
         \/ /\ running \in Kind /\ l \notin up
            /\ excused' = excused \cup ({n} \ {None})
            /\ UNCHANGED <<sec, att, label, pos, troubles>>
         \/ /\ running \in Gatt /\ l \in up
            /\ StartGatt(running, l, n)
            /\ UNCHANGED sec
         \/ /\ running = "bond" /\ l \in up
            /\ StartBond(l, n)
            /\ UNCHANGED <<att, label, pos>>
      /\ UNCHANGED <<up, work, queue, esp, told, outcome>>

-----------------------------------------------------------------------------
(* nRF52840: callbacks                                                      *)

\* Mutant of Push: no full check.
Push_Unbounded(es) ==
  /\ queue' = queue \o es
  /\ UNCHANGED excused

\* event_queue_push, one after the other; those that do not fit are refused.
Push(es) ==
  LET room == QueueSize - Len(queue)
      fit  == IF room < Len(es) THEN room ELSE Len(es)
  IN  /\ queue' = queue \o SubSeq(es, 1, fit)
      /\ excused' = excused \cup
           ({es[i].call : i \in (fit + 1) .. Len(es)} \ {None})

Event(k, l, n, good) ==
  [kind |-> k, link |-> l, call |-> n, good |-> good, char |-> None]

\* The writes and bonds that may still be told how they ended.
Watched == {n \in Waiting : calls[n].kind \in {"write", "bond"}}

\* The operation of call n ended so, if it is one of them and had not ended before.
Ended(n, how) ==
  outcome' = IF n \in Watched /\ outcome[n] = "open"
             THEN [outcome EXCEPT ![n] = how] ELSE outcome

\* Mutant of HostAnswers: a failure is only logged.
HostAnswers_SilentError(l, good) ==
  /\ att[l] # <<>>
  /\ LET op == Head(att[l])
     IN  IF good THEN Push(<<Event(op.kind, label[op.kind], op.call, TRUE)>>)
                 ELSE UNCHANGED <<queue, excused>>
  /\ att' = [att EXCEPT ![l] = Tail(@)]
  /\ Ended(Head(att[l]).call, IF good THEN "done" ELSE "failed")
  /\ UNCHANGED <<up, sec, cmd, work, running, label, pos, esp, told, troubles>>

\* discover_cb, read_cb, write_cb: the host has the answer to the oldest request
\* of link l, or its failure.  A discovery goes on with another request until
\* the bulb has no more characteristics.
HostAnswers(l, good) ==
  /\ att[l] # <<>>
  /\ LET op == Head(att[l])
         h  == label[op.kind]
         more == op.kind = "discover" /\ good /\ pos < NChars
     IN  /\ att' = [att EXCEPT ![l] = IF more THEN Append(Tail(@), op) ELSE Tail(@)]
         /\ pos' = IF more THEN pos + 1 ELSE pos
         /\ Push(<<IF more
                   THEN [Event("discover", h, op.call, TRUE)
                           EXCEPT !.char = Char(l, pos + 1)]
                   ELSE Event(op.kind, h, op.call, good)>>)
         /\ Ended(op.call, IF good THEN "done" ELSE "failed")
  /\ UNCHANGED <<up, sec, cmd, work, running, label, esp, told, troubles>>

\* A pairing answers whoever waits for one on this link when it ends.
BondCall(l) == IF waiter["bond"][l] \in Waiting THEN waiter["bond"][l] ELSE None

\* security_changed_cb: encrypted with a stored key, or with a new one that is
\* still to be distributed.
Encrypted(l) ==
  /\ sec[l] = "pairing"
  /\ \E s \in {"keys", "secured"} :
       /\ sec' = [sec EXCEPT ![l] = s]
       /\ Ended(BondCall(l), IF s = "keys" THEN "encrypted" ELSE "done")
  /\ Push(<<Event("enc", l, BondCall(l), TRUE)>>)
  /\ UNCHANGED <<up, cmd, work, running, att, label, pos, esp, told, troubles>>

\* The keys of link l came, or did not: the bond of the call that waits for them ended
\* one way, that of a call whose link was encrypted by this pairing before another.
KeysEnded(l, how, how2) ==
  outcome' = [n \in CallId |->
                IF n \in Watched /\ n = BondCall(l) /\ outcome[n] = "open" THEN how
                ELSE IF outcome[n] = "encrypted" /\ calls[n].link = l THEN how2
                ELSE outcome[n]]

\* pairing_complete
PairingComplete(l) ==
  /\ sec[l] = "keys"
  /\ sec' = [sec EXCEPT ![l] = "secured"]
  /\ Push(<<Event("bond", l, BondCall(l), TRUE)>>)
  /\ KeysEnded(l, "done", "done")
  /\ UNCHANGED <<up, cmd, work, running, att, label, pos, esp, told, troubles>>

\* security_changed_cb with an error and pairing_failed after it, or one of them: a
\* stored key fails without a pairing, a distribution of keys on an encrypted link.
PairingFails(l) ==
  /\ sec[l] \in {"pairing", "keys"}
  /\ sec' = [sec EXCEPT ![l] = IF @ = "keys" THEN "secured" ELSE "plain"]
  /\ \/ Push(<<Event("bond", l, BondCall(l), FALSE), Event("bond", l, None, FALSE)>>)
     \/ Push(<<Event("bond", l, BondCall(l), FALSE)>>)
  /\ KeysEnded(l, "failed", "unbonded")
  /\ UNCHANGED <<up, cmd, work, running, att, label, pos, esp, told, troubles>>

\* connected_cb.  The engine's own links are encrypted at once.  A call made for
\* the handle's last connection would act on this one.
LinkUp(l) ==
  /\ l \notin up
  /\ up' = up \cup {l}
  /\ \E s \in {"plain", "pairing"} : sec' = [sec EXCEPT ![l] = s]
  /\ excused' = excused \cup {n \in Waiting : calls[n].link = l}
  /\ UNCHANGED <<cmd, work, running, att, label, pos, queue, esp, told, outcome,
                 troubles>>

\* disconnected_cb, after the host has ended what was under way on the link.
Drop(l) ==
  /\ Trouble
  /\ l \in up /\ att[l] = <<>> /\ sec[l] \notin {"pairing", "keys"}
  /\ up' = up \ {l}
  /\ sec' = [sec EXCEPT ![l] = "plain"]
  /\ UNCHANGED <<cmd, work, running, att, label, pos, queue, esp, excused, told,
                 outcome>>

\* The nRF reboots: the driver's waiters are not told (its re-READY clause leaves
\* them alone).
Reset ==
  /\ Trouble
  /\ up' = {} /\ sec' = [l \in Link |-> "plain"]
  /\ cmd' = NoCmd
  /\ work' = FALSE /\ running' = None
  /\ att' = [l \in Link |-> <<>>]
  /\ label' = [k \in Gatt |-> None] /\ pos' = 0
  /\ queue' = <<>>
  /\ excused' = excused \cup Waiting
  /\ outcome' = [n \in CallId |-> IF outcome[n] = "encrypted" THEN "unbonded" ELSE outcome[n]]
  /\ UNCHANGED <<esp, told>>

-----------------------------------------------------------------------------
(* ESP32: handle_event                                                      *)

Drained(kinds) ==
  /\ queue # <<>> /\ Head(queue).kind \in kinds
  /\ queue' = Tail(queue)
  /\ UNCHANGED <<nrf, excused, outcome, troubles>>

\* gen_server:reply to the waiter of kind k for the event's handle, if any.
\* right: the data handed over is that of the event's call; ok: what the caller
\* is told.
Reply(k, right, ok) ==
  LET e   == Head(queue)
      n   == waiter[k][e.link]
      own == e.call = n /\ right
  IN  IF n \in Waiting
      THEN /\ calls' = [calls EXCEPT ![n].state = "answered"]
           /\ misled' = IF own THEN misled ELSE misled \cup {n}
           /\ oks' = IF ok THEN oks \cup {n} ELSE oks
      ELSE UNCHANGED <<calls, told>>

Resolved(k) == waiter' = [waiter EXCEPT ![k][Head(queue).link] = None]

\* EVT_GATT_READ_RSP: whatever follows the handles is the value read.
ReadRsp ==
  /\ Drained({"read"})
  /\ Reply("read", TRUE, TRUE)
  /\ Resolved("read")
  /\ UNCHANGED results

\* EVT_GATT_WRITE_RSP
WriteRsp ==
  /\ Drained({"write"})
  /\ Reply("write", TRUE, Head(queue).good)
  /\ Resolved("write")
  /\ UNCHANGED results

\* Mutant of BondComplete: the status is not looked at.
BondComplete_AlwaysOk ==
  /\ Drained({"bond"})
  /\ Reply("bond", TRUE, TRUE)
  /\ Resolved("bond")
  /\ UNCHANGED results

\* EVT_BOND_COMPLETE
BondComplete ==
  /\ Drained({"bond"})
  /\ Reply("bond", TRUE, Head(queue).good)
  /\ Resolved("bond")
  /\ UNCHANGED results

\* EVT_ENC_CHANGE resolves bond calls as well.
EncChange ==
  /\ Drained({"enc"})
  /\ Reply("bond", TRUE, Head(queue).good)
  /\ Resolved("bond")
  /\ UNCHANGED results

\* EVT_GATT_SERVICES with a characteristic
ServicesEntry ==
  /\ Drained({"discover"})
  /\ Head(queue).char # None
  /\ results' = [results EXCEPT ![Head(queue).link] = Append(@, Head(queue).char)]
  /\ UNCHANGED <<calls, waiter, told>>

\* EVT_GATT_SERVICES with handle 0: the discovery is done.
ServicesDone ==
  LET l == Head(queue).link
  IN  /\ Drained({"discover"})
      /\ Head(queue).char = None
      /\ Reply("discover", Head(queue).good => results[l] = Whole(l), TRUE)
      /\ Resolved("discover")
      /\ results' = [results EXCEPT ![l] = <<>>]

-----------------------------------------------------------------------------
Next ==
  \/ \E k \in Kind, l \in Link : Call(k, l) \/ CallFails(k, l)
  \/ \E l \in Link : Plain(l)
  \/ \E n \in Waiting : Timeout(n)
  \/ Restart \/ Reset
  \/ CmdStart \/ CmdExec
  \/ \E l \in Link :
       \/ \E good \in BOOLEAN : HostAnswers(l, good)
       \/ Encrypted(l) \/ PairingComplete(l) \/ PairingFails(l)
       \/ LinkUp(l) \/ Drop(l)
  \/ ReadRsp \/ WriteRsp \/ BondComplete \/ EncChange
  \/ ServicesEntry \/ ServicesDone

Spec == Init /\ [][Next]_vars

-----------------------------------------------------------------------------
(* Properties                                                               *)

MaybeId == CallId \cup {None}

Command     == [kind : Kind \cup {"plain", "none"}, link : Link \cup {None},
                call : MaybeId]
Request     == [kind : Gatt, call : MaybeId]
QueuedEvent == [kind : Kind \cup {"enc"}, link : Link, call : MaybeId,
                good : BOOLEAN, char : CharRecord \cup {None}]
CallRecord  == [kind : Kind, link : Link,
                state : {"waiting", "answered", "failed", "timeout"}]

\* Types of all variables.
TypeOK ==
  /\ up \subseteq Link
  /\ sec \in [Link -> {"plain", "pairing", "keys", "secured"}]
  /\ cmd \in Command
  /\ work \in BOOLEAN /\ running \in Kind \cup {"plain", None}
  /\ att \in [Link -> Seq(Request)]
  /\ label \in [Gatt -> Link \cup {None}] /\ pos \in 0 .. NChars
  /\ queue \in Seq(QueuedEvent) /\ Len(queue) <= QueueSize
  /\ calls \in Seq(CallRecord)
  /\ Len(calls) + troubles <= MaxSteps
  /\ waiter \in [Kind -> [Link -> MaybeId]]
  /\ results \in [Link -> Seq(CharRecord)]
  /\ excused \subseteq CallId /\ misled \subseteq CallId /\ oks \subseteq CallId
  /\ outcome \in [CallId -> {"open", "failed", "done", "encrypted", "unbonded"}]
  /\ troubles \in Nat

\* Whoever is still in a waiter map either waits or has given up: a caller that
\* was answered is forgotten at once, although two kinds of event can answer a
\* bond call, so no call is answered twice.
AnsweredOnce ==
  \A k \in Kind, l \in Link :
    waiter[k][l] # None => calls[waiter[k][l]].state \in {"waiting", "timeout"}

\* n's answer is on its way: as a command, an operation of the host, or an event
\* that carries the handle n waits under.
OnItsWay(n) ==
  \/ n \in Unexecuted
  \/ calls[n].kind = "bond" /\ sec[calls[n].link] \in {"pairing", "keys"}
  \/ \E l \in Link : \E i \in DOMAIN att[l] : att[l][i].call = n
  \/ \E i \in DOMAIN queue :
       queue[i].call = n /\ queue[i].link = calls[n].link /\ queue[i].char = None

\* A caller waits for something that will come: it is the waiter of its kind and
\* handle and its answer is on its way.  The known exceptions (excused) are a
\* command overwritten in cmd_buf, a refused start, an encrypted link asked to
\* bond, a full event queue, a nRF reset, a handle given to another connection
\* under the call, and calls that overlap in kind.
WaiterBacked ==
  \A n \in Waiting \ excused :
    waiter[calls[n].kind][calls[n].link] = n /\ OnItsWay(n)

\* A caller is given its own answer, and a discovery all characteristics of its
\* own bulb in their order, although answers are matched by handle alone, late
\* ones are left behind by callers that gave up and handles are reused; but for
\* the same exceptions.
OwnAnswer == misled \subseteq excused

\* Call n was told how its operation ended, if it is one that is told.
ToldTruth(n) ==
  calls[n].state = "answered" /\ calls[n].kind \in {"write", "bond"} =>
    IF n \in oks THEN outcome[n] \in {"done", "encrypted", "unbonded"}
                ELSE outcome[n] = "failed"

\* What the caller of a write or a bond is told is how its own operation ended on the
\* nRF: an error if and only if that failed, whatever a bond's other event says; but
\* for the same exceptions.  A bond is told "ok" as soon as the link is encrypted:
\* its keys may still be to come, and may not come.
HonestOutcome == \A n \in DOMAIN calls \ excused : ToldTruth(n)

-----------------------------------------------------------------------------
(* The service the callers see                                              *)

\* Event e ends n.
IsEnd(e, n) == e.call = n /\ e.char = None

\* Queue q holds an end of n; one only.
Ends(q, n) == \E i \in DOMAIN q : IsEnd(q[i], n)
OneEnd(q, n) ==
  \E i \in DOMAIN q : IsEnd(q[i], n) /\ \A j \in DOMAIN q : IsEnd(q[j], n) => j = i

\* The host's requests a hold one of n; one only.
Requests(a, n) == \E l \in Link : \E i \in DOMAIN a[l] : a[l][i].call = n
OneRequest(a, n) ==
  \E l \in Link : \E i \in DOMAIN a[l] :
    /\ a[l][i].call = n
    /\ \A h \in Link : \A j \in DOMAIN a[h] : a[h][j].call = n => h = l /\ j = i

\* A call on an attribute is one thing at a time: a command, a request or an event.
\* It is carried out once it is a request.
GattStage(n) ==
  IF n \in Unexecuted
  THEN IF ~Requests(att, n) /\ ~Ends(queue, n) THEN "made" ELSE "carried out too early"
  ELSE IF (OneRequest(att, n) /\ ~Ends(queue, n)) \/ (~Requests(att, n) /\ OneEnd(queue, n))
       THEN "carried" ELSE "carried out twice or never"

\* A call to bond is carried out by any pairing of its link.
BondStage(n) ==
  IF sec[calls[n].link] \in {"pairing", "keys"} \/ Ends(queue, n) THEN "carried"
  ELSE IF n \in Unexecuted THEN "made" ELSE "never carried out"

Stage(n) ==
  IF calls[n].state = "waiting"
  THEN IF n \in excused THEN "lost"
       ELSE IF calls[n].kind = "bond" THEN BondStage(n) ELSE GattStage(n)
  ELSE IF calls[n].state = "timeout" THEN "given up"
  ELSE IF \E k \in Kind, l \in Link : waiter[k][l] = n THEN "to be answered again"
  ELSE IF n \in misled THEN "misled" ELSE calls[n].state

Stages == [n \in DOMAIN calls |-> Stage(n)]

Service == INSTANCE CallService WITH stage <- Stages

\* What callers see of the two chips is the service of CallService: what is not lost is
\* carried out exactly once before it is answered, and answered once, although the only
\* command buffer is overwritten, read while it is written, and read twice.
ServiceSpec == Service!Spec

-----------------------------------------------------------------------------
(* Strengthening, for the proofs                                            *)

\* The work item always finds a command for a handle in cmd_buf.
CmdInv ==
  /\ work \/ running # None => cmd.kind # "none"
  /\ cmd.kind # "none" => cmd.link \in Link

\* The label of a request's kind was set before it.
Labelled ==
  \A l \in Link : \A i \in DOMAIN att[l] : label[att[l][i].kind] \in Link

\* A waiter is a call of the kind and on the handle it is registered under.
WaitersKnown ==
  \A k \in Kind, l \in Link :
    waiter[k][l] # None =>
      /\ waiter[k][l] \in DOMAIN calls
      /\ calls[waiter[k][l]].kind = k /\ calls[waiter[k][l]].link = l

CallsInv ==
  /\ TypeOK /\ CmdInv /\ Labelled /\ WaitersKnown
  /\ AnsweredOnce
=============================================================================
