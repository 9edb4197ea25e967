--------------------------- MODULE GattCallsProofs ---------------------------
(***************************************************************************)
(* For any number of handles and calls, any queue and any host: no call is *)
(* answered twice, and but for the known exceptions every caller has an    *)
(* answer coming, its own, and one of a write or a bond is told how its    *)
(* own operation ended.                                                    *)
(*                                                                         *)
(* That it comes and is its own is one invariant, AllAssured, about each   *)
(* waiting call: in what comes for it, from its place in cmd_buf through   *)
(* the host's requests to the queue, its own answer is the first thing     *)
(* that will be taken for one, and before it come, in their order and      *)
(* without a gap, only the characteristics of its own discovery.           *)
(*                                                                         *)
(* That the two chips implement CallService takes one more, AllProgress:   *)
(* what comes for a call is one thing at a time, a command, a request or   *)
(* an event, and nothing comes for a call that was not made (Sourced).     *)
(*                                                                         *)
(* That the answer is true takes Truth: the event that is going to answer  *)
(* a caller says how the operation ended, which was noted when it did.     *)
(***************************************************************************)
EXTENDS GattCalls, SequenceTheorems, TLAPS

\* The invariant's two halves: what the nRF's handlers maintain, and what the
\* driver's do.
NrfInv ==
  /\ up \subseteq Link
  /\ sec \in [Link -> {"plain", "pairing", "keys", "secured"}]
  /\ cmd \in Command
  /\ work \in BOOLEAN /\ running \in Kind \cup {"plain", None}
  /\ att \in [Link -> Seq(Request)]
  /\ label \in [Gatt -> Link \cup {None}] /\ pos \in 0 .. NChars
  /\ queue \in Seq(QueuedEvent) /\ Len(queue) <= QueueSize
  /\ excused \subseteq CallId
  /\ CmdInv /\ Labelled

EspInv ==
  /\ calls \in Seq(CallRecord) /\ Len(calls) + troubles <= MaxSteps
  /\ troubles \in Nat
  /\ waiter \in [Kind -> [Link -> MaybeId]]
  /\ results \in [Link -> Seq(CharRecord)]
  /\ misled \subseteq CallId /\ oks \subseteq CallId
  /\ WaitersKnown /\ AnsweredOnce

\* And the history of how operations ended.
Outcome   == {"open", "failed", "done", "encrypted", "unbonded"}
OutcomeOK == outcome \in [CallId -> Outcome]

LEMMA Halves == CallsInv <=> NrfInv /\ EspInv /\ OutcomeOK
  BY DEF CallsInv, NrfInv, EspInv, TypeOK, OutcomeOK, Outcome

\* Calls are numbered within the bound, and a waiting one is no None.
LEMMA CallIds ==
  ASSUME EspInv
  PROVE  /\ DOMAIN calls = 1 .. Len(calls) /\ Len(calls) \in Nat
         /\ DOMAIN calls \subseteq CallId /\ Waiting \subseteq CallId
         /\ None \notin CallId /\ None \notin Waiting
  BY GattCallsAssumption DEF EspInv, CallId, Waiting

-----------------------------------------------------------------------------
(* Lemmas                                                                   *)

\* What fits of a push keeps the queue's type and size; what does not is excused.
LEMMA PushOK ==
  ASSUME queue \in Seq(QueuedEvent), Len(queue) <= QueueSize, excused \subseteq CallId,
         NEW es \in Seq(QueuedEvent), Push(es)
  PROVE  /\ queue' \in Seq(QueuedEvent) /\ Len(queue') <= QueueSize
         /\ excused' \subseteq CallId
<1> DEFINE room == QueueSize - Len(queue)
           fit  == IF room < Len(es) THEN room ELSE Len(es)
           t    == SubSeq(es, 1, fit)
<1>1. room \in Nat /\ fit \in 0 .. Len(es) /\ fit <= room
  BY GattCallsAssumption
<1>2. t \in Seq(QueuedEvent) /\ Len(t) = fit
  BY <1>1
<1>3. queue' = queue \o t
  BY DEF Push
<1>4. queue' \in Seq(QueuedEvent) /\ Len(queue') = Len(queue) + fit
  BY <1>2, <1>3
<1>5. Len(queue') <= QueueSize
  BY <1>1, <1>4, GattCallsAssumption
<1>6. excused' \subseteq CallId
  <2>1. excused' = excused \cup ({es[i].call : i \in (fit + 1) .. Len(es)} \ {None})
    BY DEF Push
  <2>2. \A i \in (fit + 1) .. Len(es) : es[i] \in QueuedEvent
    BY <1>1
  <2>3. \A i \in (fit + 1) .. Len(es) : es[i].call \in CallId \cup {None}
    BY <2>2 DEF QueuedEvent, MaybeId
  <2> HIDE DEF fit
  <2>4. QED
    BY <2>1, <2>3
<1>7. QED
  BY <1>4, <1>5, <1>6

\* The requests of a link have a kind of GATT call.
LEMMA RequestKind ==
  ASSUME NEW s \in Seq(Request), NEW i \in DOMAIN s
  PROVE  s[i].kind \in Gatt
<1>1. s[i] \in Request
  BY ElementOfSeq
<1>2. QED
  BY <1>1 DEF Request

\* One or two elements make a sequence.
LEMMA ShortSeq ==
  ASSUME NEW S, NEW a \in S, NEW b \in S
  PROVE  <<a>> \in Seq(S) /\ <<a, b>> \in Seq(S)
  OBVIOUS

\* An event without a characteristic.
LEMMA EventOK ==
  ASSUME NEW k \in Kind \cup {"enc"}, NEW l \in Link, NEW n \in MaybeId,
         NEW good \in BOOLEAN
  PROVE  Event(k, l, n, good) \in QueuedEvent
  BY DEF Event, QueuedEvent

\* The command in cmd_buf belongs to a call or to none.
LEMMA UnexecutedOK ==
  ASSUME NrfInv
  PROVE  Unexecuted \subseteq CallId
  BY DEF NrfInv, Unexecuted, Command, MaybeId

\* Writing a command keeps the nRF's half.
LEMMA WriteCmdOK ==
  ASSUME NrfInv, NEW k \in Kind \cup {"plain"}, NEW l \in Link, NEW n \in MaybeId,
         WriteCmd(k, l, n), excused' \subseteq CallId,
         UNCHANGED <<up, sec, running, att, label, pos, queue>>
  PROVE  NrfInv'
<1>1. cmd' \in Command /\ cmd'.kind # "none" /\ cmd'.link = l /\ work' = TRUE
  BY DEF WriteCmd, Command, Kind, Gatt
<1>2. CmdInv'
  BY <1>1 DEF CmdInv
<1>3. Labelled'
  BY DEF NrfInv, Labelled
<1>4. QED
  BY <1>1, <1>2, <1>3 DEF NrfInv

\* Nothing of the nRF changes.
LEMMA NrfSame ==
  ASSUME NrfInv, UNCHANGED <<nrf, queue>>, excused' \subseteq CallId
  PROVE  NrfInv'
  BY DEF NrfInv, nrf, CmdInv, Labelled

\* Nothing of the driver changes.
LEMMA EspSame ==
  ASSUME EspInv, UNCHANGED <<esp, told>>,
         troubles' = troubles \/ Trouble
  PROVE  EspInv'
<1>1. troubles' \in Nat /\ Len(calls) + troubles' <= MaxSteps
  BY CallIds, GattCallsAssumption DEF EspInv, Trouble
<1>2. QED
  BY <1>1 DEF EspInv, esp, told, WaitersKnown, AnsweredOnce

\* A new call n at the end of calls, in whatever state it starts.
LEMMA AppendOK ==
  ASSUME EspInv, NEW c \in CallRecord, calls' = Append(calls, c)
  PROVE  LET n == Len(calls) + 1
         IN  /\ calls' \in Seq(CallRecord) /\ Len(calls') = n
             /\ DOMAIN calls' = DOMAIN calls \cup {n} /\ calls'[n] = c
             /\ \A m \in DOMAIN calls : calls'[m] = calls[m]
<1>1. calls \in Seq(CallRecord) /\ Len(calls) \in Nat
  BY CallIds DEF EspInv
<1>2. QED
  BY <1>1

\* Ending a call keeps all but its state.
LEMMA EndOK ==
  ASSUME EspInv, NEW n \in DOMAIN calls, NEW s \in {"answered", "timeout"},
         calls' = [calls EXCEPT ![n].state = s]
  PROVE  /\ calls' \in Seq(CallRecord) /\ Len(calls') = Len(calls)
         /\ DOMAIN calls' = DOMAIN calls
         /\ \A m \in DOMAIN calls :
              /\ calls'[m].kind = calls[m].kind /\ calls'[m].link = calls[m].link
              /\ calls'[m].state = IF m = n THEN s ELSE calls[m].state
<1>1. calls \in Seq(CallRecord) /\ DOMAIN calls = 1 .. Len(calls)
  BY CallIds DEF EspInv
<1>2. \A m \in DOMAIN calls :
        calls[m] \in [kind : Kind, link : Link,
                      state : {"waiting", "answered", "failed", "timeout"}]
  <2>1. \A m \in DOMAIN calls : calls[m] \in CallRecord
    BY <1>1, ElementOfSeq
  <2>2. QED
    BY <2>1 DEF CallRecord
<1>3. [calls[n] EXCEPT !.state = s] \in CallRecord
  BY <1>2 DEF CallRecord
<1>4. calls' = [calls EXCEPT ![n] = [calls[n] EXCEPT !.state = s]]
  OBVIOUS
<1>5. calls' \in Seq(CallRecord) /\ Len(calls') = Len(calls) /\ DOMAIN calls' = DOMAIN calls
  BY <1>1, <1>3, <1>4
<1>6. ASSUME NEW m \in DOMAIN calls
      PROVE  /\ calls'[m].kind = calls[m].kind /\ calls'[m].link = calls[m].link
             /\ calls'[m].state = IF m = n THEN s ELSE calls[m].state
  <2>1. CASE m = n
    <3>1. calls'[n] = [calls[n] EXCEPT !.state = s]
      BY <1>1, <1>4
    <3>2. QED
      BY <2>1, <3>1, <1>2
  <2>2. CASE m # n
    <3>1. calls'[m] = calls[m]
      BY <2>2, <1>1, <1>4
    <3>2. QED
      BY <2>2, <3>1
  <2>3. QED
    BY <2>1, <2>2
<1>7. QED
  BY <1>5, <1>6

-----------------------------------------------------------------------------
(* The nRF's handlers                                                       *)

LEMMA StartOK ==
  ASSUME NrfInv, CmdStart
  PROVE  NrfInv'
<1>1. running' \in Kind \cup {"plain", None} /\ work' \in BOOLEAN
  BY DEF NrfInv, CmdStart, CmdInv, Command
<1>2. CmdInv'
  BY DEF NrfInv, CmdStart, CmdInv
<1>3. Labelled'
  BY DEF NrfInv, CmdStart, Labelled
<1>4. QED
  BY <1>1, <1>2, <1>3 DEF NrfInv, CmdStart

\* StartGatt adds a request whose kind is labelled.
LEMMA StartGattOK ==
  ASSUME NrfInv, NEW k \in Gatt, NEW l \in Link, NEW n \in MaybeId, StartGatt(k, l, n)
  PROVE  /\ att' \in [Link -> Seq(Request)] /\ label' \in [Gatt -> Link \cup {None}]
         /\ pos' \in 0 .. NChars /\ excused' \subseteq CallId /\ Labelled'
<1>1. label' = [label EXCEPT ![k] = l] /\ label \in [Gatt -> Link \cup {None}]
  BY DEF NrfInv, StartGatt
<1>2. label' \in [Gatt -> Link \cup {None}] /\ label'[k] = l
  BY <1>1
<1>3. \A j \in Gatt : label[j] \in Link => label'[j] \in Link
  BY <1>1
<1>4. pos' \in 0 .. NChars
  BY GattCallsAssumption DEF NrfInv, StartGatt
<1>5. excused' \subseteq CallId
  BY DEF NrfInv, StartGatt, MaybeId
<1> DEFINE r == [kind |-> k, call |-> n]
<1>6. r \in Request
  BY DEF Request
<1>7. att \in [Link -> Seq(Request)] /\ att[l] \in Seq(Request)
  BY DEF NrfInv
<1>8. CASE att' = att
  <2>1. \A h \in Link : \A i \in DOMAIN att[h] : att[h][i].kind \in Gatt
    BY <1>7, RequestKind
  <2>2. Labelled'
    BY <1>8, <1>3, <2>1 DEF NrfInv, Labelled
  <2>3. QED
    BY <1>2, <1>4, <1>5, <1>7, <1>8, <2>2
<1>9. CASE att' = [att EXCEPT ![l] = Append(@, r)]
  <2> HIDE DEF r
  <2>1. Append(att[l], r) \in Seq(Request)
    BY <1>6, <1>7
  <2>2. att' \in [Link -> Seq(Request)] /\ att'[l] = Append(att[l], r)
        /\ \A h \in Link \ {l} : att'[h] = att[h]
    BY <1>7, <1>9, <2>1
  <2>3. ASSUME NEW h \in Link, NEW i \in DOMAIN att'[h]
        PROVE  label'[att'[h][i].kind] \in Link
    <3>1. CASE h = l /\ i = Len(att[l]) + 1
      <4>1. att'[h][i] = r
        BY <3>1, <2>2, <1>7
      <4>2. QED
        BY <4>1, <1>2 DEF r
    <3>2. CASE h # l \/ i # Len(att[l]) + 1
      <4>1. att[h] \in Seq(Request) /\ i \in DOMAIN att[h] /\ att'[h][i] = att[h][i]
        BY <3>2, <2>2, <2>3, <1>7, <1>6
      <4>2. att[h][i].kind \in Gatt
        BY <4>1, RequestKind
      <4>3. label[att[h][i].kind] \in Link
        BY <4>1 DEF NrfInv, Labelled
      <4>4. QED
        BY <4>1, <4>2, <4>3, <1>3
    <3>3. QED
      BY <3>1, <3>2
  <2>4. Labelled'
    BY <2>3 DEF Labelled
  <2>5. QED
    BY <1>2, <1>4, <1>5, <2>2, <2>4
<1>10. QED
  BY <1>8, <1>9 DEF StartGatt

LEMMA ExecOK ==
  ASSUME NrfInv, CmdExec
  PROVE  NrfInv'
<1> DEFINE l == cmd.link
           n == IF cmd.kind = running THEN cmd.call ELSE None
<1>1. running # None /\ running \in Kind \cup {"plain"} /\ l \in Link /\ n \in MaybeId
  BY DEF NrfInv, CmdExec, CmdInv, Command, MaybeId
<1>2. cmd' \in Command /\ CmdInv' /\ running' = None /\ work' = work
  BY DEF NrfInv, CmdExec, CmdInv, NoCmd, Command, MaybeId
<1>3. UNCHANGED <<up, queue>>
  BY DEF CmdExec
<1> HIDE DEF l, n
<1>4. CASE UNCHANGED <<sec, att, label, pos>> /\ excused' \subseteq CallId
  BY <1>2, <1>3, <1>4 DEF NrfInv, Labelled
<1>5. CASE running \in Gatt /\ StartGatt(running, l, n) /\ UNCHANGED sec
  <2>1. /\ att' \in [Link -> Seq(Request)] /\ label' \in [Gatt -> Link \cup {None}]
        /\ pos' \in 0 .. NChars /\ excused' \subseteq CallId /\ Labelled'
    BY <1>1, <1>5, StartGattOK
  <2>2. QED
    BY <1>2, <1>3, <1>5, <2>1 DEF NrfInv
<1>6. CASE StartBond(l, n) /\ UNCHANGED <<att, label, pos>>
  <2>1. sec' \in [Link -> {"plain", "pairing", "keys", "secured"}]
    BY <1>1, <1>6 DEF StartBond, NrfInv
  <2>2. excused' \subseteq CallId
    BY <1>1, <1>6 DEF StartBond, NrfInv, MaybeId
  <2>3. Labelled'
    BY <1>6 DEF NrfInv, Labelled
  <2>4. QED
    BY <1>2, <1>3, <1>6, <2>1, <2>2, <2>3 DEF NrfInv
<1>7. QED
  <2>1. \/ UNCHANGED <<sec, att, label, pos>> /\ excused' = excused
        \/ UNCHANGED <<sec, att, label, pos>> /\ excused' = excused \cup ({n} \ {None})
        \/ running \in Gatt /\ StartGatt(running, l, n) /\ UNCHANGED sec
        \/ StartBond(l, n) /\ UNCHANGED <<att, label, pos>>
    BY DEF CmdExec, l, n
  <2>2. excused \subseteq CallId
    BY DEF NrfInv
  <2>3. QED
    BY <1>1, <1>4, <1>5, <1>6, <2>1, <2>2 DEF MaybeId

\* Taking the oldest request, and for a discovery asking again, keeps all labelled.
LEMMA AnswerOK ==
  ASSUME NrfInv, NEW l \in Link, NEW good \in BOOLEAN, HostAnswers(l, good)
  PROVE  NrfInv'
<1> DEFINE op == Head(att[l])
           h  == label[op.kind]
           more == op.kind = "discover" /\ good /\ pos < NChars
           e  == IF more THEN [Event("discover", h, op.call, TRUE)
                                 EXCEPT !.char = Char(l, pos + 1)]
                 ELSE Event(op.kind, h, op.call, good)
           rest == IF more THEN Append(Tail(att[l]), op) ELSE Tail(att[l])
<1>1. /\ att \in [Link -> Seq(Request)] /\ att[l] \in Seq(Request) /\ att[l] # <<>>
      /\ label \in [Gatt -> Link \cup {None}] /\ pos \in 0 .. NChars
  BY DEF NrfInv, HostAnswers
<1>2. op \in Request /\ op = att[l][1] /\ 1 \in DOMAIN att[l]
  BY <1>1
<1>3. op.kind \in Gatt /\ op.call \in MaybeId /\ h \in Link
  BY <1>2 DEF NrfInv, Labelled, Request
<1>4. /\ att' = [att EXCEPT ![l] = rest] /\ Push(<<e>>)
      /\ pos' = IF more THEN pos + 1 ELSE pos
      /\ UNCHANGED <<up, sec, cmd, work, running, label>>
  BY DEF HostAnswers
<1>5. e \in QueuedEvent
  <2>1. CASE more
    <3>1. pos + 1 \in 1 .. NChars
      BY <2>1, <1>1, GattCallsAssumption
    <3>2. e = [kind |-> "discover", link |-> h, call |-> op.call, good |-> TRUE,
               char |-> Char(l, pos + 1)]
      BY <2>1 DEF Event
    <3>3. Char(l, pos + 1) \in CharRecord
      BY <3>1 DEF Char, CharRecord
    <3> HIDE DEF h, op, more, e
    <3>4. QED
      BY <3>2, <3>3, <1>3 DEF QueuedEvent, Kind, Gatt
  <2>2. CASE ~more
    <3> HIDE DEF h, op
    <3>1. QED
      BY <2>2, <1>3, EventOK DEF Kind
  <2>3. QED
    BY <2>1, <2>2
<1>6. pos' \in 0 .. NChars
  BY <1>1, <1>4, GattCallsAssumption
<1>7. <<e>> \in Seq(QueuedEvent)
  BY <1>5
<1>8. queue' \in Seq(QueuedEvent) /\ Len(queue') <= QueueSize /\ excused' \subseteq CallId
  BY <1>4, <1>7, PushOK DEF NrfInv
<1>9. /\ rest \in Seq(Request)
      /\ \A i \in DOMAIN rest : label[rest[i].kind] \in Link
  <2> HIDE DEF more, h
  <2>1. Tail(att[l]) \in Seq(Request)
    BY <1>1
  <2>2. \A i \in DOMAIN Tail(att[l]) : i + 1 \in DOMAIN att[l] /\ Tail(att[l])[i] = att[l][i + 1]
    BY <1>1
  <2>3. \A i \in DOMAIN att[l] : label[att[l][i].kind] \in Link
    BY DEF NrfInv, Labelled
  <2>4. \A i \in DOMAIN Tail(att[l]) : label[Tail(att[l])[i].kind] \in Link
    BY <2>2, <2>3
  <2>5. label[op.kind] \in Link
    BY <1>3 DEF h
  <2> DEFINE t == Tail(att[l])
  <2> HIDE DEF t, op
  <2>6. Append(t, op) \in Seq(Request)
        /\ \A i \in DOMAIN Append(t, op) :
             \/ i \in DOMAIN t /\ Append(t, op)[i] = t[i]
             \/ Append(t, op)[i] = op
    BY <2>1, <1>2 DEF t
  <2>7. QED
    BY <2>1, <2>4, <2>5, <2>6 DEF t
<1> HIDE DEF rest, e, op, h, more
<1>10. att' \in [Link -> Seq(Request)] /\ att'[l] = rest
       /\ \A g \in Link \ {l} : att'[g] = att[g]
  BY <1>1, <1>4, <1>9
<1>11. Labelled'
  <2>1. ASSUME NEW g \in Link, NEW i \in DOMAIN att'[g]
        PROVE  label'[att'[g][i].kind] \in Link
    <3>1. CASE g = l
      BY <3>1, <1>4, <1>9, <1>10, <2>1
    <3>2. CASE g # l
      BY <3>2, <1>4, <1>10, <2>1 DEF NrfInv, Labelled
    <3>3. QED
      BY <3>1, <3>2
  <2>2. QED
    BY <2>1 DEF Labelled
<1>12. CmdInv'
  BY <1>4 DEF NrfInv, CmdInv
<1>13. QED
  BY <1>4, <1>6, <1>8, <1>10, <1>11, <1>12 DEF NrfInv

\* Steps that change a link's security or presence and queue events about it.
LEMMA LinkOK ==
  ASSUME NrfInv, up' \subseteq Link,
         sec' \in [Link -> {"plain", "pairing", "keys", "secured"}],
         queue' \in Seq(QueuedEvent), Len(queue') <= QueueSize, excused' \subseteq CallId,
         UNCHANGED <<cmd, work, running, att, label, pos>>
  PROVE  NrfInv'
  BY DEF NrfInv, CmdInv, Labelled

LEMMA SecurityOK ==
  ASSUME NrfInv, EspInv, NEW l \in Link,
         Encrypted(l) \/ PairingComplete(l) \/ PairingFails(l)
  PROVE  NrfInv'
<1>1. BondCall(l) \in MaybeId
  BY CallIds DEF BondCall, MaybeId
<1>2. PICK es \in Seq(QueuedEvent) : Push(es)
  <2> DEFINE n == BondCall(l)
  <2> HIDE DEF n
  <2>1. /\ Event("enc", l, n, TRUE) \in QueuedEvent
        /\ Event("bond", l, n, TRUE) \in QueuedEvent
        /\ Event("bond", l, n, FALSE) \in QueuedEvent
        /\ Event("bond", l, None, FALSE) \in QueuedEvent
    BY <1>1, EventOK DEF Kind, MaybeId, n
  <2>2. CASE Encrypted(l)
    <3>1. <<Event("enc", l, n, TRUE)>> \in Seq(QueuedEvent)
      BY <2>1, ShortSeq
    <3>2. Push(<<Event("enc", l, n, TRUE)>>)
      BY <2>2 DEF Encrypted, n
    <3>3. QED
      BY <3>1, <3>2
  <2>3. CASE PairingComplete(l)
    <3>1. <<Event("bond", l, n, TRUE)>> \in Seq(QueuedEvent)
      BY <2>1, ShortSeq
    <3>2. Push(<<Event("bond", l, n, TRUE)>>)
      BY <2>3 DEF PairingComplete, n
    <3>3. QED
      BY <3>1, <3>2
  <2>4. CASE PairingFails(l)
    <3>1. /\ <<Event("bond", l, n, FALSE), Event("bond", l, None, FALSE)>>
               \in Seq(QueuedEvent)
          /\ <<Event("bond", l, n, FALSE)>> \in Seq(QueuedEvent)
      BY <2>1, ShortSeq
    <3>2. \/ Push(<<Event("bond", l, n, FALSE), Event("bond", l, None, FALSE)>>)
          \/ Push(<<Event("bond", l, n, FALSE)>>)
      BY <2>4 DEF PairingFails, n
    <3>3. QED
      BY <3>1, <3>2
  <2>5. QED
    BY <2>2, <2>3, <2>4
<1>3. queue' \in Seq(QueuedEvent) /\ Len(queue') <= QueueSize /\ excused' \subseteq CallId
  BY <1>2, PushOK DEF NrfInv
<1>4. /\ up' \subseteq Link
      /\ sec' \in [Link -> {"plain", "pairing", "keys", "secured"}]
      /\ UNCHANGED <<cmd, work, running, att, label, pos>>
  BY DEF NrfInv, Encrypted, PairingComplete, PairingFails
<1>5. QED
  BY <1>3, <1>4, LinkOK

LEMMA UpDownOK ==
  ASSUME NrfInv, EspInv, NEW l \in Link, LinkUp(l) \/ Drop(l)
  PROVE  NrfInv'
<1>1. /\ up' \subseteq Link
      /\ sec' \in [Link -> {"plain", "pairing", "keys", "secured"}]
      /\ UNCHANGED <<cmd, work, running, att, label, pos, queue>>
  BY DEF NrfInv, LinkUp, Drop
<1>2. excused' \subseteq CallId
  BY CallIds DEF NrfInv, LinkUp, Drop
<1>3. QED
  BY <1>1, <1>2, LinkOK DEF NrfInv

LEMMA ResetOK ==
  ASSUME NrfInv, EspInv, Reset
  PROVE  NrfInv'
<1>1. queue' \in Seq(QueuedEvent) /\ Len(queue') <= QueueSize
  BY GattCallsAssumption DEF Reset
<1>2. excused' \subseteq CallId
  BY CallIds DEF NrfInv, Reset
<1>3. cmd' \in Command /\ CmdInv'
  BY DEF Reset, NoCmd, Command, MaybeId, CmdInv
<1>4. att' \in [Link -> Seq(Request)] /\ Labelled'
  BY DEF Reset, Labelled
<1>5. label' \in [Gatt -> Link \cup {None}] /\ pos' \in 0 .. NChars
  BY GattCallsAssumption DEF Reset
<1>6. QED
  BY <1>1, <1>2, <1>3, <1>4, <1>5 DEF NrfInv, Reset

\* Taking an event off the queue.
LEMMA DrainedOK ==
  ASSUME NrfInv, NEW S, Drained(S)
  PROVE  NrfInv' /\ Head(queue) \in QueuedEvent
<1>1. /\ queue' \in Seq(QueuedEvent) /\ Len(queue') <= QueueSize
      /\ Head(queue) \in QueuedEvent
  BY GattCallsAssumption DEF NrfInv, Drained
<1>2. QED
  BY <1>1, LinkOK DEF NrfInv, Drained, nrf

-----------------------------------------------------------------------------
(* The driver's handlers                                                    *)

\* A call registers its own waiter and leaves all others alone.
LEMMA CallOK ==
  ASSUME NrfInv, EspInv, NEW k \in Kind, NEW l \in Link, Call(k, l)
  PROVE  NrfInv' /\ EspInv'
<1> DEFINE n == Len(calls) + 1
           c == [kind |-> k, link |-> l, state |-> "waiting"]
<1>1. c \in CallRecord /\ calls' = Append(calls, c)
  BY DEF CallRecord, Call
<1>2. /\ calls' \in Seq(CallRecord) /\ Len(calls') = n
      /\ DOMAIN calls' = DOMAIN calls \cup {n} /\ calls'[n] = c
      /\ \A m \in DOMAIN calls : calls'[m] = calls[m]
  BY <1>1, AppendOK
<1>3. n \in CallId /\ Len(calls') + troubles <= MaxSteps /\ troubles \in Nat
  BY <1>2, CallIds, GattCallsAssumption DEF EspInv, Call, CallId
<1>4. /\ waiter' = [waiter EXCEPT ![k][l] = n]
      /\ waiter \in [Kind -> [Link -> MaybeId]]
  BY DEF EspInv, Call, Register
<1>5. /\ waiter' \in [Kind -> [Link -> MaybeId]] /\ waiter'[k][l] = n
      /\ \A j \in Kind, h \in Link :
           ~(j = k /\ h = l) => waiter'[j][h] = waiter[j][h]
  <2> HIDE DEF n
  <2>1. QED
    BY <1>3, <1>4 DEF MaybeId
<1>6. results' \in [Link -> Seq(CharRecord)]
  <2>1. results \in [Link -> Seq(CharRecord)] /\ <<>> \in Seq(CharRecord)
    BY DEF EspInv
  <2>2. results' = results \/ results' = [results EXCEPT ![l] = <<>>]
    BY DEF Call, Register
  <2>3. QED
    BY <2>1, <2>2
<1>7. UNCHANGED <<told, troubles>>
  BY DEF Call
<1> HIDE DEF n
<1>8. WaitersKnown' /\ AnsweredOnce'
  <2>1. ASSUME NEW j \in Kind, NEW h \in Link, waiter'[j][h] # None
        PROVE  LET m == waiter'[j][h]
               IN  /\ m \in DOMAIN calls' /\ calls'[m].kind = j /\ calls'[m].link = h
                   /\ calls'[m].state \in {"waiting", "timeout"}
    <3>1. CASE j = k /\ h = l
      BY <3>1, <1>2, <1>5
    <3>2. CASE ~(j = k /\ h = l)
      BY <3>2, <2>1, <1>2, <1>5 DEF EspInv, WaitersKnown, AnsweredOnce
    <3>3. QED
      BY <3>1, <3>2
  <2>2. QED
    BY <2>1 DEF WaitersKnown, AnsweredOnce
<1>10. EspInv'
  BY <1>2, <1>3, <1>5, <1>6, <1>7, <1>8 DEF EspInv, told
<1>11. excused' \subseteq CallId
  <2>1. Rivals(k, l) \subseteq CallId
    BY CallIds DEF Rivals
  <2>2. excused' = excused \cup Unexecuted
                           \cup IF Entangled(k, l) THEN Rivals(k, l) \cup {n} ELSE {}
    BY DEF Call, n
  <2>3. QED
    BY <2>1, <2>2, <1>3, UnexecutedOK DEF NrfInv
<1>12. NrfInv'
  <2>1. WriteCmd(k, l, n) /\ UNCHANGED <<up, sec, running, att, label, pos, queue>>
    BY DEF Call, n
  <2>2. n \in MaybeId
    BY <1>3 DEF MaybeId
  <2>3. QED
    BY <2>1, <2>2, <1>11, WriteCmdOK
<1>13. QED
  BY <1>10, <1>12

LEMMA CallFailsOK ==
  ASSUME NrfInv, EspInv, NEW k \in Kind, NEW l \in Link, CallFails(k, l)
  PROVE  NrfInv' /\ EspInv'
<1> DEFINE n == Len(calls) + 1
           c == [kind |-> k, link |-> l, state |-> "failed"]
<1>1. c \in CallRecord /\ calls' = Append(calls, c)
  BY DEF CallRecord, CallFails
<1>2. /\ calls' \in Seq(CallRecord) /\ Len(calls') = n
      /\ DOMAIN calls' = DOMAIN calls \cup {n}
      /\ \A m \in DOMAIN calls : calls'[m] = calls[m]
  BY <1>1, AppendOK
<1>3. troubles' \in Nat /\ Len(calls') + troubles' <= MaxSteps
  BY <1>2, CallIds, GattCallsAssumption DEF EspInv, CallFails, Trouble
<1>4. UNCHANGED <<waiter, results, told>>
  BY DEF CallFails
<1> HIDE DEF n, c
<1>5. WaitersKnown' /\ AnsweredOnce'
  BY <1>2, <1>4 DEF EspInv, WaitersKnown, AnsweredOnce
<1>7. EspInv'
  BY <1>2, <1>3, <1>4, <1>5 DEF EspInv, told
<1>8. excused' \subseteq CallId
  <2>1. Rivals(k, l) \subseteq CallId
    BY CallIds DEF Rivals
  <2>2. QED
    BY <2>1, UnexecutedOK DEF NrfInv, CallFails
<1>9. UNCHANGED <<up, sec, running, att, label, pos, queue>>
  BY DEF CallFails
<1>10. CASE WriteCmd(k, l, None)
  <2>1. k \in Kind \cup {"plain"} /\ None \in MaybeId
    BY DEF MaybeId
  <2>2. QED
    BY <1>7, <1>8, <1>9, <1>10, <2>1, WriteCmdOK
<1>11. CASE UNCHANGED <<cmd, work>>
  <2>1. UNCHANGED <<nrf, queue>>
    BY <1>9, <1>11 DEF nrf
  <2>2. QED
    BY <1>7, <1>8, <2>1, NrfSame
<1>12. QED
  BY <1>7, <1>10, <1>11 DEF CallFails

LEMMA PlainOK ==
  ASSUME NrfInv, EspInv, NEW l \in Link, Plain(l)
  PROVE  NrfInv' /\ EspInv'
<1>1. excused' \subseteq CallId
  BY UnexecutedOK DEF NrfInv, Plain
<1>2. NrfInv'
  BY <1>1, WriteCmdOK DEF Plain, MaybeId
<1>3. EspInv'
  BY EspSame DEF Plain
<1>4. QED
  BY <1>2, <1>3

LEMMA TimeoutOK ==
  ASSUME EspInv, NEW n \in Waiting, Timeout(n)
  PROVE  EspInv'
<1>1. n \in DOMAIN calls /\ calls[n].state = "waiting"
  BY DEF Waiting
<1>2. /\ calls' \in Seq(CallRecord) /\ Len(calls') = Len(calls)
      /\ DOMAIN calls' = DOMAIN calls
      /\ \A m \in DOMAIN calls :
           /\ calls'[m].kind = calls[m].kind /\ calls'[m].link = calls[m].link
           /\ calls'[m].state = IF m = n THEN "timeout" ELSE calls[m].state
  BY <1>1, EndOK DEF Timeout
<1>3. troubles' \in Nat /\ Len(calls') + troubles' <= MaxSteps
  BY <1>2, CallIds, GattCallsAssumption DEF EspInv, Timeout, Trouble
<1>4. UNCHANGED <<waiter, results, told>>
  BY DEF Timeout
<1>5. WaitersKnown'
  <2>1. ASSUME NEW k \in Kind, NEW l \in Link, waiter[k][l] # None
        PROVE  /\ waiter[k][l] \in DOMAIN calls
               /\ calls[waiter[k][l]].kind = k /\ calls[waiter[k][l]].link = l
    BY <2>1 DEF EspInv, WaitersKnown
  <2>2. ASSUME NEW k \in Kind, NEW l \in Link, waiter'[k][l] # None
        PROVE  /\ waiter'[k][l] \in DOMAIN calls'
               /\ calls'[waiter'[k][l]].kind = k /\ calls'[waiter'[k][l]].link = l
    <3>1. waiter'[k][l] = waiter[k][l]
      BY <1>4
    <3>2. QED
      BY <1>2, <2>1, <2>2, <3>1
  <2>3. QED
    BY <2>2 DEF WaitersKnown
<1>6. AnsweredOnce'
  <2>1. ASSUME NEW k \in Kind, NEW l \in Link, waiter'[k][l] # None
        PROVE  calls'[waiter'[k][l]].state \in {"waiting", "timeout"}
    <3>1. waiter'[k][l] = waiter[k][l]
      BY <1>4
    <3>2. waiter[k][l] \in DOMAIN calls
      BY <2>1, <3>1 DEF EspInv, WaitersKnown
    <3>3. calls[waiter[k][l]].state \in {"waiting", "timeout"}
      BY <2>1, <3>1 DEF EspInv, AnsweredOnce
    <3>4. QED
      BY <1>2, <3>1, <3>2, <3>3
  <2>2. QED
    BY <2>1 DEF AnsweredOnce
<1>8. QED
  BY <1>2, <1>3, <1>4, <1>5, <1>6 DEF EspInv, told

LEMMA RestartOK ==
  ASSUME EspInv, Restart
  PROVE  EspInv'
<1>1. calls \in Seq(CallRecord) /\ DOMAIN calls = 1 .. Len(calls) /\ Len(calls) \in Nat
  BY CallIds DEF EspInv
<1> DEFINE new(n) == IF n \in Waiting THEN [calls[n] EXCEPT !.state = "failed"] ELSE calls[n]
<1>2. \A n \in DOMAIN calls : new(n) \in CallRecord /\ new(n).kind = calls[n].kind
  <2>1. \A n \in DOMAIN calls : calls[n] \in CallRecord
    BY <1>1, ElementOfSeq
  <2>2. QED
    BY <2>1 DEF CallRecord
<1>3. calls' = [n \in 1 .. Len(calls) |-> new(n)]
  BY <1>1 DEF Restart
<1> HIDE DEF new
<1>4. /\ calls' \in Seq(CallRecord) /\ Len(calls') = Len(calls)
      /\ DOMAIN calls' = DOMAIN calls /\ \A n \in DOMAIN calls : calls'[n].kind = calls[n].kind
  BY <1>1, <1>2, <1>3
<1>5. troubles' \in Nat /\ Len(calls') + troubles' <= MaxSteps
  BY <1>4, CallIds, GattCallsAssumption DEF EspInv, Restart, Trouble
<1>6. /\ waiter' \in [Kind -> [Link -> MaybeId]]
      /\ \A k \in Kind, l \in Link : waiter'[k][l] = None
  BY DEF Restart, MaybeId
<1>7. results' \in [Link -> Seq(CharRecord)]
  BY DEF Restart
<1>8. UNCHANGED told
  BY DEF Restart
<1>9. WaitersKnown' /\ AnsweredOnce'
  BY <1>4, <1>6 DEF EspInv, WaitersKnown, AnsweredOnce
<1>10. QED
  BY <1>4, <1>5, <1>6, <1>7, <1>8, <1>9 DEF EspInv, told

\* The heart of it: a reply through waiter[k][l] ends a call of kind k, which no other
\* entry of the maps refers to.
LEMMA ReplyOK ==
  ASSUME EspInv, NEW k \in Kind, NEW right, NEW ok \in BOOLEAN,
         Head(queue) \in QueuedEvent, Reply(k, right, ok), Resolved(k),
         results' \in [Link -> Seq(CharRecord)], UNCHANGED troubles
  PROVE  EspInv'
<1> DEFINE l == Head(queue).link
           n == waiter[k][l]
<1>1. l \in Link
  BY DEF QueuedEvent
<1>2. /\ waiter' = [waiter EXCEPT ![k][l] = None]
      /\ waiter \in [Kind -> [Link -> MaybeId]]
  BY DEF EspInv, Resolved
<1>3. /\ waiter' \in [Kind -> [Link -> MaybeId]] /\ waiter'[k][l] = None
      /\ \A j \in Kind, h \in Link :
           ~(j = k /\ h = l) => waiter'[j][h] = waiter[j][h]
  <2> HIDE DEF l
  <2>1. QED
    BY <1>1, <1>2 DEF MaybeId
<1>4. CASE n \notin Waiting
  <2>1. UNCHANGED <<calls, told>>
    BY <1>4 DEF Reply
  <2>2. WaitersKnown' /\ AnsweredOnce'
    <3>1. \A j \in Kind, h \in Link : waiter'[j][h] # None => waiter'[j][h] = waiter[j][h]
      BY <1>3
    <3>2. QED
      BY <2>1, <3>1 DEF EspInv, WaitersKnown, AnsweredOnce
  <2>3. QED
    BY <1>3, <2>1, <2>2 DEF EspInv, told
<1>5. CASE n \in Waiting
  <2>1. /\ n \in DOMAIN calls /\ n \in CallId /\ n # None
        /\ calls[n].kind = k /\ calls[n].link = l
    BY <1>1, <1>5, CallIds DEF EspInv, WaitersKnown, Waiting
  <2>2. calls' = [calls EXCEPT ![n].state = "answered"]
    BY <1>5 DEF Reply
  <2>3. /\ calls' \in Seq(CallRecord) /\ Len(calls') = Len(calls)
        /\ DOMAIN calls' = DOMAIN calls
        /\ \A m \in DOMAIN calls :
             /\ calls'[m].kind = calls[m].kind /\ calls'[m].link = calls[m].link
             /\ calls'[m].state = IF m = n THEN "answered" ELSE calls[m].state
    BY <2>1, <2>2, EndOK
  <2>4. misled' \subseteq misled \cup {n}
    BY <1>5 DEF Reply
  <2>5. oks' \subseteq oks \cup {n}
    BY <1>5 DEF Reply
  <2> HIDE DEF n, l
  <2>6. WaitersKnown' /\ AnsweredOnce'
    <3>1. ASSUME NEW j \in Kind, NEW h \in Link, waiter'[j][h] # None
          PROVE  LET m == waiter'[j][h]
                 IN  /\ m \in DOMAIN calls' /\ calls'[m].kind = j /\ calls'[m].link = h
                     /\ calls'[m].state \in {"waiting", "timeout"}
      <4>1. ~(j = k /\ h = l) /\ waiter'[j][h] = waiter[j][h]
        BY <3>1, <1>3
      <4>2. /\ waiter[j][h] \in DOMAIN calls
            /\ calls[waiter[j][h]].kind = j /\ calls[waiter[j][h]].link = h
            /\ calls[waiter[j][h]].state \in {"waiting", "timeout"}
        BY <3>1, <4>1 DEF EspInv, WaitersKnown, AnsweredOnce
      <4>3. waiter[j][h] # n
        BY <4>1, <4>2, <2>1
      <4>4. QED
        BY <4>1, <4>2, <4>3, <2>3
    <3>2. QED
      BY <3>1 DEF WaitersKnown, AnsweredOnce
  <2>7. misled' \subseteq CallId /\ oks' \subseteq CallId
    BY <2>1, <2>4, <2>5 DEF EspInv
  <2>8. QED
    BY <1>3, <2>3, <2>6, <2>7 DEF EspInv
<1>6. QED
  BY <1>4, <1>5

LEMMA EntryOK ==
  ASSUME NrfInv, EspInv, ServicesEntry
  PROVE  EspInv'
<1>1. Head(queue) \in QueuedEvent
  BY DrainedOK DEF ServicesEntry
<1>2. Head(queue).char \in CharRecord /\ Head(queue).link \in Link
  BY <1>1 DEF QueuedEvent, ServicesEntry
<1>3. results' \in [Link -> Seq(CharRecord)]
  <2> DEFINE l == Head(queue).link
             ch == Head(queue).char
  <2>1. l \in Link /\ ch \in CharRecord
    BY <1>2
  <2>2. results' = [results EXCEPT ![l] = Append(@, ch)]
    BY DEF ServicesEntry
  <2>3. results \in [Link -> Seq(CharRecord)]
    BY DEF EspInv
  <2> HIDE DEF l, ch
  <2>4. Append(results[l], ch) \in Seq(CharRecord)
    BY <2>1, <2>3
  <2>5. QED
    BY <2>1, <2>2, <2>3, <2>4
<1>4. UNCHANGED <<calls, waiter, told, troubles>>
  BY DEF ServicesEntry, Drained
<1>5. QED
  BY <1>3, <1>4 DEF EspInv, told, WaitersKnown, AnsweredOnce

-----------------------------------------------------------------------------
(* The invariant                                                            *)

LEMMA InitInv == Init => CallsInv
<1> SUFFICES ASSUME Init PROVE NrfInv /\ EspInv /\ OutcomeOK
  BY Halves
<1>1. NrfInv
  <2>1. cmd \in Command /\ CmdInv
    BY DEF Init, NoCmd, Command, MaybeId, CmdInv
  <2>2. att \in [Link -> Seq(Request)] /\ Labelled
    BY DEF Init, Labelled
  <2>3. queue \in Seq(QueuedEvent) /\ Len(queue) <= QueueSize
    BY GattCallsAssumption DEF Init
  <2>4. sec \in [Link -> {"plain", "pairing", "keys", "secured"}]
    BY DEF Init
  <2>5. label \in [Gatt -> Link \cup {None}] /\ pos \in 0 .. NChars
    BY GattCallsAssumption DEF Init
  <2>6. QED
    BY <2>1, <2>2, <2>3, <2>4, <2>5 DEF Init, NrfInv
<1>2. EspInv
  <2>1. calls \in Seq(CallRecord) /\ Len(calls) + troubles <= MaxSteps /\ troubles \in Nat
    BY GattCallsAssumption DEF Init
  <2>2. /\ waiter \in [Kind -> [Link -> MaybeId]] /\ WaitersKnown /\ AnsweredOnce
    BY DEF Init, MaybeId, WaitersKnown, AnsweredOnce
  <2>3. results \in [Link -> Seq(CharRecord)]
    BY DEF Init
  <2>4. QED
    BY <2>1, <2>2, <2>3 DEF Init, EspInv
<1>3. OutcomeOK
  BY DEF Init, OutcomeOK, Outcome
<1>4. QED
  BY <1>1, <1>2, <1>3

\* Outcomes are outcomes.
LEMMA OutcomesOK == OutcomeOK /\ [Next]_vars => OutcomeOK'
<1> SUFFICES ASSUME OutcomeOK, [Next]_vars PROVE OutcomeOK'
  OBVIOUS
<1> USE DEF OutcomeOK, Outcome
<1>1. ASSUME UNCHANGED outcome PROVE OutcomeOK'
  BY <1>1
<1>2. ASSUME NEW n, NEW how \in Outcome, Ended(n, how) PROVE OutcomeOK'
  BY <1>2 DEF Ended
<1>3. ASSUME NEW l, NEW how \in Outcome, NEW how2 \in Outcome, KeysEnded(l, how, how2)
      PROVE  OutcomeOK'
  BY <1>3 DEF KeysEnded
<1>4. CASE \E l \in Link, good \in BOOLEAN : HostAnswers(l, good)
  BY <1>2, <1>4 DEF HostAnswers
<1>5. CASE \E l \in Link : Encrypted(l) \/ PairingComplete(l) \/ PairingFails(l)
  BY <1>2, <1>3, <1>5 DEF Encrypted, PairingComplete, PairingFails
<1>6. CASE Reset
  BY <1>6 DEF Reset
<1>7. CASE \/ \E k \in Kind, l \in Link : Call(k, l) \/ CallFails(k, l)
           \/ \E l \in Link : Plain(l) \/ LinkUp(l) \/ Drop(l)
           \/ \E n \in Waiting : Timeout(n)
           \/ Restart \/ CmdStart \/ CmdExec
  BY <1>1, <1>7 DEF Call, CallFails, Plain, LinkUp, Drop, Timeout, Restart, CmdStart, CmdExec
<1>8. CASE ReadRsp \/ WriteRsp \/ BondComplete \/ EncChange \/ ServicesEntry \/ ServicesDone
  BY <1>1, <1>8 DEF ReadRsp, WriteRsp, BondComplete, EncChange, ServicesEntry, ServicesDone,
     Drained
<1>9. CASE UNCHANGED vars
  BY <1>1, <1>9 DEF vars
<1>10. QED
  BY <1>4, <1>5, <1>6, <1>7, <1>8, <1>9 DEF Next

LEMMA StepInv == CallsInv /\ [Next]_vars => CallsInv'
<1> SUFFICES ASSUME NrfInv, EspInv, [Next]_vars PROVE NrfInv' /\ EspInv'
  <2>1. CallsInv' <=> NrfInv' /\ EspInv' /\ OutcomeOK'
    BY DEF CallsInv, NrfInv, EspInv, TypeOK, OutcomeOK, Outcome
  <2>2. QED
    BY <2>1, Halves, OutcomesOK
<1>1. ASSUME NEW k \in Kind, NEW l \in Link, Call(k, l) \/ CallFails(k, l)
      PROVE  NrfInv' /\ EspInv'
  BY <1>1, CallOK, CallFailsOK
<1>2. ASSUME NEW l \in Link, Plain(l) PROVE NrfInv' /\ EspInv'
  BY <1>2, PlainOK
<1>3. ASSUME NEW n \in Waiting, Timeout(n) PROVE NrfInv' /\ EspInv'
  <2>1. NrfInv'
    BY <1>3, NrfSame DEF Timeout, NrfInv
  <2>2. QED
    BY <1>3, <2>1, TimeoutOK
<1>4. CASE Restart
  <2>1. NrfInv'
    BY <1>4, NrfSame DEF Restart, NrfInv
  <2>2. QED
    BY <1>4, <2>1, RestartOK
<1>5. CASE Reset
  BY <1>5, ResetOK, EspSame DEF Reset
<1>6. CASE CmdStart
  BY <1>6, StartOK, EspSame DEF CmdStart
<1>7. CASE CmdExec
  <2>1. UNCHANGED <<esp, told>> /\ (troubles' = troubles \/ Trouble)
    BY <1>7 DEF CmdExec, StartGatt, StartBond
  <2>2. QED
    BY <1>7, <2>1, ExecOK, EspSame
<1>8. ASSUME NEW l \in Link, NEW good \in BOOLEAN, HostAnswers(l, good)
      PROVE  NrfInv' /\ EspInv'
  <2>1. EspInv'
    BY <1>8, EspSame DEF HostAnswers
  <2>2. QED
    BY <1>8, <2>1, AnswerOK
<1>9. ASSUME NEW l \in Link, Encrypted(l) \/ PairingComplete(l) \/ PairingFails(l)
      PROVE  NrfInv' /\ EspInv'
  <2>1. EspInv'
    BY <1>9, EspSame DEF Encrypted, PairingComplete, PairingFails
  <2>2. QED
    BY <1>9, <2>1, SecurityOK
<1>10. ASSUME NEW l \in Link, LinkUp(l) \/ Drop(l) PROVE NrfInv' /\ EspInv'
  <2>1. EspInv'
    BY <1>10, EspSame DEF LinkUp, Drop
  <2>2. QED
    BY <1>10, <2>1, UpDownOK
<1>11. ASSUME NEW S, Drained(S)
       PROVE  NrfInv' /\ Head(queue) \in QueuedEvent /\ Head(queue).good \in BOOLEAN
              /\ UNCHANGED troubles
  BY <1>11, DrainedOK DEF QueuedEvent, Drained
<1>12. results \in [Link -> Seq(CharRecord)] /\ "read" \in Kind /\ "write" \in Kind
       /\ "bond" \in Kind /\ "discover" \in Kind
  BY DEF EspInv, Kind, Gatt
<1>13. CASE ReadRsp
  <2>1. Drained({"read"}) /\ Reply("read", TRUE, TRUE) /\ Resolved("read") /\ results' = results
    BY <1>13 DEF ReadRsp
  <2>2. QED
    BY <2>1, <1>11, <1>12, ReplyOK
<1>14. CASE WriteRsp
  <2>1. /\ Drained({"write"}) /\ Reply("write", TRUE, Head(queue).good)
        /\ Resolved("write") /\ results' = results
    BY <1>14 DEF WriteRsp
  <2>2. QED
    BY <2>1, <1>11, <1>12, ReplyOK
<1>15. CASE BondComplete
  <2>1. /\ Drained({"bond"}) /\ Reply("bond", TRUE, Head(queue).good)
        /\ Resolved("bond") /\ results' = results
    BY <1>15 DEF BondComplete
  <2>2. QED
    BY <2>1, <1>11, <1>12, ReplyOK
<1>16. CASE EncChange
  <2>1. /\ Drained({"enc"}) /\ Reply("bond", TRUE, Head(queue).good)
        /\ Resolved("bond") /\ results' = results
    BY <1>16 DEF EncChange
  <2>2. QED
    BY <2>1, <1>11, <1>12, ReplyOK
<1>17. CASE ServicesEntry
  <2>1. NrfInv'
    BY <1>17, <1>11 DEF ServicesEntry
  <2>2. QED
    BY <1>17, <2>1, EntryOK
<1>18. CASE ServicesDone
  <2> DEFINE l == Head(queue).link
  <2>1. /\ Drained({"discover"}) /\ Resolved("discover")
        /\ Reply("discover", Head(queue).good => results[l] = Whole(l), TRUE)
        /\ results' = [results EXCEPT ![l] = <<>>]
    BY <1>18 DEF ServicesDone
  <2>2. results' \in [Link -> Seq(CharRecord)]
    <3>1. <<>> \in Seq(CharRecord)
      OBVIOUS
    <3> HIDE DEF l
    <3>2. QED
      BY <3>1, <2>1, <1>12
  <2>3. QED
    BY <2>1, <2>2, <1>11, <1>12, ReplyOK
<1>19. CASE UNCHANGED vars
  <2>1. NrfInv'
    BY <1>19, NrfSame DEF vars, NrfInv
  <2>2. QED
    BY <1>19, <2>1, EspSame DEF vars
<1>20. QED
  BY <1>1, <1>2, <1>3, <1>4, <1>5, <1>6, <1>7, <1>8, <1>9, <1>10, <1>13, <1>14,
     <1>15, <1>16, <1>17, <1>18, <1>19 DEF Next

\* The inductive invariant holds in every reachable state.
THEOREM Invariance == Spec => []CallsInv
<1>1. Init => CallsInv
  BY InitInv
<1>2. CallsInv /\ [Next]_vars => CallsInv'
  BY StepInv
<1>3. QED
  BY <1>1, <1>2, PTL DEF Spec

\* Commands, requests, events, calls and waiters have their types, whatever is
\* overwritten in cmd_buf and whenever either chip restarts.
THEOREM TypesCorrect == Spec => []TypeOK
<1>1. CallsInv => TypeOK
  BY DEF CallsInv
<1>2. QED
  BY <1>1, Invariance, PTL

\* No call is answered twice, however BOND_COMPLETE, ENC_CHANGE and late events come.
THEOREM NoSecondAnswer == Spec => []AnsweredOnce
<1>1. CallsInv => AnsweredOnce
  BY DEF CallsInv
<1>2. QED
  BY <1>1, Invariance, PTL

-----------------------------------------------------------------------------
(* Whose the answers are: the invariant                                     *)

\* e would be taken for an answer to a call of kind k on l.
Answering(e, k, l) == e.kind \in Answers(k) /\ e.link = l

\* Before place f of q, only characteristics of n's would.
Before(q, f, n, k, l) ==
  \A i \in 1 .. f - 1 :
    Answering(q[i], k, l) => k = "discover" /\ q[i].call = n /\ q[i].char # None

\* The characteristics r, collected for l, and then those before place f of q are the
\* first m of the bulb, in their order.
InOrder(q, f, r, l, m) ==
  LET Entries == {i \in 1 .. f - 1 : Answering(q[i], "discover", l)}
  IN  /\ Len(r) <= m /\ \A i \in 1 .. Len(r) : r[i] = Char(l, i)
      /\ \A i \in Entries : \E p \in Len(r) + 1 .. m : q[i].char = Char(l, p)
      /\ \A i, j \in Entries : i < j => q[i].char.pos < q[j].char.pos
      /\ \A p \in Len(r) + 1 .. m : \E i \in Entries : q[i].char = Char(l, p)

\* q holds the answer to n, and what is collected when it comes is whole.
Answered(q, r, n, k, l) ==
  \E f \in 1 .. Len(q) :
    /\ Answering(q[f], k, l) /\ q[f].call = n /\ q[f].char = None
    /\ Before(q, f, n, k, l)
    /\ k = "discover" /\ q[f].good => InOrder(q, f, r, l, NChars)

\* q holds nothing but the first m characteristics.
Partial(q, r, n, k, l, m) ==
  /\ Before(q, Len(q) + 1, n, k, l)
  /\ k = "discover" => InOrder(q, Len(q) + 1, r, l, m)

NoRequest(k) == \A h \in Link : \A j \in DOMAIN att[h] : att[h][j].kind # k

\* The command of n, of kind k on l, is in cmd_buf and will be executed as it is.
Commanded(n, k, l) ==
  /\ cmd.call = n /\ cmd.kind = k /\ cmd.link = l
  /\ IF work THEN running # k ELSE running = k
  /\ k \in Gatt => NoRequest(k)

\* The host holds a request of n, and none else of its kind, nor is one on its way.
Requested(n, k, l) ==
  /\ k \in Gatt /\ label[k] = l /\ running # k /\ ~(work /\ cmd.kind = k)
  /\ \E i \in DOMAIN att[l] :
       /\ att[l][i].kind = k /\ att[l][i].call = n
       /\ \A h \in Link : \A j \in DOMAIN att[h] : att[h][j].kind = k => h = l /\ j = i

\* The nRF is at n, and has found m characteristics for it.
UnderWay(n, k, l, m) ==
  \/ Commanded(n, k, l) /\ m = 0
  \/ Requested(n, k, l) /\ (k = "discover" => m = pos)
  \/ k = "bond" /\ sec[l] \in {"pairing", "keys"}

\* n is the waiter of kind k for l, and what comes for it, now or next, is its own.
Assured(n, k, l) ==
  /\ waiter[k][l] = n
  /\ \/ Answered(queue, results[l], n, k, l)
     \/ \E m \in 0 .. NChars :
          UnderWay(n, k, l, m) /\ Partial(queue, results[l], n, k, l, m)

AllAssured == \A n \in Waiting \ excused : Assured(n, calls[n].kind, calls[n].link)

-----------------------------------------------------------------------------
(* What a queue holds for a call                                            *)

\* Up to place f, two queues with the same events hold the same.
LEMMA SamePrefix ==
  ASSUME NEW q, NEW t, NEW f \in Nat, \A i \in 1 .. f - 1 : t[i] = q[i],
         NEW n, NEW k, NEW l, NEW r, NEW m
  PROVE  /\ Before(q, f, n, k, l) => Before(t, f, n, k, l)
         /\ InOrder(q, f, r, l, m) => InOrder(t, f, r, l, m)
<1>1. Before(q, f, n, k, l) => Before(t, f, n, k, l)
  BY DEF Before
<1>2. {i \in 1 .. f - 1 : Answering(q[i], "discover", l)}
        = {i \in 1 .. f - 1 : Answering(t[i], "discover", l)}
  OBVIOUS
<1>3. InOrder(q, f, r, l, m) => InOrder(t, f, r, l, m)
  BY <1>2 DEF InOrder
<1>4. QED
  BY <1>1, <1>3

\* One more event that answers nothing on l.
LEMMA OneMore ==
  ASSUME NEW q, NEW f \in Nat, NEW n, NEW k, NEW l, NEW r, NEW m, ~Answering(q[f], k, l)
  PROVE  /\ Before(q, f, n, k, l) => Before(q, f + 1, n, k, l)
         /\ k = "discover" /\ InOrder(q, f, r, l, m) => InOrder(q, f + 1, r, l, m)
<1>1. \A i \in 1 .. (f + 1) - 1 : i \in 1 .. f - 1 \/ i = f
  OBVIOUS
<1>2. Before(q, f, n, k, l) => Before(q, f + 1, n, k, l)
  BY <1>1 DEF Before
<1>3. k = "discover" =>
        {i \in 1 .. f - 1 : Answering(q[i], "discover", l)}
          = {i \in 1 .. (f + 1) - 1 : Answering(q[i], "discover", l)}
  OBVIOUS
<1>4. k = "discover" /\ InOrder(q, f, r, l, m) => InOrder(q, f + 1, r, l, m)
  BY <1>3 DEF InOrder
<1>5. QED
  BY <1>2, <1>4

\* Queueing an event
LEMMA Appended ==
  ASSUME NEW S, NEW q \in Seq(S), NEW e \in S
  PROVE  /\ Append(q, e) \in Seq(S) /\ Len(Append(q, e)) = Len(q) + 1 /\ Len(q) \in Nat
         /\ Append(q, e)[Len(q) + 1] = e
         /\ \A i \in 1 .. Len(q) : Append(q, e)[i] = q[i]
  OBVIOUS

LEMMA AnsweredAppend ==
  ASSUME NEW q \in Seq(QueuedEvent), NEW e \in QueuedEvent, NEW n, NEW k, NEW l, NEW r,
         Answered(q, r, n, k, l)
  PROVE  Answered(Append(q, e), r, n, k, l)
<1> DEFINE t == Append(q, e)
<1>1. /\ Len(t) = Len(q) + 1 /\ Len(q) \in Nat /\ \A i \in 1 .. Len(q) : t[i] = q[i]
  BY Appended
<1> HIDE DEF t
<1>2. PICK f \in 1 .. Len(q) :
        /\ Answering(q[f], k, l) /\ q[f].call = n /\ q[f].char = None
        /\ Before(q, f, n, k, l)
        /\ k = "discover" /\ q[f].good => InOrder(q, f, r, l, NChars)
  BY DEF Answered
<1>3. f \in Nat /\ \A i \in 1 .. f - 1 : t[i] = q[i]
  BY <1>1
<1>4. /\ Before(t, f, n, k, l)
      /\ InOrder(q, f, r, l, NChars) => InOrder(t, f, r, l, NChars)
  BY <1>2, <1>3, SamePrefix
<1>5. t[f] = q[f] /\ f \in 1 .. Len(t)
  BY <1>1
<1>6. Answered(t, r, n, k, l)
  BY <1>2, <1>4, <1>5 DEF Answered
<1>7. QED
  BY <1>6 DEF t

LEMMA PartialAppend ==
  ASSUME NEW q \in Seq(QueuedEvent), NEW e \in QueuedEvent, NEW n, NEW k, NEW l, NEW r, NEW m,
         ~Answering(e, k, l), Partial(q, r, n, k, l, m)
  PROVE  Partial(Append(q, e), r, n, k, l, m)
<1> DEFINE t == Append(q, e)
           f == Len(q) + 1
<1>1. /\ Len(t) = f /\ f \in Nat /\ t[f] = e /\ \A i \in 1 .. f - 1 : t[i] = q[i]
  BY Appended
<1> HIDE DEF t
<1>2. /\ Before(t, f, n, k, l) /\ (k = "discover" => InOrder(t, f, r, l, m))
  BY <1>1, SamePrefix DEF Partial
<1>3. Before(t, f + 1, n, k, l) /\ (k = "discover" => InOrder(t, f + 1, r, l, m))
  BY <1>1, <1>2, OneMore
<1>4. Partial(t, r, n, k, l, m)
  BY <1>1, <1>3 DEF Partial
<1>5. QED
  BY <1>4 DEF t

\* The answer itself
LEMMA PartialEnds ==
  ASSUME NEW q \in Seq(QueuedEvent), NEW e \in QueuedEvent, NEW n, NEW k, NEW l, NEW r, NEW m,
         Answering(e, k, l), e.call = n, e.char = None, k = "discover" /\ e.good => m = NChars,
         Partial(q, r, n, k, l, m)
  PROVE  Answered(Append(q, e), r, n, k, l)
<1> DEFINE t == Append(q, e)
           f == Len(q) + 1
<1>1. /\ Len(t) = f /\ f \in Nat /\ t[f] = e /\ \A i \in 1 .. f - 1 : t[i] = q[i] /\ f \in 1 .. f
  BY Appended
<1> HIDE DEF t
<1>2. /\ Before(t, f, n, k, l) /\ (k = "discover" => InOrder(t, f, r, l, m))
  BY <1>1, SamePrefix DEF Partial
<1>0. f \in 1 .. Len(t)
  BY <1>1
<1> HIDE DEF f
<1>3. k = "discover" /\ t[f].good => InOrder(t, f, r, l, NChars)
  BY <1>1, <1>2
<1>4. Answering(t[f], k, l) /\ t[f].call = n /\ t[f].char = None /\ f \in 1 .. Len(t)
  BY <1>0, <1>1
<1>5. Answered(t, r, n, k, l)
  BY <1>2, <1>3, <1>4 DEF Answered
<1>6. QED
  BY <1>5 DEF t

\* The next characteristic
LEMMA PartialGrows ==
  ASSUME NEW q \in Seq(QueuedEvent), NEW e \in QueuedEvent, NEW n, NEW l,
         NEW r \in Seq(CharRecord), NEW m \in 0 .. NChars,
         e.call = n, e.char = Char(l, m + 1), e.char # None, Partial(q, r, n, "discover", l, m),
         Answering(e, "discover", l)
  PROVE  Partial(Append(q, e), r, n, "discover", l, m + 1)
<1> DEFINE t == Append(q, e)
           f == Len(q) + 1
           E == {i \in 1 .. f - 1 : Answering(q[i], "discover", l)}
           T == {i \in 1 .. (f + 1) - 1 : Answering(t[i], "discover", l)}
<1>1. /\ Len(t) = f /\ f \in Nat /\ t[f] = e /\ \A i \in 1 .. f - 1 : t[i] = q[i] /\ f \in 1 .. f
  BY Appended
<1> HIDE DEF t
<1>2. Before(t, f, n, "discover", l) /\ InOrder(q, f, r, l, m)
  BY <1>1, SamePrefix DEF Partial
<1>3. Before(t, f + 1, n, "discover", l)
  BY <1>1, <1>2 DEF Before
<1>4. T = E \cup {f} /\ f \notin E /\ \A i \in E : i < f /\ t[i] = q[i]
  BY <1>1
<1>5. /\ Len(r) <= m /\ \A i \in 1 .. Len(r) : r[i] = Char(l, i)
      /\ \A i \in E : \E p \in Len(r) + 1 .. m : q[i].char = Char(l, p)
      /\ \A i, j \in E : i < j => q[i].char.pos < q[j].char.pos
      /\ \A p \in Len(r) + 1 .. m : \E i \in E : q[i].char = Char(l, p)
  BY <1>2 DEF InOrder
<1> HIDE DEF E, T, f
<1>6. Len(r) \in Nat /\ m \in Nat
  BY GattCallsAssumption
<1>7. \A i \in E : q[i].char.pos < m + 1 /\ t[i].char = q[i].char
  <2>1. ASSUME NEW i \in E PROVE q[i].char.pos < m + 1 /\ t[i].char = q[i].char
    <3>1. PICK p \in Len(r) + 1 .. m : q[i].char = Char(l, p)
      BY <1>5
    <3>2. q[i].char.pos = p
      BY <3>1 DEF Char
    <3>3. p < m + 1
      BY <1>6
    <3>4. t[i] = q[i]
      BY <1>4
    <3>5. QED
      BY <3>2, <3>3, <3>4
  <2>2. QED
    BY <2>1
<1>8. t[f].char = Char(l, m + 1) /\ t[f].char.pos = m + 1
  BY <1>1 DEF Char
<1>9. \A i \in T : \E p \in Len(r) + 1 .. m + 1 : t[i].char = Char(l, p)
  <2>1. \A p \in Len(r) + 1 .. m : p \in Len(r) + 1 .. m + 1
    BY <1>6
  <2>2. m + 1 \in Len(r) + 1 .. m + 1
    BY <1>5, <1>6
  <2>3. QED
    BY <2>1, <2>2, <1>4, <1>5, <1>7, <1>8
<1>10. \A i, j \in T : i < j => t[i].char.pos < t[j].char.pos
  <2>1. \A i \in E : ~(f < i) /\ f \in Nat /\ i \in Nat
    BY <1>1, <1>4 DEF E
  <2>2. QED
    <3>1. ASSUME NEW i \in T, NEW j \in T, i < j PROVE t[i].char.pos < t[j].char.pos
      <4>1. i \in E
        BY <2>1, <3>1, <1>1, <1>4
      <4>2. CASE j \in E
        BY <4>1, <4>2, <3>1, <1>5, <1>7
      <4>3. CASE j = f
        BY <4>1, <4>3, <1>7, <1>8
      <4>4. QED
        BY <4>2, <4>3, <1>4
    <3>2. QED
      BY <3>1
<1>11. \A p \in Len(r) + 1 .. m + 1 : \E i \in T : t[i].char = Char(l, p)
  <2>1. \A p \in Len(r) + 1 .. m + 1 : p \in Len(r) + 1 .. m \/ p = m + 1
    BY <1>6
  <2>2. QED
    BY <2>1, <1>4, <1>5, <1>7, <1>8
<1>12. InOrder(t, f + 1, r, l, m + 1)
  <2>1. Len(r) <= m + 1
    BY <1>5, <1>6
  <2>2. QED
    BY <2>1, <1>5, <1>9, <1>10, <1>11 DEF InOrder, T
<1>13. Partial(t, r, n, "discover", l, m + 1)
  BY <1>1, <1>3, <1>12 DEF Partial
<1>14. QED
  BY <1>13 DEF t

\* Draining an event
LEMMA Tailed ==
  ASSUME NEW S, NEW q \in Seq(S), q # <<>>
  PROVE  /\ Tail(q) \in Seq(S) /\ Len(Tail(q)) = Len(q) - 1 /\ Len(q) \in Nat \ {0}
         /\ Head(q) = q[1] /\ q[1] \in S
         /\ \A i \in 1 .. Len(q) - 1 : Tail(q)[i] = q[i + 1]
  OBVIOUS

\* t is q without its first event, up to place g.
LEMMA Shifted ==
  ASSUME NEW q, NEW t, NEW g \in Nat \ {0}, \A i \in 1 .. g - 1 : t[i] = q[i + 1],
         NEW n, NEW k, NEW l, NEW r, NEW m
  PROVE  /\ Before(q, g + 1, n, k, l) => Before(t, g, n, k, l)
         /\ ~Answering(q[1], "discover", l) /\ InOrder(q, g + 1, r, l, m) => InOrder(t, g, r, l, m)
<1> DEFINE E == {i \in 1 .. (g + 1) - 1 : Answering(q[i], "discover", l)}
           T == {i \in 1 .. g - 1 : Answering(t[i], "discover", l)}
<1>0. \A i \in 1 .. g - 1 : i + 1 \in 1 .. (g + 1) - 1 /\ t[i] = q[i + 1]
  OBVIOUS
<1>1. Before(q, g + 1, n, k, l) => Before(t, g, n, k, l)
  BY <1>0 DEF Before
<1>2. \A i \in T : i + 1 \in E /\ t[i] = q[i + 1] /\ i \in Nat
  BY <1>0
<1>3. ASSUME ~Answering(q[1], "discover", l), InOrder(q, g + 1, r, l, m)
      PROVE  InOrder(t, g, r, l, m)
  <2>1. ASSUME NEW i \in E PROVE i - 1 \in T /\ t[i - 1] = q[i]
    <3>1. i # 1
      BY <1>3
    <3>2. i - 1 \in 1 .. g - 1 /\ (i - 1) + 1 = i
      BY <3>1
    <3>3. QED
      BY <3>2, <1>0
  <2>2. /\ Len(r) <= m /\ \A i \in 1 .. Len(r) : r[i] = Char(l, i)
        /\ \A i \in E : \E p \in Len(r) + 1 .. m : q[i].char = Char(l, p)
        /\ \A i, j \in E : i < j => q[i].char.pos < q[j].char.pos
        /\ \A p \in Len(r) + 1 .. m : \E i \in E : q[i].char = Char(l, p)
    BY <1>3 DEF InOrder
  <2> HIDE DEF E, T
  <2>3. \A i \in T : \E p \in Len(r) + 1 .. m : t[i].char = Char(l, p)
    BY <1>2, <2>2
  <2>4. \A i, j \in T : i < j => t[i].char.pos < t[j].char.pos
    <3>1. ASSUME NEW i \in T, NEW j \in T, i < j PROVE t[i].char.pos < t[j].char.pos
      <4>1. i + 1 < j + 1
        BY <1>2, <3>1
      <4>2. QED
        BY <4>1, <1>2, <2>2
    <3>2. QED
      BY <3>1
  <2>5. \A p \in Len(r) + 1 .. m : \E i \in T : t[i].char = Char(l, p)
    BY <2>1, <2>2
  <2>6. QED
    BY <2>2, <2>3, <2>4, <2>5 DEF InOrder, T
<1>4. QED
  BY <1>1, <1>3

\* The first characteristic of the queue is the next of the bulb.
LEMMA NextChar ==
  ASSUME NEW q, NEW t, NEW g \in Nat \ {0}, \A i \in 1 .. g - 1 : t[i] = q[i + 1],
         NEW l, NEW r \in Seq(CharRecord), NEW m \in Nat, Answering(q[1], "discover", l),
         InOrder(q, g + 1, r, l, m)
  PROVE  InOrder(t, g, Append(r, q[1].char), l, m)
<1> DEFINE E == {i \in 1 .. (g + 1) - 1 : Answering(q[i], "discover", l)}
           T == {i \in 1 .. g - 1 : Answering(t[i], "discover", l)}
           x == Len(r) + 1
           s == Append(r, q[1].char)
<1>1. \A i \in 1 .. g - 1 : i + 1 \in 1 .. (g + 1) - 1 /\ t[i] = q[i + 1]
  OBVIOUS
<1>2. \A i \in T : i + 1 \in E /\ t[i] = q[i + 1] /\ i \in Nat \ {0}
  BY <1>1
<1>3. 1 \in E /\ \A i \in E : i \in Nat /\ i >= 1
  OBVIOUS
<1>4. ASSUME NEW i \in E, i # 1 PROVE i - 1 \in T /\ t[i - 1] = q[i]
  <2>1. i - 1 \in 1 .. g - 1 /\ (i - 1) + 1 = i
    BY <1>4
  <2>2. QED
    BY <2>1, <1>1
<1>5. /\ Len(r) <= m /\ \A i \in 1 .. Len(r) : r[i] = Char(l, i)
      /\ \A i \in E : \E p \in x .. m : q[i].char = Char(l, p)
      /\ \A i, j \in E : i < j => q[i].char.pos < q[j].char.pos
      /\ \A p \in x .. m : \E i \in E : q[i].char = Char(l, p)
  BY DEF InOrder
<1>6. Len(r) \in Nat /\ x \in Nat
  OBVIOUS
<1> HIDE DEF E, T
<1>7. \A p : Char(l, p).pos = p
  BY DEF Char
<1>8. PICK p \in x .. m : q[1].char = Char(l, p)
  BY <1>3, <1>5
<1>9. p = x
  <2>1. x \in x .. m
    BY <1>6, <1>8
  <2>2. PICK i \in E : q[i].char = Char(l, x)
    BY <2>1, <1>5
  <2>3. CASE i = 1
    BY <2>2, <2>3, <1>7, <1>8
  <2>4. CASE i # 1
    <3>1. 1 < i
      BY <2>4, <1>3
    <3>2. q[1].char.pos < q[i].char.pos
      BY <3>1, <1>3, <1>5
    <3>3. p < x
      BY <3>2, <2>2, <1>7, <1>8
    <3>4. QED
      BY <3>3, <1>6, <1>8
  <2>5. QED
    BY <2>3, <2>4
<1>10. q[1].char = Char(l, x) /\ x <= m
  BY <1>6, <1>8, <1>9
<1>11. Len(s) = x /\ \A i \in 1 .. Len(s) : s[i] = Char(l, i)
  <2>1. s[x] = Char(l, x) /\ Len(s) = x
    BY <1>10
  <2>2. \A i \in 1 .. Len(r) : s[i] = r[i]
    OBVIOUS
  <2>3. \A i \in 1 .. x : i = x \/ i \in 1 .. Len(r)
    BY <1>6
  <2> HIDE DEF s
  <2>4. QED
    BY <2>1, <2>2, <2>3, <1>5
<1>12. \A i \in T : \E y \in x + 1 .. m : t[i].char = Char(l, y)
  <2>1. ASSUME NEW i \in T PROVE \E y \in x + 1 .. m : t[i].char = Char(l, y)
    <3>1. i + 1 \in E /\ 1 < i + 1 /\ t[i] = q[i + 1]
      BY <1>2
    <3>2. q[1].char.pos < q[i + 1].char.pos
      BY <3>1, <1>3, <1>5
    <3>3. PICK y \in x .. m : q[i + 1].char = Char(l, y)
      BY <3>1, <1>5
    <3>4. x < y
      BY <3>2, <3>3, <1>7, <1>10
    <3>5. y \in x + 1 .. m
      BY <3>4, <1>6
    <3>6. QED
      BY <3>1, <3>3, <3>5
  <2>2. QED
    BY <2>1
<1>13. \A i, j \in T : i < j => t[i].char.pos < t[j].char.pos
  <2>1. ASSUME NEW i \in T, NEW j \in T, i < j PROVE t[i].char.pos < t[j].char.pos
    <3>1. i + 1 < j + 1
      BY <1>2, <2>1
    <3>2. QED
      BY <3>1, <1>2, <1>5
  <2>2. QED
    BY <2>1
<1>14. \A y \in x + 1 .. m : \E i \in T : t[i].char = Char(l, y)
  <2>1. ASSUME NEW y \in x + 1 .. m PROVE \E i \in T : t[i].char = Char(l, y)
    <3>1. y \in x .. m /\ y # x
      BY <1>6
    <3>2. PICK i \in E : q[i].char = Char(l, y)
      BY <3>1, <1>5
    <3>3. i # 1
      BY <3>1, <3>2, <1>7, <1>10
    <3>4. QED
      BY <3>2, <3>3, <1>4
  <2>2. QED
    BY <2>1
<1> HIDE DEF s, x
<1>15. QED
  BY <1>10, <1>11, <1>12, <1>13, <1>14 DEF InOrder, T, s

\* What is drained is no answer to n, or a characteristic that joins the others.
LEMMA AnsweredTail ==
  ASSUME NEW q \in Seq(QueuedEvent), q # <<>>, NEW n, NEW k, NEW l, NEW r \in Seq(CharRecord),
         NEW s, Answered(q, r, n, k, l),
         \/ ~Answering(q[1], k, l) /\ (k = "discover" => s = r)
         \/ /\ k = "discover" /\ Answering(q[1], k, l) /\ q[1].char # None
            /\ s = Append(r, q[1].char)
  PROVE  Answered(Tail(q), s, n, k, l)
<1> DEFINE t == Tail(q)
<1>1. /\ Len(t) = Len(q) - 1 /\ Len(q) \in Nat \ {0}
      /\ \A i \in 1 .. Len(q) - 1 : t[i] = q[i + 1]
  BY Tailed
<1> HIDE DEF t
<1>2. PICK f \in 1 .. Len(q) :
        /\ Answering(q[f], k, l) /\ q[f].call = n /\ q[f].char = None
        /\ Before(q, f, n, k, l)
        /\ k = "discover" /\ q[f].good => InOrder(q, f, r, l, NChars)
  BY DEF Answered
<1>3. f # 1
  BY <1>2
<1>4. PICK g \in Nat \ {0} : f = g + 1
  <2>1. f - 1 \in Nat \ {0} /\ f = (f - 1) + 1
    BY <1>3
  <2>2. QED
    BY <2>1
<1>5. /\ \A i \in 1 .. g - 1 : t[i] = q[i + 1]
      /\ t[g] = q[f] /\ g \in 1 .. Len(t) /\ NChars \in Nat
  BY <1>1, <1>4, GattCallsAssumption
<1>6. Before(t, g, n, k, l)
  BY <1>2, <1>4, <1>5, Shifted
<1>7. ASSUME k = "discover", q[f].good PROVE InOrder(t, g, s, l, NChars)
  <2>1. InOrder(q, g + 1, r, l, NChars)
    BY <1>2, <1>4, <1>7
  <2>2. CASE ~Answering(q[1], k, l) /\ s = r
    BY <2>1, <2>2, <1>5, <1>7, Shifted
  <2>3. CASE Answering(q[1], k, l)
    <3>1. s = Append(r, q[1].char)
      BY <2>3
    <3>2. QED
      BY <2>1, <2>3, <3>1, <1>5, <1>7, NextChar
  <2>4. QED
    BY <2>2, <2>3, <1>7
<1>8. Answered(t, s, n, k, l)
  BY <1>2, <1>5, <1>6, <1>7 DEF Answered
<1>9. QED
  BY <1>8 DEF t

LEMMA PartialTail ==
  ASSUME NEW q \in Seq(QueuedEvent), q # <<>>, NEW n, NEW k, NEW l, NEW r \in Seq(CharRecord),
         NEW s, NEW m \in Nat, Partial(q, r, n, k, l, m),
         \/ ~Answering(q[1], k, l) /\ (k = "discover" => s = r)
         \/ /\ k = "discover" /\ Answering(q[1], k, l) /\ q[1].char # None
            /\ s = Append(r, q[1].char)
  PROVE  Partial(Tail(q), s, n, k, l, m)
<1> DEFINE t == Tail(q)
           g == Len(q)
<1>1. /\ Len(t) = g - 1 /\ g \in Nat \ {0} /\ (g - 1) + 1 = g
      /\ \A i \in 1 .. g - 1 : t[i] = q[i + 1]
  BY Tailed
<1> HIDE DEF t
<1>2. Before(q, g + 1, n, k, l) /\ (k = "discover" => InOrder(q, g + 1, r, l, m))
  BY DEF Partial
<1> HIDE DEF g
<1>3. Before(t, g, n, k, l)
  BY <1>1, <1>2, Shifted
<1>4. ASSUME k = "discover" PROVE InOrder(t, g, s, l, m)
  <2>1. InOrder(q, g + 1, r, l, m)
    BY <1>2, <1>4
  <2>2. CASE ~Answering(q[1], k, l) /\ s = r
    BY <2>1, <2>2, <1>1, <1>4, Shifted
  <2>3. CASE Answering(q[1], k, l)
    <3>1. s = Append(r, q[1].char)
      BY <2>3
    <3>2. QED
      BY <2>1, <2>3, <3>1, <1>1, <1>4, NextChar
  <2>4. QED
    BY <2>2, <2>3, <1>4
<1>5. Partial(t, s, n, k, l, m)
  BY <1>1, <1>3, <1>4 DEF Partial
<1>6. QED
  BY <1>5 DEF t

\* What ends a call that is assured is its own answer, and a discovery's is whole.
Owed(q, r, n, k, l) == Answered(q, r, n, k, l) \/ \E m \in Nat : Partial(q, r, n, k, l, m)

LEMMA OwnEnd ==
  ASSUME NEW q \in Seq(QueuedEvent), q # <<>>, NEW n, NEW k, NEW l, NEW r \in Seq(CharRecord),
         Answering(q[1], k, l), k = "discover" => q[1].char = None, Owed(q, r, n, k, l)
  PROVE  q[1].call = n /\ (k = "discover" /\ q[1].good => r = Whole(l))
<1>1. Len(q) \in Nat \ {0}
  BY Tailed
<1>2. ASSUME NEW f \in 2 .. Len(q) + 1, Before(q, f, n, k, l) PROVE FALSE
  <2>1. 1 \in 1 .. f - 1
    OBVIOUS
  <2>2. QED
    BY <2>1, <1>2 DEF Before
<1>3. Answered(q, r, n, k, l)
  <2> USE DEF Owed
  <2>1. Len(q) + 1 \in 2 .. Len(q) + 1
    BY <1>1
  <2>2. QED
    BY <2>1, <1>2 DEF Partial
<1>4. PICK f \in 1 .. Len(q) :
        /\ Answering(q[f], k, l) /\ q[f].call = n /\ q[f].char = None
        /\ Before(q, f, n, k, l)
        /\ k = "discover" /\ q[f].good => InOrder(q, f, r, l, NChars)
  BY <1>3 DEF Answered
<1>5. f = 1
  <2>1. f \in 2 .. Len(q) + 1 \/ f = 1
    BY <1>1
  <2>2. QED
    BY <2>1, <1>2, <1>4
<1>6. ASSUME InOrder(q, 1, r, l, NChars) PROVE r = Whole(l)
  <2>1. /\ Len(r) <= NChars /\ \A i \in 1 .. Len(r) : r[i] = Char(l, i)
        /\ \A p \in Len(r) + 1 .. NChars : \E i \in 1 .. 1 - 1 : TRUE
    BY <1>6 DEF InOrder
  <2>2. Len(r) \in Nat /\ NChars \in Nat
    BY GattCallsAssumption
  <2>3. Len(r) = NChars
    <3>1. ASSUME Len(r) # NChars PROVE FALSE
      <4>1. NChars \in Len(r) + 1 .. NChars
        BY <3>1, <2>1, <2>2
      <4>2. PICK i \in 1 .. 1 - 1 : TRUE
        BY <4>1, <2>1
      <4>3. QED
        BY <4>2
    <3>2. QED
      BY <3>1
  <2>4. r = [i \in 1 .. NChars |-> Char(l, i)]
    BY <2>1, <2>3
  <2>5. QED
    BY <2>4 DEF Whole
<1>7. QED
  BY <1>4, <1>5, <1>6

-----------------------------------------------------------------------------
(* What a step does to a call that is assured                               *)

\* What a waiting call is
LEMMA Caller ==
  ASSUME EspInv, NEW n \in Waiting
  PROVE  /\ n \in DOMAIN calls /\ n \in CallId /\ n # None
         /\ calls[n].kind \in Kind /\ calls[n].link \in Link /\ calls[n].state = "waiting"
<1>1. n \in DOMAIN calls /\ calls[n].state = "waiting" /\ n \in CallId /\ n # None
  BY CallIds DEF Waiting
<1>2. calls[n] \in CallRecord
  BY <1>1 DEF EspInv
<1>3. QED
  BY <1>1, <1>2 DEF CallRecord

\* The results are the affair of discoveries.
LEMMA NotCollecting ==
  ASSUME NEW q, NEW n, NEW k, NEW l, NEW r, NEW s, k = "discover" => s = r
  PROVE  /\ Answered(q, r, n, k, l) => Answered(q, s, n, k, l)
         /\ \A m : Partial(q, r, n, k, l, m) => Partial(q, s, n, k, l, m)
<1>1. CASE s = r
  BY <1>1
<1>2. CASE k # "discover"
  BY <1>2 DEF Answered, Partial
<1>3. QED
  BY <1>1, <1>2

\* What answers one kind of call answers no other.
LEMMA KindOfAnswer ==
  ASSUME NEW e, NEW k \in Kind, NEW l
  PROVE  /\ e.kind \in Gatt => (Answering(e, k, l) <=> k = e.kind /\ e.link = l)
         /\ e.kind \in {"bond", "enc"} => (Answering(e, k, l) <=> k = "bond" /\ e.link = l)
BY DEF Answering, Answers, Kind, Gatt

\* The queue stays as it is, and the nRF where it was with n.
LEMMA Kept ==
  ASSUME NEW n, NEW k, NEW l, Assured(n, k, l),
         queue' = queue, waiter'[k][l] = waiter[k][l], k = "discover" => results'[l] = results[l],
         \A m \in 0 .. NChars : UnderWay(n, k, l, m) => UnderWay(n, k, l, m)'
  PROVE  Assured(n, k, l)'
<1>1. waiter'[k][l] = n
  BY DEF Assured
<1>2. PICK r : r = results[l]
  OBVIOUS
<1>3. PICK s : s = results'[l]
  OBVIOUS
<1>4. k = "discover" => s = r
  BY <1>2, <1>3
<1>5. CASE Answered(queue, r, n, k, l)
  <2>1. Answered(queue', s, n, k, l)
    BY <1>4, <1>5, NotCollecting
  <2>2. QED
    BY <2>1, <1>1, <1>3 DEF Assured
<1>6. ASSUME NEW m \in 0 .. NChars, UnderWay(n, k, l, m), Partial(queue, r, n, k, l, m)
      PROVE  Assured(n, k, l)'
  <2>1. Partial(queue', s, n, k, l, m)
    BY <1>4, <1>6, NotCollecting
  <2>2. UnderWay(n, k, l, m)'
    BY <1>6
  <2>3. QED
    BY <2>1, <2>2, <1>1, <1>3 DEF Assured
<1>7. QED
  BY <1>2, <1>5, <1>6 DEF Assured

\* An event is queued: it is not for n, or ends n, or brings n another characteristic.
LEMMA Grows ==
  ASSUME NrfInv, NEW n, NEW k, NEW l, NEW e \in QueuedEvent, Assured(n, k, l),
         queue' = queue \/ queue' = Append(queue, e), UNCHANGED <<waiter, results>>,
         results[l] \in Seq(CharRecord),
         \A m \in 0 .. NChars :
           UnderWay(n, k, l, m) =>
             \/ ~Answering(e, k, l) /\ UnderWay(n, k, l, m)'
             \/ /\ queue' = Append(queue, e) /\ Answering(e, k, l) /\ e.call = n /\ e.char = None
                /\ k = "discover" /\ e.good => m = NChars
             \/ /\ queue' = Append(queue, e) /\ Answering(e, k, l) /\ e.call = n
                /\ k = "discover" /\ e.char = Char(l, m + 1) /\ e.char # None
                /\ m + 1 \in 0 .. NChars /\ UnderWay(n, k, l, m + 1)'
  PROVE  Assured(n, k, l)'
<1>1. waiter'[k][l] = n
  BY DEF Assured
<1>2. PICK r : r = results[l]
  OBVIOUS
<1>3. results'[l] = r /\ r \in Seq(CharRecord) /\ queue \in Seq(QueuedEvent)
  BY <1>2 DEF NrfInv
<1>4. CASE Answered(queue, r, n, k, l)
  <2>1. Answered(queue', r, n, k, l)
    BY <1>3, <1>4, AnsweredAppend
  <2>2. QED
    BY <2>1, <1>1, <1>3 DEF Assured
<1>5. ASSUME NEW m \in 0 .. NChars, UnderWay(n, k, l, m), Partial(queue, r, n, k, l, m)
      PROVE  Assured(n, k, l)'
  <2>1. CASE ~Answering(e, k, l) /\ UnderWay(n, k, l, m)'
    <3>1. Partial(queue', r, n, k, l, m)
      BY <2>1, <1>3, <1>5, PartialAppend
    <3>2. QED
      BY <2>1, <3>1, <1>1, <1>3 DEF Assured
  <2>2. CASE /\ queue' = Append(queue, e) /\ Answering(e, k, l) /\ e.call = n /\ e.char = None
             /\ k = "discover" /\ e.good => m = NChars
    <3>1. Answered(queue', r, n, k, l)
      BY <2>2, <1>3, <1>5, PartialEnds
    <3>2. QED
      BY <3>1, <1>1, <1>3 DEF Assured
  <2>3. CASE /\ queue' = Append(queue, e) /\ Answering(e, k, l) /\ e.call = n
             /\ k = "discover" /\ e.char = Char(l, m + 1) /\ e.char # None
             /\ m + 1 \in 0 .. NChars /\ UnderWay(n, k, l, m + 1)'
    <3>1. Partial(queue', r, n, k, l, m + 1)
      BY <2>3, <1>3, <1>5, PartialGrows
    <3>2. QED
      BY <2>3, <3>1, <1>1, <1>3 DEF Assured
  <2>4. QED
    BY <2>1, <2>2, <2>3, <1>5
<1>6. QED
  BY <1>2, <1>4, <1>5 DEF Assured

\* The first of one or two events, at the end of a queue
Fits(q, e, d) ==
  /\ SubSeq(<<e>>, 1, 1) = <<e>> /\ SubSeq(<<e, d>>, 1, 1) = <<e>>
  /\ SubSeq(<<e, d>>, 1, 2) = <<e, d>>
  /\ q \o <<e>> = Append(q, e) /\ q \o <<e, d>> = Append(Append(q, e), d)

LEMMA Fitting ==
  ASSUME NEW q \in Seq(QueuedEvent), NEW e \in QueuedEvent, NEW d \in QueuedEvent
  PROVE  Fits(q, e, d)
<1>1. <<e>> \in Seq(QueuedEvent) /\ <<e, d>> \in Seq(QueuedEvent)
  OBVIOUS
<1>2. ASSUME NEW s \in Seq(QueuedEvent), Len(s) \in {1, 2}, s[1] = e PROVE SubSeq(s, 1, 1) = <<e>>
  <2>1. SubSeq(s, 1, 1) \in Seq(QueuedEvent) /\ Len(SubSeq(s, 1, 1)) = 1 /\ SubSeq(s, 1, 1)[1] = e
    BY <1>2
  <2> DEFINE t == SubSeq(s, 1, 1)
             u == <<e>>
  <2>2. u \in Seq(QueuedEvent) /\ Len(u) = 1 /\ u[1] = e
    OBVIOUS
  <2>3. \A i \in 1 .. 1 : i = 1
    OBVIOUS
  <2> HIDE DEF t, u
  <2>4. t \in Seq(QueuedEvent) /\ Len(t) = Len(u) /\ \A i \in 1 .. Len(t) : t[i] = u[i]
    BY <2>1, <2>2, <2>3 DEF t
  <2>5. t = u
    BY <2>2, <2>4, SeqEqual
  <2>6. QED
    BY <2>5 DEF t, u
<1>3. SubSeq(<<e>>, 1, 1) = <<e>> /\ SubSeq(<<e, d>>, 1, 1) = <<e>>
  BY <1>1, <1>2
<1>4. SubSeq(<<e, d>>, 1, 2) = <<e, d>>
  <2>1. Len(<<e, d>>) = 2
    OBVIOUS
  <2>2. QED
    BY <2>1, <1>1, SubSeqFull
<1>5. q \o <<e>> = Append(q, e)
  BY AppendIsConcat
<1>6. q \o <<e, d>> = Append(Append(q, e), d)
  <2> DEFINE a == q \o <<e, d>>
             b == Append(Append(q, e), d)
  <2>1. a \in Seq(QueuedEvent) /\ b \in Seq(QueuedEvent) /\ Len(a) = Len(q) + 2 /\ Len(b) = Len(q) + 2
    BY <1>1
  <2>2. ASSUME NEW i \in 1 .. Len(a) PROVE a[i] = b[i]
    <3>1. i \in 1 .. Len(q) \/ i = Len(q) + 1 \/ i = Len(q) + 2
      BY <2>1
    <3>2. a[i] = IF i <= Len(q) THEN q[i] ELSE <<e, d>>[i - Len(q)]
      BY <2>1, <1>1
    <3>3. QED
      BY <3>1, <3>2
  <2>3. QED
    BY <2>1, <2>2, SeqEqual
<1>7. QED
  BY <1>3, <1>4, <1>5, <1>6 DEF Fits

\* One event fits or its call is excused; of two, the first.
LEMMA PushOne ==
  ASSUME NrfInv, NEW e \in QueuedEvent, Push(<<e>>)
  PROVE  \/ queue' = Append(queue, e) /\ excused' = excused
         \/ queue' = queue /\ excused' = excused \cup ({e.call} \ {None})
<1> DEFINE es == <<e>>
           room == QueueSize - Len(queue)
           fit  == IF room < Len(es) THEN room ELSE Len(es)
<1>1. room \in Nat /\ queue \in Seq(QueuedEvent) /\ Len(es) = 1
  BY GattCallsAssumption DEF NrfInv
<1>2. /\ queue' = queue \o SubSeq(es, 1, fit)
      /\ excused' = excused \cup ({es[i].call : i \in (fit + 1) .. Len(es)} \ {None})
  BY DEF Push
<1>3. CASE room = 0
  <2>1. fit = 0
    BY <1>1, <1>3
  <2>2. SubSeq(es, 1, fit) = <<>>
    BY <2>1
  <2>3. queue' = queue
    BY <1>1, <1>2, <2>2
  <2>4. {es[i].call : i \in (fit + 1) .. Len(es)} = {e.call}
    <3>1. (fit + 1) .. Len(es) = {1} /\ es[1] = e
      BY <1>1, <2>1
    <3>2. QED
      BY <3>1
  <2>5. QED
    BY <1>2, <2>3, <2>4
<1>4. CASE room # 0
  <2>1. fit = 1
    BY <1>1, <1>4
  <2>0. Fits(queue, e, e)
    BY <1>1, Fitting
  <2>2. SubSeq(es, 1, fit) = <<e>>
    BY <2>0, <2>1 DEF Fits
  <2>3. queue' = Append(queue, e)
    <3>1. queue' = queue \o <<e>>
      BY <1>2, <2>2
    <3>2. QED
      BY <2>0, <3>1 DEF Fits
  <2>4. {es[i].call : i \in (fit + 1) .. Len(es)} = {}
    BY <1>1, <2>1
  <2>5. QED
    BY <1>2, <2>3, <2>4
<1>5. QED
  BY <1>3, <1>4

LEMMA PushTwo ==
  ASSUME NrfInv, NEW e \in QueuedEvent, NEW d \in QueuedEvent, Push(<<e, d>>)
  PROVE  /\ excused \subseteq excused'
         /\ \/ queue' = Append(queue, e)
            \/ queue' = Append(Append(queue, e), d)
            \/ queue' = queue /\ (e.call # None => e.call \in excused')
<1>0. /\ SubSeq(<<e, d>>, 1, 1) = <<e>> /\ SubSeq(<<e, d>>, 1, 2) = <<e, d>>
      /\ queue \o <<e>> = Append(queue, e)
      /\ queue \o <<e, d>> = Append(Append(queue, e), d)
  <2>1. queue \in Seq(QueuedEvent)
    BY DEF NrfInv
  <2>2. Fits(queue, e, d)
    BY <2>1, Fitting
  <2>3. QED
    BY <2>2 DEF Fits
<1> DEFINE es == <<e, d>>
           room == QueueSize - Len(queue)
           fit  == IF room < Len(es) THEN room ELSE Len(es)
<1>1. room \in Nat /\ queue \in Seq(QueuedEvent) /\ Len(es) = 2
  BY GattCallsAssumption DEF NrfInv
<1>2. /\ queue' = queue \o SubSeq(es, 1, fit)
      /\ excused' = excused \cup ({es[i].call : i \in (fit + 1) .. Len(es)} \ {None})
  BY DEF Push
<1>3. CASE room = 0
  <2>1. fit = 0
    BY <1>1, <1>3
  <2>2. SubSeq(es, 1, fit) = <<>>
    BY <2>1
  <2>3. queue' = queue
    <3>1. queue' = queue \o <<>>
      BY <1>2, <2>2
    <3>2. QED
      BY <3>1, <1>1, ConcatEmptySeq
  <2>4. e.call \in {es[i].call : i \in (fit + 1) .. Len(es)}
    <3>1. 1 \in (fit + 1) .. Len(es) /\ es[1] = e
      BY <1>1, <2>1
    <3>2. QED
      BY <3>1
  <2> HIDE DEF es, room, fit
  <2>5. QED
    BY <1>2, <2>3, <2>4
<1>4. CASE room = 1
  <2>1. fit = 1
    BY <1>1, <1>4
  <2>2. SubSeq(es, 1, fit) = <<e>>
    BY <1>0, <2>1
  <2>3. queue' = Append(queue, e)
    <3>1. queue' = queue \o <<e>>
      BY <1>2, <2>2
    <3>2. QED
      BY <3>1, <1>0
  <2> HIDE DEF es, room, fit
  <2>4. QED
    BY <1>2, <2>3
<1>5. CASE room # 0 /\ room # 1
  <2>1. fit = 2
    BY <1>1, <1>5
  <2>2. SubSeq(es, 1, fit) = <<e, d>>
    BY <1>0, <2>1
  <2>3. queue' = Append(Append(queue, e), d)
    <3>1. queue' = queue \o <<e, d>>
      BY <1>2, <2>2
    <3>2. QED
      BY <3>1, <1>0
  <2> HIDE DEF es, room, fit
  <2>4. QED
    BY <1>2, <2>3
<1>6. QED
  BY <1>3, <1>4, <1>5

-----------------------------------------------------------------------------
(* Every step keeps all assured                                             *)

\* A caller that waits on and is not excused is assured still.
Lasting ==
  \A n \in Waiting, k \in Kind, l \in Link :
    /\ n \in Waiting' /\ n \notin excused' /\ calls[n].kind = k /\ calls[n].link = l
    /\ Assured(n, k, l)
    => Assured(n, k, l)'

LEMMA AllLasting ==
  ASSUME EspInv, AllAssured, Lasting, excused \subseteq excused',
         \A n \in Waiting : calls'[n].kind = calls[n].kind /\ calls'[n].link = calls[n].link,
         \A n \in Waiting' \ Waiting :
           n \notin excused' => Assured(n, calls[n].kind, calls[n].link)'
  PROVE  AllAssured'
<1>1. ASSUME NEW n \in Waiting', n \notin excused', n \in Waiting
      PROVE  Assured(n, calls[n].kind, calls[n].link)'
  <2>1. n \in Waiting /\ n \notin excused
    BY <1>1
  <2>2. PICK k \in Kind, l \in Link : calls[n].kind = k /\ calls[n].link = l
    BY <2>1, Caller
  <2>3. Assured(n, k, l)
    BY <2>1, <2>2 DEF AllAssured
  <2>4. Assured(n, k, l)'
    BY <1>1, <2>1, <2>2, <2>3 DEF Lasting
  <2>5. calls'[n].kind = k /\ calls'[n].link = l
    BY <1>1, <2>2
  <2>6. QED
    BY <2>4, <2>5
<1>2. QED
  BY <1>1 DEF AllAssured

\* The driver's part is as it was.
LEMMA SameCalls ==
  ASSUME EspInv, AllAssured, Lasting, excused \subseteq excused', UNCHANGED calls
  PROVE  AllAssured'
<1>1. Waiting' \ Waiting = {}
  BY DEF Waiting
<1>2. \A n \in Waiting : calls'[n].kind = calls[n].kind /\ calls'[n].link = calls[n].link
  OBVIOUS
<1>3. QED
  BY <1>1, <1>2, AllLasting

LEMMA StartAssured ==
  ASSUME NrfInv, EspInv, AllAssured, CmdStart
  PROVE  AllAssured'
<1>1. Lasting
  <2>1. SUFFICES ASSUME NEW n \in Waiting, NEW k \in Kind, NEW l \in Link, Assured(n, k, l)
                 PROVE  Assured(n, k, l)'
    BY DEF Lasting
  <2>2. UNCHANGED <<queue, waiter, results, att, label, pos, cmd, sec>>
        /\ work /\ running = None /\ work' = FALSE /\ running' = cmd.kind
    BY DEF CmdStart, esp, Kind, Gatt, EspInv
  <2>3. ASSUME NEW m, UnderWay(n, k, l, m) PROVE UnderWay(n, k, l, m)'
    <3>1. NoRequest(k)' = NoRequest(k)
      BY <2>2 DEF NoRequest
    <3>2. Commanded(n, k, l) => Commanded(n, k, l)'
      BY <2>2, <3>1 DEF Commanded
    <3>3. Requested(n, k, l) => Requested(n, k, l)'
      BY <2>2 DEF Requested
    <3>4. QED
      BY <2>2, <2>3, <3>2, <3>3 DEF UnderWay
  <2>4. QED
    BY <2>1, <2>2, <2>3, Kept
<1>2. QED
  BY <1>1, SameCalls DEF CmdStart, esp

\* Commands in cmd_buf are unexecuted.
LEMMA Overwritten ==
  ASSUME NEW n, NEW k \in Kind, NEW l, Commanded(n, k, l), n # None
  PROVE  n \in Unexecuted
<1>1. k # None
  BY GattCallsAssumption
<1>2. QED
  BY <1>1 DEF Commanded, Unexecuted

\* Another command is written; the caller whose command it overwrites is excused.
LEMMA WriteLasting ==
  ASSUME NEW k \in Kind \cup {"plain"}, NEW n, n # None, NEW j \in Kind, NEW l, NEW m,
         UNCHANGED <<sec, running, att, label, pos>>, work', cmd'.kind = k,
         n \notin Unexecuted, UnderWay(n, j, l, m), Requested(n, j, l) => j # k
  PROVE  UnderWay(n, j, l, m)'
<1>1. ~Commanded(n, j, l)
  BY Overwritten
<1>2. CASE Requested(n, j, l) /\ (j = "discover" => m = pos)
  <2>1. Requested(n, j, l)'
    BY <1>2 DEF Requested
  <2>2. QED
    BY <1>2, <2>1 DEF UnderWay
<1>3. CASE j = "bond" /\ sec[l] \in {"pairing", "keys"}
  BY <1>3 DEF UnderWay
<1>4. QED
  BY <1>1, <1>2, <1>3 DEF UnderWay

LEMMA CallAssured ==
  ASSUME NrfInv, EspInv, AllAssured, NEW k \in Kind, NEW l \in Link, Call(k, l)
  PROVE  AllAssured'
<1>1. PICK new : new = Len(calls) + 1
  OBVIOUS
<1> DEFINE c == [kind |-> k, link |-> l, state |-> "waiting"]
<1>2. c \in CallRecord /\ c.kind = k /\ c.link = l /\ c.state = "waiting"
  BY DEF CallRecord
<1>3. /\ calls' = Append(calls, c) /\ WriteCmd(k, l, new) /\ Register(k, l, new)
      /\ excused' = excused \cup Unexecuted
                            \cup (IF Entangled(k, l) THEN Rivals(k, l) \cup {new} ELSE {})
      /\ UNCHANGED <<up, sec, running, att, label, pos, queue, told, troubles>>
  BY <1>1 DEF Call
<1> HIDE DEF c
<1>4. /\ DOMAIN calls' = DOMAIN calls \cup {new} /\ calls'[new] = c
      /\ \A n \in DOMAIN calls : calls'[n] = calls[n]
  BY <1>1, <1>2, <1>3, AppendOK
<1>5. Waiting' = Waiting \cup {new} /\ \A n \in Waiting : calls'[n] = calls[n]
  BY <1>2, <1>4 DEF Waiting
<1>6. /\ waiter' = [waiter EXCEPT ![k][l] = new] /\ waiter \in [Kind -> [Link -> MaybeId]]
      /\ results' = (IF k = "discover" THEN [results EXCEPT ![l] = <<>>] ELSE results)
      /\ results \in [Link -> Seq(CharRecord)]
  BY <1>3 DEF Register, EspInv
<1>7. /\ waiter'[k][l] = new
      /\ \A j \in Kind, h \in Link : ~(j = k /\ h = l) => waiter'[j][h] = waiter[j][h]
      /\ k = "discover" => results'[l] = <<>>
      /\ \A h \in Link : h # l \/ k # "discover" => results'[h] = results[h]
  BY <1>6
<1>8. work' = TRUE /\ cmd' = [kind |-> k, link |-> l, call |-> new]
  BY <1>3 DEF WriteCmd
<1>9. cmd'.kind = k /\ cmd'.link = l /\ cmd'.call = new
  BY <1>8
<1>10. Lasting
  <2>1. SUFFICES ASSUME NEW n \in Waiting, NEW j \in Kind, NEW h \in Link, n \notin excused',
                        calls[n].kind = j, calls[n].link = h, Assured(n, j, h)
                 PROVE  Assured(n, j, h)'
    BY DEF Lasting
  <2>2. n \notin Unexecuted /\ n # None /\ (Entangled(k, l) => n \notin Rivals(k, l))
    BY <1>3, <2>1, Caller
  <2>3. ~(j = k /\ h = l)
    <3>1. ASSUME j = k, h = l PROVE FALSE
      <4>1. waiter[k][l] \in Waiting
        BY <2>1, <3>1 DEF Assured
      <4>2. n \in Rivals(k, l)
        BY <2>1, <3>1 DEF Rivals
      <4>3. QED
        BY <2>2, <4>1, <4>2 DEF Entangled
    <3>2. QED
      BY <3>1
  <2>4. ASSUME Requested(n, j, h), j = k PROVE FALSE
    <3>1. k \in Gatt /\ \E i \in DOMAIN att[h] : att[h][i].kind = k
      BY <2>4 DEF Requested
    <3>2. n \in Rivals(k, l)
      BY <2>1, <2>4, <3>1 DEF Rivals
    <3>3. QED
      BY <2>2, <3>1, <3>2 DEF Entangled
  <2>5. ASSUME NEW m, UnderWay(n, j, h, m) PROVE UnderWay(n, j, h, m)'
    BY <1>3, <1>8, <1>9, <2>2, <2>4, <2>5, WriteLasting
  <2>6. queue' = queue /\ waiter'[j][h] = waiter[j][h] /\ (j = "discover" => results'[h] = results[h])
    BY <1>3, <1>7, <2>3
  <2>7. QED
    BY <2>1, <2>5, <2>6, Kept
<1>11. ASSUME new \notin excused' PROVE Assured(new, k, l)'
  <2>1. ~Entangled(k, l)
    BY <1>3, <1>11
  <2>2. /\ \A i \in DOMAIN queue : ~Answering(queue[i], k, l)
        /\ k \in Gatt => NoRequest(k)
        /\ running # k
    BY <2>1 DEF Entangled, Answering, NoRequest
  <2>3. Commanded(new, k, l)'
    BY <1>3, <1>8, <1>9, <2>2 DEF Commanded, NoRequest
  <2>4. UnderWay(new, k, l, 0)' /\ 0 \in 0 .. NChars
    BY <2>3, GattCallsAssumption DEF UnderWay
  <2>5. PICK s : s = results'[l]
    OBVIOUS
  <2>6. \A i \in 1 .. (Len(queue) + 1) - 1 : ~Answering(queue[i], k, l)
    BY <2>2 DEF NrfInv
  <2>7. Before(queue, Len(queue) + 1, new, k, l)
    BY <2>6 DEF Before
  <2>8. ASSUME k = "discover" PROVE InOrder(queue, Len(queue) + 1, s, l, 0)
    <3>1. s = <<>> /\ Len(s) = 0
      BY <1>7, <2>5, <2>8
    <3>2. {i \in 1 .. (Len(queue) + 1) - 1 : Answering(queue[i], "discover", l)} = {}
      BY <2>6, <2>8
    <3>3. \A i \in 1 .. Len(s) : FALSE
      BY <3>1
    <3>4. \A p \in Len(s) + 1 .. 0 : FALSE
      BY <3>1
    <3>5. QED
      BY <3>1, <3>2, <3>3, <3>4 DEF InOrder
  <2>9. Partial(queue', s, new, k, l, 0)
    BY <1>3, <2>7, <2>8 DEF Partial
  <2>10. QED
    BY <1>7, <2>4, <2>5, <2>9 DEF Assured
<1>12. calls'[new].kind = k /\ calls'[new].link = l
  BY <1>2, <1>4
<1>13. \A n \in Waiting' \ Waiting :
         n \notin excused' => Assured(n, calls[n].kind, calls[n].link)'
  BY <1>5, <1>11, <1>12
<1>14. QED
  BY <1>3, <1>5, <1>10, <1>13, AllLasting

\* A command whose caller does not wait: one of no kind, or whose kind has no rivals.
LEMMA WriteAssured ==
  ASSUME NrfInv, EspInv, AllAssured, NEW k \in Kind \cup {"plain"}, NEW l \in Link,
         WriteCmd(k, l, None), Unexecuted \subseteq excused',
         k \in Gatt => Rivals(k, l) \subseteq excused',
         UNCHANGED <<sec, running, att, label, pos, queue, waiter, results>>
  PROVE  Lasting
<1>1. work' /\ cmd'.kind = k
  BY DEF WriteCmd
<1>2. SUFFICES ASSUME NEW n \in Waiting, NEW j \in Kind, NEW h \in Link, n \notin excused',
                      calls[n].kind = j, calls[n].link = h, Assured(n, j, h)
               PROVE  Assured(n, j, h)'
  BY DEF Lasting
<1>3. n \notin Unexecuted /\ n # None
  BY <1>2, Caller
<1>4. Requested(n, j, h) => j # k
  <2>1. ASSUME Requested(n, j, h), j = k PROVE FALSE
    <3>1. k \in Gatt
      BY <2>1 DEF Requested
    <3>2. n \in Rivals(k, l)
      BY <1>2, <2>1, <3>1 DEF Rivals
    <3>3. QED
      BY <1>2, <3>1, <3>2
  <2>2. QED
    BY <2>1
<1>5. ASSUME NEW m, UnderWay(n, j, h, m) PROVE UnderWay(n, j, h, m)'
  BY <1>1, <1>3, <1>4, <1>5, WriteLasting
<1>6. QED
  BY <1>2, <1>5, Kept

\* Nothing that leads to an answer changes.
LEMMA QuietLasting ==
  ASSUME UNCHANGED <<cmd, work, running, att, label, pos, queue, waiter, results>>,
         \A l \in Link :
           sec[l] \in {"pairing", "keys"} =>
             \/ sec'[l] \in {"pairing", "keys"}
             \/ \A n \in Waiting : calls[n].link = l => n \in excused'
  PROVE  Lasting
<1>1. SUFFICES ASSUME NEW n \in Waiting, NEW k \in Kind, NEW l \in Link, n \notin excused',
                      calls[n].kind = k, calls[n].link = l, Assured(n, k, l)
               PROVE  Assured(n, k, l)'
  BY DEF Lasting
<1>2. ASSUME NEW m, UnderWay(n, k, l, m) PROVE UnderWay(n, k, l, m)'
  <2>1. NoRequest(k)' = NoRequest(k)
    BY DEF NoRequest
  <2>2. Commanded(n, k, l) => Commanded(n, k, l)'
    BY <2>1 DEF Commanded
  <2>3. Requested(n, k, l) => Requested(n, k, l)'
    BY DEF Requested
  <2>4. sec[l] \in {"pairing", "keys"} => sec'[l] \in {"pairing", "keys"}
    BY <1>1
  <2>5. QED
    BY <1>2, <2>2, <2>3, <2>4 DEF UnderWay
<1>3. QED
  BY <1>1, <1>2, Kept

\* Waiting calls keep their kind and handle, and nobody new waits.
LEMMA CallFailsAssured ==
  ASSUME NrfInv, EspInv, AllAssured, NEW k \in Kind, NEW l \in Link, CallFails(k, l)
  PROVE  AllAssured'
<1> DEFINE c == [kind |-> k, link |-> l, state |-> "failed"]
<1>1. c \in CallRecord /\ calls' = Append(calls, c) /\ c.state = "failed"
  BY DEF CallRecord, CallFails
<1> HIDE DEF c
<1>2. PICK new : new = Len(calls) + 1
  OBVIOUS
<1>3. /\ DOMAIN calls' = DOMAIN calls \cup {new} /\ calls'[new] = c
      /\ \A m \in DOMAIN calls : calls'[m] = calls[m]
  BY <1>1, <1>2, AppendOK
<1>4. Waiting' \subseteq Waiting /\ \A n \in Waiting : calls'[n] = calls[n]
  BY <1>1, <1>3 DEF Waiting
<1>5. UNCHANGED <<sec, running, att, label, pos, queue, waiter, results>>
  BY DEF CallFails
<1>6. CASE /\ WriteCmd(k, l, None)
           /\ excused' = excused \cup Unexecuted \cup (IF k \in Gatt THEN Rivals(k, l) ELSE {})
  <2>1. Unexecuted \subseteq excused' /\ (k \in Gatt => Rivals(k, l) \subseteq excused')
        /\ k \in Kind \cup {"plain"} /\ excused \subseteq excused'
    BY <1>6
  <2>2. Lasting
    BY <1>5, <1>6, <2>1, WriteAssured
  <2>3. QED
    BY <1>4, <2>1, <2>2, AllLasting
<1>7. CASE UNCHANGED <<cmd, work, excused>>
  <2>1. Lasting
    BY <1>5, <1>7, QuietLasting
  <2>2. QED
    BY <1>4, <1>7, <2>1, AllLasting
<1>8. QED
  BY <1>6, <1>7 DEF CallFails

LEMMA PlainAssured ==
  ASSUME NrfInv, EspInv, AllAssured, NEW l \in Link, Plain(l)
  PROVE  AllAssured'
<1>1. /\ WriteCmd("plain", l, None) /\ excused' = excused \cup Unexecuted
      /\ UNCHANGED <<sec, running, att, label, pos, queue, waiter, results, calls>>
  BY DEF Plain, esp
<1>2. "plain" \notin Gatt
  BY DEF Gatt
<1>3. Unexecuted \subseteq excused' /\ excused \subseteq excused'
  BY <1>1
<1>4. Lasting
  BY <1>1, <1>2, <1>3, WriteAssured
<1>5. QED
  BY <1>1, <1>3, <1>4, SameCalls

LEMMA TimeoutAssured ==
  ASSUME NrfInv, EspInv, AllAssured, NEW n \in Waiting, Timeout(n)
  PROVE  AllAssured'
<1>1. n \in DOMAIN calls
  BY Caller
<1>2. /\ DOMAIN calls' = DOMAIN calls
      /\ \A m \in DOMAIN calls :
           /\ calls'[m].kind = calls[m].kind /\ calls'[m].link = calls[m].link
           /\ calls'[m].state = IF m = n THEN "timeout" ELSE calls[m].state
  BY <1>1, EndOK DEF Timeout
<1>3. Waiting' \subseteq Waiting
  BY <1>2 DEF Waiting
<1>4. \A m \in Waiting : calls'[m].kind = calls[m].kind /\ calls'[m].link = calls[m].link
  BY <1>2 DEF Waiting
<1>5. Lasting /\ excused \subseteq excused'
  BY QuietLasting DEF Timeout, nrf
<1>6. QED
  BY <1>3, <1>4, <1>5, AllLasting

\* The driver's restart and the nRF's leave no one who waits for something.
LEMMA RestartAssured ==
  ASSUME EspInv, Restart
  PROVE  AllAssured'
<1>1. calls' = [n \in DOMAIN calls |->
                  IF n \in Waiting THEN [calls[n] EXCEPT !.state = "failed"] ELSE calls[n]]
  BY DEF Restart
<1>2. ASSUME NEW n \in Waiting' PROVE FALSE
  <2>1. n \in DOMAIN calls /\ calls'[n].state = "waiting"
    BY <1>1, <1>2 DEF Waiting
  <2>2. calls[n] \in CallRecord
    BY <2>1 DEF EspInv
  <2>3. QED
    BY <1>1, <2>1, <2>2 DEF Waiting, CallRecord
<1>3. QED
  BY <1>2 DEF AllAssured

LEMMA ResetAssured ==
  ASSUME Reset
  PROVE  AllAssured'
<1>1. Waiting' = Waiting /\ Waiting \subseteq excused'
  BY DEF Reset, esp, Waiting
<1>2. QED
  BY <1>1 DEF AllAssured

LEMMA UpDownAssured ==
  ASSUME NrfInv, EspInv, AllAssured, NEW l \in Link, LinkUp(l) \/ Drop(l)
  PROVE  AllAssured'
<1>1. /\ UNCHANGED <<cmd, work, running, att, label, pos, queue, waiter, results, calls>>
      /\ excused \subseteq excused' /\ sec \in [Link -> {"plain", "pairing", "keys", "secured"}]
  BY DEF LinkUp, Drop, esp, NrfInv
<1>2. CASE LinkUp(l)
  <2>1. PICK s : sec' = [sec EXCEPT ![l] = s]
    BY <1>2 DEF LinkUp
  <2>2. \A h \in Link : h # l => sec'[h] = sec[h]
    BY <1>1, <2>1
  <2>3. \A n \in Waiting : calls[n].link = l => n \in excused'
    BY <1>2 DEF LinkUp
  <2>4. Lasting
    BY <1>1, <2>2, <2>3, QuietLasting
  <2>5. QED
    BY <1>1, <2>4, SameCalls
<1>3. CASE Drop(l)
  <2>1. sec' = [sec EXCEPT ![l] = "plain"] /\ sec[l] \notin {"pairing", "keys"}
    BY <1>3 DEF Drop
  <2>2. \A h \in Link : sec[h] \in {"pairing", "keys"} => sec'[h] = sec[h]
    BY <1>1, <2>1
  <2>3. Lasting
    BY <1>1, <2>2, QuietLasting
  <2>4. QED
    BY <1>1, <2>3, SameCalls
<1>4. QED
  BY <1>2, <1>3

\* One request more
LEMMA RequestAdded ==
  ASSUME att \in [Link -> Seq(Request)], NEW l \in Link, NEW r \in Request,
         att' = [att EXCEPT ![l] = Append(@, r)]
  PROVE  /\ \A h \in Link : \A j \in DOMAIN att[h] : j \in DOMAIN att'[h] /\ att'[h][j] = att[h][j]
         /\ \A h \in Link : \A j \in DOMAIN att'[h] :
              \/ j \in DOMAIN att[h] /\ att'[h][j] = att[h][j]
              \/ h = l /\ j = Len(att[l]) + 1 /\ att'[h][j] = r
         /\ Len(att[l]) + 1 \in DOMAIN att'[l] /\ att'[l][Len(att[l]) + 1] = r
<1>1. att'[l] = Append(att[l], r) /\ \A h \in Link \ {l} : att'[h] = att[h]
  OBVIOUS
<1>2. att[l] \in Seq(Request) /\ DOMAIN att[l] = 1 .. Len(att[l]) /\ Len(att[l]) \in Nat
  OBVIOUS
<1>3. /\ DOMAIN att'[l] = 1 .. Len(att[l]) + 1 /\ att'[l][Len(att[l]) + 1] = r
      /\ \A j \in 1 .. Len(att[l]) : att'[l][j] = att[l][j]
  BY <1>1, <1>2
<1>4. \A j \in 1 .. Len(att[l]) + 1 : j \in 1 .. Len(att[l]) \/ j = Len(att[l]) + 1
  BY <1>2
<1>5. Len(att[l]) + 1 \in 1 .. Len(att[l]) + 1 /\ \A j \in 1 .. Len(att[l]) : j \in 1 .. Len(att[l]) + 1
  BY <1>2
<1>6. QED
  BY <1>1, <1>2, <1>3, <1>4, <1>5

\* Whatever cmd_work_handler does concerns the kind of operation it read first.
LEMMA ExecConcerns ==
  ASSUME NrfInv, CmdExec
  PROVE  /\ running # None /\ running' = None /\ cmd.link \in Link
         /\ work' = work /\ cmd' = IF work THEN cmd ELSE NoCmd
         /\ UNCHANGED <<queue, waiter, results, calls>> /\ excused \subseteq excused'
         /\ \A j \in Gatt : j # running => label'[j] = label[j]
         /\ running # "discover" => pos' = pos
         /\ \A h \in Link : sec[h] \in {"pairing", "keys"} => sec'[h] \in {"pairing", "keys"}
<1>1. /\ running # None /\ running' = None /\ cmd.link \in Link
      /\ work' = work /\ cmd' = (IF work THEN cmd ELSE NoCmd)
      /\ UNCHANGED <<queue, waiter, results, calls>>
  BY DEF NrfInv, CmdExec, CmdInv, esp
<1>2. /\ label \in [Gatt -> Link \cup {None}]
      /\ sec \in [Link -> {"plain", "pairing", "keys", "secured"}]
  BY DEF NrfInv
<1>3. CASE UNCHANGED <<sec, label, pos>> /\ excused \subseteq excused'
  BY <1>1, <1>3
<1>4. ASSUME NEW n, running \in Gatt, StartGatt(running, cmd.link, n), UNCHANGED sec
      PROVE  /\ \A j \in Gatt : j # running => label'[j] = label[j]
             /\ running # "discover" => pos' = pos
             /\ excused \subseteq excused'
  BY <1>2, <1>4 DEF StartGatt
<1>5. ASSUME NEW n, StartBond(cmd.link, n)
      PROVE  /\ \A h \in Link : sec[h] \in {"pairing", "keys"} => sec'[h] \in {"pairing", "keys"}
             /\ excused \subseteq excused'
  BY <1>1, <1>2, <1>5 DEF StartBond
<1>6. QED
  BY <1>1, <1>3, <1>4, <1>5 DEF CmdExec

\* A command that is executed as it was written starts its operation, or its caller is
\* excused.
LEMMA ExecStarts ==
  ASSUME NrfInv, CmdExec, NEW n, NEW k \in Kind, NEW l, Commanded(n, k, l), ~work,
         n # None, n \notin excused'
  PROVE  \/ /\ k \in Gatt /\ label'[k] = l /\ (k = "discover" => pos' = 0)
            /\ att' = [att EXCEPT ![l] = Append(@, [kind |-> k, call |-> n])]
         \/ k = "bond" /\ sec'[l] \in {"pairing", "keys"}
<1>1. running = k /\ cmd.link = l /\ cmd.kind = k /\ cmd.call = n /\ l \in Link /\ k # "plain"
  BY ExecConcerns DEF Commanded, Kind, Gatt
<1>2. /\ label \in [Gatt -> Link \cup {None}]
      /\ sec \in [Link -> {"plain", "pairing", "keys", "secured"}]
  BY DEF NrfInv
<1>3. \/ excused' = excused \cup ({n} \ {None})
      \/ k \in Gatt /\ StartGatt(k, l, n)
      \/ k = "bond" /\ StartBond(l, n)
  BY <1>1 DEF CmdExec
<1>4. CASE k \in Gatt /\ StartGatt(k, l, n)
  BY <1>2, <1>4, <1>1 DEF StartGatt
<1>5. CASE k = "bond" /\ StartBond(l, n)
  BY <1>2, <1>5, <1>1 DEF StartBond
<1>6. QED
  BY <1>3, <1>4, <1>5

LEMMA ExecRequests ==
  ASSUME NrfInv, CmdExec
  PROVE  \/ att' = att
         \/ \E n \in MaybeId :
              /\ running \in Gatt
              /\ att' = [att EXCEPT ![cmd.link] = Append(@, [kind |-> running, call |-> n])]
<1> DEFINE l == cmd.link
           n == IF cmd.kind = running THEN cmd.call ELSE None
<1>1. n \in MaybeId
  BY DEF NrfInv, CmdExec, CmdInv, Command, MaybeId
<1>2. \/ att' = att
      \/ running \in Gatt /\ StartGatt(running, l, n)
  BY DEF CmdExec
<1> HIDE DEF l, n
<1>3. CASE running \in Gatt /\ StartGatt(running, l, n)
  <2>1. att' = att \/ att' = [att EXCEPT ![l] = Append(@, [kind |-> running, call |-> n])]
    BY <1>3 DEF StartGatt
  <2>2. QED
    BY <1>1, <1>3, <2>1 DEF l
<1>4. QED
  BY <1>2, <1>3

LEMMA ExecAssured ==
  ASSUME NrfInv, EspInv, AllAssured, CmdExec
  PROVE  AllAssured'
<1>1. /\ running # None /\ running' = None /\ cmd.link \in Link
      /\ work' = work /\ cmd' = (IF work THEN cmd ELSE NoCmd)
      /\ UNCHANGED <<queue, waiter, results, calls>> /\ excused \subseteq excused'
      /\ \A j \in Gatt : j # running => label'[j] = label[j]
      /\ running # "discover" => pos' = pos
      /\ \A h \in Link : sec[h] \in {"pairing", "keys"} => sec'[h] \in {"pairing", "keys"}
  BY ExecConcerns
<1>2. att \in [Link -> Seq(Request)] /\ work \in BOOLEAN
  BY DEF NrfInv
<1>3. /\ \A h \in Link : \A j \in DOMAIN att[h] : j \in DOMAIN att'[h] /\ att'[h][j] = att[h][j]
      /\ \A h \in Link : \A j \in DOMAIN att'[h] :
           \/ j \in DOMAIN att[h] /\ att'[h][j] = att[h][j]
           \/ att'[h][j].kind = running
  <2>1. CASE att' = att
    BY <2>1
  <2>2. ASSUME NEW n \in MaybeId, running \in Gatt,
               att' = [att EXCEPT ![cmd.link] = Append(@, [kind |-> running, call |-> n])]
        PROVE  /\ \A h \in Link : \A j \in DOMAIN att[h] : j \in DOMAIN att'[h] /\ att'[h][j] = att[h][j]
               /\ \A h \in Link : \A j \in DOMAIN att'[h] :
                    \/ j \in DOMAIN att[h] /\ att'[h][j] = att[h][j]
                    \/ att'[h][j].kind = running
    <3> DEFINE r == [kind |-> running, call |-> n]
    <3>1. r \in Request /\ r.kind = running
      BY <2>2 DEF Request
    <3> HIDE DEF r
    <3>2. att' = [att EXCEPT ![cmd.link] = Append(@, r)]
      BY <2>2 DEF r
    <3>3. /\ \A h \in Link : \A j \in DOMAIN att[h] : j \in DOMAIN att'[h] /\ att'[h][j] = att[h][j]
          /\ \A h \in Link : \A j \in DOMAIN att'[h] :
               \/ j \in DOMAIN att[h] /\ att'[h][j] = att[h][j]
               \/ att'[h][j] = r
      BY <1>1, <1>2, <3>1, <3>2, RequestAdded
    <3>4. QED
      BY <3>1, <3>3
  <2>3. QED
    BY <2>1, <2>2, ExecRequests
<1>4. Lasting
  <2>1. SUFFICES ASSUME NEW n \in Waiting, NEW k \in Kind, NEW l \in Link, n \notin excused',
                        calls[n].kind = k, calls[n].link = l, Assured(n, k, l)
                 PROVE  Assured(n, k, l)'
    BY DEF Lasting
  <2>2. n # None /\ k # None
    BY GattCallsAssumption, Caller
  <2>3. ASSUME Requested(n, k, l) PROVE Requested(n, k, l)' /\ (k = "discover" => pos' = pos)
    <3>1. /\ k \in Gatt /\ label[k] = l /\ running # k /\ ~(work /\ cmd.kind = k)
          /\ \E i \in DOMAIN att[l] :
               /\ att[l][i].kind = k /\ att[l][i].call = n
               /\ \A h \in Link : \A j \in DOMAIN att[h] : att[h][j].kind = k => h = l /\ j = i
      BY <2>3 DEF Requested
    <3>2. PICK i \in DOMAIN att[l] :
               /\ att[l][i].kind = k /\ att[l][i].call = n
               /\ \A h \in Link : \A j \in DOMAIN att[h] : att[h][j].kind = k => h = l /\ j = i
      BY <3>1
    <3>3. i \in DOMAIN att'[l] /\ att'[l][i].kind = k /\ att'[l][i].call = n
      BY <1>3, <3>2
    <3>4. \A h \in Link : \A j \in DOMAIN att'[h] : att'[h][j].kind = k => h = l /\ j = i
      BY <1>3, <3>1, <3>2
    <3>5. label'[k] = l /\ running' # k /\ ~(work' /\ cmd'.kind = k)
      BY <1>1, <2>2, <3>1
    <3>6. Requested(n, k, l)'
      BY <3>1, <3>3, <3>4, <3>5 DEF Requested
    <3>7. QED
      BY <1>1, <3>1, <3>6
  <2>4. ASSUME Commanded(n, k, l), work PROVE Commanded(n, k, l)'
    <3>1. cmd' = cmd /\ running # k /\ work'
      BY <1>1, <1>2, <2>4 DEF Commanded
    <3>2. NoRequest(k) => NoRequest(k)'
      BY <1>3, <3>1 DEF NoRequest
    <3>3. QED
      BY <1>1, <2>2, <2>4, <3>1, <3>2 DEF Commanded
  <2>5. ASSUME Commanded(n, k, l), ~work
        PROVE  UnderWay(n, k, l, 0)'
    <3>1. CASE /\ k \in Gatt /\ label'[k] = l /\ (k = "discover" => pos' = 0)
               /\ att' = [att EXCEPT ![l] = Append(@, [kind |-> k, call |-> n])]
      <4> DEFINE r == [kind |-> k, call |-> n]
                 i == Len(att[l]) + 1
      <4>1. r \in Request /\ r.kind = k /\ r.call = n
        BY <2>1, <3>1, Caller DEF Request, MaybeId
      <4> HIDE DEF r
      <4>2. /\ \A h \in Link : \A j \in DOMAIN att'[h] :
                 \/ j \in DOMAIN att[h] /\ att'[h][j] = att[h][j]
                 \/ h = l /\ j = i /\ att'[h][j] = r
            /\ i \in DOMAIN att'[l] /\ att'[l][i] = r
        <5>1. att' = [att EXCEPT ![l] = Append(@, r)]
          BY <3>1 DEF r
        <5>2. QED
          BY <5>1, <4>1, <1>2, RequestAdded
      <4> HIDE DEF i
      <4>3. NoRequest(k)
        BY <2>5, <3>1 DEF Commanded
      <4>4. \A h \in Link : \A j \in DOMAIN att'[h] : att'[h][j].kind = k => h = l /\ j = i
        BY <4>2, <4>3 DEF NoRequest
      <4>5. ~work' /\ running' # k
        BY <1>1, <2>2, <2>5
      <4>6. Requested(n, k, l)'
        BY <3>1, <4>1, <4>2, <4>4, <4>5 DEF Requested
      <4>7. QED
        BY <3>1, <4>6 DEF UnderWay
    <3>2. CASE k = "bond" /\ sec'[l] \in {"pairing", "keys"}
      BY <3>2 DEF UnderWay
    <3>3. QED
      BY <2>1, <2>2, <2>5, <3>1, <3>2, ExecStarts
  <2>6. ASSUME NEW m, UnderWay(n, k, l, m) PROVE UnderWay(n, k, l, m)'
    <3>1. CASE Commanded(n, k, l) /\ m = 0
      BY <3>1, <2>4, <2>5, <1>2 DEF UnderWay
    <3>2. CASE Requested(n, k, l) /\ (k = "discover" => m = pos)
      BY <3>2, <2>3 DEF UnderWay
    <3>3. CASE k = "bond" /\ sec[l] \in {"pairing", "keys"}
      BY <3>3, <1>1 DEF UnderWay
    <3>4. QED
      BY <2>6, <3>1, <3>2, <3>3 DEF UnderWay
  <2>7. QED
    BY <1>1, <2>1, <2>6, Kept
<1>5. QED
  BY <1>1, <1>4, SameCalls

\* The host's answer to the oldest request of l: one more characteristic, for which it
\* is asked again, or the end.
LEMMA HostSays ==
  ASSUME NrfInv, NEW l \in Link, NEW good \in BOOLEAN, HostAnswers(l, good)
  PROVE  \E op \in Request, e \in QueuedEvent :
           /\ 1 \in DOMAIN att[l] /\ op = att[l][1] /\ op.kind \in Gatt
           /\ e.kind = op.kind /\ e.link = label[op.kind] /\ e.call = op.call
           /\ e.good <=> good
           /\ Push(<<e>>)
           /\ \/ /\ op.kind = "discover" /\ pos < NChars /\ pos' = pos + 1
                 /\ e.char = Char(l, pos + 1) /\ e.char # None
                 /\ att' = [att EXCEPT ![l] = Append(Tail(@), op)]
              \/ /\ op.kind = "discover" /\ e.good => pos = NChars
                 /\ e.char = None /\ pos' = pos
                 /\ att' = [att EXCEPT ![l] = Tail(@)]
<1> DEFINE op == Head(att[l])
           h  == label[op.kind]
           more == op.kind = "discover" /\ good /\ pos < NChars
           e  == IF more THEN [Event("discover", h, op.call, TRUE)
                                 EXCEPT !.char = Char(l, pos + 1)]
                 ELSE Event(op.kind, h, op.call, good)
<1>1. /\ att \in [Link -> Seq(Request)] /\ att[l] \in Seq(Request) /\ att[l] # <<>>
      /\ label \in [Gatt -> Link \cup {None}] /\ pos \in 0 .. NChars
      /\ NChars \in Nat
  BY GattCallsAssumption DEF NrfInv, HostAnswers
<1>2. op = att[l][1] /\ op \in Request /\ 1 \in DOMAIN att[l]
  BY <1>1
<1>3. op.kind \in Gatt /\ op.call \in MaybeId /\ h \in Link
  BY <1>2 DEF NrfInv, Labelled, Request
<1>4. /\ att' = [att EXCEPT ![l] = IF more THEN Append(Tail(@), op) ELSE Tail(@)]
      /\ pos' = IF more THEN pos + 1 ELSE pos
      /\ Push(<<e>>)
  BY DEF HostAnswers
<1>5. CASE more
  <2> DEFINE ch == Char(l, pos + 1)
  <2>1. pos + 1 \in 1 .. NChars /\ pos < NChars
    BY <1>1, <1>5
  <2>2. ch \in CharRecord /\ ch # None
    BY <2>1, GattCallsAssumption DEF Char, CharRecord
  <2>3. e = [kind |-> "discover", link |-> h, call |-> op.call, good |-> TRUE, char |-> ch]
    BY <1>5 DEF Event
  <2> HIDE DEF ch
  <2>4. /\ e \in QueuedEvent /\ e.kind = "discover" /\ e.link = h /\ e.call = op.call
        /\ e.char = ch /\ e.good
    <3> HIDE DEF e, h, op
    <3>1. QED
      BY <2>2, <2>3, <1>3 DEF QueuedEvent, Kind, Gatt
  <2>5. /\ att' = [att EXCEPT ![l] = Append(Tail(@), op)] /\ pos' = pos + 1
        /\ op.kind = "discover"
    BY <1>4, <1>5
  <2> HIDE DEF e, op
  <2>6. e.link = label[op.kind] /\ e.char = Char(l, pos + 1) /\ e.char # None
    BY <2>2, <2>4 DEF ch
  <2> HIDE DEF h
  <2>7. /\ 1 \in DOMAIN att[l] /\ op = att[l][1] /\ op.kind \in Gatt
        /\ e.kind = op.kind /\ e.link = label[op.kind] /\ e.call = op.call
        /\ e.good <=> good
        /\ Push(<<e>>)
        /\ op.kind = "discover" /\ pos < NChars /\ pos' = pos + 1
        /\ e.char = Char(l, pos + 1) /\ e.char # None
        /\ att' = [att EXCEPT ![l] = Append(Tail(@), op)]
    BY <1>2, <1>3, <1>4, <1>5, <2>1, <2>4, <2>5, <2>6
  <2>8. op \in Request /\ e \in QueuedEvent
    BY <1>2, <2>4
  <2>9. QED
    BY <2>7, <2>8
<1>6. CASE ~more
  <2>1. e = Event(op.kind, h, op.call, good)
    BY <1>6
  <2>2. /\ e \in QueuedEvent /\ e.kind = op.kind /\ e.link = h /\ e.call = op.call
        /\ e.char = None /\ e.good = good
    <3> HIDE DEF e, h, op
    <3>1. op.kind \in Kind \cup {"enc"}
      BY <1>3 DEF Kind
    <3>2. e = [kind |-> op.kind, link |-> h, call |-> op.call, good |-> good, char |-> None]
      BY <2>1 DEF Event
    <3>3. e \in QueuedEvent
      BY <1>3, <2>1, <3>1, EventOK
    <3>4. QED
      BY <3>2, <3>3
  <2>3. att' = [att EXCEPT ![l] = Tail(@)] /\ pos' = pos
    BY <1>4, <1>6
  <2>4. op.kind = "discover" /\ e.good => pos = NChars
    <3>1. CASE good
      BY <3>1, <1>1, <1>6
    <3>2. CASE ~good
      BY <3>2, <2>2
    <3>3. QED
      BY <3>1, <3>2
  <2> HIDE DEF e, op, h, more
  <2>5. QED
    BY <1>2, <1>3, <1>4, <2>2, <2>3, <2>4 DEF h
<1>7. QED
  BY <1>5, <1>6

\* The oldest request of l goes, or goes to the end.
AskedAgain(l, r) == att' = [att EXCEPT ![l] = Append(Tail(@), r)]
AskedNoMore(l)   == att' = [att EXCEPT ![l] = Tail(@)]

LEMMA RequestTaken ==
  ASSUME att \in [Link -> Seq(Request)], NEW l \in Link, att[l] # <<>>, NEW r \in Request,
         AskedAgain(l, r) \/ AskedNoMore(l)
  PROVE  /\ \A h \in Link : h # l => att'[h] = att[h]
         /\ \A j \in DOMAIN att'[l] :
              \/ j + 1 \in DOMAIN att[l] /\ att'[l][j] = att[l][j + 1]
              \/ j = Len(att[l]) /\ att'[l][j] = r
         /\ \A i \in DOMAIN att[l] :
              i # 1 => i - 1 \in DOMAIN att'[l] /\ att'[l][i - 1] = att[l][i]
         /\ AskedAgain(l, r) => Len(att[l]) \in DOMAIN att'[l] /\ att'[l][Len(att[l])] = r
<1> USE DEF AskedAgain, AskedNoMore
<1> DEFINE s == att[l]
           t == Tail(s)
           u == Append(t, r)
<1>1. \A h \in Link : h # l => att'[h] = att[h]
  OBVIOUS
<1>2. s \in Seq(Request) /\ s # <<>> /\ Len(s) \in Nat \ {0} /\ DOMAIN s = 1 .. Len(s)
  OBVIOUS
<1>3. /\ t \in Seq(Request) /\ Len(t) = Len(s) - 1 /\ DOMAIN t = 1 .. Len(s) - 1
      /\ \A i \in 1 .. Len(s) - 1 : t[i] = s[i + 1]
  BY <1>2, Tailed
<1>4. att'[l] = t \/ att'[l] = u
  OBVIOUS
<1>5. att' = [att EXCEPT ![l] = Append(Tail(@), r)] => att'[l] = u
  OBVIOUS
<1> HIDE DEF t, s
<1>6. /\ DOMAIN u = 1 .. Len(s) /\ u[Len(s)] = r
      /\ \A i \in 1 .. Len(s) - 1 : u[i] = s[i + 1]
  <2>1. u \in Seq(Request) /\ Len(u) = Len(t) + 1 /\ u[Len(t) + 1] = r
        /\ \A i \in 1 .. Len(t) : u[i] = t[i]
    BY <1>3, Appended
  <2> HIDE DEF u
  <2>2. Len(t) + 1 = Len(s)
    BY <1>2, <1>3
  <2>3. QED
    BY <1>3, <2>1, <2>2
<1> HIDE DEF u
<1>7. ASSUME NEW N \in Nat \ {0}
      PROVE  /\ \A i \in 1 .. N : i \in 1 .. N - 1 \/ i = N
             /\ \A i \in 1 .. N - 1 : i + 1 \in 1 .. N
             /\ \A i \in 1 .. N :
                  i # 1 => i - 1 \in 1 .. N - 1 /\ (i - 1) + 1 = i /\ i - 1 \in 1 .. N
             /\ N \in 1 .. N
  OBVIOUS
<1>8. /\ \A i \in 1 .. Len(s) : i \in 1 .. Len(s) - 1 \/ i = Len(s)
      /\ \A i \in 1 .. Len(s) - 1 : i + 1 \in 1 .. Len(s)
  BY <1>2, <1>7
<1>9. /\ \A i \in 1 .. Len(s) :
           i # 1 => i - 1 \in 1 .. Len(s) - 1 /\ (i - 1) + 1 = i /\ i - 1 \in 1 .. Len(s)
      /\ Len(s) \in 1 .. Len(s)
  BY <1>2, <1>7
<1>10. \A j \in DOMAIN att'[l] :
         \/ j + 1 \in DOMAIN s /\ att'[l][j] = s[j + 1]
         \/ j = Len(s) /\ att'[l][j] = r
  BY <1>2, <1>3, <1>4, <1>6, <1>8
<1>11. \A i \in DOMAIN s : i # 1 => i - 1 \in DOMAIN att'[l] /\ att'[l][i - 1] = s[i]
  <2>1. ASSUME NEW i \in DOMAIN s, i # 1 PROVE i - 1 \in DOMAIN att'[l] /\ att'[l][i - 1] = s[i]
    <3>1. i - 1 \in 1 .. Len(s) - 1 /\ (i - 1) + 1 = i /\ i - 1 \in 1 .. Len(s)
      BY <2>1, <1>2, <1>9
    <3>2. t[i - 1] = s[i] /\ u[i - 1] = s[i]
      BY <3>1, <1>3, <1>6
    <3>3. QED
      BY <3>1, <3>2, <1>3, <1>4, <1>6
  <2>2. QED
    BY <2>1
<1>12. att' = [att EXCEPT ![l] = Append(Tail(@), r)] =>
         Len(s) \in DOMAIN att'[l] /\ att'[l][Len(s)] = r
  BY <1>5, <1>6, <1>9
<1>13. QED
  BY <1>1, <1>10, <1>11, <1>12 DEF s

LEMMA HostAssured ==
  ASSUME NrfInv, EspInv, AllAssured, NEW l0 \in Link, NEW good \in BOOLEAN,
         HostAnswers(l0, good)
  PROVE  AllAssured'
<1>1. UNCHANGED <<sec, cmd, work, running, label, waiter, results, calls>>
  BY DEF HostAnswers, esp
<1>2. PICK op \in Request, e \in QueuedEvent :
        /\ 1 \in DOMAIN att[l0] /\ op = att[l0][1] /\ op.kind \in Gatt
        /\ e.kind = op.kind /\ e.link = label[op.kind] /\ e.call = op.call
        /\ e.good <=> good
        /\ Push(<<e>>)
        /\ \/ /\ op.kind = "discover" /\ pos < NChars /\ pos' = pos + 1
              /\ e.char = Char(l0, pos + 1) /\ e.char # None
              /\ att' = [att EXCEPT ![l0] = Append(Tail(@), op)]
           \/ /\ op.kind = "discover" /\ e.good => pos = NChars
              /\ e.char = None /\ pos' = pos
              /\ att' = [att EXCEPT ![l0] = Tail(@)]
  BY HostSays
<1>3. att \in [Link -> Seq(Request)] /\ att[l0] # <<>> /\ pos \in 0 .. NChars /\ NChars \in Nat
  BY GattCallsAssumption DEF NrfInv, HostAnswers
<1>4. /\ \A h \in Link : h # l0 => att'[h] = att[h]
      /\ \A j \in DOMAIN att'[l0] :
           \/ j + 1 \in DOMAIN att[l0] /\ att'[l0][j] = att[l0][j + 1]
           \/ j = Len(att[l0]) /\ att'[l0][j] = op
      /\ \A i \in DOMAIN att[l0] :
           i # 1 => i - 1 \in DOMAIN att'[l0] /\ att'[l0][i - 1] = att[l0][i]
      /\ att' = [att EXCEPT ![l0] = Append(Tail(@), op)] =>
           Len(att[l0]) \in DOMAIN att'[l0] /\ att'[l0][Len(att[l0])] = op
  <2>1. AskedAgain(l0, op) \/ AskedNoMore(l0)
    BY <1>2 DEF AskedAgain, AskedNoMore
  <2>2. op \in Request
    OBVIOUS
  <2>3. /\ \A h \in Link : h # l0 => att'[h] = att[h]
        /\ \A j \in DOMAIN att'[l0] :
             \/ j + 1 \in DOMAIN att[l0] /\ att'[l0][j] = att[l0][j + 1]
             \/ j = Len(att[l0]) /\ att'[l0][j] = op
        /\ \A i \in DOMAIN att[l0] :
             i # 1 => i - 1 \in DOMAIN att'[l0] /\ att'[l0][i - 1] = att[l0][i]
        /\ AskedAgain(l0, op) =>
             Len(att[l0]) \in DOMAIN att'[l0] /\ att'[l0][Len(att[l0])] = op
    BY <1>3, <2>1, <2>2, RequestTaken
  <2>4. QED
    BY <2>3 DEF AskedAgain
<1>5. /\ \/ queue' = Append(queue, e) /\ excused' = excused
         \/ queue' = queue /\ excused' = excused \cup ({e.call} \ {None})
      /\ excused \subseteq excused'
  BY <1>2, PushOne
<1>6. \A k : NoRequest(k) => NoRequest(k)' /\ k # op.kind
  <2>1. ASSUME NEW k, NoRequest(k) PROVE NoRequest(k)' /\ k # op.kind
    <3>1. k # op.kind
      BY <1>2, <2>1 DEF NoRequest
    <3>2. ASSUME NEW h \in Link, NEW j \in DOMAIN att'[h] PROVE att'[h][j].kind # k
      <4>1. CASE h # l0
        BY <4>1, <3>2, <1>4, <2>1 DEF NoRequest
      <4>2. CASE h = l0
        BY <4>2, <3>1, <3>2, <1>4, <2>1 DEF NoRequest
      <4>3. QED
        BY <4>1, <4>2
    <3>3. QED
      BY <3>1, <3>2 DEF NoRequest
  <2>2. QED
    BY <2>1
<1>7. Lasting
  <2>1. SUFFICES ASSUME NEW n \in Waiting, NEW k \in Kind, NEW l \in Link, n \notin excused',
                        calls[n].kind = k, calls[n].link = l, Assured(n, k, l)
                 PROVE  Assured(n, k, l)'
    BY DEF Lasting
  <2>2. n # None /\ results[l] \in Seq(CharRecord)
    BY <2>1, Caller DEF EspInv
  <2>3. Answering(e, k, l) <=> k = op.kind /\ label[op.kind] = l
    BY <1>2, KindOfAnswer
  <2>4. ASSUME Commanded(n, k, l) PROVE Commanded(n, k, l)' /\ ~Answering(e, k, l)
    BY <1>1, <1>2, <1>6, <2>3, <2>4 DEF Commanded
  <2>5. ASSUME Requested(n, k, l), k # op.kind
        PROVE  Requested(n, k, l)' /\ (k = "discover" => pos' = pos)
    <3>1. /\ k \in Gatt /\ label[k] = l /\ running # k /\ ~(work /\ cmd.kind = k)
      BY <2>5 DEF Requested
    <3>2. PICK i \in DOMAIN att[l] :
               /\ att[l][i].kind = k /\ att[l][i].call = n
               /\ \A h \in Link : \A j \in DOMAIN att[h] : att[h][j].kind = k => h = l /\ j = i
      BY <2>5 DEF Requested
    <3>3. i \in Nat /\ DOMAIN att[l0] = 1 .. Len(att[l0])
      BY <1>3
    <3>4. CASE l = l0
      <4>1. i # 1
        BY <1>2, <2>5, <3>2, <3>4
      <4>2. i - 1 \in DOMAIN att'[l] /\ att'[l][i - 1] = att[l][i]
        BY <1>4, <3>2, <3>4, <4>1
      <4>3. ASSUME NEW h \in Link, NEW j \in DOMAIN att'[h], att'[h][j].kind = k
            PROVE  h = l /\ j = i - 1
        <5>1. CASE h # l0
          BY <5>1, <4>3, <1>4, <3>2, <3>4
        <5>2. CASE h = l0
          <6>1. j + 1 \in DOMAIN att[l0] /\ att'[l0][j] = att[l0][j + 1]
            BY <5>2, <4>3, <1>4, <2>5
          <6>2. j + 1 = i
            BY <6>1, <5>2, <4>3, <3>2
          <6>3. j \in Nat
            <7>1. j \in DOMAIN att'[l0] /\ att'[l0] \in Seq(Request)
              <8>1. att' \in [Link -> Seq(Request)]
                BY AnswerOK DEF NrfInv
              <8>2. QED
                BY <8>1, <5>2, <4>3
            <7>2. QED
              BY <7>1
          <6>4. QED
            BY <6>2, <6>3, <5>2, <3>4
        <5>3. QED
          BY <5>1, <5>2
      <4>4. Requested(n, k, l)'
        BY <1>1, <3>1, <3>2, <4>2, <4>3 DEF Requested
      <4>5. QED
        BY <4>4, <1>2, <2>5
    <3>5. CASE l # l0
      <4>1. att'[l] = att[l]
        BY <1>4, <3>5
      <4>2. ASSUME NEW h \in Link, NEW j \in DOMAIN att'[h], att'[h][j].kind = k
            PROVE  h = l /\ j = i
        <5>1. CASE h # l0
          BY <5>1, <4>2, <1>4, <3>2
        <5>2. CASE h = l0
          BY <5>2, <4>2, <1>4, <2>5, <3>2, <3>5
        <5>3. QED
          BY <5>1, <5>2
      <4>3. Requested(n, k, l)'
        BY <1>1, <3>1, <3>2, <4>1, <4>2 DEF Requested
      <4>4. QED
        BY <4>3, <1>2, <2>5
    <3>6. QED
      BY <3>4, <3>5
  <2>6. ASSUME Requested(n, k, l), k = op.kind
        PROVE  /\ l = l0 /\ op.call = n /\ Answering(e, k, l) /\ queue' = Append(queue, e)
               /\ att' = [att EXCEPT ![l0] = Append(Tail(@), op)] => Requested(n, k, l)'
    <3>1. /\ k \in Gatt /\ label[k] = l /\ running # k /\ ~(work /\ cmd.kind = k)
      BY <2>6 DEF Requested
    <3>2. PICK i \in DOMAIN att[l] :
               /\ att[l][i].kind = k /\ att[l][i].call = n
               /\ \A h \in Link : \A j \in DOMAIN att[h] : att[h][j].kind = k => h = l /\ j = i
      BY <2>6 DEF Requested
    <3>3. l0 = l /\ i = 1 /\ op.call = n
      BY <1>2, <2>6, <3>2
    <3>4. Answering(e, k, l)
      BY <2>3, <2>6, <3>1
    <3>5. queue' = Append(queue, e)
      BY <1>2, <1>5, <2>1, <2>2, <3>3
    <3>6. ASSUME att' = [att EXCEPT ![l0] = Append(Tail(@), op)] PROVE Requested(n, k, l)'
      <4>1. Len(att[l0]) \in DOMAIN att'[l0] /\ att'[l0][Len(att[l0])] = op
        BY <1>4, <3>6
      <4>2. PICK x : x = Len(att[l0])
        OBVIOUS
      <4>3. att' \in [Link -> Seq(Request)]
        BY AnswerOK DEF NrfInv
      <4>4. ASSUME NEW h \in Link, NEW j \in DOMAIN att'[h], att'[h][j].kind = k
            PROVE  h = l /\ j = x
        <5>1. CASE h # l0
          BY <5>1, <4>4, <1>4, <3>2, <3>3
        <5>2. CASE h = l0
          <6>1. j \in Nat \ {0}
            BY <4>3, <4>4
          <6>2. ASSUME j + 1 \in DOMAIN att[l0], att'[l0][j] = att[l0][j + 1] PROVE FALSE
            <7>1. j + 1 = 1
              BY <6>2, <5>2, <4>4, <3>2, <3>3
            <7>2. QED
              BY <6>1, <7>1
          <6>3. QED
            BY <6>2, <5>2, <4>2, <4>4, <1>4, <3>3
        <5>3. QED
          BY <5>1, <5>2
      <4>5. x \in DOMAIN att'[l] /\ att'[l][x].kind = k /\ att'[l][x].call = n
        BY <4>1, <4>2, <3>3, <2>6
      <4>6. QED
        BY <1>1, <3>1, <4>4, <4>5 DEF Requested
    <3>7. QED
      BY <3>3, <3>4, <3>5, <3>6
  <2>7. ASSUME NEW m \in 0 .. NChars, UnderWay(n, k, l, m)
        PROVE  \/ ~Answering(e, k, l) /\ UnderWay(n, k, l, m)'
               \/ /\ queue' = Append(queue, e) /\ Answering(e, k, l) /\ e.call = n /\ e.char = None
                  /\ k = "discover" /\ e.good => m = NChars
               \/ /\ queue' = Append(queue, e) /\ Answering(e, k, l) /\ e.call = n
                  /\ k = "discover" /\ e.char = Char(l, m + 1) /\ e.char # None
                  /\ m + 1 \in 0 .. NChars /\ UnderWay(n, k, l, m + 1)'
    <3>1. CASE Commanded(n, k, l) /\ m = 0
      BY <3>1, <2>4 DEF UnderWay
    <3>2. CASE Requested(n, k, l) /\ (k = "discover" => m = pos) /\ k # op.kind
      <4>1. Requested(n, k, l)' /\ (k = "discover" => m = pos')
        BY <3>2, <2>5
      <4>2. UnderWay(n, k, l, m)'
        BY <4>1 DEF UnderWay
      <4>3. QED
        BY <4>2, <3>2, <2>3
    <3>3. CASE Requested(n, k, l) /\ (k = "discover" => m = pos) /\ k = op.kind
      <4>1. /\ l = l0 /\ op.call = n /\ Answering(e, k, l) /\ queue' = Append(queue, e)
            /\ att' = [att EXCEPT ![l0] = Append(Tail(@), op)] => Requested(n, k, l)'
        BY <3>3, <2>6
      <4>2. CASE /\ op.kind = "discover" /\ pos < NChars /\ pos' = pos + 1
                 /\ e.char = Char(l0, pos + 1) /\ e.char # None
                 /\ att' = [att EXCEPT ![l0] = Append(Tail(@), op)]
        <5>1. m = pos /\ m + 1 \in 0 .. NChars /\ pos' = m + 1
          BY <4>2, <3>3, <1>3
        <5>2. Requested(n, k, l)'
          BY <4>1, <4>2
        <5>3. UnderWay(n, k, l, m + 1)'
          BY <5>1, <5>2 DEF UnderWay
        <5>4. QED
          BY <4>1, <4>2, <5>1, <5>3, <3>3, <1>2
      <4>3. CASE /\ op.kind = "discover" /\ e.good => pos = NChars
                 /\ e.char = None
        BY <4>1, <4>3, <3>3, <1>2
      <4>4. QED
        BY <4>2, <4>3, <1>2
    <3>4. CASE k = "bond" /\ sec[l] \in {"pairing", "keys"}
      <4>1. ~Answering(e, k, l)
        BY <3>4, <2>3, <1>2 DEF Gatt
      <4>2. UnderWay(n, k, l, m)'
        BY <3>4, <1>1 DEF UnderWay
      <4>3. QED
        BY <4>1, <4>2
    <3>5. QED
      BY <2>7, <3>1, <3>2, <3>3, <3>4 DEF UnderWay
  <2>8. (queue' = queue \/ queue' = Append(queue, e)) /\ UNCHANGED <<waiter, results>>
    BY <1>1, <1>5
  <2>9. QED
    BY <2>1, <2>2, <2>7, <2>8, Grows
<1>8. QED
  BY <1>1, <1>5, <1>7, SameCalls

\* A pairing that ends, or goes on encrypted, answers whoever waits for one on l.
LEMMA BondAnswered ==
  ASSUME NrfInv, EspInv, AllAssured, NEW l0 \in Link, NEW e \in QueuedEvent, NEW d \in QueuedEvent,
         e.kind \in {"bond", "enc"}, e.link = l0, e.call = BondCall(l0), e.char = None,
         d.kind \in {"bond", "enc"}, d.link = l0,
         \/ queue' = Append(queue, e)
         \/ queue' = Append(Append(queue, e), d)
         \/ queue' = queue /\ (e.call # None => e.call \in excused'),
         excused \subseteq excused', \A h \in Link : h # l0 => sec'[h] = sec[h],
         UNCHANGED <<cmd, work, running, att, label, pos, waiter, results, calls>>
  PROVE  AllAssured'
<1> DEFINE q == Append(queue, e)
<1>1. q \in Seq(QueuedEvent) /\ queue \in Seq(QueuedEvent)
  BY Appended DEF NrfInv
<1>2. \/ queue' = q \/ queue' = Append(q, d)
      \/ queue' = queue /\ (e.call # None => e.call \in excused')
  OBVIOUS
<1>3. \A r, n, k, l : Answered(queue, r, n, k, l) => Answered(q, r, n, k, l)
  BY <1>1, AnsweredAppend
<1>4. \A r, n, k, l, m :
        ~Answering(e, k, l) /\ Partial(queue, r, n, k, l, m) => Partial(q, r, n, k, l, m)
  BY <1>1, PartialAppend
<1>5. \A r, n, k, l, m :
        /\ Answering(e, k, l) /\ e.call = n /\ k # "discover"
        /\ Partial(queue, r, n, k, l, m)
        => Answered(q, r, n, k, l)
  BY <1>1, PartialEnds
<1> HIDE DEF q
<1>6. Lasting
  <2>1. SUFFICES ASSUME NEW n \in Waiting, NEW k \in Kind, NEW l \in Link, n \notin excused',
                        calls[n].kind = k, calls[n].link = l, Assured(n, k, l)
                 PROVE  Assured(n, k, l)'
    BY DEF Lasting
  <2>2. n # None /\ waiter'[k][l] = n
    BY <2>1, Caller DEF Assured
  <2>3. PICK r : r = results[l]
    OBVIOUS
  <2>4. r = results'[l]
    BY <2>3
  <2>5. CASE k = "bond" /\ l = l0
    <3>1. e.call = n /\ Answering(e, k, l) /\ k # "discover"
      <4>1. waiter["bond"][l0] = n
        BY <2>1, <2>5 DEF Assured
      <4>2. QED
        BY <4>1, <2>1, <2>5, KindOfAnswer DEF BondCall
    <3>2. queue' = q \/ queue' = Append(q, d)
      BY <1>2, <2>1, <2>2, <3>1
    <3>3. Answered(q, r, n, k, l)
      <4>1. Answered(queue, r, n, k, l) \/ \E m : Partial(queue, r, n, k, l, m)
        BY <2>1, <2>3 DEF Assured
      <4>2. QED
        BY <4>1, <3>1, <1>3, <1>5
    <3>4. Answered(queue', r, n, k, l)
      BY <1>1, <3>2, <3>3, AnsweredAppend
    <3>5. QED
      BY <2>2, <2>4, <3>4 DEF Assured
  <2>6. CASE ~(k = "bond" /\ l = l0)
    <3>1. ~Answering(e, k, l) /\ ~Answering(d, k, l)
      BY <2>6, KindOfAnswer
    <3>2. ASSUME NEW m, UnderWay(n, k, l, m) PROVE UnderWay(n, k, l, m)'
      <4>1. NoRequest(k)' = NoRequest(k)
        BY DEF NoRequest
      <4>2. Commanded(n, k, l) => Commanded(n, k, l)'
        BY <4>1 DEF Commanded
      <4>3. Requested(n, k, l) => Requested(n, k, l)'
        BY DEF Requested
      <4>4. k = "bond" => sec'[l] = sec[l]
        BY <2>6
      <4>5. QED
        BY <3>2, <4>2, <4>3, <4>4 DEF UnderWay
    <3>3. Answered(queue, r, n, k, l) => Answered(queue', r, n, k, l)
      BY <1>1, <1>2, <1>3, AnsweredAppend
    <3>4. \A m : Partial(queue, r, n, k, l, m) => Partial(queue', r, n, k, l, m)
      BY <1>1, <1>2, <1>4, <3>1, PartialAppend
    <3>5. CASE Answered(queue, r, n, k, l)
      BY <3>3, <3>5, <2>2, <2>4 DEF Assured
    <3>6. ASSUME NEW m \in 0 .. NChars, UnderWay(n, k, l, m), Partial(queue, r, n, k, l, m)
          PROVE  Assured(n, k, l)'
      <4>1. UnderWay(n, k, l, m)' /\ Partial(queue', r, n, k, l, m)
        BY <3>2, <3>4, <3>6
      <4>2. QED
        BY <4>1, <2>2, <2>4 DEF Assured
    <3>7. QED
      BY <2>1, <2>3, <3>5, <3>6 DEF Assured
  <2>7. QED
    BY <2>5, <2>6
<1>7. QED
  BY <1>6, SameCalls

\* A pairing that ends, or goes on encrypted, queues an event of whoever waits for it,
\* and perhaps one of nobody.
LEMMA PairingEvents ==
  ASSUME NrfInv, EspInv, NEW l \in Link, Encrypted(l) \/ PairingComplete(l) \/ PairingFails(l)
  PROVE  /\ UNCHANGED <<cmd, work, running, att, label, pos, waiter, results, calls>>
         /\ sec[l] \in {"pairing", "keys"} /\ \A h \in Link : h # l => sec'[h] = sec[h]
         /\ excused \subseteq excused'
         /\ \E e, d \in QueuedEvent :
              /\ e.kind \in {"bond", "enc"} /\ e.link = l /\ e.call = BondCall(l)
              /\ e.char = None
              /\ d.kind \in {"bond", "enc"} /\ d.link = l /\ d.call = None /\ d.char = None
              /\ \/ queue' = Append(queue, e)
                 \/ queue' = Append(Append(queue, e), d)
                 \/ queue' = queue /\ (e.call # None => e.call \in excused')
<1>1. /\ UNCHANGED <<cmd, work, running, att, label, pos, waiter, results, calls>>
      /\ sec \in [Link -> {"plain", "pairing", "keys", "secured"}]
      /\ sec[l] \in {"pairing", "keys"}
  BY DEF Encrypted, PairingComplete, PairingFails, esp, NrfInv
<1>2. \A h \in Link : h # l => sec'[h] = sec[h]
  BY <1>1 DEF Encrypted, PairingComplete, PairingFails
<1>3. BondCall(l) \in MaybeId
  BY CallIds DEF BondCall, MaybeId
<1>4. PICK n \in MaybeId : n = BondCall(l)
  BY <1>3
<1>5. ASSUME NEW k \in {"bond", "enc"}, NEW good \in BOOLEAN, NEW m \in MaybeId
      PROVE  /\ Event(k, l, m, good) \in QueuedEvent
             /\ Event(k, l, m, good).kind = k /\ Event(k, l, m, good).link = l
             /\ Event(k, l, m, good).call = m /\ Event(k, l, m, good).char = None
  <2>1. k \in Kind \cup {"enc"}
    BY DEF Kind
  <2>2. QED
    BY <2>1, EventOK DEF Event
<1>6. PICK d : d = Event("bond", l, None, FALSE)
  OBVIOUS
<1>7. d \in QueuedEvent /\ d.kind = "bond" /\ d.link = l /\ d.call = None /\ d.char = None
  <2>1. None \in MaybeId
    BY DEF MaybeId
  <2>2. QED
    BY <2>1, <1>5, <1>6
<1>8. \E e \in QueuedEvent :
        /\ e.kind \in {"bond", "enc"} /\ e.link = l /\ e.call = n /\ e.char = None
        /\ Push(<<e>>) \/ Push(<<e, d>>)
  <2>1. \E k \in {"bond", "enc"}, good \in BOOLEAN :
          Push(<<Event(k, l, n, good)>>) \/ Push(<<Event(k, l, n, good), d>>)
    BY <1>4, <1>6 DEF Encrypted, PairingComplete, PairingFails
  <2>2. PICK k \in {"bond", "enc"}, good \in BOOLEAN :
          Push(<<Event(k, l, n, good)>>) \/ Push(<<Event(k, l, n, good), d>>)
    BY <2>1
  <2>3. PICK e : e = Event(k, l, n, good)
    OBVIOUS
  <2>4. e \in QueuedEvent /\ e.kind = k /\ e.link = l /\ e.call = n /\ e.char = None
    BY <1>5, <2>3
  <2>5. Push(<<e>>) \/ Push(<<e, d>>)
    BY <2>2, <2>3
  <2>6. QED
    BY <2>4, <2>5
<1>9. PICK e \in QueuedEvent :
        /\ e.kind \in {"bond", "enc"} /\ e.link = l /\ e.call = n /\ e.char = None
        /\ Push(<<e>>) \/ Push(<<e, d>>)
  BY <1>8
<1>10. /\ excused \subseteq excused'
       /\ \/ queue' = Append(queue, e)
          \/ queue' = Append(Append(queue, e), d)
          \/ queue' = queue /\ (e.call # None => e.call \in excused')
  <2>1. CASE Push(<<e>>)
    BY <2>1, PushOne
  <2>2. CASE Push(<<e, d>>)
    BY <2>2, <1>7, PushTwo
  <2>3. QED
    BY <1>9, <2>1, <2>2
<1>11. QED
  BY <1>1, <1>2, <1>4, <1>7, <1>9, <1>10

LEMMA SecurityAssured ==
  ASSUME NrfInv, EspInv, AllAssured, NEW l \in Link,
         Encrypted(l) \/ PairingComplete(l) \/ PairingFails(l)
  PROVE  AllAssured'
  BY PairingEvents, BondAnswered

\* What a drained event leaves to the other calls
LEMMA DrainLasting ==
  ASSUME NrfInv, queue # <<>>, queue' = Tail(queue), UNCHANGED nrf,
         NEW n, NEW k, NEW l, Assured(n, k, l), waiter'[k][l] = waiter[k][l],
         results[l] \in Seq(CharRecord),
         \/ ~Answering(queue[1], k, l) /\ (k = "discover" => results'[l] = results[l])
         \/ /\ k = "discover" /\ Answering(queue[1], k, l) /\ queue[1].char # None
            /\ results'[l] = Append(results[l], queue[1].char)
  PROVE  Assured(n, k, l)'
<1>1. waiter'[k][l] = n /\ queue \in Seq(QueuedEvent)
  BY DEF Assured, NrfInv
<1>2. PICK r : r = results[l]
  OBVIOUS
<1>3. PICK s : s = results'[l]
  OBVIOUS
<1>4. /\ r \in Seq(CharRecord)
      /\ \/ ~Answering(queue[1], k, l) /\ (k = "discover" => s = r)
         \/ /\ k = "discover" /\ Answering(queue[1], k, l) /\ queue[1].char # None
            /\ s = Append(r, queue[1].char)
  BY <1>2, <1>3
<1>5. CASE Answered(queue, r, n, k, l)
  <2>1. Answered(Tail(queue), s, n, k, l)
    BY <1>1, <1>4, <1>5, AnsweredTail
  <2>2. QED
    BY <2>1, <1>1, <1>3 DEF Assured
<1>6. ASSUME NEW m \in 0 .. NChars, UnderWay(n, k, l, m), Partial(queue, r, n, k, l, m)
      PROVE  Assured(n, k, l)'
  <2>1. Partial(Tail(queue), s, n, k, l, m)
    BY <1>1, <1>4, <1>6, PartialTail
  <2>2. UnderWay(n, k, l, m)'
    BY <1>6 DEF UnderWay, Commanded, Requested, NoRequest, nrf
  <2>3. QED
    BY <2>1, <2>2, <1>1, <1>3 DEF Assured
<1>7. QED
  BY <1>2, <1>5, <1>6 DEF Assured

\* The answer to n0 is its own, and no one else's.
LEMMA ReplyAssured ==
  ASSUME NrfInv, EspInv, AllAssured, OwnAnswer, NEW k0 \in Kind, NEW right, NEW ok \in BOOLEAN,
         NEW kinds, kinds \subseteq Answers(k0), Drained(kinds),
         Reply(k0, right, ok), Resolved(k0),
         k0 = "discover" => Head(queue).char = None,
         (k0 = "discover" /\ Head(queue).good =>
            results[Head(queue).link] = Whole(Head(queue).link)) => right,
         \A h \in Link : (k0 = "discover" /\ h = Head(queue).link) \/ results'[h] = results[h]
  PROVE  AllAssured' /\ OwnAnswer'
<1>1. /\ queue # <<>> /\ queue' = Tail(queue) /\ UNCHANGED <<nrf, excused>>
      /\ Head(queue).kind \in Answers(k0)
  BY DEF Drained
<1>2. Head(queue) = queue[1] /\ queue[1] \in QueuedEvent /\ queue \in Seq(QueuedEvent)
  BY <1>1, Tailed DEF NrfInv
<1>3. PICK e \in QueuedEvent : e = queue[1] /\ e = Head(queue)
  BY <1>2
<1>4. PICK l0 \in Link : l0 = e.link
  BY DEF QueuedEvent
<1>5. PICK n0 : n0 = waiter[k0][l0]
  OBVIOUS
<1>6. Answering(e, k0, l0) /\ \A k \in Kind : \A l : Answering(e, k, l) => k = k0 /\ l = l0
  <2>1. Answering(e, k0, l0)
    BY <1>1, <1>3, <1>4 DEF Answering
  <2>2. e.kind \in Gatt \cup {"bond", "enc"}
    BY <1>1, <1>3 DEF Answers, Kind, Gatt
  <2>3. \A k \in Kind : \A l : Answering(e, k, l) => k = k0 /\ l = l0
    <3>1. e.link = l0
      BY <1>4
    <3>2. QED
      BY <2>1, <2>2, <3>1, KindOfAnswer
  <2>4. QED
    BY <2>1, <2>3
<1>7. /\ waiter \in [Kind -> [Link -> MaybeId]] /\ results \in [Link -> Seq(CharRecord)]
      /\ waiter' = [waiter EXCEPT ![k0][l0] = None]
  BY <1>3, <1>4 DEF EspInv, Resolved
<1>8. \A k \in Kind, l \in Link : ~(k = k0 /\ l = l0) => waiter'[k][l] = waiter[k][l]
  BY <1>7
<1>9. /\ n0 \in Waiting =>
           /\ calls' = [calls EXCEPT ![n0].state = "answered"]
           /\ misled' = IF e.call = n0 /\ right THEN misled ELSE misled \cup {n0}
      /\ n0 \notin Waiting => UNCHANGED <<calls, misled>>
  BY <1>3, <1>4, <1>5 DEF Reply, told
<1>10. n0 \in Waiting => n0 \in DOMAIN calls /\ calls[n0].kind = k0 /\ calls[n0].link = l0
  <2>1. n0 \in Waiting => n0 # None
    BY Caller
  <2>2. QED
    BY <2>1, <1>5 DEF EspInv, WaitersKnown
<1>11. /\ Waiting' \subseteq Waiting \ {n0}
       /\ \A n \in Waiting : calls'[n].kind = calls[n].kind /\ calls'[n].link = calls[n].link
  <2>1. CASE n0 \in Waiting
    <3>1. /\ DOMAIN calls' = DOMAIN calls
          /\ \A m \in DOMAIN calls :
               /\ calls'[m].kind = calls[m].kind /\ calls'[m].link = calls[m].link
               /\ calls'[m].state = IF m = n0 THEN "answered" ELSE calls[m].state
      BY <2>1, <1>9, <1>10, EndOK
    <3>2. QED
      BY <3>1 DEF Waiting
  <2>2. CASE n0 \notin Waiting
    BY <2>2, <1>9 DEF Waiting
  <2>3. QED
    BY <2>1, <2>2
<1>12. OwnAnswer'
  <2>1. ASSUME n0 \in Waiting, n0 \notin excused PROVE e.call = n0 /\ right
    <3>1. Assured(n0, k0, l0)
      BY <2>1, <1>10 DEF AllAssured
    <3>2. PICK r : r = results[l0]
      OBVIOUS
    <3>3. r \in Seq(CharRecord)
      BY <1>7, <3>2
    <3>4. Owed(queue, r, n0, k0, l0)
      <4>1. \A m \in 0 .. NChars : m \in Nat
        OBVIOUS
      <4>2. QED
        BY <4>1, <3>1, <3>2 DEF Assured, Owed
    <3>5. Answering(queue[1], k0, l0) /\ (k0 = "discover" => queue[1].char = None)
      BY <1>3, <1>6
    <3>6. queue[1].call = n0 /\ (k0 = "discover" /\ queue[1].good => r = Whole(l0))
      <4>1. queue # <<>> /\ queue \in Seq(QueuedEvent)
        BY <1>1, <1>2
      <4>2. QED
        BY <3>3, <3>4, <3>5, <4>1, OwnEnd
    <3>7. QED
      BY <1>3, <1>4, <3>2, <3>6
  <2>2. QED
    BY <2>1, <1>1, <1>9 DEF OwnAnswer
<1>13. Lasting
  <2>1. SUFFICES ASSUME NEW n \in Waiting, NEW k \in Kind, NEW l \in Link, n \in Waiting',
                        n \notin excused', calls[n].kind = k, calls[n].link = l, Assured(n, k, l)
                 PROVE  Assured(n, k, l)'
    BY DEF Lasting
  <2>2. ~(k = k0 /\ l = l0)
    <3>1. n # n0 /\ waiter[k][l] = n
      BY <2>1, <1>11 DEF Assured
    <3>2. QED
      BY <3>1, <1>5
  <2>3. ~Answering(queue[1], k, l) /\ (k = "discover" => results'[l] = results[l])
    BY <1>3, <1>4, <1>6, <2>2
  <2>4. waiter'[k][l] = waiter[k][l] /\ results[l] \in Seq(CharRecord)
    BY <1>7, <1>8, <2>2
  <2>5. QED
    BY <1>1, <2>1, <2>3, <2>4, DrainLasting
<1>14. AllAssured'
  <2>1. excused \subseteq excused' /\ Waiting' \ Waiting = {}
    BY <1>1, <1>11
  <2>2. QED
    BY <2>1, <1>11, <1>13, AllLasting
<1>15. QED
  BY <1>12, <1>14

\* A characteristic joins those of its bulb.
LEMMA EntryAssured ==
  ASSUME NrfInv, EspInv, AllAssured, ServicesEntry
  PROVE  AllAssured'
<1>1. /\ queue # <<>> /\ queue' = Tail(queue) /\ UNCHANGED <<nrf, excused, calls, waiter>>
      /\ Head(queue).kind = "discover" /\ Head(queue).char # None
      /\ results' = [results EXCEPT ![Head(queue).link] = Append(@, Head(queue).char)]
  BY DEF ServicesEntry, Drained
<1>2. Head(queue) = queue[1] /\ queue[1] \in QueuedEvent
  BY <1>1, Tailed DEF NrfInv
<1>3. PICK e \in QueuedEvent : e = queue[1] /\ e = Head(queue)
  BY <1>2
<1>4. PICK l0 \in Link : l0 = e.link
  BY DEF QueuedEvent
<1>5. PICK ch : ch = e.char
  OBVIOUS
<1>6. results \in [Link -> Seq(CharRecord)] /\ results' = [results EXCEPT ![l0] = Append(@, ch)]
  BY <1>1, <1>3, <1>4, <1>5 DEF EspInv
<1>7. results'[l0] = Append(results[l0], ch) /\ \A l \in Link : l # l0 => results'[l] = results[l]
  BY <1>6
<1>8. \A k \in Kind : \A l : Answering(e, k, l) <=> k = "discover" /\ l = l0
  <2>1. e.kind \in Gatt /\ e.kind = "discover" /\ e.link = l0
    BY <1>1, <1>3, <1>4 DEF Gatt
  <2>2. QED
    BY <2>1, KindOfAnswer
<1>9. Lasting
  <2>1. SUFFICES ASSUME NEW n \in Waiting, NEW k \in Kind, NEW l \in Link, Assured(n, k, l)
                 PROVE  Assured(n, k, l)'
    BY DEF Lasting
  <2>2. \/ ~Answering(queue[1], k, l) /\ (k = "discover" => results'[l] = results[l])
        \/ /\ k = "discover" /\ Answering(queue[1], k, l) /\ queue[1].char # None
           /\ results'[l] = Append(results[l], queue[1].char)
    BY <1>1, <1>3, <1>5, <1>7, <1>8
  <2>3. waiter'[k][l] = waiter[k][l] /\ results[l] \in Seq(CharRecord)
    BY <1>1, <1>6
  <2>4. QED
    BY <1>1, <2>1, <2>2, <2>3, DrainLasting
<1>10. QED
  BY <1>1, <1>9, SameCalls

-----------------------------------------------------------------------------
(* Every answer comes, and to its own caller                                *)

\* Steps other than replies give no call an answer.
LEMMA OwnKept ==
  ASSUME OwnAnswer, misled' = misled, excused \subseteq excused'
  PROVE  OwnAnswer'
  BY DEF OwnAnswer

LEMMA InitAssured == Init => AllAssured /\ OwnAnswer
  BY DEF Init, AllAssured, OwnAnswer, Waiting

LEMMA StepAssured == CallsInv /\ AllAssured /\ OwnAnswer /\ [Next]_vars => AllAssured' /\ OwnAnswer'
<1> SUFFICES ASSUME NrfInv, EspInv, AllAssured, OwnAnswer, [Next]_vars
             PROVE  AllAssured' /\ OwnAnswer'
  BY Halves
<1>1. ASSUME NEW k \in Kind, NEW l \in Link, Call(k, l) \/ CallFails(k, l)
      PROVE  AllAssured' /\ OwnAnswer'
  <2>1. misled' = misled /\ excused \subseteq excused'
    BY <1>1 DEF Call, CallFails, told
  <2>2. QED
    BY <1>1, <2>1, CallAssured, CallFailsAssured, OwnKept
<1>2. ASSUME NEW l \in Link, Plain(l) PROVE AllAssured' /\ OwnAnswer'
  <2>1. misled' = misled /\ excused \subseteq excused'
    BY <1>2 DEF Plain, told
  <2>2. QED
    BY <1>2, <2>1, PlainAssured, OwnKept
<1>3. ASSUME NEW n \in Waiting, Timeout(n) PROVE AllAssured' /\ OwnAnswer'
  <2>1. misled' = misled /\ excused \subseteq excused'
    BY <1>3 DEF Timeout, told
  <2>2. QED
    BY <1>3, <2>1, TimeoutAssured, OwnKept
<1>4. CASE Restart
  <2>1. misled' = misled /\ excused \subseteq excused'
    BY <1>4 DEF Restart, told
  <2>2. QED
    BY <1>4, <2>1, RestartAssured, OwnKept
<1>5. CASE Reset
  <2>1. misled' = misled /\ excused \subseteq excused'
    BY <1>5 DEF Reset, told
  <2>2. QED
    BY <1>5, <2>1, ResetAssured, OwnKept
<1>6. CASE CmdStart
  <2>1. misled' = misled /\ excused \subseteq excused'
    BY <1>6 DEF CmdStart, told
  <2>2. QED
    BY <1>6, <2>1, StartAssured, OwnKept
<1>7. CASE CmdExec
  <2>1. misled' = misled /\ excused \subseteq excused'
    BY <1>7, ExecConcerns DEF CmdExec, told
  <2>2. QED
    BY <1>7, <2>1, ExecAssured, OwnKept
<1>8. ASSUME NEW l \in Link, NEW good \in BOOLEAN, HostAnswers(l, good)
      PROVE  AllAssured' /\ OwnAnswer'
  <2>1. misled' = misled /\ excused \subseteq excused'
    BY <1>8 DEF HostAnswers, Push, told
  <2>2. QED
    BY <1>8, <2>1, HostAssured, OwnKept
<1>9. ASSUME NEW l \in Link, Encrypted(l) \/ PairingComplete(l) \/ PairingFails(l)
      PROVE  AllAssured' /\ OwnAnswer'
  <2>1. misled' = misled /\ excused \subseteq excused'
    BY <1>9 DEF Encrypted, PairingComplete, PairingFails, Push, told
  <2>2. QED
    BY <1>9, <2>1, SecurityAssured, OwnKept
<1>10. ASSUME NEW l \in Link, LinkUp(l) \/ Drop(l) PROVE AllAssured' /\ OwnAnswer'
  <2>1. misled' = misled /\ excused \subseteq excused'
    BY <1>10 DEF LinkUp, Drop, told
  <2>2. QED
    BY <1>10, <2>1, UpDownAssured, OwnKept
<1>11. ASSUME NEW k \in {"read", "write", "bond"}, NEW kinds, NEW ok \in BOOLEAN,
              kinds \subseteq Answers(k), Drained(kinds), Reply(k, TRUE, ok), Resolved(k),
              UNCHANGED results
       PROVE  AllAssured' /\ OwnAnswer'
  <2>1. k \in Kind /\ k # "discover"
    BY DEF Kind, Gatt
  <2>2. QED
    BY <1>11, <2>1, ReplyAssured
<1>12. /\ {"read"} \subseteq Answers("read") /\ {"write"} \subseteq Answers("write")
       /\ {"bond"} \subseteq Answers("bond") /\ {"enc"} \subseteq Answers("bond")
       /\ {"discover"} \subseteq Answers("discover") /\ "discover" \in Kind
  BY DEF Answers, Kind, Gatt
<1>13. ASSUME NEW kinds, Drained(kinds) PROVE Head(queue).good \in BOOLEAN
  BY <1>13, DrainedOK DEF QueuedEvent
<1>14. CASE ReadRsp
  BY <1>14, <1>11, <1>12 DEF ReadRsp
<1>15. CASE WriteRsp
  BY <1>15, <1>11, <1>12, <1>13 DEF WriteRsp
<1>16. CASE BondComplete
  BY <1>16, <1>11, <1>12, <1>13 DEF BondComplete
<1>17. CASE EncChange
  BY <1>17, <1>11, <1>12, <1>13 DEF EncChange
<1>18. CASE ServicesEntry
  <2>1. misled' = misled /\ excused \subseteq excused'
    BY <1>18 DEF ServicesEntry, Drained, told
  <2>2. QED
    BY <1>18, <2>1, EntryAssured, OwnKept
<1>19. CASE ServicesDone
  <2>1. PICK l : l = Head(queue).link
    OBVIOUS
  <2>2. PICK right \in BOOLEAN : right = (Head(queue).good => results[l] = Whole(l))
    OBVIOUS
  <2>3. /\ Drained({"discover"}) /\ Resolved("discover") /\ Head(queue).char = None
        /\ Reply("discover", right, TRUE)
        /\ results' = [results EXCEPT ![l] = <<>>]
    BY <1>19, <2>1, <2>2 DEF ServicesDone
  <2>4. \A h \in Link : h = l \/ results'[h] = results[h]
    BY <2>3 DEF EspInv
  <2>5. (Head(queue).good => results[l] = Whole(l)) => right
    BY <2>2
  <2>6. QED
    BY <1>12, <2>1, <2>3, <2>4, <2>5, ReplyAssured
<1>20. CASE UNCHANGED vars
  <2>1. Lasting
    BY <1>20, QuietLasting DEF vars, nrf, esp
  <2>2. UNCHANGED <<calls, misled>> /\ excused \subseteq excused'
    BY <1>20 DEF vars, esp, told
  <2>3. QED
    BY <2>1, <2>2, SameCalls, OwnKept
<1>21. QED
  BY <1>1, <1>2, <1>3, <1>4, <1>5, <1>6, <1>7, <1>8, <1>9, <1>10, <1>14, <1>15,
     <1>16, <1>17, <1>18, <1>19, <1>20 DEF Next

\* What assures a call is on its way to it.
LEMMA AssuredBacked ==
  ASSUME NrfInv, EspInv, AllAssured
  PROVE  WaiterBacked
<1>1. SUFFICES ASSUME NEW n \in Waiting \ excused
               PROVE  waiter[calls[n].kind][calls[n].link] = n /\ OnItsWay(n)
  BY DEF WaiterBacked
<1>2. PICK k \in Kind, l \in Link : calls[n].kind = k /\ calls[n].link = l /\ n # None
  BY Caller
<1>3. Assured(n, k, l)
  BY <1>2 DEF AllAssured
<1>4. CASE Answered(queue, results[l], n, k, l)
  <2>1. PICK f \in 1 .. Len(queue) : Answering(queue[f], k, l) /\ queue[f].call = n /\ queue[f].char = None
    BY <1>4 DEF Answered
  <2>2. queue[f].link = l /\ f \in DOMAIN queue
    BY <2>1 DEF Answering, NrfInv
  <2>3. QED
    BY <2>1, <2>2, <1>2, <1>3 DEF OnItsWay, Assured
<1>5. CASE \E m : UnderWay(n, k, l, m)
  <2>1. OnItsWay(n)
    BY <1>2, <1>5, Overwritten DEF UnderWay, Requested, OnItsWay
  <2>2. QED
    BY <2>1, <1>2, <1>3 DEF Assured
<1>6. QED
  BY <1>3, <1>4, <1>5 DEF Assured

LEMMA Assurance == Spec => [](CallsInv /\ AllAssured /\ OwnAnswer)
<1>1. Init => CallsInv /\ AllAssured /\ OwnAnswer
  BY InitInv, InitAssured
<1>2. CallsInv /\ AllAssured /\ OwnAnswer /\ [Next]_vars => (CallsInv /\ AllAssured /\ OwnAnswer)'
  BY StepInv, StepAssured
<1>3. QED
  BY <1>1, <1>2, PTL DEF Spec

\* Whoever waits, outside the known exceptions, is registered and has an answer coming:
\* as its command, its operation on the host, its pairing, or its event in the queue.
THEOREM EveryWaiterBacked == Spec => []WaiterBacked
<1>1. CallsInv /\ AllAssured => WaiterBacked
  BY AssuredBacked, Halves
<1>2. QED
  BY <1>1, Assurance, PTL

\* Outside the same exceptions every caller is given its own answer, and a discovery all
\* characteristics of its own bulb in their order.
THEOREM AnswersOwn == Spec => []OwnAnswer
<1>1. QED
  BY Assurance, PTL

-----------------------------------------------------------------------------
(* The service: what comes for a call is one thing, until it is answered    *)

\* m is a call of kind k, or none.
OfCall(m, k) == m # None => m \in DOMAIN calls /\ calls[m].kind = k

\* e is an event for a call of kind k, or for none; and if that is to bond, its link's.
FromCall(e, k) ==
  /\ e.kind \in Answers(k) /\ OfCall(e.call, k)
  /\ k = "bond" /\ e.call # None => calls[e.call].link = e.link

\* Commands, requests and events are those of calls that were made, and who was misled
\* was answered.
Sourced ==
  /\ OfCall(cmd.call, cmd.kind)
  /\ \A l \in Link : \A i \in DOMAIN att[l] : OfCall(att[l][i].call, att[l][i].kind)
  /\ \A i \in DOMAIN queue : \E k \in Kind : FromCall(queue[i], k)
  /\ \A n \in misled : n \in DOMAIN calls /\ calls[n].state = "answered"

\* The command of n is in cmd_buf and will be executed once, as what it is.
Pending(n) ==
  /\ cmd.call = n /\ cmd.kind = calls[n].kind
  /\ IF work THEN running # cmd.kind ELSE running = cmd.kind

Progress(n) ==
  \/ Pending(n) /\ ~Requests(att, n) /\ ~Ends(queue, n)
  \/ n \notin Unexecuted /\ OneRequest(att, n) /\ ~Ends(queue, n)
  \/ n \notin Unexecuted /\ ~Requests(att, n) /\ OneEnd(queue, n)

AllProgress == \A n \in Waiting \ excused : calls[n].kind \in Gatt => Progress(n)

-----------------------------------------------------------------------------
(* One more event or request, one less                                      *)

LEMMA EndAdded ==
  ASSUME NEW n, NEW e \in QueuedEvent, NEW s \in Seq(QueuedEvent), NEW q, q = Append(s, e)
  PROVE  /\ Ends(q, n) <=> Ends(s, n) \/ IsEnd(e, n)
         /\ IsEnd(e, n) /\ ~Ends(s, n) => OneEnd(q, n)
         /\ ~IsEnd(e, n) /\ OneEnd(s, n) => OneEnd(q, n)
<1>1. PICK N \in Nat : N = Len(s)
  OBVIOUS
<1>2. /\ DOMAIN q = 1 .. N + 1 /\ q[N + 1] = e /\ DOMAIN s = 1 .. N
      /\ \A i \in 1 .. N : q[i] = s[i]
  BY <1>1, Appended
<1>3. /\ N + 1 \in 1 .. N + 1 /\ \A i \in 1 .. N : i \in 1 .. N + 1
      /\ \A i \in 1 .. N + 1 : i \in 1 .. N \/ i = N + 1
  OBVIOUS
<1>4. Ends(q, n) <=> Ends(s, n) \/ IsEnd(e, n)
  BY <1>2, <1>3 DEF Ends
<1>5. ASSUME IsEnd(e, n), ~Ends(s, n) PROVE OneEnd(q, n)
  <2>1. \A j \in DOMAIN q : IsEnd(q[j], n) => j = N + 1
    BY <1>2, <1>3, <1>5 DEF Ends
  <2>2. N + 1 \in DOMAIN q /\ IsEnd(q[N + 1], n)
    BY <1>2, <1>3, <1>5
  <2>3. QED
    BY <2>1, <2>2 DEF OneEnd
<1>6. ASSUME ~IsEnd(e, n), OneEnd(s, n) PROVE OneEnd(q, n)
  <2>1. PICK i \in DOMAIN s : IsEnd(s[i], n) /\ \A j \in DOMAIN s : IsEnd(s[j], n) => j = i
    BY <1>6 DEF OneEnd
  <2>2. i \in DOMAIN q /\ IsEnd(q[i], n)
    BY <1>2, <1>3, <2>1
  <2>3. \A j \in DOMAIN q : IsEnd(q[j], n) => j = i
    BY <1>2, <1>3, <1>6, <2>1
  <2>4. QED
    BY <2>2, <2>3 DEF OneEnd
<1>7. QED
  BY <1>4, <1>5, <1>6

LEMMA OldOrNew ==
  ASSUME NEW S, NEW s \in Seq(S), NEW e \in S, NEW q, q = Append(s, e)
  PROVE  \A i \in DOMAIN q : q[i] = e \/ \E j \in DOMAIN s : q[i] = s[j]
<1>1. /\ DOMAIN q = 1 .. Len(s) + 1 /\ DOMAIN s = 1 .. Len(s)
      /\ q[Len(s) + 1] = e /\ Len(s) \in Nat
      /\ \A j \in 1 .. Len(s) : q[j] = s[j]
  BY Appended
<1>2. \A i \in DOMAIN q : i = Len(s) + 1 \/ i \in 1 .. Len(s)
  BY <1>1
<1>3. QED
  BY <1>1, <1>2

\* The oldest event goes, and does not end n.
LEMMA EndTaken ==
  ASSUME NEW n, NEW s \in Seq(QueuedEvent), s # <<>>, NEW q, q = Tail(s), ~IsEnd(s[1], n)
  PROVE  /\ Ends(q, n) <=> Ends(s, n)
         /\ OneEnd(s, n) => OneEnd(q, n)
<1>1. PICK N \in Nat \ {0} : N = Len(s)
  OBVIOUS
<1>2. /\ DOMAIN q = 1 .. N - 1 /\ DOMAIN s = 1 .. N
      /\ \A i \in 1 .. N - 1 : q[i] = s[i + 1]
  BY <1>1, Tailed
<1>3. /\ \A i \in 1 .. N - 1 : i + 1 \in 1 .. N
      /\ \A i \in 1 .. N : i # 1 => i - 1 \in 1 .. N - 1 /\ (i - 1) + 1 = i
      /\ \A i, j \in 1 .. N - 1 : i + 1 = j + 1 => i = j
  OBVIOUS
<1>4. ASSUME NEW i \in 1 .. N, IsEnd(s[i], n) PROVE \E g \in 1 .. N - 1 : g + 1 = i /\ q[g] = s[i]
  <2>1. i - 1 \in 1 .. N - 1 /\ (i - 1) + 1 = i
    BY <1>3, <1>4
  <2>2. PICK g \in 1 .. N - 1 : g + 1 = i
    BY <2>1
  <2>3. q[g] = s[g + 1]
    BY <1>2
  <2>4. QED
    BY <2>2, <2>3
<1>5. Ends(q, n) <=> Ends(s, n)
  BY <1>2, <1>3, <1>4 DEF Ends
<1>6. ASSUME OneEnd(s, n) PROVE OneEnd(q, n)
  <2>1. PICK i \in 1 .. N : IsEnd(s[i], n) /\ \A j \in 1 .. N : IsEnd(s[j], n) => j = i
    BY <1>2, <1>6 DEF OneEnd
  <2>2. PICK g \in 1 .. N - 1 : g + 1 = i /\ q[g] = s[i]
    BY <1>4, <2>1
  <2>3. \A j \in 1 .. N - 1 : IsEnd(q[j], n) => j = g
    BY <1>2, <1>3, <2>1, <2>2
  <2>4. QED
    BY <1>2, <2>1, <2>2, <2>3 DEF OneEnd
<1>7. QED
  BY <1>5, <1>6

LEMMA OneIsSome ==
  ASSUME NEW n, NEW a, NEW q
  PROVE  /\ OneRequest(a, n) => Requests(a, n)
         /\ OneEnd(q, n) => Ends(q, n)
  BY DEF OneRequest, Requests, OneEnd, Ends

\* A request of call m more
LEMMA AskedMore ==
  ASSUME att \in [Link -> Seq(Request)], NEW l \in Link, NEW r \in Request,
         att' = [att EXCEPT ![l] = Append(@, r)], NEW n
  PROVE  /\ Requests(att, n)' <=> Requests(att, n) \/ r.call = n
         /\ r.call = n /\ ~Requests(att, n) => OneRequest(att, n)'
         /\ r.call # n /\ OneRequest(att, n) => OneRequest(att, n)'
<1>1. PICK a : a = att'
  OBVIOUS
<1>2. PICK N : N = Len(att[l]) + 1
  OBVIOUS
<1>3. /\ \A h \in Link : \A j \in DOMAIN att[h] : j \in DOMAIN a[h] /\ a[h][j] = att[h][j]
      /\ \A h \in Link : \A j \in DOMAIN a[h] :
           \/ j \in DOMAIN att[h] /\ a[h][j] = att[h][j]
           \/ h = l /\ j = N /\ a[h][j] = r
      /\ N \in DOMAIN a[l] /\ a[l][N] = r
  BY <1>1, <1>2, RequestAdded
<1>4. /\ Requests(att, n)' <=> \E h \in Link : \E j \in DOMAIN a[h] : a[h][j].call = n
      /\ OneRequest(att, n)' <=>
           \E h \in Link : \E j \in DOMAIN a[h] :
             /\ a[h][j].call = n
             /\ \A g \in Link : \A i \in DOMAIN a[g] : a[g][i].call = n => g = h /\ i = j
  BY <1>1 DEF Requests, OneRequest
<1>5. /\ Requests(att, n) <=> \E h \in Link : \E j \in DOMAIN att[h] : att[h][j].call = n
      /\ OneRequest(att, n) <=>
           \E h \in Link : \E j \in DOMAIN att[h] :
             /\ att[h][j].call = n
             /\ \A g \in Link : \A i \in DOMAIN att[g] : att[g][i].call = n => g = h /\ i = j
  BY DEF Requests, OneRequest
<1>6. Requests(att, n)' <=> Requests(att, n) \/ r.call = n
  <2>1. ASSUME NEW h \in Link, NEW j \in DOMAIN att[h], att[h][j].call = n
        PROVE  j \in DOMAIN a[h] /\ a[h][j].call = n
    BY <2>1, <1>3
  <2>2. ASSUME NEW h \in Link, NEW j \in DOMAIN a[h], a[h][j].call = n, r.call # n
        PROVE  j \in DOMAIN att[h] /\ att[h][j].call = n
    BY <2>2, <1>3
  <2>3. ASSUME Requests(att, n) PROVE Requests(att, n)'
    <3>1. PICK h \in Link : \E j \in DOMAIN att[h] : att[h][j].call = n
      BY <1>5, <2>3
    <3>2. PICK j \in DOMAIN att[h] : att[h][j].call = n
      BY <3>1
    <3>3. j \in DOMAIN a[h] /\ a[h][j].call = n
      BY <2>1, <3>2
    <3>4. QED
      BY <1>4, <3>3
  <2>4. r.call = n => Requests(att, n)'
    BY <1>3, <1>4
  <2>5. ASSUME r.call # n, Requests(att, n)' PROVE Requests(att, n)
    <3>1. PICK h \in Link : \E j \in DOMAIN a[h] : a[h][j].call = n
      BY <1>4, <2>5
    <3>2. PICK j \in DOMAIN a[h] : a[h][j].call = n
      BY <3>1
    <3>3. j \in DOMAIN att[h] /\ att[h][j].call = n
      BY <2>2, <2>5, <3>2
    <3>4. QED
      BY <1>5, <3>3
  <2>6. QED
    BY <2>3, <2>4, <2>5
<1>7. ASSUME r.call = n, ~Requests(att, n) PROVE OneRequest(att, n)'
  <2>1. \A g \in Link : \A i \in DOMAIN a[g] : a[g][i].call = n => g = l /\ i = N
    BY <1>3, <1>5, <1>7
  <2>2. N \in DOMAIN a[l] /\ a[l][N].call = n
    BY <1>3, <1>7
  <2>3. OneRequest(a, n)
    BY <2>1, <2>2 DEF OneRequest
  <2>4. QED
    BY <2>3, <1>1
<1>8. ASSUME r.call # n, OneRequest(att, n) PROVE OneRequest(att, n)'
  <2>0. PICK h \in Link : \E j \in DOMAIN att[h] :
          /\ att[h][j].call = n
          /\ \A g \in Link : \A i \in DOMAIN att[g] : att[g][i].call = n => g = h /\ i = j
    BY <1>5, <1>8
  <2>1. PICK j \in DOMAIN att[h] :
          /\ att[h][j].call = n
          /\ \A g \in Link : \A i \in DOMAIN att[g] : att[g][i].call = n => g = h /\ i = j
    BY <2>0
  <2>2. \A g \in Link : \A i \in DOMAIN a[g] : a[g][i].call = n => g = h /\ i = j
    BY <1>3, <1>8, <2>1
  <2>3. j \in DOMAIN a[h] /\ a[h][j].call = n
    BY <1>3, <2>1
  <2>4. QED
    BY <2>2, <2>3, <1>4
<1>9. QED
  BY <1>6, <1>7, <1>8

\* The oldest request of l goes, or is made again.
LEMMA AskedLess ==
  ASSUME att \in [Link -> Seq(Request)], NEW l \in Link, att[l] # <<>>, NEW r \in Request,
         r = att[l][1], NEW n, AskedAgain(l, r) \/ AskedNoMore(l)
  PROVE  /\ r.call # n => (Requests(att, n)' <=> Requests(att, n)) /\ (OneRequest(att, n) => OneRequest(att, n)')
         /\ OneRequest(att, n) /\ r.call = n =>
              /\ AskedAgain(l, r) => OneRequest(att, n)'
              /\ AskedNoMore(l) => ~Requests(att, n)'
<1>1. PICK a : a = att'
  OBVIOUS
<1>2. PICK N : N = Len(att[l])
  OBVIOUS
<1>3. PICK again \in BOOLEAN : again = AskedAgain(l, r)
  BY DEF AskedAgain
<1>4. /\ \A h \in Link : h # l => a[h] = att[h]
      /\ \A j \in DOMAIN a[l] :
           \/ j + 1 \in DOMAIN att[l] /\ a[l][j] = att[l][j + 1]
           \/ j = N /\ a[l][j] = r
      /\ \A i \in DOMAIN att[l] : i # 1 => i - 1 \in DOMAIN a[l] /\ a[l][i - 1] = att[l][i]
      /\ again => N \in DOMAIN a[l] /\ a[l][N] = r
  <2>1. /\ \A h \in Link : h # l => att'[h] = att[h]
        /\ \A j \in DOMAIN att'[l] :
             \/ j + 1 \in DOMAIN att[l] /\ att'[l][j] = att[l][j + 1]
             \/ j = Len(att[l]) /\ att'[l][j] = r
        /\ \A i \in DOMAIN att[l] :
             i # 1 => i - 1 \in DOMAIN att'[l] /\ att'[l][i - 1] = att[l][i]
        /\ AskedAgain(l, r) => Len(att[l]) \in DOMAIN att'[l] /\ att'[l][Len(att[l])] = r
    BY RequestTaken
  <2>2. again => AskedAgain(l, r)
    BY <1>3
  <2>3. QED
    BY <2>1, <2>2, <1>1, <1>2
<1>5. /\ \A i \in DOMAIN att[l] : i \in Nat /\ i <= N
      /\ 1 \in DOMAIN att[l] /\ N \in Nat
  <2>1. att[l] \in Seq(Request)
    OBVIOUS
  <2>2. QED
    BY <2>1, <1>2
<1>6. \A j \in DOMAIN a[l] : j \in Nat \ {0} /\ (~again => j + 1 \in DOMAIN att[l] /\ a[l][j] = att[l][j + 1])
  <2>1. att[l] \in Seq(Request) /\ att[l] # <<>>
    OBVIOUS
  <2>2. CASE again
    <3>1. a[l] = Append(Tail(att[l]), r)
      BY <1>1, <1>3, <2>2 DEF AskedAgain
    <3>2. Tail(att[l]) \in Seq(Request)
      BY <2>1, Tailed
    <3>3. DOMAIN a[l] \subseteq Nat \ {0}
      BY <3>1, <3>2, Appended
    <3>4. QED
      BY <3>3, <2>2
  <2>3. CASE ~again
    <3>1. a[l] = Tail(att[l])
      BY <1>1, <1>3, <2>3 DEF AskedNoMore
    <3>2. /\ Tail(att[l]) \in Seq(Request) /\ Len(Tail(att[l])) = N - 1 /\ N \in Nat \ {0}
          /\ \A i \in 1 .. N - 1 : Tail(att[l])[i] = att[l][i + 1]
      BY <2>1, <1>2, Tailed
    <3>3. PICK t \in Seq(Request) : t = Tail(att[l])
      BY <3>2
    <3>4. DOMAIN t = 1 .. N - 1 /\ DOMAIN att[l] = 1 .. N
      BY <3>2, <3>3, <2>1, <1>2
    <3>5. \A j \in 1 .. N - 1 : j \in Nat \ {0} /\ j + 1 \in 1 .. N
      BY <3>2
    <3>6. QED
      BY <3>1, <3>2, <3>3, <3>4, <3>5
  <2>4. QED
    BY <1>3, <2>2, <2>3
<1>7. /\ Requests(att, n)' <=> \E h \in Link : \E j \in DOMAIN a[h] : a[h][j].call = n
      /\ OneRequest(att, n)' <=>
           \E h \in Link : \E j \in DOMAIN a[h] :
             /\ a[h][j].call = n
             /\ \A g \in Link : \A i \in DOMAIN a[g] : a[g][i].call = n => g = h /\ i = j
  BY <1>1 DEF Requests, OneRequest
<1>8. /\ Requests(att, n) <=> \E h \in Link : \E j \in DOMAIN att[h] : att[h][j].call = n
      /\ OneRequest(att, n) <=>
           \E h \in Link : \E j \in DOMAIN att[h] :
             /\ att[h][j].call = n
             /\ \A g \in Link : \A i \in DOMAIN att[g] : att[g][i].call = n => g = h /\ i = j
  BY DEF Requests, OneRequest
<1>9. ASSUME r.call # n PROVE Requests(att, n)' <=> Requests(att, n)
  <2>1. ASSUME NEW h \in Link, NEW j \in DOMAIN att[h], att[h][j].call = n PROVE Requests(att, n)'
    <3>1. CASE h = l
      <4>1. j # 1
        BY <2>1, <1>9, <3>1
      <4>2. QED
        BY <4>1, <2>1, <3>1, <1>4, <1>7
    <3>2. CASE h # l
      BY <3>2, <2>1, <1>4, <1>7
    <3>3. QED
      BY <3>1, <3>2
  <2>2. ASSUME NEW h \in Link, NEW j \in DOMAIN a[h], a[h][j].call = n PROVE Requests(att, n)
    <3>1. CASE h = l
      <4>1. j + 1 \in DOMAIN att[l] /\ att[l][j + 1].call = n
        BY <3>1, <2>2, <1>4, <1>9
      <4>2. QED
        BY <4>1, <1>8
    <3>2. CASE h # l
      BY <3>2, <2>2, <1>4, <1>8
    <3>3. QED
      BY <3>1, <3>2
  <2>3. QED
    BY <2>1, <2>2, <1>7, <1>8
<1>10. ASSUME r.call # n, OneRequest(att, n) PROVE OneRequest(att, n)'
  <2>0. PICK h \in Link : \E j \in DOMAIN att[h] :
          /\ att[h][j].call = n
          /\ \A g \in Link : \A i \in DOMAIN att[g] : att[g][i].call = n => g = h /\ i = j
    BY <1>8, <1>10
  <2>1. PICK j \in DOMAIN att[h] :
          /\ att[h][j].call = n
          /\ \A g \in Link : \A i \in DOMAIN att[g] : att[g][i].call = n => g = h /\ i = j
    BY <2>0
  <2>2. CASE h = l
    <3>1. j # 1 /\ j \in Nat
      BY <2>1, <2>2, <1>5, <1>10
    <3>2. j - 1 \in DOMAIN a[l] /\ a[l][j - 1] = att[l][j]
      BY <3>1, <2>2, <1>4
    <3>3. ASSUME NEW g \in Link, NEW i \in DOMAIN a[g], a[g][i].call = n PROVE g = l /\ i = j - 1
      <4>1. g = l
        BY <2>1, <2>2, <3>3, <1>4
      <4>2. i + 1 \in DOMAIN att[l] /\ att[l][i + 1].call = n /\ i \in Nat
        BY <4>1, <3>3, <1>4, <1>6, <1>10
      <4>3. i + 1 = j
        BY <4>2, <2>1
      <4>4. QED
        BY <4>1, <4>2, <4>3, <3>1
    <3>4. QED
      BY <2>1, <2>2, <3>2, <3>3, <1>7
  <2>3. CASE h # l
    <3>1. j \in DOMAIN a[h] /\ a[h][j].call = n
      BY <2>1, <2>3, <1>4
    <3>2. ASSUME NEW g \in Link, NEW i \in DOMAIN a[g], a[g][i].call = n PROVE g = h /\ i = j
      <4>1. CASE g = l
        <5>1. i + 1 \in DOMAIN att[l] /\ att[l][i + 1].call = n
          BY <4>1, <3>2, <1>4, <1>10
        <5>2. QED
          BY <5>1, <2>1, <2>3
      <4>2. CASE g # l
        BY <4>2, <3>2, <2>1, <1>4
      <4>3. QED
        BY <4>1, <4>2
    <3>3. QED
      BY <3>1, <3>2, <1>7
  <2>4. QED
    BY <2>2, <2>3
<1>11. ASSUME r.call = n, OneRequest(att, n)
       PROVE  IF again THEN OneRequest(att, n)' ELSE ~Requests(att, n)'
  <2>1. \A g \in Link : \A i \in DOMAIN att[g] : att[g][i].call = n => g = l /\ i = 1
    BY <1>5, <1>8, <1>11
  <2>2. ASSUME NEW g \in Link, NEW i \in DOMAIN a[g], a[g][i].call = n
        PROVE  again /\ g = l /\ i = N
    <3>1. g = l
      BY <2>1, <2>2, <1>4
    <3>2. i \in Nat \ {0}
      BY <3>1, <2>2, <1>6
    <3>3. ~(i + 1 \in DOMAIN att[l] /\ a[l][i] = att[l][i + 1])
      <4>1. i + 1 # 1
        BY <3>2
      <4>2. QED
        BY <4>1, <3>1, <2>1, <2>2
    <3>4. QED
      BY <3>1, <3>3, <2>2, <1>3, <1>4, <1>6
  <2>3. CASE again
    <3>1. N \in DOMAIN a[l] /\ a[l][N].call = n
      BY <2>3, <1>4, <1>11
    <3>2. \A g \in Link : \A i \in DOMAIN a[g] : a[g][i].call = n => g = l /\ i = N
      BY <2>2
    <3>3. OneRequest(att, n)'
      BY <3>1, <3>2, <1>7
    <3>4. QED
      BY <2>3, <3>3
  <2>4. CASE ~again
    BY <2>2, <2>4, <1>7
  <2>5. QED
    BY <1>3, <2>3, <2>4
<1>12. AskedNoMore(l) => ~again
  <2>1. att[l] \in Seq(Request) /\ att[l] # <<>>
    OBVIOUS
  <2>2. PICK t \in Seq(Request) : t = Tail(att[l])
    BY <2>1, Tailed
  <2>3. Len(Append(t, r)) # Len(t)
    BY Appended
  <2>4. again => att'[l] = Append(t, r)
    BY <2>2, <1>3 DEF AskedAgain
  <2>5. AskedNoMore(l) => att'[l] = t
    BY <2>2 DEF AskedNoMore
  <2>6. QED
    BY <2>3, <2>4, <2>5
<1>13. QED
  BY <1>3, <1>9, <1>10, <1>11, <1>12

-----------------------------------------------------------------------------
(* Everything on its way is of a call                                       *)

\* Calls are never forgotten, and stay answered.
CallsKept ==
  /\ DOMAIN calls \subseteq DOMAIN calls'
  /\ \A n \in DOMAIN calls :
       /\ calls'[n].kind = calls[n].kind /\ calls'[n].link = calls[n].link
       /\ calls[n].state = "answered" => calls'[n].state = "answered"

LEMMA OldCalls ==
  ASSUME EspInv,
         \/ calls' = calls
         \/ \E c \in CallRecord : calls' = Append(calls, c)
         \/ \E n \in Waiting, s \in {"answered", "timeout"} : calls' = [calls EXCEPT ![n].state = s]
         \/ Restart
  PROVE  CallsKept
<1>1. CASE calls' = calls
  BY <1>1 DEF CallsKept
<1>2. ASSUME NEW c \in CallRecord, calls' = Append(calls, c) PROVE CallsKept
  <2>1. /\ DOMAIN calls' = DOMAIN calls \cup {Len(calls) + 1}
        /\ \A m \in DOMAIN calls : calls'[m] = calls[m]
    BY <1>2, AppendOK
  <2>2. QED
    BY <2>1 DEF CallsKept
<1>3. ASSUME NEW n \in Waiting, NEW s \in {"answered", "timeout"},
             calls' = [calls EXCEPT ![n].state = s]
      PROVE  CallsKept
  <2>1. n \in DOMAIN calls /\ calls[n].state # "answered"
    BY <1>3, Caller
  <2>2. /\ DOMAIN calls' = DOMAIN calls
        /\ \A m \in DOMAIN calls :
             /\ calls'[m].kind = calls[m].kind /\ calls'[m].link = calls[m].link
             /\ calls'[m].state = IF m = n THEN s ELSE calls[m].state
    BY <1>3, <2>1, EndOK
  <2>3. QED
    BY <2>1, <2>2 DEF CallsKept
<1>4. CASE Restart
  <2>1. calls' = [n \in DOMAIN calls |->
                    IF n \in Waiting THEN [calls[n] EXCEPT !.state = "failed"] ELSE calls[n]]
    BY <1>4 DEF Restart
  <2>2. ASSUME NEW n \in DOMAIN calls
        PROVE  /\ calls'[n].kind = calls[n].kind /\ calls'[n].link = calls[n].link
               /\ calls[n].state = "answered" => calls'[n].state = "answered"
    <3>1. calls[n] \in CallRecord
      BY <2>2 DEF EspInv
    <3>2. CASE n \in Waiting
      <4>1. calls'[n] = [calls[n] EXCEPT !.state = "failed"] /\ calls[n].state = "waiting"
        BY <2>1, <3>2, Caller
      <4>2. QED
        BY <4>1, <3>1 DEF CallRecord
    <3>3. CASE n \notin Waiting
      BY <2>1, <3>3
    <3>4. QED
      BY <3>2, <3>3
  <2>3. QED
    BY <2>1, <2>2 DEF CallsKept
<1>5. QED
  BY <1>1, <1>2, <1>3, <1>4

LEMMA OfCallKept ==
  ASSUME CallsKept, NEW m, NEW k, OfCall(m, k)
  PROVE  m # None => m \in DOMAIN calls' /\ calls'[m].kind = k
  BY DEF CallsKept, OfCall

LEMMA FromCallKept ==
  ASSUME CallsKept, NEW e, NEW k, FromCall(e, k)
  PROVE  /\ e.kind \in Answers(k)
         /\ e.call # None => e.call \in DOMAIN calls' /\ calls'[e.call].kind = k
         /\ k = "bond" /\ e.call # None => calls'[e.call].link = e.link
  BY DEF CallsKept, OfCall, FromCall

\* What is new has its call, and the rest kept it.
LEMMA SourcedKept ==
  ASSUME Sourced, CallsKept,
         \/ cmd' = cmd
         \/ cmd'.call # None => cmd'.call \in DOMAIN calls' /\ calls'[cmd'.call].kind = cmd'.kind,
         \A l \in Link : \A i \in DOMAIN att'[l] :
           \/ \E h \in Link : \E j \in DOMAIN att[h] : att'[l][i] = att[h][j]
           \/ OfCall(att'[l][i].call, att'[l][i].kind),
         \A i \in DOMAIN queue' :
           \/ \E j \in DOMAIN queue : queue'[i] = queue[j]
           \/ \E k \in Kind : FromCall(queue'[i], k),
         \A n \in misled' : n \in misled \/ (n \in DOMAIN calls' /\ calls'[n].state = "answered")
  PROVE  Sourced'
<1>1. OfCall(cmd.call, cmd.kind)'
  BY OfCallKept DEF Sourced, OfCall
<1>2. ASSUME NEW l \in Link, NEW i \in DOMAIN att'[l]
      PROVE  OfCall(att[l][i].call, att[l][i].kind)'
  <2>1. OfCall(att'[l][i].call, att'[l][i].kind)
    BY <1>2 DEF Sourced
  <2>2. PICK m, k : m = att'[l][i].call /\ k = att'[l][i].kind
    OBVIOUS
  <2>3. m # None => m \in DOMAIN calls' /\ calls'[m].kind = k
    BY <2>1, <2>2, OfCallKept
  <2>4. QED
    BY <2>2, <2>3 DEF OfCall
<1>3. ASSUME NEW i \in DOMAIN queue'
      PROVE  \E k \in Kind : FromCall(queue[i], k)'
  <2>1. PICK e : e = queue'[i]
    OBVIOUS
  <2>2. PICK k \in Kind : FromCall(e, k)
    BY <1>3, <2>1 DEF Sourced
  <2>3. /\ e.kind \in Answers(k)
        /\ e.call # None => e.call \in DOMAIN calls' /\ calls'[e.call].kind = k
        /\ k = "bond" /\ e.call # None => calls'[e.call].link = e.link
    BY <2>2, FromCallKept
  <2>4. FromCall(queue[i], k)'
    BY <2>1, <2>3 DEF FromCall, OfCall
  <2>5. QED
    BY <2>4
<1>4. \A n \in misled' : n \in DOMAIN calls' /\ calls'[n].state = "answered"
  BY DEF Sourced, CallsKept
<1>5. QED
  BY <1>1, <1>2, <1>3, <1>4 DEF Sourced

-----------------------------------------------------------------------------
(* What a step does to a call that waits on                                 *)

\* The call to bond is carried out.
Joined(n) == sec[calls[n].link] \in {"pairing", "keys"} \/ Ends(queue, n)

\* Callers that wait on and are not excused are where they were.
Steady ==
  \A n \in Waiting : n \in Waiting' /\ n \notin excused' =>
    /\ calls[n].kind \in Gatt /\ Progress(n) =>
         Progress(n)' /\ (n \in Unexecuted' <=> n \in Unexecuted)
    /\ calls[n].kind = "bond" => (Joined(n)' <=> Joined(n))

LEMMA QuietSteady ==
  ASSUME CallsKept, EspInv, UNCHANGED <<cmd, work, running, att, queue>>,
         \A n \in Waiting : n \in Waiting' /\ n \notin excused' =>
           (sec'[calls[n].link] \in {"pairing", "keys"} <=> sec[calls[n].link] \in {"pairing", "keys"})
  PROVE  Steady
<1>1. ASSUME NEW n \in Waiting, n \in Waiting', n \notin excused'
      PROVE  /\ Progress(n) => Progress(n)' /\ (n \in Unexecuted' <=> n \in Unexecuted)
             /\ Joined(n)' <=> Joined(n)
  <2>1. calls'[n].kind = calls[n].kind /\ calls'[n].link = calls[n].link
    BY <1>1, Caller DEF CallsKept
  <2>2. n \in Unexecuted' <=> n \in Unexecuted
    BY DEF Unexecuted
  <2>3. Pending(n)' <=> Pending(n)
    BY <2>1 DEF Pending
  <2>4. sec'[calls'[n].link] \in {"pairing", "keys"} <=> sec[calls[n].link] \in {"pairing", "keys"}
    BY <1>1, <2>1
  <2>5. Joined(n)' <=> Joined(n)
    BY <2>4 DEF Joined
  <2>6. QED
    BY <2>2, <2>3, <2>5 DEF Progress
<1>2. QED
  BY <1>1 DEF Steady

LEMMA WriteSteady ==
  ASSUME EspInv, CallsKept, UNCHANGED <<sec, running, att, queue>>, work' = TRUE,
         cmd'.call \notin Waiting, Unexecuted \subseteq excused'
  PROVE  Steady
<1>1. ASSUME NEW n \in Waiting, n \in Waiting', n \notin excused'
      PROVE  /\ calls[n].kind \in Gatt /\ Progress(n) =>
                  Progress(n)' /\ (n \in Unexecuted' <=> n \in Unexecuted)
             /\ Joined(n)' <=> Joined(n)
  <2>1. /\ calls'[n].kind = calls[n].kind /\ calls'[n].link = calls[n].link /\ n # None
    BY <1>1, Caller DEF CallsKept
  <2>2. n \notin Unexecuted' /\ n \notin Unexecuted
    BY <1>1 DEF Unexecuted
  <2>3. ASSUME calls[n].kind \in Gatt PROVE ~Pending(n)
    <3>1. calls[n].kind # None
      BY <2>3, GattCallsAssumption DEF Kind
    <3>2. QED
      BY <2>1, <2>2, <3>1 DEF Pending, Unexecuted
  <2>4. QED
    BY <2>1, <2>2, <2>3 DEF Progress, Joined
<1>2. QED
  BY <1>1 DEF Steady

LEMMA StartSteady ==
  ASSUME EspInv, CallsKept, CmdStart
  PROVE  Steady
<1>1. /\ UNCHANGED <<sec, cmd, att, queue, calls>>
      /\ work /\ running = None /\ ~work' /\ running' = cmd.kind
  BY DEF CmdStart, esp
<1>2. ASSUME NEW n \in Waiting
      PROVE  /\ calls[n].kind \in Gatt /\ Progress(n) =>
                  Progress(n)' /\ (n \in Unexecuted' <=> n \in Unexecuted)
             /\ Joined(n)' <=> Joined(n)
  <2>1. n # None
    BY <1>2, Caller
  <2>2. Joined(n)' <=> Joined(n)
    BY <1>1 DEF Joined
  <2>3. ASSUME calls[n].kind \in Gatt, Pending(n)
        PROVE  Pending(n)' /\ n \in Unexecuted /\ n \in Unexecuted'
    <3>1. calls[n].kind # None
      BY <2>3, GattCallsAssumption DEF Kind
    <3>2. QED
      BY <1>1, <2>1, <2>3, <3>1 DEF Pending, Unexecuted
  <2>4. n \notin Unexecuted => n \notin Unexecuted'
    BY <1>1 DEF Unexecuted
  <2>5. QED
    BY <1>1, <2>2, <2>3, <2>4 DEF Progress
<1>3. QED
  BY <1>2 DEF Steady

LEMMA SecurityService ==
  ASSUME NrfInv, EspInv, AllAssured, Sourced, NEW l \in Link, misled' = misled,
         Encrypted(l) \/ PairingComplete(l) \/ PairingFails(l)
  PROVE  Steady /\ Sourced'
<1>1. /\ UNCHANGED <<cmd, work, running, att, calls>>
      /\ sec[l] \in {"pairing", "keys"} /\ \A h \in Link : h # l => sec'[h] = sec[h]
      /\ excused \subseteq excused'
  BY PairingEvents
<1>2. PICK e \in QueuedEvent, d \in QueuedEvent :
        /\ e.kind \in {"bond", "enc"} /\ e.link = l /\ e.call = BondCall(l)
        /\ e.char = None
        /\ d.kind \in {"bond", "enc"} /\ d.link = l /\ d.call = None /\ d.char = None
        /\ \/ queue' = Append(queue, e)
           \/ queue' = Append(Append(queue, e), d)
           \/ queue' = queue /\ (e.call # None => e.call \in excused')
  BY PairingEvents
<1>3. e.call # None =>
        /\ e.call \in Waiting /\ waiter["bond"][l] = e.call
        /\ calls[e.call].kind = "bond" /\ calls[e.call].link = l
  <2>1. e.call # None => e.call \in Waiting /\ waiter["bond"][l] = e.call
    BY <1>2 DEF BondCall
  <2>2. QED
    BY <2>1 DEF EspInv, WaitersKnown, Kind
<1>4. PICK q \in Seq(QueuedEvent) : q = Append(queue, e)
  BY Appended DEF NrfInv
<1>5. \/ queue' = q
      \/ queue' = Append(q, d)
      \/ queue' = queue /\ (e.call # None => e.call \in excused')
  BY <1>2, <1>4
<1>6. queue \in Seq(QueuedEvent)
  BY DEF NrfInv
<1>7. ASSUME NEW n, n # None
      PROVE  /\ e.call # n => /\ Ends(queue', n) <=> Ends(queue, n)
                              /\ OneEnd(queue, n) => OneEnd(queue', n)
             /\ e.call = n => Ends(queue', n) \/ n \in excused'
  <2>1. IsEnd(e, n) <=> e.call = n
    BY <1>2 DEF IsEnd
  <2>2. ~IsEnd(d, n)
    BY <1>2, <1>7 DEF IsEnd
  <2>3. /\ Ends(q, n) <=> Ends(queue, n) \/ e.call = n
        /\ e.call # n /\ OneEnd(queue, n) => OneEnd(q, n)
    BY <2>1, <1>4, <1>6, EndAdded
  <2>4. queue' = Append(q, d) => /\ Ends(queue', n) <=> Ends(q, n)
                                 /\ OneEnd(q, n) => OneEnd(queue', n)
    BY <2>2, EndAdded
  <2>5. QED
    BY <2>3, <2>4, <1>5, <1>7
<1>8. CallsKept
  BY <1>1, OldCalls
<1>9. Steady
  <2>1. SUFFICES ASSUME NEW n \in Waiting, n \notin excused'
                 PROVE  /\ calls[n].kind \in Gatt /\ Progress(n) =>
                             Progress(n)' /\ (n \in Unexecuted' <=> n \in Unexecuted)
                        /\ calls[n].kind = "bond" => (Joined(n)' <=> Joined(n))
    BY DEF Steady
  <2>2. n # None /\ calls[n].kind \in Kind /\ calls[n].link \in Link /\ calls' = calls
    BY <1>1, <2>1, Caller
  <2>3. n \in Unexecuted' <=> n \in Unexecuted
    BY <1>1 DEF Unexecuted
  <2>4. ASSUME calls[n].kind \in Gatt, Progress(n) PROVE Progress(n)'
    <3>1. e.call # n
      BY <1>3, <2>2, <2>4 DEF Gatt
    <3>2. Pending(n)' <=> Pending(n)
      BY <1>1 DEF Pending
    <3>3. /\ Ends(queue', n) <=> Ends(queue, n)
          /\ OneEnd(queue, n) => OneEnd(queue', n)
      BY <3>1, <1>7, <2>2
    <3>4. QED
      BY <3>2, <3>3, <1>1, <2>3, <2>4 DEF Progress
  <2>5. ASSUME calls[n].kind = "bond" PROVE Joined(n)' <=> Joined(n)
    <3>1. CASE calls[n].link = l
      <4>1. waiter["bond"][l] = n
        BY <2>1, <2>5, <3>1, <1>1 DEF AllAssured, Assured
      <4>2. e.call = n
        BY <4>1, <1>2, <2>1 DEF BondCall
      <4>3. Ends(queue', n)
        BY <4>2, <1>7, <2>1, <2>2
      <4>4. Joined(n)'
        BY <4>3 DEF Joined
      <4>5. Joined(n)
        BY <3>1, <1>1 DEF Joined
      <4>6. QED
        BY <4>4, <4>5
    <3>2. CASE calls[n].link # l
      <4>1. e.call # n
        BY <3>2, <1>3, <2>2
      <4>2. Ends(queue', n) <=> Ends(queue, n)
        BY <4>1, <1>7, <2>2
      <4>3. sec'[calls[n].link] = sec[calls[n].link]
        BY <3>2, <1>1, <2>2
      <4>4. QED
        BY <4>2, <4>3, <1>1 DEF Joined
    <3>3. QED
      BY <3>1, <3>2
  <2>6. QED
    BY <2>3, <2>4, <2>5
<1>10. Sourced'
  <2>1. FromCall(e, "bond") /\ FromCall(d, "bond")
    BY <1>2, <1>3, Caller DEF FromCall, OfCall, Answers
  <2>2. ASSUME NEW i \in DOMAIN queue'
        PROVE  (\E j \in DOMAIN queue : queue'[i] = queue[j]) \/ queue'[i] = e \/ queue'[i] = d
    <3>1. \A g \in DOMAIN q : q[g] = e \/ \E j \in DOMAIN queue : q[g] = queue[j]
      BY <1>4, <1>6, OldOrNew
    <3>2. queue' = Append(q, d) =>
            \A g \in DOMAIN queue' : queue'[g] = d \/ \E j \in DOMAIN q : queue'[g] = q[j]
      BY OldOrNew
    <3>3. QED
      BY <3>1, <3>2, <2>2, <1>5
  <2>3. \A i \in DOMAIN queue' :
           \/ \E j \in DOMAIN queue : queue'[i] = queue[j]
           \/ \E k \in Kind : FromCall(queue'[i], k)
    BY <2>1, <2>2 DEF Kind
  <2>4. QED
    BY <2>3, <1>1, <1>8, SourcedKept
<1>11. QED
  BY <1>9, <1>10

LEMMA HostService ==
  ASSUME NrfInv, EspInv, Sourced, NEW l \in Link, NEW good \in BOOLEAN, HostAnswers(l, good)
  PROVE  Steady /\ Sourced'
<1>1. UNCHANGED <<sec, cmd, work, running, calls, misled>>
  BY DEF HostAnswers, esp, told
<1>2. PICK op \in Request, e \in QueuedEvent :
        /\ 1 \in DOMAIN att[l] /\ op = att[l][1] /\ op.kind \in Gatt
        /\ e.kind = op.kind /\ e.link = label[op.kind] /\ e.call = op.call
        /\ e.good <=> good
        /\ Push(<<e>>)
        /\ \/ /\ op.kind = "discover" /\ pos < NChars /\ pos' = pos + 1
              /\ e.char = Char(l, pos + 1) /\ e.char # None
              /\ att' = [att EXCEPT ![l] = Append(Tail(@), op)]
           \/ /\ op.kind = "discover" /\ e.good => pos = NChars
              /\ e.char = None /\ pos' = pos
              /\ att' = [att EXCEPT ![l] = Tail(@)]
  BY HostSays
<1>3. att \in [Link -> Seq(Request)] /\ att[l] # <<>> /\ queue \in Seq(QueuedEvent)
  BY DEF NrfInv, HostAnswers
<1>4. \/ queue' = Append(queue, e) /\ excused' = excused
      \/ queue' = queue /\ excused' = excused \cup ({e.call} \ {None})
  BY <1>2, PushOne
<1>5. OfCall(op.call, op.kind)
  BY <1>2 DEF Sourced
<1>6. CallsKept
  BY <1>1, OldCalls
<1>7. ASSUME NEW n
      PROVE  /\ op.call # n =>
                  /\ Requests(att, n)' <=> Requests(att, n)
                  /\ OneRequest(att, n) => OneRequest(att, n)'
             /\ OneRequest(att, n) /\ op.call = n =>
                  IF e.char # None THEN OneRequest(att, n)' ELSE ~Requests(att, n)'
  <2>1. \/ e.char # None /\ AskedAgain(l, op)
        \/ e.char = None /\ AskedNoMore(l)
    BY <1>2 DEF AskedAgain, AskedNoMore
  <2>2. op \in Request /\ op = att[l][1]
    BY <1>2
  <2>3. /\ op.call # n =>
             (Requests(att, n)' <=> Requests(att, n)) /\ (OneRequest(att, n) => OneRequest(att, n)')
        /\ OneRequest(att, n) /\ op.call = n =>
             /\ AskedAgain(l, op) => OneRequest(att, n)'
             /\ AskedNoMore(l) => ~Requests(att, n)'
    BY <1>3, <2>1, <2>2, AskedLess
  <2>4. QED
    BY <2>1, <2>3
<1>8. ASSUME NEW n
      PROVE  /\ ~IsEnd(e, n) => /\ Ends(queue', n) <=> Ends(queue, n)
                                /\ OneEnd(queue, n) => OneEnd(queue', n)
             /\ IsEnd(e, n) /\ ~Ends(queue, n) /\ n # None => OneEnd(queue', n) \/ n \in excused'
  <2>1. queue' = Append(queue, e) =>
          /\ Ends(queue', n) <=> Ends(queue, n) \/ IsEnd(e, n)
          /\ IsEnd(e, n) /\ ~Ends(queue, n) => OneEnd(queue', n)
          /\ ~IsEnd(e, n) /\ OneEnd(queue, n) => OneEnd(queue', n)
    BY <1>3, EndAdded
  <2>2. queue' = queue /\ IsEnd(e, n) /\ n # None => n \in excused'
    BY <1>4, <2>1 DEF IsEnd
  <2>3. QED
    BY <1>4, <2>1, <2>2
<1>9. Steady
  <2>1. SUFFICES ASSUME NEW n \in Waiting, n \notin excused'
                 PROVE  /\ calls[n].kind \in Gatt /\ Progress(n) =>
                             Progress(n)' /\ (n \in Unexecuted' <=> n \in Unexecuted)
                        /\ calls[n].kind = "bond" => (Joined(n)' <=> Joined(n))
    BY DEF Steady
  <2>2. n # None
    BY <2>1, Caller
  <2>3. n \in Unexecuted' <=> n \in Unexecuted
    BY <1>1 DEF Unexecuted
  <2>4. ASSUME calls[n].kind \in Gatt, Progress(n) PROVE Progress(n)'
    <3>1. Pending(n)' <=> Pending(n)
      BY <1>1 DEF Pending
    <3>2. CASE op.call # n
      <4>1. ~IsEnd(e, n)
        BY <3>2, <1>2 DEF IsEnd
      <4>2. QED
        BY <3>1, <3>2, <4>1, <1>7, <1>8, <2>3, <2>4 DEF Progress
    <3>3. CASE op.call = n
      <4>1. Requests(att, n)
        BY <3>3, <1>2 DEF Requests
      <4>2. n \notin Unexecuted /\ OneRequest(att, n) /\ ~Ends(queue, n)
        BY <4>1, <2>4 DEF Progress
      <4>3. CASE e.char # None
        <5>1. ~IsEnd(e, n)
          BY <4>3 DEF IsEnd
        <5>2. OneRequest(att, n)' /\ ~Ends(queue', n)
          BY <3>3, <4>2, <4>3, <5>1, <1>7, <1>8
        <5>3. QED
          BY <5>2, <4>2, <2>3 DEF Progress
      <4>4. CASE e.char = None
        <5>1. IsEnd(e, n)
          BY <4>4, <3>3, <1>2 DEF IsEnd
        <5>2. ~Requests(att, n)' /\ OneEnd(queue', n)
          BY <3>3, <4>2, <4>4, <5>1, <1>7, <1>8, <2>1, <2>2
        <5>3. QED
          BY <5>2, <4>2, <2>3 DEF Progress
      <4>5. QED
        BY <4>3, <4>4
    <3>4. QED
      BY <3>2, <3>3
  <2>5. ASSUME calls[n].kind = "bond" PROVE Joined(n)' <=> Joined(n)
    <3>1. ~IsEnd(e, n)
      BY <1>2, <1>5, <2>2, <2>5 DEF IsEnd, OfCall, Gatt
    <3>2. Ends(queue', n) <=> Ends(queue, n)
      BY <3>1, <1>8
    <3>3. QED
      BY <3>2, <1>1 DEF Joined
  <2>6. QED
    BY <2>3, <2>4, <2>5
<1>10. Sourced'
  <2>1. FromCall(e, op.kind) /\ op.kind \in Kind
    BY <1>2, <1>5 DEF FromCall, OfCall, Answers, Kind, Gatt
  <2>2. \A i \in DOMAIN queue' : queue'[i] = e \/ \E j \in DOMAIN queue : queue'[i] = queue[j]
    <3>1. queue' = Append(queue, e) =>
            \A i \in DOMAIN queue' : queue'[i] = e \/ \E j \in DOMAIN queue : queue'[i] = queue[j]
      BY <1>3, OldOrNew
    <3>2. QED
      BY <3>1, <1>4
  <2>3. \A h \in Link : \A i \in DOMAIN att'[h] :
          \E j \in DOMAIN att[h] : att'[h][i] = att[h][j]
    <3>1. /\ \A h \in Link : h # l => att'[h] = att[h]
          /\ \A j \in DOMAIN att'[l] :
               \/ j + 1 \in DOMAIN att[l] /\ att'[l][j] = att[l][j + 1]
               \/ j = Len(att[l]) /\ att'[l][j] = op
      <4>1. AskedAgain(l, op) \/ AskedNoMore(l)
        BY <1>2 DEF AskedAgain, AskedNoMore
      <4>2. op \in Request
        OBVIOUS
      <4>3. QED
        BY <1>3, <4>1, <4>2, RequestTaken
    <3>2. 1 \in DOMAIN att[l] /\ op = att[l][1]
      BY <1>2
    <3>3. ASSUME NEW h \in Link, NEW i \in DOMAIN att'[h]
          PROVE  \E j \in DOMAIN att[h] : att'[h][i] = att[h][j]
      <4>1. CASE h = l
        BY <3>1, <3>2, <4>1
      <4>2. CASE h # l
        BY <3>1, <4>2
      <4>3. QED
        BY <4>1, <4>2
    <3>4. QED
      BY <3>3
  <2>4. QED
    BY <2>1, <2>2, <2>3, <1>1, <1>6, SourcedKept
<1>11. QED
  BY <1>9, <1>10

\* The end of a call that is first in the queue answers it, under its kind and handle.
LEMMA FirstEnd ==
  ASSUME NrfInv, EspInv, AllAssured, AllProgress, Sourced, queue # <<>>,
         NEW n \in Waiting, n \notin excused, IsEnd(queue[1], n)
  PROVE  /\ Answering(queue[1], calls[n].kind, calls[n].link)
         /\ waiter[calls[n].kind][calls[n].link] = n
<1>1. PICK k \in Kind, l \in Link : calls[n].kind = k /\ calls[n].link = l /\ n # None
  BY Caller
<1>2. Assured(n, k, l)
  BY <1>1 DEF AllAssured
<1>3. 1 \in DOMAIN queue
  BY DEF NrfInv
<1>4. CASE k = "bond"
  <2>1. PICK j \in Kind : FromCall(queue[1], j)
    BY <1>3 DEF Sourced
  <2>2. queue[1].call = n
    BY DEF IsEnd
  <2>3. j = "bond" /\ queue[1].link = l /\ queue[1].kind \in Answers("bond")
    BY <1>1, <1>4, <2>1, <2>2 DEF FromCall, OfCall
  <2>4. QED
    BY <1>1, <1>2, <1>4, <2>3 DEF Answering, Assured
<1>5. CASE k \in Gatt
  <2>1. Ends(queue, n)
    BY <1>3 DEF Ends
  <2>2. n \notin Unexecuted /\ ~Requests(att, n) /\ OneEnd(queue, n)
    BY <1>1, <1>5, <2>1 DEF AllProgress, Progress
  <2>3. \A m : ~UnderWay(n, k, l, m)
    <3>1. ~Commanded(n, k, l)
      BY <1>1, <2>2, Overwritten
    <3>2. ~Requested(n, k, l)
      BY <2>2 DEF Requested, Requests
    <3>3. k # "bond"
      BY <1>5 DEF Gatt
    <3>4. QED
      BY <3>1, <3>2, <3>3 DEF UnderWay
  <2>4. Answered(queue, results[l], n, k, l)
    BY <1>2, <2>3 DEF Assured
  <2>5. PICK f \in 1 .. Len(queue) : Answering(queue[f], k, l) /\ IsEnd(queue[f], n)
    BY <2>4 DEF Answered, IsEnd
  <2>6. f \in DOMAIN queue
    BY <2>5 DEF NrfInv
  <2>7. f = 1
    BY <1>3, <2>2, <2>5, <2>6 DEF OneEnd
  <2>8. QED
    BY <1>1, <1>2, <2>5, <2>7 DEF Assured
<1>6. QED
  BY <1>4, <1>5 DEF Kind

\* An answer that reaches a caller which was not excused ends its call.
LEMMA AnswerEnds ==
  ASSUME NrfInv, EspInv, AllAssured, queue # <<>>, NEW k \in Kind, NEW l \in Link,
         NEW n \in Waiting, n \notin excused, calls[n].kind = k, calls[n].link = l,
         Answering(queue[1], k, l), k = "discover" => queue[1].char = None
  PROVE  IsEnd(queue[1], n)
<1>1. Assured(n, k, l)
  BY DEF AllAssured
<1>2. Len(queue) \in Nat \ {0}
  BY DEF NrfInv
<1>3. ASSUME NEW f \in Nat, f > 1 PROVE ~Before(queue, f, n, k, l)
  <2>1. 1 \in 1 .. f - 1
    BY <1>3
  <2>2. QED
    BY <2>1 DEF Before
<1>4. \A m : ~Partial(queue, results[l], n, k, l, m)
  <2>1. Len(queue) + 1 \in Nat /\ Len(queue) + 1 > 1
    BY <1>2
  <2>2. ~Before(queue, Len(queue) + 1, n, k, l)
    BY <1>3, <2>1
  <2>3. QED
    BY <2>2 DEF Partial
<1>5. Answered(queue, results[l], n, k, l)
  BY <1>1, <1>4 DEF Assured
<1>6. PICK f \in 1 .. Len(queue) :
        queue[f].call = n /\ queue[f].char = None /\ Before(queue, f, n, k, l)
  BY <1>5 DEF Answered
<1>7. f \in Nat /\ (f = 1 \/ f > 1)
  BY <1>2
<1>8. f = 1
  BY <1>3, <1>6, <1>7
<1>9. QED
  BY <1>6, <1>8 DEF IsEnd

\* The oldest event goes, and with it nobody's end who waits on.
LEMMA TakenService ==
  ASSUME NrfInv, EspInv, Sourced, CallsKept, queue # <<>>, queue' = Tail(queue),
         UNCHANGED <<sec, cmd, work, running, att>>, excused \subseteq excused',
         \A n \in Waiting : n \in Waiting' /\ n \notin excused' => ~IsEnd(queue[1], n),
         \A n \in misled' : n \in misled \/ (n \in DOMAIN calls' /\ calls'[n].state = "answered")
  PROVE  Steady /\ Sourced'
<1>1. queue \in Seq(QueuedEvent)
  BY DEF NrfInv
<1>2. Steady
  <2>1. SUFFICES ASSUME NEW n \in Waiting, n \in Waiting', n \notin excused'
                 PROVE  /\ calls[n].kind \in Gatt /\ Progress(n) =>
                             Progress(n)' /\ (n \in Unexecuted' <=> n \in Unexecuted)
                        /\ calls[n].kind = "bond" => (Joined(n)' <=> Joined(n))
    BY DEF Steady
  <2>2. /\ Ends(queue', n) <=> Ends(queue, n)
        /\ OneEnd(queue, n) => OneEnd(queue', n)
    BY <1>1, <2>1, EndTaken
  <2>3. calls'[n].kind = calls[n].kind /\ calls'[n].link = calls[n].link
    BY <2>1, Caller DEF CallsKept
  <2>4. n \in Unexecuted' <=> n \in Unexecuted
    BY DEF Unexecuted
  <2>5. Pending(n)' <=> Pending(n)
    BY <2>3 DEF Pending
  <2>6. Joined(n)' <=> Joined(n)
    BY <2>2, <2>3 DEF Joined
  <2>7. Progress(n) => Progress(n)'
    BY <2>2, <2>4, <2>5 DEF Progress
  <2>8. QED
    BY <2>4, <2>6, <2>7
<1>3. Sourced'
  <2>1. \A i \in DOMAIN queue' : \E j \in DOMAIN queue : queue'[i] = queue[j]
    <3>1. PICK q \in Seq(QueuedEvent) : q = Tail(queue)
      BY <1>1, Tailed
    <3>2. /\ Len(q) = Len(queue) - 1 /\ Len(queue) \in Nat \ {0}
          /\ \A i \in 1 .. Len(queue) - 1 : q[i] = queue[i + 1]
      BY <1>1, <3>1, Tailed
    <3>3. DOMAIN q = 1 .. Len(queue) - 1 /\ DOMAIN queue = 1 .. Len(queue)
      BY <1>1, <3>2
    <3>4. \A i \in 1 .. Len(queue) - 1 : i + 1 \in 1 .. Len(queue)
      BY <3>2
    <3>5. QED
      BY <3>1, <3>2, <3>3, <3>4
  <2>2. QED
    BY <2>1, SourcedKept
<1>4. QED
  BY <1>2, <1>3

LEMMA EntryService ==
  ASSUME NrfInv, EspInv, Sourced, ServicesEntry
  PROVE  Steady /\ Sourced'
<1>1. /\ queue # <<>> /\ queue' = Tail(queue) /\ UNCHANGED <<sec, cmd, work, running, att, calls>>
      /\ Head(queue).char # None /\ misled' = misled /\ excused \subseteq excused'
  BY DEF ServicesEntry, Drained, nrf, told
<1>2. Head(queue) = queue[1]
  BY <1>1, Tailed DEF NrfInv
<1>3. \A n : ~IsEnd(queue[1], n)
  BY <1>1, <1>2 DEF IsEnd
<1>4. CallsKept
  BY <1>1, OldCalls
<1>5. QED
  BY <1>1, <1>3, <1>4, TakenService

\* A reply ends the call whose end it is, or one that was excused.
Replied ==
  \/ UNCHANGED <<calls, misled>>
  \/ \E n \in Waiting :
       /\ calls' = [calls EXCEPT ![n].state = "answered"]
       /\ misled \subseteq misled' /\ misled' \subseteq misled \cup {n}
       /\ n \notin excused => Ends(queue, n)

LEMMA ReplyService ==
  ASSUME NrfInv, EspInv, AllAssured, AllProgress, Sourced, NEW k \in Kind, NEW right, NEW ok,
         NEW kinds, kinds \subseteq Answers(k), Drained(kinds), Reply(k, right, ok),
         k = "discover" => Head(queue).char = None
  PROVE  Steady /\ Sourced' /\ Replied
<1>1. /\ queue # <<>> /\ queue' = Tail(queue)
      /\ UNCHANGED <<sec, cmd, work, running, att, excused>>
      /\ Head(queue).kind \in Answers(k)
  BY DEF Drained, nrf
<1>2. Head(queue) = queue[1] /\ queue[1] \in QueuedEvent /\ 1 \in DOMAIN queue
  BY <1>1, Tailed DEF NrfInv
<1>3. PICK e \in QueuedEvent : e = queue[1] /\ e = Head(queue)
  BY <1>2
<1>4. PICK l \in Link : l = e.link
  BY DEF QueuedEvent
<1>5. PICK n0 : n0 = waiter[k][l]
  OBVIOUS
<1>6. Answering(e, k, l) /\ \A j \in Kind : \A h : Answering(e, j, h) => j = k /\ h = l
  <2>1. Answering(e, k, l)
    BY <1>1, <1>3, <1>4 DEF Answering
  <2>2. e.kind \in Gatt \cup {"bond", "enc"}
    BY <1>1, <1>3 DEF Answers, Kind, Gatt
  <2>3. e.link = l
    BY <1>4
  <2>4. QED
    BY <2>1, <2>2, <2>3, KindOfAnswer
<1>7. /\ n0 \in Waiting =>
           /\ calls' = [calls EXCEPT ![n0].state = "answered"]
           /\ misled \subseteq misled' /\ misled' \subseteq misled \cup {n0}
      /\ n0 \notin Waiting => UNCHANGED <<calls, misled>>
  BY <1>3, <1>4, <1>5 DEF Reply, told
<1>8. n0 \in Waiting => n0 \in DOMAIN calls /\ calls[n0].kind = k /\ calls[n0].link = l
  <2>1. n0 \in Waiting => n0 # None
    BY Caller
  <2>2. QED
    BY <2>1, <1>5 DEF EspInv, WaitersKnown
<1>9. CallsKept
  BY <1>7, OldCalls
<1>10. n0 \in Waiting => n0 \notin Waiting' /\ n0 \in DOMAIN calls' /\ calls'[n0].state = "answered"
  <2>1. n0 \in Waiting => DOMAIN calls' = DOMAIN calls /\ calls'[n0].state = "answered"
    BY <1>7, <1>8, EndOK
  <2>2. QED
    BY <2>1, <1>8 DEF Waiting
<1>11. ASSUME NEW n \in Waiting, n \in Waiting', n \notin excused' PROVE ~IsEnd(queue[1], n)
  <2>1. SUFFICES ASSUME IsEnd(queue[1], n) PROVE FALSE
    OBVIOUS
  <2>2. PICK j \in Kind, h \in Link : calls[n].kind = j /\ calls[n].link = h
    BY <1>11, Caller
  <2>3. Answering(e, j, h) /\ waiter[j][h] = n
    BY <1>1, <1>3, <1>11, <2>1, <2>2, FirstEnd
  <2>4. n = n0
    BY <2>3, <1>5, <1>6
  <2>5. QED
    BY <2>4, <1>10, <1>11
<1>12. \A n \in misled' : n \in misled \/ (n \in DOMAIN calls' /\ calls'[n].state = "answered")
  BY <1>7, <1>10
<1>13. Steady /\ Sourced'
  BY <1>1, <1>9, <1>11, <1>12, TakenService
<1>14. n0 \in Waiting /\ n0 \notin excused => Ends(queue, n0)
  <2>1. n0 \in Waiting /\ n0 \notin excused => IsEnd(queue[1], n0)
    BY <1>1, <1>3, <1>6, <1>8, AnswerEnds
  <2>2. QED
    BY <2>1, <1>2 DEF Ends
<1>15. Replied
  BY <1>7, <1>14 DEF Replied
<1>16. QED
  BY <1>13, <1>15

\* But for call c, which may be carried out, callers that wait on and are not excused
\* are where they were.
Moved(c) ==
  \A n \in Waiting : n \in Waiting' /\ n \notin excused' =>
    /\ calls[n].kind \in Gatt /\ Progress(n) =>
         /\ Progress(n)' /\ (n \in Unexecuted' => n \in Unexecuted)
         /\ n # c => (n \in Unexecuted' <=> n \in Unexecuted)
    /\ calls[n].kind = "bond" =>
         /\ Joined(n) => Joined(n)'
         /\ n # c => (Joined(n)' <=> Joined(n))

LEMMA SteadyMoved == Steady => Moved(None)
  BY DEF Steady, Moved

\* What cmd_work_handler does, and for which call: nothing, refuse it, ask the host, or
\* start a pairing.
LEMMA ExecCases ==
  ASSUME NrfInv, CmdExec
  PROVE  \E m \in MaybeId :
    /\ m = IF cmd.kind = running THEN cmd.call ELSE None
    /\ \/ /\ UNCHANGED <<sec, att>>
          /\ \/ running = "plain" /\ excused' = excused
             \/ excused' = excused \cup ({m} \ {None})
       \/ /\ running \in Gatt /\ sec' = sec /\ excused' = excused
          /\ att' = [att EXCEPT ![cmd.link] = Append(@, [kind |-> running, call |-> m])]
       \/ /\ running = "bond" /\ UNCHANGED <<att, excused>>
          /\ \A h \in Link : h # cmd.link => sec'[h] = sec[h]
<1>1. PICK m : m = IF cmd.kind = running THEN cmd.call ELSE None
  OBVIOUS
<1>2. m \in MaybeId
  BY <1>1 DEF NrfInv, Command, MaybeId
<1>3. \/ running = "plain" /\ UNCHANGED <<sec, att, excused>>
      \/ running \in Kind /\ excused' = excused \cup ({m} \ {None}) /\ UNCHANGED <<sec, att>>
      \/ running \in Gatt /\ StartGatt(running, cmd.link, m) /\ UNCHANGED sec
      \/ running = "bond" /\ StartBond(cmd.link, m) /\ UNCHANGED att
  BY <1>1 DEF CmdExec
<1>4. CASE running \in Gatt /\ StartGatt(running, cmd.link, m) /\ UNCHANGED sec
  BY <1>1, <1>2, <1>4 DEF StartGatt
<1>5. CASE running = "bond" /\ StartBond(cmd.link, m) /\ UNCHANGED att
  <2>1. sec \in [Link -> {"plain", "pairing", "keys", "secured"}] /\ cmd.link \in Link
    BY ExecConcerns DEF NrfInv
  <2>2. \/ excused' = excused /\ \A h \in Link : h # cmd.link => sec'[h] = sec[h]
        \/ excused' = excused \cup ({m} \ {None}) /\ sec' = sec
    BY <1>5, <2>1 DEF StartBond
  <2>3. QED
    BY <1>1, <1>2, <1>5, <2>2
<1>6. QED
  BY <1>1, <1>2, <1>3, <1>4, <1>5

LEMMA ExecService ==
  ASSUME NrfInv, EspInv, AllAssured, Sourced, CmdExec, misled' = misled
  PROVE  /\ Sourced'
         /\ Moved(None) \/ (excused' = excused /\ \E c : Moved(c))
<1>1. /\ running # None /\ running' = None /\ cmd.link \in Link
      /\ work' = work /\ cmd' = (IF work THEN cmd ELSE NoCmd)
      /\ UNCHANGED <<queue, waiter, calls>>
      /\ \A h \in Link : sec[h] \in {"pairing", "keys"} => sec'[h] \in {"pairing", "keys"}
  BY ExecConcerns
<1>2. PICK m \in MaybeId :
    /\ m = IF cmd.kind = running THEN cmd.call ELSE None
    /\ \/ /\ UNCHANGED <<sec, att>>
          /\ \/ running = "plain" /\ excused' = excused
             \/ excused' = excused \cup ({m} \ {None})
       \/ /\ running \in Gatt /\ sec' = sec /\ excused' = excused
          /\ att' = [att EXCEPT ![cmd.link] = Append(@, [kind |-> running, call |-> m])]
       \/ /\ running = "bond" /\ UNCHANGED <<att, excused>>
          /\ \A h \in Link : h # cmd.link => sec'[h] = sec[h]
  BY ExecCases
<1>3. att \in [Link -> Seq(Request)] /\ work \in BOOLEAN
  BY DEF NrfInv
<1>4. PICK r : r = [kind |-> running, call |-> m]
  OBVIOUS
<1>5. running \in Gatt => r \in Request
  BY <1>2, <1>4 DEF Request
<1>6. CallsKept
  BY <1>1, OldCalls
<1>7. ASSUME NEW n
      PROVE  /\ m # n => /\ Requests(att, n)' <=> Requests(att, n)
                         /\ OneRequest(att, n) => OneRequest(att, n)'
             /\ m = n /\ att' # att /\ ~Requests(att, n) => OneRequest(att, n)'
  <2>1. CASE att' = att
    BY <2>1
  <2>2. CASE running \in Gatt /\ att' = [att EXCEPT ![cmd.link] = Append(@, r)]
    <3>1. /\ Requests(att, n)' <=> Requests(att, n) \/ r.call = n
          /\ r.call = n /\ ~Requests(att, n) => OneRequest(att, n)'
          /\ r.call # n /\ OneRequest(att, n) => OneRequest(att, n)'
      BY <2>2, <1>1, <1>3, <1>5, AskedMore
    <3>2. QED
      BY <3>1, <1>4
  <2>3. QED
    BY <2>1, <2>2, <1>2, <1>4
<1>8. ASSUME NEW n \in Waiting, n \notin excused', calls[n].kind \in Gatt, Progress(n)
      PROVE  /\ Progress(n)' /\ (n \in Unexecuted' => n \in Unexecuted)
             /\ n # m \/ att' = att => (n \in Unexecuted' <=> n \in Unexecuted)
  <2>1. n # None /\ calls[n].kind # None /\ calls[n].kind \notin {"bond", "plain"}
    BY <1>8, Caller, GattCallsAssumption DEF Gatt, Kind
  <2>2. Unexecuted = {cmd.call} \ {None} /\ Unexecuted' = IF work THEN Unexecuted ELSE {}
    BY <1>1 DEF Unexecuted, NoCmd
  <2>3. CASE Pending(n) /\ work
    <3>1. m = None /\ m # n
      BY <1>2, <2>1, <2>3 DEF Pending
    <3>2. Pending(n)'
      BY <1>1, <2>1, <2>3 DEF Pending
    <3>3. ~Requests(att, n) /\ ~Ends(queue, n)
      BY <1>8, <2>1, <2>2, <2>3 DEF Progress, Pending
    <3>4. Progress(n)'
      BY <3>1, <3>2, <3>3, <1>1, <1>7 DEF Progress
    <3>5. QED
      BY <2>2, <2>3, <3>4
  <2>4. CASE Pending(n) /\ ~work
    <3>1. m = n /\ running = calls[n].kind
      BY <1>2, <2>4 DEF Pending
    <3>2. ~Requests(att, n) /\ ~Ends(queue, n)
      BY <1>8, <2>1, <2>2, <2>4 DEF Progress, Pending
    <3>3. att' # att
      <4>1. att' = [att EXCEPT ![cmd.link] = Append(@, r)]
        BY <1>2, <1>4, <1>8, <2>1, <3>1
      <4>2. att[cmd.link] \in Seq(Request) /\ r \in Request
        BY <1>1, <1>3, <1>5, <1>8, <3>1
      <4>3. att'[cmd.link] = Append(att[cmd.link], r)
        BY <4>1, <1>1, <1>3
      <4>4. Len(Append(att[cmd.link], r)) # Len(att[cmd.link])
        BY <4>2, Appended
      <4>5. QED
        BY <4>3, <4>4
    <3>4. n \notin Unexecuted' /\ OneRequest(att, n)' /\ ~Ends(queue', n)
      BY <1>1, <1>7, <2>2, <2>4, <3>1, <3>2, <3>3
    <3>5. Progress(n)'
      BY <3>4 DEF Progress
    <3>6. QED
      BY <3>1, <3>3, <3>4, <3>5
  <2>5. CASE ~Pending(n)
    <3>1. n \notin Unexecuted /\ n \notin Unexecuted'
      BY <1>8, <2>2, <2>5 DEF Progress
    <3>2. m # n
      BY <1>2, <2>1, <2>2, <3>1
    <3>3. Progress(n)'
      BY <1>1, <1>7, <1>8, <2>5, <3>1, <3>2 DEF Progress
    <3>4. QED
      BY <3>1, <3>3
  <2>6. QED
    BY <1>3, <2>3, <2>4, <2>5
<1>9. ASSUME NEW n \in Waiting, n \notin excused', calls[n].kind = "bond"
      PROVE  /\ Joined(n) => Joined(n)'
             /\ sec' = sec \/ n # waiter["bond"][cmd.link] => (Joined(n)' <=> Joined(n))
  <2>1. calls[n].link \in Link
    BY <1>9, Caller
  <2>2. Joined(n) => Joined(n)'
    BY <1>1, <2>1 DEF Joined
  <2>3. sec' = sec => (Joined(n)' <=> Joined(n))
    BY <1>1 DEF Joined
  <2>4. ASSUME sec' # sec, n # waiter["bond"][cmd.link] PROVE Joined(n)' <=> Joined(n)
    <3>1. excused' = excused /\ \A h \in Link : h # cmd.link => sec'[h] = sec[h]
      BY <1>2, <2>4
    <3>2. waiter["bond"][calls[n].link] = n
      BY <1>9, <3>1 DEF AllAssured, Assured
    <3>3. sec'[calls[n].link] = sec[calls[n].link]
      BY <2>1, <2>4, <3>1, <3>2
    <3>4. QED
      BY <3>3, <1>1 DEF Joined
  <2>5. QED
    BY <2>2, <2>3, <2>4
<1>10. CASE UNCHANGED <<sec, att>>
  <2>1. Moved(None)
    BY <1>8, <1>9, <1>10 DEF Moved
  <2>2. Sourced'
    <3>1. cmd' = cmd \/ cmd'.call = None
      BY <1>1 DEF NoCmd
    <3>2. QED
      BY <3>1, <1>1, <1>6, <1>10, SourcedKept
  <2>3. QED
    BY <2>1, <2>2
<1>11. CASE /\ running \in Gatt /\ sec' = sec /\ excused' = excused
            /\ att' = [att EXCEPT ![cmd.link] = Append(@, r)]
  <2>1. Moved(m)
    BY <1>8, <1>9, <1>11 DEF Moved
  <2>2. OfCall(m, running)
    BY <1>2 DEF Sourced, OfCall
  <2>3. \A h \in Link : \A j \in DOMAIN att'[h] :
              \/ j \in DOMAIN att[h] /\ att'[h][j] = att[h][j]
              \/ h = cmd.link /\ j = Len(att[cmd.link]) + 1 /\ att'[h][j] = r
    BY <1>1, <1>3, <1>5, <1>11, RequestAdded
  <2>4. OfCall(r.call, r.kind)
    BY <2>2, <1>4
  <2>5. \A h \in Link : \A j \in DOMAIN att'[h] :
          \/ \E g \in Link : \E i \in DOMAIN att[g] : att'[h][j] = att[g][i]
          \/ OfCall(att'[h][j].call, att'[h][j].kind)
    BY <2>3, <2>4
  <2>6. cmd' = cmd \/ cmd'.call = None
    BY <1>1 DEF NoCmd
  <2>7. Sourced'
    BY <2>5, <2>6, <1>1, <1>6, SourcedKept
  <2>8. QED
    BY <2>1, <2>7, <1>11
<1>12. CASE running = "bond" /\ UNCHANGED <<att, excused>>
  <2>1. PICK c : c = waiter["bond"][cmd.link]
    OBVIOUS
  <2>2. Moved(c)
    BY <1>8, <1>9, <1>12, <2>1 DEF Moved
  <2>3. cmd' = cmd \/ cmd'.call = None
    BY <1>1 DEF NoCmd
  <2>4. Sourced'
    BY <2>3, <1>1, <1>6, <1>12, SourcedKept
  <2>5. QED
    BY <2>2, <2>4, <1>12
<1>13. QED
  BY <1>2, <1>4, <1>10, <1>11, <1>12

-----------------------------------------------------------------------------
(* The driver's operations, and links that come and go                      *)

\* No event, request or command comes with the step but a command for call m.
LEMMA WriteSourced ==
  ASSUME Sourced, CallsKept, UNCHANGED <<att, queue, misled>>,
         \/ cmd' = cmd
         \/ cmd'.call # None => cmd'.call \in DOMAIN calls' /\ calls'[cmd'.call].kind = cmd'.kind
  PROVE  Sourced'
  BY SourcedKept

LEMMA NewCallService ==
  ASSUME NrfInv, EspInv, Sourced, NEW k \in Kind, NEW l \in Link, Call(k, l)
  PROVE  /\ Steady /\ Sourced' /\ CallsKept /\ misled' = misled /\ excused \subseteq excused'
         /\ \E n : /\ n = Len(calls) + 1 /\ DOMAIN calls' = DOMAIN calls \cup {n}
                   /\ n \notin DOMAIN calls /\ \A m \in DOMAIN calls : calls'[m] = calls[m]
                   /\ calls'[n].state = "waiting"
                   /\ n \notin excused' /\ calls'[n].kind \in Gatt => Progress(n)'
<1> DEFINE c == [kind |-> k, link |-> l, state |-> "waiting"]
<1>1. c \in CallRecord /\ c.kind = k /\ c.state = "waiting" /\ calls' = Append(calls, c)
  BY DEF CallRecord, Call
<1> HIDE DEF c
<1>2. PICK n : n = Len(calls) + 1
  OBVIOUS
<1>3. /\ DOMAIN calls' = DOMAIN calls \cup {n} /\ calls'[n] = c
      /\ \A m \in DOMAIN calls : calls'[m] = calls[m]
  BY <1>1, <1>2, AppendOK
<1>4. n \notin DOMAIN calls /\ n # None /\ n \in Nat
  BY <1>2, CallIds, GattCallsAssumption
<1>5. CallsKept
  BY <1>1, OldCalls
<1>6. /\ cmd'.kind = k /\ cmd'.call = n /\ work' = TRUE
      /\ UNCHANGED <<sec, running, att, queue, misled>>
      /\ excused' = excused \cup Unexecuted \cup (IF Entangled(k, l) THEN Rivals(k, l) \cup {n} ELSE {})
  BY <1>2 DEF Call, WriteCmd, told
<1>7. excused \subseteq excused' /\ Unexecuted \subseteq excused' /\ n \notin Waiting
  BY <1>4, <1>6 DEF Waiting
<1>8. Steady
  BY <1>5, <1>6, <1>7, WriteSteady
<1>9. Sourced'
  BY <1>1, <1>3, <1>5, <1>6, WriteSourced
<1>10. ASSUME n \notin excused', k \in Gatt PROVE Progress(n)'
  <2>1. running # k
    BY <1>6, <1>10 DEF Entangled
  <2>2. Pending(n)'
    BY <1>1, <1>3, <1>6, <2>1 DEF Pending
  <2>3. ~Requests(att, n)
    BY <1>4 DEF Requests, Sourced, OfCall
  <2>4. ~Ends(queue, n)
    BY <1>4 DEF Ends, IsEnd, Sourced, FromCall, OfCall
  <2>5. ~Requests(att, n)' /\ ~Ends(queue, n)'
    BY <1>6, <2>3, <2>4 DEF Requests, Ends
  <2>6. QED
    BY <2>2, <2>5 DEF Progress
<1>11. calls'[n].state = "waiting" /\ (n \notin excused' /\ calls'[n].kind \in Gatt => Progress(n)')
  BY <1>1, <1>3, <1>10
<1>12. /\ Steady /\ Sourced' /\ CallsKept /\ misled' = misled /\ excused \subseteq excused'
       /\ n \notin DOMAIN calls /\ DOMAIN calls' = DOMAIN calls \cup {n}
       /\ \A m \in DOMAIN calls : calls'[m] = calls[m]
  BY <1>3, <1>4, <1>5, <1>6, <1>7, <1>8, <1>9
<1>13. QED
  BY <1>2, <1>11, <1>12

LEMMA CallFailsService ==
  ASSUME NrfInv, EspInv, Sourced, NEW k \in Kind, NEW l \in Link, CallFails(k, l)
  PROVE  /\ Steady /\ Sourced' /\ CallsKept /\ misled' = misled /\ excused \subseteq excused'
         /\ \E n : /\ n = Len(calls) + 1 /\ DOMAIN calls' = DOMAIN calls \cup {n}
                   /\ n \notin DOMAIN calls /\ \A m \in DOMAIN calls : calls'[m] = calls[m]
                   /\ calls'[n].state = "failed"
<1> DEFINE c == [kind |-> k, link |-> l, state |-> "failed"]
<1>1. c \in CallRecord /\ c.state = "failed" /\ calls' = Append(calls, c)
  BY DEF CallRecord, CallFails
<1> HIDE DEF c
<1>2. PICK n : n = Len(calls) + 1
  OBVIOUS
<1>3. /\ DOMAIN calls' = DOMAIN calls \cup {n} /\ calls'[n] = c
      /\ \A m \in DOMAIN calls : calls'[m] = calls[m]
  BY <1>1, <1>2, AppendOK
<1>4. n \notin DOMAIN calls
  BY <1>2, CallIds
<1>5. CallsKept
  BY <1>1, OldCalls
<1>6. UNCHANGED <<sec, running, att, queue, misled>>
  BY DEF CallFails, told
<1>7. \/ /\ WriteCmd(k, l, None)
         /\ excused' = excused \cup Unexecuted \cup (IF k \in Gatt THEN Rivals(k, l) ELSE {})
      \/ UNCHANGED <<cmd, work, excused>>
  BY DEF CallFails
<1>8. CASE /\ WriteCmd(k, l, None)
           /\ excused' = excused \cup Unexecuted \cup (IF k \in Gatt THEN Rivals(k, l) ELSE {})
  <2>1. cmd'.call = None /\ work' = TRUE /\ Unexecuted \subseteq excused' /\ excused \subseteq excused'
    BY <1>8 DEF WriteCmd
  <2>2. Steady
    BY <1>5, <1>6, <2>1, CallIds, WriteSteady
  <2>3. Sourced'
    BY <1>5, <1>6, <2>1, WriteSourced
  <2>4. QED
    BY <1>1, <1>2, <1>3, <1>4, <1>5, <1>6, <2>1, <2>2, <2>3
<1>9. CASE UNCHANGED <<cmd, work, excused>>
  <2>1. Steady
    BY <1>5, <1>6, <1>9, QuietSteady
  <2>2. Sourced'
    BY <1>5, <1>6, <1>9, WriteSourced
  <2>3. QED
    BY <1>1, <1>2, <1>3, <1>4, <1>5, <1>6, <1>9, <2>1, <2>2
<1>10. QED
  BY <1>7, <1>8, <1>9

LEMMA PlainService ==
  ASSUME NrfInv, EspInv, Sourced, NEW l \in Link, Plain(l)
  PROVE  Steady /\ Sourced'
<1>1. /\ cmd'.call = None /\ work' = TRUE /\ excused' = excused \cup Unexecuted
      /\ UNCHANGED <<sec, running, att, queue, calls, misled>>
  BY DEF Plain, WriteCmd, esp, told
<1>2. CallsKept
  BY <1>1, OldCalls
<1>3. Steady
  BY <1>1, <1>2, CallIds, WriteSteady
<1>4. Sourced'
  BY <1>1, <1>2, WriteSourced
<1>5. QED
  BY <1>3, <1>4

LEMMA TimeoutService ==
  ASSUME NrfInv, EspInv, Sourced, NEW n \in Waiting, Timeout(n)
  PROVE  Steady /\ Sourced' /\ CallsKept
<1>1. UNCHANGED <<sec, cmd, work, running, att, queue, excused, misled>>
      /\ calls' = [calls EXCEPT ![n].state = "timeout"]
  BY DEF Timeout, nrf, told
<1>2. CallsKept
  BY <1>1, OldCalls
<1>3. Steady
  BY <1>1, <1>2, QuietSteady
<1>4. Sourced'
  BY <1>1, <1>2, WriteSourced
<1>5. QED
  BY <1>2, <1>3, <1>4

LEMMA RestartService ==
  ASSUME NrfInv, EspInv, Sourced, Restart
  PROVE  Sourced' /\ CallsKept
<1>1. UNCHANGED <<cmd, att, queue, misled>>
  BY DEF Restart, nrf, told
<1>2. CallsKept
  BY OldCalls
<1>3. Sourced'
  BY <1>1, <1>2, WriteSourced
<1>4. QED
  BY <1>2, <1>3

LEMMA ResetService ==
  ASSUME EspInv, Sourced, Reset
  PROVE  Steady /\ Sourced'
<1>1. /\ Waiting' = Waiting /\ Waiting \subseteq excused' /\ calls' = calls /\ misled' = misled
      /\ cmd'.call = None /\ att' = [l \in Link |-> <<>>] /\ queue' = <<>>
  BY DEF Reset, esp, told, Waiting, NoCmd
<1>2. Steady
  BY <1>1 DEF Steady
<1>3. CallsKept
  BY <1>1, OldCalls
<1>4. DOMAIN queue' = {} /\ \A l \in Link : DOMAIN att'[l] = {}
  BY <1>1
<1>5. Sourced'
  BY <1>1, <1>3, <1>4, SourcedKept
<1>6. QED
  BY <1>2, <1>5

LEMMA UpDownService ==
  ASSUME NrfInv, EspInv, Sourced, NEW l \in Link, LinkUp(l) \/ Drop(l)
  PROVE  Steady /\ Sourced'
<1>1. /\ UNCHANGED <<cmd, work, running, att, queue, calls, misled>>
      /\ sec \in [Link -> {"plain", "pairing", "keys", "secured"}]
  BY DEF LinkUp, Drop, esp, told, NrfInv
<1>2. CallsKept
  BY <1>1, OldCalls
<1>3. ASSUME NEW n \in Waiting, n \notin excused'
      PROVE  sec'[calls[n].link] \in {"pairing", "keys"} <=> sec[calls[n].link] \in {"pairing", "keys"}
  <2>1. PICK h \in Link : h = calls[n].link
    BY <1>3, Caller
  <2>2. CASE LinkUp(l)
    <3>1. PICK s : sec' = [sec EXCEPT ![l] = s]
      BY <2>2 DEF LinkUp
    <3>2. h # l
      BY <2>1, <2>2, <1>3 DEF LinkUp
    <3>3. QED
      BY <1>1, <2>1, <3>1, <3>2
  <2>3. CASE Drop(l)
    <3>1. sec' = [sec EXCEPT ![l] = "plain"] /\ sec[l] \notin {"pairing", "keys"}
      BY <2>3 DEF Drop
    <3>2. QED
      BY <1>1, <2>1, <3>1
  <2>4. QED
    BY <2>2, <2>3
<1>4. Steady
  BY <1>1, <1>2, <1>3, QuietSteady
<1>5. Sourced'
  BY <1>1, <1>2, WriteSourced
<1>6. QED
  BY <1>4, <1>5

-----------------------------------------------------------------------------
(* What the stages are                                                      *)

\* The call is carried out, or still to be.
CarriedOut(n) == IF calls[n].kind = "bond" THEN Joined(n) ELSE n \notin Unexecuted

Settled(n) ==
  IF calls[n].state = "timeout" THEN "given up"
  ELSE IF n \in misled THEN "misled" ELSE calls[n].state

\* The stages at which no call is carried out too early, twice or never, or is still to
\* be answered although it was.
Sound ==
  /\ DOMAIN Stages = DOMAIN calls
  /\ \A n \in DOMAIN calls :
       Stages[n] = IF calls[n].state = "waiting"
                   THEN IF n \in excused THEN "lost"
                        ELSE IF CarriedOut(n) THEN "carried" ELSE "made"
                   ELSE Settled(n)

LEMMA StagesSound == CallsInv /\ AllAssured /\ AllProgress => Sound
<1> SUFFICES ASSUME NrfInv, EspInv, AllAssured, AllProgress PROVE Sound
  BY Halves
<1>1. SUFFICES ASSUME NEW n \in DOMAIN calls
               PROVE  Stage(n) = IF calls[n].state = "waiting"
                                 THEN IF n \in excused THEN "lost"
                                      ELSE IF CarriedOut(n) THEN "carried" ELSE "made"
                                 ELSE Settled(n)
  BY DEF Sound, Stages
<1>2. CASE calls[n].state # "waiting"
  <2>1. n # None
    BY CallIds
  <2>2. calls[n].state # "timeout" => ~\E k \in Kind, l \in Link : waiter[k][l] = n
    BY <1>2, <2>1 DEF EspInv, AnsweredOnce
  <2>3. QED
    BY <1>2, <2>2 DEF Stage, Settled
<1>3. CASE calls[n].state = "waiting" /\ n \in excused
  BY <1>3 DEF Stage
<1>4. ASSUME calls[n].state = "waiting", n \notin excused
      PROVE  Stage(n) = IF CarriedOut(n) THEN "carried" ELSE "made"
  <2>1. n \in Waiting
    BY <1>4 DEF Waiting
  <2>2. PICK k \in Kind, l \in Link : calls[n].kind = k /\ calls[n].link = l /\ n # None
    BY <2>1, Caller
  <2>3. CASE k = "bond"
    <3>1. Stage(n) = BondStage(n) /\ (CarriedOut(n) <=> Joined(n))
      BY <1>4, <2>2, <2>3 DEF Stage, CarriedOut
    <3>2. CASE Joined(n)
      BY <3>1, <3>2 DEF BondStage, Joined
    <3>3. CASE ~Joined(n)
      <4>1. Assured(n, k, l)
        BY <1>4, <2>1, <2>2 DEF AllAssured
      <4>2. ~Answered(queue, results[l], n, k, l)
        <5>1. DOMAIN queue = 1 .. Len(queue)
          BY DEF NrfInv
        <5>2. ~Ends(queue, n)
          BY <3>3 DEF Joined
        <5>3. QED
          BY <5>1, <5>2 DEF Answered, Ends, IsEnd
      <4>3. PICK m : UnderWay(n, k, l, m)
        BY <4>1, <4>2 DEF Assured
      <4>4. Commanded(n, k, l)
        BY <4>3, <3>3, <2>2, <2>3 DEF UnderWay, Requested, Joined, Gatt
      <4>5. n \in Unexecuted
        BY <4>4, <2>2, Overwritten
      <4>6. QED
        BY <3>1, <3>3, <4>5 DEF BondStage, Joined
    <3>4. QED
      BY <3>2, <3>3
  <2>4. CASE k # "bond"
    <3>1. Stage(n) = GattStage(n) /\ (CarriedOut(n) <=> n \notin Unexecuted)
      BY <1>4, <2>2, <2>4 DEF Stage, CarriedOut
    <3>2. Progress(n)
      BY <1>4, <2>1, <2>2, <2>4 DEF AllProgress, Kind
    <3>3. Pending(n) => n \in Unexecuted
      <4>1. k # None
        BY GattCallsAssumption
      <4>2. QED
        BY <4>1, <2>2 DEF Pending, Unexecuted
    <3>4. OneRequest(att, n) => Requests(att, n)
      BY OneIsSome
    <3>5. QED
      BY <3>1, <3>2, <3>3, <3>4 DEF GattStage, Progress
  <2>5. QED
    BY <2>3, <2>4
<1>5. QED
  BY <1>2, <1>3, <1>4

-----------------------------------------------------------------------------
(* Each step is one of the service                                          *)

\* Callers that wait on and are not excused are where they were; c may have been
\* carried out.
Fixed(c) ==
  \A n \in Waiting : n \in Waiting' /\ n \notin excused' =>
    /\ CarriedOut(n) => CarriedOut(n)'
    /\ n # c => (CarriedOut(n)' <=> CarriedOut(n))

LEMMA MovedFixed ==
  ASSUME EspInv, AllProgress, CallsKept, excused \subseteq excused', NEW c, Moved(c)
  PROVE  Fixed(c)
<1>1. SUFFICES ASSUME NEW n \in Waiting, n \in Waiting', n \notin excused'
               PROVE  /\ CarriedOut(n) => CarriedOut(n)'
                      /\ n # c => (CarriedOut(n)' <=> CarriedOut(n))
  BY DEF Fixed
<1>2. n \notin excused /\ calls'[n].kind = calls[n].kind /\ calls[n].kind \in Kind
  BY <1>1, Caller DEF CallsKept
<1>3. CASE calls[n].kind = "bond"
  <2>1. /\ Joined(n) => Joined(n)'
        /\ n # c => (Joined(n)' <=> Joined(n))
    BY <1>1, <1>3 DEF Moved
  <2>2. (CarriedOut(n) <=> Joined(n)) /\ (CarriedOut(n)' <=> Joined(n)')
    BY <1>2, <1>3 DEF CarriedOut
  <2>3. QED
    BY <2>1, <2>2
<1>4. CASE calls[n].kind # "bond"
  <2>1. Progress(n) /\ calls[n].kind \in Gatt
    BY <1>1, <1>2, <1>4 DEF AllProgress, Kind
  <2>2. /\ n \in Unexecuted' => n \in Unexecuted
        /\ n # c => (n \in Unexecuted' <=> n \in Unexecuted)
    BY <1>1, <2>1 DEF Moved
  <2>3. (CarriedOut(n) <=> n \notin Unexecuted) /\ (CarriedOut(n)' <=> n \notin Unexecuted')
    BY <1>2, <1>4 DEF CarriedOut
  <2>4. QED
    BY <2>2, <2>3
<1>5. QED
  BY <1>3, <1>4

LEMMA MovedProgress ==
  ASSUME EspInv, AllProgress, CallsKept, excused \subseteq excused', NEW c, Moved(c),
         \A n \in Waiting' \ Waiting : n \notin excused' /\ calls'[n].kind \in Gatt => Progress(n)'
  PROVE  AllProgress'
<1>1. ASSUME NEW n \in Waiting', n \notin excused', calls'[n].kind \in Gatt
      PROVE  Progress(n)'
  <2>1. CASE n \in Waiting
    <3>1. n \notin excused /\ calls[n].kind \in Gatt
      BY <1>1, <2>1, Caller DEF CallsKept
    <3>2. Progress(n)
      BY <2>1, <3>1 DEF AllProgress
    <3>3. QED
      BY <1>1, <2>1, <3>1, <3>2 DEF Moved
  <2>2. CASE n \notin Waiting
    BY <1>1, <2>2
  <2>3. QED
    BY <2>1, <2>2
<1>2. QED
  BY <1>1 DEF AllProgress

\* The calls that are lost by this step.
LEMMA StageStays ==
  ASSUME Sound, Sound', CallsKept, excused \subseteq excused', NEW n \in DOMAIN calls,
         calls'[n].state = calls[n].state, n \in misled' <=> n \in misled,
         n \in Waiting /\ n \notin excused' => (CarriedOut(n)' <=> CarriedOut(n))
  PROVE  Stages'[n] = IF n \in (Waiting \cap excused') \ excused THEN "lost" ELSE Stages[n]
<1>1. n \in DOMAIN calls' /\ (n \in Waiting <=> calls[n].state = "waiting")
  BY DEF CallsKept, Waiting
<1>2. /\ Stages[n] = IF calls[n].state = "waiting"
                     THEN IF n \in excused THEN "lost"
                          ELSE IF CarriedOut(n) THEN "carried" ELSE "made"
                     ELSE Settled(n)
      /\ Stages'[n] = IF calls'[n].state = "waiting"
                      THEN IF n \in excused' THEN "lost"
                           ELSE IF CarriedOut(n)' THEN "carried" ELSE "made"
                      ELSE Settled(n)'
  BY <1>1 DEF Sound
<1>3. Settled(n)' = Settled(n)
  BY DEF Settled
<1>4. QED
  BY <1>1, <1>2, <1>3

\* Who is lost was on its way.
LEMMA LostOnes ==
  ASSUME Sound
  PROVE  /\ (Waiting \cap excused') \ excused \in SUBSET Service!Losable
         /\ \A n \in Waiting : Stages[n] = IF n \in excused THEN "lost"
                                           ELSE IF CarriedOut(n) THEN "carried" ELSE "made"
  BY DEF Sound, Waiting, Service!Losable, Service!Open

\* The driver's calls stay as they are.
LEMMA QuietStep ==
  ASSUME EspInv, Sound, Sound', CallsKept, excused \subseteq excused', UNCHANGED <<calls, misled>>,
         \/ Fixed(None)
         \/ excused' = excused /\ \E c : Fixed(c)
  PROVE  [Service!Next]_Stages
<1>1. DOMAIN Stages' = DOMAIN calls /\ DOMAIN Stages = DOMAIN calls /\ Waiting' = Waiting
  BY DEF Sound, Waiting
<1>2. CASE Fixed(None)
  <2>1. PICK S \in SUBSET Service!Losable : S = (Waiting \cap excused') \ excused
    BY LostOnes
  <2>2. ASSUME NEW n \in DOMAIN calls
        PROVE  Stages'[n] = IF n \in S THEN "lost" ELSE Stages[n]
    <3>1. n # None
      BY CallIds
    <3>2. n \in Waiting /\ n \notin excused' => (CarriedOut(n)' <=> CarriedOut(n))
      BY <1>1, <1>2, <3>1 DEF Fixed
    <3>3. QED
      BY <2>1, <3>2, StageStays
  <2>3. Stages' = [n \in DOMAIN Stages |-> IF n \in S THEN "lost" ELSE Stages[n]]
    BY <1>1, <2>2 DEF Stages
  <2>4. Service!Lose(S)
    BY <2>3 DEF Service!Lose, Service!Without
  <2>5. QED
    BY <2>4 DEF Service!Next
<1>3. ASSUME excused' = excused, NEW c, Fixed(c) PROVE [Service!Next]_Stages
  <2>1. ASSUME NEW n \in DOMAIN calls, n # c PROVE Stages'[n] = Stages[n]
    <3>1. n \in Waiting /\ n \notin excused' => (CarriedOut(n)' <=> CarriedOut(n))
      BY <1>1, <1>3, <2>1 DEF Fixed
    <3>2. Stages'[n] = IF n \in (Waiting \cap excused') \ excused THEN "lost" ELSE Stages[n]
      BY <3>1, StageStays
    <3>3. QED
      BY <1>3, <3>2
  <2>2. CASE c \in Waiting /\ c \notin excused /\ ~(CarriedOut(c)' <=> CarriedOut(c))
    <3>1. CarriedOut(c)' /\ ~CarriedOut(c) /\ c \in DOMAIN calls
      BY <1>1, <1>3, <2>2, Caller DEF Fixed
    <3>2. Stages[c] = "made"
      BY <2>2, <3>1, LostOnes
    <3>3. Stages'[c] = "carried"
      BY <1>1, <1>3, <2>2, <3>1, Caller DEF Sound
    <3>4. Stages' = [Stages EXCEPT ![c] = "carried"]
      BY <1>1, <2>1, <3>1, <3>3 DEF Stages
    <3>5. Service!Carry(c) /\ c \in DOMAIN Stages
      BY <1>1, <3>1, <3>2, <3>4 DEF Service!Carry
    <3>6. QED
      BY <3>5 DEF Service!Next
  <2>3. CASE ~(c \in Waiting /\ c \notin excused /\ ~(CarriedOut(c)' <=> CarriedOut(c)))
    <3>1. ASSUME NEW n \in DOMAIN calls PROVE Stages'[n] = Stages[n]
      <4>1. CASE n = c
        <5>1. Stages'[n] = IF n \in (Waiting \cap excused') \ excused THEN "lost" ELSE Stages[n]
          BY <1>3, <2>3, <4>1, StageStays
        <5>2. QED
          BY <1>3, <5>1
      <4>2. QED
        BY <2>1, <4>1
    <3>2. Stages' = Stages
      BY <1>1, <3>1 DEF Stages
    <3>3. QED
      BY <3>2
  <2>4. QED
    BY <2>2, <2>3
<1>4. QED
  BY <1>2, <1>3

\* A call is answered.
LEMMA AnswerStep ==
  ASSUME EspInv, Sound, Sound', AllProgress, CallsKept, excused' = excused, OwnAnswer', Fixed(None), Replied
  PROVE  [Service!Next]_Stages
<1>1. CASE UNCHANGED <<calls, misled>>
  BY <1>1, QuietStep
<1>2. ASSUME NEW n \in Waiting,
             /\ calls' = [calls EXCEPT ![n].state = "answered"]
             /\ misled \subseteq misled' /\ misled' \subseteq misled \cup {n}
             /\ n \notin excused => Ends(queue, n)
      PROVE  [Service!Next]_Stages
  <2>1. n \in DOMAIN calls
    BY Caller
  <2>2. /\ DOMAIN calls' = DOMAIN calls
        /\ \A m \in DOMAIN calls : calls'[m].state = IF m = n THEN "answered" ELSE calls[m].state
    BY <1>2, <2>1, EndOK
  <2>3. DOMAIN Stages' = DOMAIN Stages /\ DOMAIN Stages = DOMAIN calls
    BY <2>2 DEF Sound
  <2>4. ASSUME NEW m \in DOMAIN calls, m # n PROVE Stages'[m] = Stages[m]
    <3>1. m # None
      BY CallIds
    <3>2. calls'[m].state = calls[m].state /\ (m \in misled' <=> m \in misled)
      BY <1>2, <2>2, <2>4
    <3>3. m \in Waiting /\ m \notin excused' => (CarriedOut(m)' <=> CarriedOut(m))
      BY <2>2, <3>1, <3>2 DEF Fixed, Waiting
    <3>4. Stages'[m] = IF m \in (Waiting \cap excused') \ excused THEN "lost" ELSE Stages[m]
      BY <3>2, <3>3, StageStays
    <3>5. QED
      BY <3>4
  <2>5. Stages'[n] = IF n \in misled' THEN "misled" ELSE "answered"
    BY <2>1, <2>2 DEF Sound, Settled
  <2>6. PICK s : s = Stages'[n]
    OBVIOUS
  <2>7. Stages' = [Stages EXCEPT ![n] = s]
    BY <2>3, <2>4, <2>6 DEF Stages
  <2>8. CASE n \in excused
    <3>1. Stages[n] = "lost" /\ s \in {"answered", "misled"}
      BY <2>5, <2>6, <2>8, LostOnes
    <3>2. Service!Answer(n, s) /\ n \in DOMAIN Stages
      BY <2>1, <2>3, <2>7, <3>1 DEF Service!Answer
    <3>3. QED
      BY <3>1, <3>2 DEF Service!Next
  <2>9. CASE n \notin excused
    <3>1. s = "answered"
      BY <2>5, <2>6, <2>9 DEF OwnAnswer
    <3>2. CarriedOut(n)
      <4>1. CASE calls[n].kind = "bond"
        BY <1>2, <2>9, <4>1 DEF CarriedOut, Joined
      <4>2. CASE calls[n].kind # "bond"
        <5>1. Progress(n)
          BY <2>9, <4>2, Caller DEF AllProgress, Kind
        <5>2. QED
          BY <1>2, <2>9, <4>2, <5>1 DEF Progress, CarriedOut
      <4>3. QED
        BY <4>1, <4>2
    <3>3. Stages[n] = "carried"
      BY <2>9, <3>2, LostOnes
    <3>4. Service!Answer(n, s) /\ n \in DOMAIN Stages
      BY <2>1, <2>3, <2>7, <3>1, <3>3 DEF Service!Answer
    <3>5. QED
      BY <3>1, <3>4 DEF Service!Next
  <2>10. QED
    BY <2>8, <2>9
<1>3. QED
  BY <1>1, <1>2 DEF Replied

\* A caller gives up.
LEMMA TimeoutStep ==
  ASSUME EspInv, Sound, Sound', CallsKept, excused' = excused, misled' = misled, Fixed(None),
         NEW n \in Waiting, calls' = [calls EXCEPT ![n].state = "timeout"]
  PROVE  [Service!Next]_Stages
<1>1. n \in DOMAIN calls
  BY Caller
<1>2. /\ DOMAIN calls' = DOMAIN calls
      /\ \A m \in DOMAIN calls : calls'[m].state = IF m = n THEN "timeout" ELSE calls[m].state
  BY <1>1, EndOK
<1>3. DOMAIN Stages' = DOMAIN Stages /\ DOMAIN Stages = DOMAIN calls
  BY <1>2 DEF Sound
<1>4. ASSUME NEW m \in DOMAIN calls, m # n PROVE Stages'[m] = Stages[m]
  <2>1. m # None
    BY CallIds
  <2>2. calls'[m].state = calls[m].state
    BY <1>2, <1>4
  <2>3. m \in Waiting /\ m \notin excused' => (CarriedOut(m)' <=> CarriedOut(m))
    BY <1>2, <2>1, <2>2 DEF Fixed, Waiting
  <2>4. Stages'[m] = IF m \in (Waiting \cap excused') \ excused THEN "lost" ELSE Stages[m]
    BY <2>2, <2>3, StageStays
  <2>5. QED
    BY <2>4
<1>5. Stages'[n] = "given up"
  <2>1. n \in DOMAIN calls' /\ calls'[n].state = "timeout"
    BY <1>1, <1>2
  <2>2. Stages'[n] = Settled(n)'
    BY <2>1 DEF Sound
  <2>3. QED
    BY <2>1, <2>2 DEF Settled
<1>6. Stages[n] \in {"made", "carried", "lost"}
  BY LostOnes
<1>7. Stages' = [Stages EXCEPT ![n] = "given up"]
  BY <1>3, <1>4, <1>5 DEF Stages
<1>8. Service!GiveUp(n) /\ n \in DOMAIN Stages
  BY <1>1, <1>3, <1>6, <1>7 DEF Service!GiveUp, Service!Waits, Service!Open
<1>9. QED
  BY <1>8 DEF Service!Next

\* The driver restarts.
LEMMA RestartStep ==
  ASSUME EspInv, Sourced, Sound, Sound', Restart
  PROVE  [Service!Next]_Stages
<1>1. /\ calls' = [n \in DOMAIN calls |->
                     IF n \in Waiting THEN [calls[n] EXCEPT !.state = "failed"] ELSE calls[n]]
      /\ misled' = misled
  BY DEF Restart, told
<1>2. DOMAIN calls' = DOMAIN calls /\ DOMAIN Stages' = DOMAIN Stages /\ DOMAIN Stages = DOMAIN calls
  BY <1>1 DEF Sound
<1>3. ASSUME NEW n \in DOMAIN calls
      PROVE  Stages'[n] = IF Stages[n] \in {"made", "carried", "lost"} THEN "failed" ELSE Stages[n]
  <2>1. CASE n \in Waiting
    <3>1. calls[n] \in CallRecord /\ calls'[n] = [calls[n] EXCEPT !.state = "failed"]
      BY <1>1, <1>3, <2>1 DEF EspInv
    <3>2. calls'[n].state = "failed" /\ n \notin misled
      BY <2>1, <3>1 DEF CallRecord, Sourced, Waiting
    <3>3. Stages'[n] = "failed"
      BY <1>1, <1>2, <3>2 DEF Sound, Settled
    <3>4. Stages[n] \in {"made", "carried", "lost"}
      BY <2>1, LostOnes
    <3>5. QED
      BY <3>3, <3>4
  <2>2. CASE n \notin Waiting
    <3>1. calls'[n] = calls[n] /\ calls[n].state # "waiting" /\ calls[n] \in CallRecord
      BY <1>1, <1>3, <2>2 DEF Waiting, EspInv
    <3>2. Stages[n] = Settled(n) /\ Stages'[n] = Settled(n)'
      BY <1>2, <3>1 DEF Sound
    <3>3. Settled(n)' = Settled(n) /\ Settled(n) \notin {"made", "carried", "lost"}
      BY <1>1, <3>1 DEF Settled, CallRecord
    <3>4. QED
      BY <3>2, <3>3
  <2>3. QED
    BY <2>1, <2>2
<1>4. Service!Fail
  BY <1>2, <1>3 DEF Service!Fail, Service!Waits, Service!Open, Stages
<1>5. QED
  BY <1>4 DEF Service!Next


\* A call is made.
LEMMA MakeStep ==
  ASSUME EspInv, Sourced, Sound, Sound', CallsKept, excused \subseteq excused', misled' = misled,
         Fixed(None), NEW n, n = Len(calls) + 1, n \notin DOMAIN calls,
         DOMAIN calls' = DOMAIN calls \cup {n}, \A m \in DOMAIN calls : calls'[m] = calls[m],
         calls'[n].state \in {"waiting", "failed"}
  PROVE  [Service!Next]_Stages
<1>1. PICK N \in Nat : N = Len(calls)
  BY CallIds
<1>2. /\ DOMAIN calls = 1 .. N /\ n = N + 1 /\ DOMAIN calls' = 1 .. N + 1
      /\ DOMAIN Stages = 1 .. N /\ DOMAIN Stages' = 1 .. N + 1
  <2>1. DOMAIN calls = 1 .. N /\ n = N + 1
    BY <1>1, CallIds
  <2>2. DOMAIN calls' = 1 .. N + 1
    BY <2>1
  <2>3. QED
    BY <2>1, <2>2 DEF Sound
<1>3. PICK S \in SUBSET Service!Losable : S = (Waiting \cap excused') \ excused
  BY LostOnes
<1>4. ASSUME NEW m \in 1 .. N PROVE Stages'[m] = IF m \in S THEN "lost" ELSE Stages[m]
  <2>1. m \in DOMAIN calls /\ calls'[m].state = calls[m].state /\ m # None
    BY <1>2, CallIds
  <2>2. m \in Waiting /\ m \notin excused' => (CarriedOut(m)' <=> CarriedOut(m))
    BY <1>2, <2>1 DEF Fixed, Waiting
  <2>3. QED
    BY <1>3, <2>1, <2>2, StageStays
<1>5. PICK t : t = Stages'[n]
  OBVIOUS
<1>6. t \in {"made", "carried", "lost", "failed"}
  <2>1. n \in DOMAIN calls' /\ n \notin misled'
    BY <1>2 DEF Sourced
  <2>2. Stages'[n] = IF calls'[n].state = "waiting"
                     THEN IF n \in excused' THEN "lost"
                          ELSE IF CarriedOut(n)' THEN "carried" ELSE "made"
                     ELSE Settled(n)'
    BY <2>1 DEF Sound
  <2>3. CASE calls'[n].state = "waiting"
    BY <1>5, <2>2, <2>3
  <2>4. CASE calls'[n].state = "failed"
    BY <1>5, <2>1, <2>2, <2>4 DEF Settled
  <2>5. QED
    BY <2>3, <2>4
<1>7. PICK w : w = [m \in DOMAIN Stages |-> IF m \in S THEN "lost" ELSE Stages[m]]
  OBVIOUS
<1>8. DOMAIN w = 1 .. N /\ \A m \in 1 .. N : Stages'[m] = w[m]
  BY <1>2, <1>4, <1>7
<1>9. Len(w) = N
  BY <1>7, <1>8
<1>10. Append(w, t) = [m \in 1 .. N + 1 |-> IF m = N + 1 THEN t ELSE w[m]]
  <2>1. PICK A : A = {w[m] : m \in 1 .. N} \cup {t}
    OBVIOUS
  <2>2. w \in Seq(A) /\ t \in A
    <3>1. w = [m \in 1 .. N |-> w[m]]
      BY <1>7, <1>8
    <3>2. \A m \in 1 .. N : w[m] \in A
      BY <2>1
    <3>3. w \in Seq(A)
      BY <3>1, <3>2, SeqDef
    <3>4. QED
      BY <2>1, <3>3
  <2>3. PICK v : v = Append(w, t)
    OBVIOUS
  <2>4. v \in Seq(A) /\ Len(v) = N + 1 /\ v[N + 1] = t /\ \A m \in 1 .. N : v[m] = w[m]
    BY <1>9, <2>2, <2>3, Appended
  <2>5. v = [m \in 1 .. N + 1 |-> v[m]]
    BY <2>4
  <2>6. \A m \in 1 .. N + 1 : v[m] = IF m = N + 1 THEN t ELSE w[m]
    BY <2>4
  <2>7. [m \in 1 .. N + 1 |-> v[m]] = [m \in 1 .. N + 1 |-> IF m = N + 1 THEN t ELSE w[m]]
    BY ONLY <2>6
  <2>8. QED
    BY <2>3, <2>5, <2>7
<1>11. Stages' = Append(w, t)
  <2>1. Stages' = [m \in 1 .. N + 1 |-> Stages'[m]]
    <3>1. Stages' = [m \in DOMAIN Stages' |-> Stages'[m]]
      BY DEF Stages
    <3>2. QED
      BY ONLY <3>1, <1>2
  <2>2. \A m \in 1 .. N + 1 : Stages'[m] = IF m = N + 1 THEN t ELSE w[m]
    BY <1>2, <1>5, <1>8
  <2>3. [m \in 1 .. N + 1 |-> Stages'[m]] = [m \in 1 .. N + 1 |-> IF m = N + 1 THEN t ELSE w[m]]
    BY ONLY <2>2
  <2>4. QED
    BY ONLY <1>10, <2>1, <2>3
<1>12. Service!Make(S, t)
  BY <1>7, <1>11 DEF Service!Make, Service!Without
<1>13. t \in Service!Waits \cup {"failed"}
  BY <1>6 DEF Service!Waits, Service!Open
<1>14. QED
  BY <1>12, <1>13 DEF Service!Next

-----------------------------------------------------------------------------
(* What a step does to the calls: to none, an answer, a caller that gives   *)
(* up, a restart, or a new call                                             *)

Ongoing ==
  /\ UNCHANGED <<calls, misled>>
  /\ Moved(None) \/ (excused' = excused /\ \E c : Moved(c))

GivenAnswer == Replied /\ excused' = excused /\ Moved(None)

GivenUp ==
  /\ UNCHANGED <<excused, misled>> /\ Moved(None)
  /\ \E n \in Waiting : calls' = [calls EXCEPT ![n].state = "timeout"]

Made ==
  /\ misled' = misled /\ Moved(None)
  /\ \E n : /\ n = Len(calls) + 1 /\ DOMAIN calls' = DOMAIN calls \cup {n}
            /\ n \notin DOMAIN calls /\ \A m \in DOMAIN calls : calls'[m] = calls[m]
            /\ calls'[n].state \in {"waiting", "failed"}
            /\ calls'[n].state = "waiting" /\ n \notin excused' /\ calls'[n].kind \in Gatt =>
                 Progress(n)'

ServiceInv == CallsInv /\ AllAssured /\ OwnAnswer /\ Sourced /\ AllProgress

LEMMA InitService == Init => Sourced /\ AllProgress
<1> SUFFICES ASSUME Init PROVE Sourced /\ AllProgress
  OBVIOUS
<1>1. /\ cmd.call = None /\ att = [l \in Link |-> <<>>] /\ queue = <<>> /\ misled = {} /\ calls = <<>>
  BY DEF Init, NoCmd
<1>2. DOMAIN queue = {} /\ DOMAIN calls = {} /\ \A l \in Link : DOMAIN att[l] = {}
  BY <1>1
<1>3. QED
  BY <1>1, <1>2 DEF Sourced, OfCall, AllProgress, Waiting

LEMMA StepKinds ==
  ServiceInv /\ [Next]_vars =>
    /\ Sourced' /\ CallsKept /\ excused \subseteq excused'
    /\ Ongoing \/ GivenAnswer \/ GivenUp \/ Restart \/ Made
<1> SUFFICES ASSUME NrfInv, EspInv, AllAssured, OwnAnswer, Sourced, AllProgress, [Next]_vars
             PROVE  /\ Sourced' /\ CallsKept /\ excused \subseteq excused'
                    /\ Ongoing \/ GivenAnswer \/ GivenUp \/ Restart \/ Made
  BY Halves DEF ServiceInv
<1> DEFINE Goal == /\ Sourced' /\ CallsKept /\ excused \subseteq excused'
                   /\ Ongoing \/ GivenAnswer \/ GivenUp \/ Restart \/ Made
<1>1. ASSUME Steady, Sourced', UNCHANGED <<calls, misled>>, excused \subseteq excused' PROVE Goal
  BY <1>1, SteadyMoved, OldCalls DEF Ongoing
<1>2. ASSUME NEW k \in Kind, NEW l \in Link, Call(k, l) PROVE Goal
  <2>1. /\ Steady /\ Sourced' /\ CallsKept /\ misled' = misled /\ excused \subseteq excused'
        /\ \E n : /\ n = Len(calls) + 1 /\ DOMAIN calls' = DOMAIN calls \cup {n}
                  /\ n \notin DOMAIN calls /\ \A m \in DOMAIN calls : calls'[m] = calls[m]
                  /\ calls'[n].state = "waiting"
                  /\ n \notin excused' /\ calls'[n].kind \in Gatt => Progress(n)'
    BY <1>2, NewCallService
  <2>2. Made
    BY <2>1, SteadyMoved DEF Made
  <2>3. QED
    BY <2>1, <2>2
<1>3. ASSUME NEW k \in Kind, NEW l \in Link, CallFails(k, l) PROVE Goal
  <2>1. /\ Steady /\ Sourced' /\ CallsKept /\ misled' = misled /\ excused \subseteq excused'
        /\ \E n : /\ n = Len(calls) + 1 /\ DOMAIN calls' = DOMAIN calls \cup {n}
                  /\ n \notin DOMAIN calls /\ \A m \in DOMAIN calls : calls'[m] = calls[m]
                  /\ calls'[n].state = "failed"
    BY <1>3, CallFailsService
  <2>2. Made
    BY <2>1, SteadyMoved DEF Made
  <2>3. QED
    BY <2>1, <2>2
<1>4. ASSUME NEW l \in Link, Plain(l) PROVE Goal
  <2>1. UNCHANGED <<calls, misled>> /\ excused \subseteq excused'
    BY <1>4 DEF Plain, esp, told
  <2>2. QED
    BY <1>1, <1>4, <2>1, PlainService
<1>5. ASSUME NEW n \in Waiting, Timeout(n) PROVE Goal
  <2>1. /\ UNCHANGED <<excused, misled>>
        /\ calls' = [calls EXCEPT ![n].state = "timeout"]
    BY <1>5 DEF Timeout, told
  <2>2. Steady /\ Sourced' /\ CallsKept
    BY <1>5, TimeoutService
  <2>3. GivenUp
    BY <2>1, <2>2, SteadyMoved DEF GivenUp
  <2>4. QED
    BY <2>1, <2>2, <2>3
<1>6. CASE Restart
  BY <1>6, RestartService DEF Restart
<1>7. CASE Reset
  <2>1. UNCHANGED <<calls, misled>> /\ excused \subseteq excused'
    BY <1>7 DEF Reset, esp, told
  <2>2. QED
    BY <1>1, <1>7, <2>1, ResetService
<1>8. CASE CmdStart
  <2>1. UNCHANGED <<cmd, att, queue, calls, misled, excused>>
    BY <1>8 DEF CmdStart, esp, told
  <2>2. CallsKept
    BY <2>1, OldCalls
  <2>3. Steady /\ Sourced'
    BY <1>8, <2>1, <2>2, StartSteady, WriteSourced
  <2>4. QED
    BY <1>1, <2>1, <2>3
<1>9. CASE CmdExec
  <2>1. UNCHANGED <<calls, misled>> /\ excused \subseteq excused'
    BY <1>9, ExecConcerns DEF CmdExec, told
  <2>2. /\ Sourced'
        /\ Moved(None) \/ (excused' = excused /\ \E c : Moved(c))
    BY <1>9, <2>1, ExecService
  <2>3. QED
    BY <2>1, <2>2, OldCalls DEF Ongoing
<1>10. ASSUME NEW l \in Link, NEW good \in BOOLEAN, HostAnswers(l, good) PROVE Goal
  <2>1. UNCHANGED <<calls, misled>> /\ excused \subseteq excused'
    BY <1>10 DEF HostAnswers, Push, esp, told
  <2>2. QED
    BY <1>1, <1>10, <2>1, HostService
<1>11. ASSUME NEW l \in Link, Encrypted(l) \/ PairingComplete(l) \/ PairingFails(l) PROVE Goal
  <2>1. UNCHANGED <<calls, misled>> /\ excused \subseteq excused'
    BY <1>11 DEF Encrypted, PairingComplete, PairingFails, Push, esp, told
  <2>2. QED
    BY <1>1, <1>11, <2>1, SecurityService
<1>12. ASSUME NEW l \in Link, LinkUp(l) \/ Drop(l) PROVE Goal
  <2>1. UNCHANGED <<calls, misled>> /\ excused \subseteq excused'
    BY <1>12 DEF LinkUp, Drop, esp, told
  <2>2. QED
    BY <1>1, <1>12, <2>1, UpDownService
<1>13. ASSUME NEW k \in Kind, NEW right, NEW ok, NEW kinds, kinds \subseteq Answers(k),
              Drained(kinds), Reply(k, right, ok), k = "discover" => Head(queue).char = None
       PROVE  Goal
  <2>1. Steady /\ Sourced' /\ Replied /\ excused' = excused
    BY <1>13, ReplyService DEF Drained
  <2>2. CallsKept
    BY <2>1, OldCalls DEF Replied
  <2>3. GivenAnswer
    BY <2>1, SteadyMoved DEF GivenAnswer
  <2>4. QED
    BY <2>1, <2>2, <2>3
<1>14. /\ {"read"} \subseteq Answers("read") /\ {"write"} \subseteq Answers("write")
       /\ {"bond"} \subseteq Answers("bond") /\ {"enc"} \subseteq Answers("bond")
       /\ {"discover"} \subseteq Answers("discover")
       /\ "discover" \in Kind /\ "read" \in Kind /\ "write" \in Kind /\ "bond" \in Kind
  BY DEF Answers, Kind, Gatt
<1>15. CASE ReadRsp
  BY <1>13, <1>14, <1>15 DEF ReadRsp
<1>16. CASE WriteRsp
  BY <1>13, <1>14, <1>16 DEF WriteRsp
<1>17. CASE BondComplete
  BY <1>13, <1>14, <1>17 DEF BondComplete
<1>18. CASE EncChange
  BY <1>13, <1>14, <1>18 DEF EncChange
<1>19. CASE ServicesEntry
  <2>1. UNCHANGED <<calls, misled>> /\ excused \subseteq excused'
    BY <1>19 DEF ServicesEntry, Drained, told
  <2>2. QED
    BY <1>1, <1>19, <2>1, EntryService
<1>20. CASE ServicesDone
  <2>1. PICK right : right = (Head(queue).good => results[Head(queue).link] = Whole(Head(queue).link))
    OBVIOUS
  <2>2. Drained({"discover"}) /\ Head(queue).char = None /\ Reply("discover", right, TRUE)
    BY <1>20, <2>1 DEF ServicesDone
  <2>3. QED
    BY <1>13, <1>14, <2>2
<1>21. CASE UNCHANGED vars
  <2>1. UNCHANGED <<sec, cmd, work, running, att, queue, calls, misled, excused>>
    BY <1>21 DEF vars, nrf, esp, told
  <2>2. CallsKept
    BY <2>1, OldCalls
  <2>3. Steady /\ Sourced'
    BY <2>1, <2>2, QuietSteady, WriteSourced
  <2>4. QED
    BY <1>1, <2>1, <2>3
<1>22. QED
  BY <1>2, <1>3, <1>4, <1>5, <1>6, <1>7, <1>8, <1>9, <1>10, <1>11, <1>12, <1>15, <1>16,
     <1>17, <1>18, <1>19, <1>20, <1>21 DEF Next

LEMMA StepProgress ==
  ASSUME EspInv, AllProgress, CallsKept, excused \subseteq excused',
         Ongoing \/ GivenAnswer \/ GivenUp \/ Restart \/ Made
  PROVE  AllProgress'
<1>1. CASE Ongoing
  <2>1. Waiting' = Waiting
    BY <1>1 DEF Ongoing, Waiting
  <2>2. QED
    BY <1>1, <2>1, MovedProgress DEF Ongoing
<1>2. CASE GivenAnswer \/ GivenUp
  <2>1. \/ calls' = calls
        \/ \E n \in Waiting, s \in {"answered", "timeout"} : calls' = [calls EXCEPT ![n].state = s]
    BY <1>2 DEF GivenAnswer, Replied, GivenUp
  <2>2. Waiting' \subseteq Waiting
    <3>1. CASE calls' = calls
      BY <3>1 DEF Waiting
    <3>2. ASSUME NEW n \in Waiting, NEW s \in {"answered", "timeout"},
                 calls' = [calls EXCEPT ![n].state = s]
          PROVE  Waiting' \subseteq Waiting
      <4>1. /\ DOMAIN calls' = DOMAIN calls
            /\ \A m \in DOMAIN calls : calls'[m].state = IF m = n THEN s ELSE calls[m].state
        BY <3>2, Caller, EndOK
      <4>2. QED
        BY <4>1 DEF Waiting
    <3>3. QED
      BY <2>1, <3>1, <3>2
  <2>3. Moved(None)
    BY <1>2 DEF GivenAnswer, GivenUp
  <2>4. QED
    BY <2>2, <2>3, MovedProgress
<1>3. CASE Restart
  <2>1. Waiting' = {}
    <3>1. calls' = [n \in DOMAIN calls |->
                      IF n \in Waiting THEN [calls[n] EXCEPT !.state = "failed"] ELSE calls[n]]
      BY <1>3 DEF Restart
    <3>2. ASSUME NEW n \in Waiting' PROVE FALSE
      <4>1. n \in DOMAIN calls /\ calls'[n].state = "waiting"
        BY <3>1, <3>2 DEF Waiting
      <4>2. calls[n] \in CallRecord
        BY <4>1 DEF EspInv
      <4>3. QED
        BY <3>1, <4>1, <4>2 DEF Waiting, CallRecord
    <3>3. QED
      BY <3>2
  <2>2. QED
    BY <2>1 DEF AllProgress
<1>4. CASE Made
  <2>1. PICK n : /\ n = Len(calls) + 1 /\ DOMAIN calls' = DOMAIN calls \cup {n}
                 /\ n \notin DOMAIN calls /\ \A m \in DOMAIN calls : calls'[m] = calls[m]
                 /\ calls'[n].state \in {"waiting", "failed"}
                 /\ calls'[n].state = "waiting" /\ n \notin excused' /\ calls'[n].kind \in Gatt =>
                      Progress(n)'
    BY <1>4 DEF Made
  <2>2. \A m \in Waiting' \ Waiting : m = n /\ calls'[m].state = "waiting"
    BY <2>1 DEF Waiting
  <2>3. Moved(None)
    BY <1>4 DEF Made
  <2>4. QED
    BY <2>1, <2>2, <2>3, MovedProgress
<1>5. QED
  BY <1>1, <1>2, <1>3, <1>4

LEMMA ServiceStep ==
  ASSUME ServiceInv, Sound, Sound', OwnAnswer', [Next]_vars
  PROVE  [Service!Next]_Stages
<1>1. /\ Sourced' /\ CallsKept /\ excused \subseteq excused'
      /\ Ongoing \/ GivenAnswer \/ GivenUp \/ Restart \/ Made
  BY StepKinds
<1>2. EspInv /\ AllProgress /\ Sourced
  BY Halves DEF ServiceInv
<1>3. \A c : Moved(c) => Fixed(c)
  BY <1>1, <1>2, MovedFixed
<1>4. CASE Ongoing
  BY <1>1, <1>2, <1>3, <1>4, QuietStep DEF Ongoing
<1>5. CASE GivenAnswer
  BY <1>1, <1>2, <1>3, <1>5, AnswerStep DEF GivenAnswer
<1>6. CASE GivenUp
  BY <1>1, <1>2, <1>3, <1>6, TimeoutStep DEF GivenUp
<1>7. CASE Restart
  BY <1>2, <1>7, RestartStep
<1>8. CASE Made
  BY <1>1, <1>2, <1>3, <1>8, MakeStep DEF Made
<1>9. QED
  BY <1>1, <1>4, <1>5, <1>6, <1>7, <1>8

LEMMA StepService == ServiceInv /\ [Next]_vars => ServiceInv'
<1> SUFFICES ASSUME ServiceInv, [Next]_vars PROVE ServiceInv'
  OBVIOUS
<1>1. CallsInv' /\ AllAssured' /\ OwnAnswer'
  BY StepInv, StepAssured DEF ServiceInv
<1>2. Sourced' /\ AllProgress'
  BY StepKinds, StepProgress, Halves DEF ServiceInv
<1>3. QED
  BY <1>1, <1>2 DEF ServiceInv

\* What the callers see is the service: a call that was not lost is carried out exactly
\* once before it is answered, and answered once.
THEOREM ServiceKept == Spec => ServiceSpec
<1>1. Init => ServiceInv /\ Service!Init
  <2>1. Init => Stages = <<>>
    BY DEF Init, Stages
  <2>2. QED
    BY <2>1, InitInv, InitAssured, InitService DEF ServiceInv, Service!Init
<1>2. ServiceInv => Sound /\ OwnAnswer
  BY StagesSound DEF ServiceInv
<1>3. ServiceInv /\ Sound /\ Sound' /\ OwnAnswer' /\ [Next]_vars => [Service!Next]_Stages
  BY ServiceStep
<1>4. QED
  BY <1>1, <1>2, <1>3, StepService, PTL DEF Spec, ServiceSpec, Service!Spec

-----------------------------------------------------------------------------
(* What writes and bonds are told                                           *)

\* The first event that will answer the caller of n, of kind k on l, says how the
\* operation ended, and is queued when it ends.
Truth(n, k, l) ==
  /\ outcome[n] # "open" => \E i \in DOMAIN queue : Answering(queue[i], k, l)
  /\ \A i \in DOMAIN queue : Answering(queue[i], k, l) =>
       /\ outcome[n] # "open"
       /\ \/ queue[i].good <=> outcome[n] # "failed"
          \/ \E j \in 1 .. i - 1 : Answering(queue[j], k, l)

AllTrue == \A n \in Watched \ excused : Truth(n, calls[n].kind, calls[n].link)

HonestInv ==
  /\ HonestOutcome /\ AllTrue
  /\ \A n \in oks : n \in DOMAIN calls /\ calls[n].state = "answered"
  /\ \A n \in CallId \ DOMAIN calls : outcome[n] = "open"

\* How n ended stays as it is, but for the keys of a bond.
SameOutcome(n) ==
  /\ outcome'[n] = "open" <=> outcome[n] = "open"
  /\ outcome'[n] = "failed" <=> outcome[n] = "failed"

LEMMA TruthKept ==
  ASSUME NEW n, NEW k, NEW l, Truth(n, k, l), queue' = queue, SameOutcome(n)
  PROVE  Truth(n, k, l)'
  BY DEF Truth, SameOutcome

\* An event that answers nobody of kind k on l is drained.
LEMMA TruthTail ==
  ASSUME queue \in Seq(QueuedEvent), queue # <<>>, queue' = Tail(queue), outcome' = outcome,
         NEW n, NEW k, NEW l, Truth(n, k, l), ~Answering(queue[1], k, l)
  PROVE  Truth(n, k, l)'
<1>1. /\ Len(queue) \in Nat \ {0} /\ DOMAIN queue = 1 .. Len(queue)
      /\ DOMAIN queue' = 1 .. Len(queue) - 1
      /\ \A i \in 1 .. Len(queue) - 1 : queue'[i] = queue[i + 1]
  BY Tailed
<1>2. outcome[n] # "open" => \E i \in DOMAIN queue' : Answering(queue'[i], k, l)
  <2>1. SUFFICES ASSUME outcome[n] # "open" PROVE \E i \in DOMAIN queue' : Answering(queue'[i], k, l)
    OBVIOUS
  <2>2. PICK i \in DOMAIN queue : Answering(queue[i], k, l)
    BY <2>1 DEF Truth
  <2>3. i # 1
    BY <2>2
  <2>4. i - 1 \in 1 .. Len(queue) - 1 /\ (i - 1) + 1 = i
    BY <1>1, <2>3
  <2>5. queue'[i - 1] = queue[i]
    BY <1>1, <2>4
  <2>6. QED
    BY <1>1, <2>2, <2>4, <2>5
<1>3. ASSUME NEW i \in DOMAIN queue', Answering(queue'[i], k, l)
      PROVE  /\ outcome[n] # "open"
             /\ \/ queue'[i].good <=> outcome[n] # "failed"
                \/ \E j \in 1 .. i - 1 : Answering(queue'[j], k, l)
  <2>1. i \in 1 .. Len(queue) - 1 /\ i + 1 \in DOMAIN queue /\ queue'[i] = queue[i + 1]
    BY <1>1
  <2>2. /\ outcome[n] # "open"
        /\ \/ queue[i + 1].good <=> outcome[n] # "failed"
           \/ \E j \in 1 .. (i + 1) - 1 : Answering(queue[j], k, l)
    BY <1>3, <2>1 DEF Truth
  <2>3. ASSUME NEW j \in 1 .. (i + 1) - 1, Answering(queue[j], k, l)
        PROVE  \E h \in 1 .. i - 1 : Answering(queue'[h], k, l)
    <3>1. j # 1
      BY <2>3
    <3>2. j - 1 \in 1 .. i - 1 /\ j - 1 \in 1 .. Len(queue) - 1 /\ (j - 1) + 1 = j
      BY <1>1, <2>1, <3>1
    <3>3. queue'[j - 1] = queue[j]
      BY <1>1, <3>2
    <3>4. QED
      BY <2>3, <3>2, <3>3
  <2>4. QED
    BY <2>1, <2>2, <2>3
<1>4. QED
  BY <1>2, <1>3 DEF Truth

\* Nothing but e, and after it what answers the same, is queued.
Pushed(e) ==
  /\ queue \in Seq(QueuedEvent) /\ queue' \in Seq(QueuedEvent) /\ Len(queue) <= Len(queue')
  /\ \A i \in 1 .. Len(queue) : queue'[i] = queue[i]
  /\ Len(queue) < Len(queue') => queue'[Len(queue) + 1] = e
  /\ \A i \in Len(queue) + 1 .. Len(queue') : queue'[i].kind = e.kind /\ queue'[i].link = e.link

\* An operation ends, of n or of another: its event is what n is told, if it is the first.
LEMMA TruthPushed ==
  ASSUME NEW n, NEW k \in {"write", "bond"}, NEW l, Truth(n, k, l), Assured(n, k, l)',
         NEW e \in QueuedEvent, NEW how, Pushed(e), how # "open", e.good <=> how # "failed",
         IF e.call = n /\ outcome[n] = "open"
           THEN outcome'[n] = how /\ Answering(e, k, l) /\ Len(queue) < Len(queue')
           ELSE SameOutcome(n)
  PROVE  Truth(n, k, l)'
<1>1. /\ Len(queue) \in Nat /\ Len(queue') \in Nat /\ Len(queue) <= Len(queue')
      /\ DOMAIN queue = 1 .. Len(queue) /\ DOMAIN queue' = 1 .. Len(queue')
      /\ \A i \in 1 .. Len(queue) : queue'[i] = queue[i]
  BY DEF Pushed
<1>2. \A i \in Len(queue) + 1 .. Len(queue') : Answering(queue'[i], k, l) <=> Answering(e, k, l)
  BY DEF Pushed, Answering
<1>3. CASE outcome[n] # "open"
  <2>1. PICK f \in 1 .. Len(queue) : Answering(queue[f], k, l)
    BY <1>1, <1>3 DEF Truth
  <2>2. SameOutcome(n)
    BY <1>3
  <2>3. f \in DOMAIN queue' /\ Answering(queue'[f], k, l)
    BY <1>1, <2>1
  <2>4. ASSUME NEW i \in DOMAIN queue', Answering(queue'[i], k, l)
        PROVE  \/ queue'[i].good <=> outcome'[n] # "failed"
               \/ \E j \in 1 .. i - 1 : Answering(queue'[j], k, l)
    <3>1. CASE i \in 1 .. Len(queue)
      <4>1. \/ queue[i].good <=> outcome[n] # "failed"
            \/ \E j \in 1 .. i - 1 : Answering(queue[j], k, l)
        BY <1>1, <2>4, <3>1 DEF Truth
      <4>2. \A j \in 1 .. i - 1 : queue'[j] = queue[j]
        BY <1>1, <3>1
      <4>3. QED
        BY <1>1, <2>2, <3>1, <4>1, <4>2 DEF SameOutcome
    <3>2. CASE i \notin 1 .. Len(queue)
      <4>1. f \in 1 .. i - 1
        BY <1>1, <3>2
      <4>2. QED
        BY <2>3, <4>1
    <3>3. QED
      BY <3>1, <3>2
  <2>5. QED
    BY <1>3, <2>2, <2>3, <2>4 DEF Truth, SameOutcome
<1>4. CASE outcome[n] = "open"
  <2>1. \A i \in 1 .. Len(queue) : ~Answering(queue'[i], k, l)
    BY <1>1, <1>4 DEF Truth
  <2>2. CASE e.call = n
    <3>1. /\ outcome'[n] = how /\ Answering(e, k, l) /\ Len(queue) + 1 \in DOMAIN queue'
          /\ queue'[Len(queue) + 1] = e
      BY <1>1, <1>4, <2>2 DEF Pushed
    <3>2. ASSUME NEW i \in DOMAIN queue', Answering(queue'[i], k, l)
          PROVE  \/ queue'[i].good <=> outcome'[n] # "failed"
                 \/ \E j \in 1 .. i - 1 : Answering(queue'[j], k, l)
      <4>1. i = Len(queue) + 1 \/ Len(queue) + 1 \in 1 .. i - 1
        BY <1>1, <2>1, <3>2
      <4>2. QED
        BY <3>1, <4>1
    <3>3. QED
      BY <3>1, <3>2 DEF Truth
  <2>3. CASE e.call # n
    <3>1. ASSUME NEW i \in DOMAIN queue', Answering(queue'[i], k, l) PROVE FALSE
      <4>1. Len(queue) + 1 \in 1 .. Len(queue') /\ Answering(e, k, l)
        BY <1>1, <1>2, <2>1, <3>1
      <4>2. queue'[Len(queue) + 1] = e
        BY <1>1, <4>1 DEF Pushed
      <4>3. ASSUME NEW f \in 1 .. Len(queue'), Answering(queue'[f], k, l), queue'[f].call = n,
                   Before(queue', f, n, k, l)
            PROVE  FALSE
        <5>1. f # Len(queue) + 1
          BY <2>3, <4>2, <4>3
        <5>2. f \notin 1 .. Len(queue)
          BY <2>1, <4>3
        <5>3. Len(queue) + 1 \in 1 .. f - 1
          BY <1>1, <5>1, <5>2
        <5>4. QED
          BY <4>1, <4>2, <4>3, <5>3 DEF Before
      <4>4. ASSUME Before(queue', Len(queue') + 1, n, k, l) PROVE FALSE
        <5>1. Len(queue) + 1 \in 1 .. (Len(queue') + 1) - 1
          BY <1>1, <4>1
        <5>2. QED
          BY <4>1, <4>2, <4>4, <5>1 DEF Before
      <4>5. QED
        BY <4>3, <4>4 DEF Assured, Answered, Partial
    <3>2. outcome'[n] = "open"
      BY <1>4, <2>3 DEF SameOutcome
    <3>3. QED
      BY <3>1, <3>2 DEF Truth
  <2>4. QED
    BY <2>2, <2>3
<1>5. QED
  BY <1>3, <1>4

-----------------------------------------------------------------------------
(* Every step keeps them told the truth                                     *)

TruthLasting ==
  \A n \in Watched, k \in {"write", "bond"}, l \in Link :
    /\ n \in Watched' /\ n \notin excused' /\ calls[n].kind = k /\ calls[n].link = l
    /\ Truth(n, k, l)
    => Truth(n, k, l)'

LEMMA AllTruthKept ==
  ASSUME EspInv, AllTrue, CallsKept, TruthLasting, excused \subseteq excused',
         \A n \in Watched' \ Watched :
           n \notin excused' => Truth(n, calls[n].kind, calls[n].link)'
  PROVE  AllTrue'
<1>1. ASSUME NEW n \in Watched', n \notin excused', n \in Watched
      PROVE  Truth(n, calls[n].kind, calls[n].link)'
  <2>1. n \in Waiting /\ n \notin excused
    BY <1>1 DEF Watched
  <2>2. PICK k \in {"write", "bond"}, l \in Link : calls[n].kind = k /\ calls[n].link = l
    BY <1>1, <2>1, Caller DEF Watched
  <2>3. Truth(n, k, l)
    BY <1>1, <2>1, <2>2 DEF AllTrue
  <2>4. Truth(n, k, l)'
    BY <1>1, <2>2, <2>3 DEF TruthLasting
  <2>5. calls'[n].kind = k /\ calls'[n].link = l
    BY <2>1, <2>2, Caller DEF CallsKept
  <2>6. QED
    BY <2>4, <2>5
<1>2. QED
  BY <1>1 DEF AllTrue

\* The calls, and whether they are waiting, are as they were.
LEMMA SameWatched ==
  ASSUME calls' = calls
  PROVE  Watched' = Watched /\ CallsKept
  BY DEF Watched, Waiting, CallsKept

\* Nobody is answered, and what was answered ended as it did.
LEMMA SilentHonest ==
  ASSUME EspInv, EspInv', OutcomeOK, OutcomeOK', HonestInv, AllTrue', CallsKept, oks' = oks,
         excused \subseteq excused',
         \A n \in DOMAIN calls' :
           calls'[n].state = "answered" => n \in DOMAIN calls /\ calls[n].state = "answered",
         \A n \in CallId \ Watched : SameOutcome(n)
  PROVE  HonestInv'
<1>1. DOMAIN calls \subseteq CallId /\ DOMAIN calls \subseteq DOMAIN calls'
  BY CallIds DEF CallsKept
<1>2. \A n \in oks' : n \in DOMAIN calls' /\ calls'[n].state = "answered"
  BY DEF HonestInv, CallsKept
<1>3. ASSUME NEW n \in CallId \ DOMAIN calls' PROVE outcome'[n] = "open"
  <2>1. n \notin Watched /\ outcome[n] = "open"
    BY <1>1, <1>3 DEF HonestInv, Watched, Waiting
  <2>2. QED
    BY <1>3, <2>1 DEF SameOutcome
<1>4. ASSUME NEW n \in DOMAIN calls' \ excused', calls'[n].state = "answered",
             calls'[n].kind \in {"write", "bond"}
      PROVE  IF n \in oks' THEN outcome'[n] \in {"done", "encrypted", "unbonded"}
                           ELSE outcome'[n] = "failed"
  <2>1. /\ n \in DOMAIN calls \ excused /\ calls[n].state = "answered"
        /\ calls[n].kind \in {"write", "bond"} /\ n \in CallId
    BY <1>1, <1>4 DEF CallsKept
  <2>2. IF n \in oks THEN outcome[n] \in {"done", "encrypted", "unbonded"}
                     ELSE outcome[n] = "failed"
    BY <2>1 DEF HonestInv, HonestOutcome, ToldTruth
  <2>3. SameOutcome(n) /\ outcome'[n] \in Outcome
    BY <2>1 DEF Watched, Waiting, OutcomeOK
  <2>4. QED
    BY <2>2, <2>3 DEF SameOutcome, Outcome
<1>5. HonestOutcome'
  BY <1>4 DEF HonestOutcome, ToldTruth
<1>6. QED
  BY <1>2, <1>3, <1>5 DEF HonestInv

\* Nothing ends and nothing is drained.
LEMMA QuietHonest ==
  ASSUME EspInv, EspInv', OutcomeOK, OutcomeOK', HonestInv, CallsKept,
         UNCHANGED <<oks, queue, outcome>>, excused \subseteq excused',
         \A n \in DOMAIN calls' :
           calls'[n].state = "answered" => n \in DOMAIN calls /\ calls[n].state = "answered",
         \A n \in Watched' \ Watched :
           n \notin excused' => Truth(n, calls[n].kind, calls[n].link)'
  PROVE  HonestInv'
<1>1. \A n : SameOutcome(n)
  BY DEF SameOutcome
<1>2. TruthLasting
  BY <1>1, TruthKept DEF TruthLasting
<1>3. AllTrue'
  BY <1>2, AllTruthKept DEF HonestInv
<1>4. QED
  BY <1>1, <1>3, SilentHonest

\* Nor is a call made.
LEMMA NobodyNew ==
  ASSUME EspInv,
         \/ calls' = calls
         \/ \E n \in Waiting : calls' = [calls EXCEPT ![n].state = "timeout"]
         \/ Restart
  PROVE  /\ CallsKept /\ Watched' \subseteq Watched
         /\ \A n \in DOMAIN calls' :
              calls'[n].state = "answered" => n \in DOMAIN calls /\ calls[n].state = "answered"
<1>1. CallsKept
  BY OldCalls
<1>2. DOMAIN calls' = DOMAIN calls /\ Waiting' \subseteq Waiting
      /\ \A n \in DOMAIN calls : calls'[n].state = "answered" => calls[n].state = "answered"
  <2>1. CASE calls' = calls
    BY <2>1 DEF Waiting
  <2>2. ASSUME NEW n \in Waiting, calls' = [calls EXCEPT ![n].state = "timeout"]
        PROVE  /\ DOMAIN calls' = DOMAIN calls /\ Waiting' \subseteq Waiting
               /\ \A m \in DOMAIN calls : calls'[m].state = "answered" => calls[m].state = "answered"
    <3>1. /\ DOMAIN calls' = DOMAIN calls
          /\ \A m \in DOMAIN calls :
               calls'[m].state = IF m = n THEN "timeout" ELSE calls[m].state
      BY <2>2, Caller, EndOK
    <3>2. QED
      BY <3>1 DEF Waiting
  <2>3. CASE Restart
    <3>1. calls' = [n \in DOMAIN calls |->
                      IF n \in Waiting THEN [calls[n] EXCEPT !.state = "failed"] ELSE calls[n]]
      BY <2>3 DEF Restart
    <3>2. ASSUME NEW n \in DOMAIN calls
          PROVE  calls'[n].state = IF n \in Waiting THEN "failed" ELSE calls[n].state
      <4>1. calls[n] \in CallRecord
        BY <3>2 DEF EspInv
      <4>2. QED
        BY <3>1, <3>2, <4>1 DEF CallRecord
    <3>3. QED
      BY <3>1, <3>2 DEF Waiting
  <2>4. QED
    BY <2>1, <2>2, <2>3
<1>3. Watched' \subseteq Watched
  BY <1>1, <1>2, Caller DEF Watched, CallsKept
<1>4. QED
  BY <1>1, <1>2, <1>3

\* A call that begins is owed nothing yet, and what is queued is for others.
LEMMA CallHonest ==
  ASSUME EspInv, EspInv', OutcomeOK, OutcomeOK', HonestInv, NEW k \in Kind, NEW l \in Link,
         Call(k, l) \/ CallFails(k, l)
  PROVE  HonestInv'
<1>1. PICK s \in {"waiting", "failed"} :
        /\ calls' = Append(calls, [kind |-> k, link |-> l, state |-> s])
        /\ s = "waiting" => Call(k, l)
  <2>1. Call(k, l) => calls' = Append(calls, [kind |-> k, link |-> l, state |-> "waiting"])
    BY DEF Call
  <2>2. CallFails(k, l) => calls' = Append(calls, [kind |-> k, link |-> l, state |-> "failed"])
    BY DEF CallFails
  <2>3. QED
    BY <2>1, <2>2
<1> DEFINE c == [kind |-> k, link |-> l, state |-> s]
<1>2. c \in CallRecord /\ c.kind = k /\ c.link = l /\ c.state = s /\ calls' = Append(calls, c)
  <2>1. s \in {"waiting", "answered", "failed", "timeout"}
    OBVIOUS
  <2>2. c \in CallRecord /\ c.kind = k /\ c.link = l /\ c.state = s
    BY <2>1 DEF CallRecord
  <2>3. QED
    BY <1>1, <2>2
<1> HIDE DEF c
<1>3. PICK n : n = Len(calls) + 1
  OBVIOUS
<1>4. /\ DOMAIN calls' = DOMAIN calls \cup {n} /\ calls'[n] = c /\ Len(calls') = n
      /\ \A m \in DOMAIN calls : calls'[m] = calls[m]
  BY <1>2, <1>3, AppendOK
<1>5. CallsKept
  BY <1>2, OldCalls
<1>6. n \notin DOMAIN calls /\ n \in CallId
  <2>1. DOMAIN calls = 1 .. Len(calls) /\ Len(calls) \in Nat
    BY CallIds
  <2>2. n + troubles' <= MaxSteps /\ troubles' \in Nat
    BY <1>4 DEF EspInv
  <2>3. QED
    BY <1>3, <2>1, <2>2, GattCallsAssumption DEF CallId
<1>7. UNCHANGED <<oks, queue, outcome>> /\ excused \subseteq excused'
  BY DEF Call, CallFails, told
<1>8. \A m \in DOMAIN calls' :
        calls'[m].state = "answered" => m \in DOMAIN calls /\ calls[m].state = "answered"
  BY <1>2, <1>4
<1>9. ASSUME NEW m \in Watched' \ Watched, m \notin excused'
      PROVE  Truth(m, calls[m].kind, calls[m].link)'
  <2>1. m = n
    BY <1>4, <1>9 DEF Watched, Waiting
  <2>2. Call(k, l)
    BY <1>1, <1>2, <1>4, <1>9, <2>1 DEF Watched, Waiting
  <2>3. ~Entangled(k, l)
    BY <1>3, <1>9, <2>1, <2>2 DEF Call
  <2>4. \A i \in DOMAIN queue : ~Answering(queue[i], k, l)
    BY <2>3 DEF Entangled, Answering
  <2>5. outcome[n] = "open"
    BY <1>6 DEF HonestInv
  <2>6. calls'[m].kind = k /\ calls'[m].link = l
    BY <1>2, <1>4, <2>1
  <2>7. Truth(m, k, l)'
    BY <1>7, <2>1, <2>4, <2>5 DEF Truth
  <2>8. QED
    BY <2>6, <2>7
<1>10. QED
  BY <1>5, <1>7, <1>8, <1>9, QuietHonest

\* What a push leaves is Pushed.
LEMMA PushedOne ==
  ASSUME queue \in Seq(QueuedEvent), NEW e \in QueuedEvent, NEW d \in QueuedEvent,
         d.kind = e.kind, d.link = e.link,
         \/ queue' = queue
         \/ queue' = Append(queue, e)
         \/ queue' = Append(Append(queue, e), d)
  PROVE  Pushed(e) /\ (queue' = queue \/ Len(queue) < Len(queue'))
<1>1. PICK q \in Seq(QueuedEvent) : q = Append(queue, e)
  BY Appended
<1>2. /\ Len(q) = Len(queue) + 1 /\ Len(queue) \in Nat /\ q[Len(queue) + 1] = e
      /\ \A i \in 1 .. Len(queue) : q[i] = queue[i]
  BY <1>1, Appended
<1>3. CASE queue' = queue
  BY <1>2, <1>3 DEF Pushed
<1>4. CASE queue' = q
  <2>1. \A i \in Len(queue) + 1 .. Len(queue') : i = Len(queue) + 1
    BY <1>2, <1>4
  <2>2. QED
    BY <1>2, <1>4, <2>1 DEF Pushed
<1>5. CASE queue' = Append(q, d)
  <2>1. /\ queue' \in Seq(QueuedEvent) /\ Len(queue') = Len(q) + 1 /\ queue'[Len(q) + 1] = d
        /\ \A i \in 1 .. Len(q) : queue'[i] = q[i]
    BY <1>5, Appended
  <2>2. \A i \in Len(queue) + 1 .. Len(queue') : i = Len(queue) + 1 \/ i = Len(q) + 1
    BY <1>2, <2>1
  <2>3. Len(queue) + 1 \in 1 .. Len(q) /\ \A i \in 1 .. Len(queue) : i \in 1 .. Len(q)
    BY <1>2
  <2>4. queue'[Len(queue) + 1] = e /\ \A i \in 1 .. Len(queue) : queue'[i] = queue[i]
    BY <1>2, <2>1, <2>3
  <2>5. QED
    BY <1>2, <2>1, <2>2, <2>4 DEF Pushed
<1>6. QED
  BY <1>1, <1>3, <1>4, <1>5

\* The host ends a write, of n or of another: only n's request could be labelled with
\* the handle under which n waits.
LEMMA HostHonest ==
  ASSUME NrfInv, EspInv, EspInv', OutcomeOK, OutcomeOK', AllAssured, AllAssured', Sourced,
         HonestInv, NEW l0 \in Link, NEW good \in BOOLEAN, HostAnswers(l0, good)
  PROVE  HonestInv'
<1>1. PICK op \in Request, e \in QueuedEvent :
        /\ 1 \in DOMAIN att[l0] /\ op = att[l0][1] /\ op.kind \in Gatt
        /\ e.kind = op.kind /\ e.link = label[op.kind] /\ e.call = op.call
        /\ e.good <=> good
        /\ Push(<<e>>)
        /\ \/ /\ op.kind = "discover" /\ pos < NChars /\ pos' = pos + 1
              /\ e.char = Char(l0, pos + 1) /\ e.char # None
              /\ att' = [att EXCEPT ![l0] = Append(Tail(@), op)]
           \/ /\ op.kind = "discover" /\ e.good => pos = NChars
              /\ e.char = None /\ pos' = pos
              /\ att' = [att EXCEPT ![l0] = Tail(@)]
  BY HostSays
<1> DEFINE how == IF good THEN "done" ELSE "failed"
<1>2. UNCHANGED <<calls, oks>> /\ Ended(op.call, how)
  <2>1. op = Head(att[l0])
    BY <1>1 DEF NrfInv
  <2>2. QED
    BY <2>1 DEF HostAnswers, esp, told
<1>3. how # "open" /\ (e.good <=> how # "failed")
  BY <1>1
<1> HIDE DEF how
<1>4. /\ \/ queue' = Append(queue, e) /\ excused' = excused
         \/ queue' = queue /\ excused' = excused \cup ({e.call} \ {None})
      /\ queue \in Seq(QueuedEvent)
  BY <1>1, PushOne DEF NrfInv
<1>5. Pushed(e) /\ (queue' = queue \/ Len(queue) < Len(queue'))
  BY <1>4, PushedOne
<1>6. Watched' = Watched /\ CallsKept
  BY <1>2, SameWatched
<1>7. Watched \subseteq CallId
  BY CallIds DEF Watched
<1>8. \A n \in CallId :
        outcome'[n] = IF n = op.call /\ n \in Watched /\ outcome[n] = "open" THEN how ELSE outcome[n]
  BY <1>2, <1>7 DEF Ended, OutcomeOK
<1>9. TruthLasting
  <2>1. SUFFICES ASSUME NEW n \in Watched, NEW k \in {"write", "bond"}, NEW l \in Link,
                        n \notin excused', calls[n].kind = k, calls[n].link = l, Truth(n, k, l)
                 PROVE  Truth(n, k, l)'
    BY DEF TruthLasting
  <2>2. n \notin excused /\ n \in Waiting /\ n # None /\ n \in CallId
    BY <1>4, <2>1, Caller DEF Watched
  <2>3. Assured(n, k, l) /\ Assured(n, k, l)'
    BY <1>2, <1>6, <2>1, <2>2 DEF AllAssured, Watched
  <2>4. CASE e.call = n /\ outcome[n] = "open"
    <3>1. OfCall(op.call, op.kind)
      BY <1>1 DEF Sourced
    <3>2. op.kind = k /\ k = "write" /\ k \in Gatt
      BY <1>1, <2>1, <2>2, <2>4, <3>1 DEF OfCall, Gatt
    <3>3. ~Answered(queue, results[l], n, k, l)
      BY <1>4, <2>1, <2>4 DEF Truth, Answered
    <3>4. PICK m : UnderWay(n, k, l, m)
      BY <2>3, <3>3 DEF Assured
    <3>5. ~Commanded(n, k, l)
      BY <1>1, <3>2 DEF Commanded, NoRequest
    <3>6. label[k] = l
      BY <3>2, <3>4, <3>5 DEF UnderWay, Requested
    <3>7. Answering(e, k, l)
      BY <1>1, <3>2, <3>6 DEF Answering, Answers
    <3>8. Len(queue) < Len(queue')
      BY <1>4, <1>5, <2>1, <2>2, <2>4, Appended
    <3>9. outcome'[n] = how
      BY <1>1, <1>8, <2>1, <2>2, <2>4
    <3>10. QED
      BY <1>3, <1>5, <2>1, <2>3, <2>4, <3>7, <3>8, <3>9, TruthPushed
  <2>5. CASE ~(e.call = n /\ outcome[n] = "open")
    <3>1. SameOutcome(n)
      BY <1>1, <1>8, <2>2, <2>5 DEF SameOutcome
    <3>2. QED
      BY <1>3, <1>5, <2>1, <2>3, <2>5, <3>1, TruthPushed
  <2>6. QED
    BY <2>4, <2>5
<1>10. excused \subseteq excused'
  BY <1>4
<1>11. AllTrue'
  BY <1>6, <1>9, <1>10, AllTruthKept DEF HonestInv
<1>12. \A n \in CallId \ Watched : SameOutcome(n)
  BY <1>8 DEF SameOutcome
<1>13. QED
  BY <1>2, <1>6, <1>10, <1>11, <1>12, SilentHonest

\* A step of l's pairing queues e, and perhaps d after it, and ends the bond of the call
\* that waits for one as e says.
Tells(l, e, d, how) ==
  /\ e.kind \in {"bond", "enc"} /\ e.link = l /\ e.call = BondCall(l)
  /\ d.kind = e.kind /\ d.link = l
  /\ Push(<<e>>) \/ Push(<<e, d>>)
  /\ how # "open" /\ (e.good <=> how # "failed")
  /\ \A n \in CallId :
       IF n \in Watched /\ n = BondCall(l) /\ outcome[n] = "open"
       THEN outcome'[n] = how ELSE SameOutcome(n)

LEMMA PairingTells ==
  ASSUME NrfInv, EspInv, OutcomeOK, NEW l \in Link,
         Encrypted(l) \/ PairingComplete(l) \/ PairingFails(l)
  PROVE  \E e, d \in QueuedEvent, how \in Outcome : Tells(l, e, d, how)
<1>1. PICK n \in MaybeId : n = BondCall(l)
  BY CallIds DEF BondCall, MaybeId
<1>2. ASSUME NEW k \in {"bond", "enc"}, NEW good \in BOOLEAN, NEW m \in MaybeId
      PROVE  /\ Event(k, l, m, good) \in QueuedEvent
             /\ Event(k, l, m, good).kind = k /\ Event(k, l, m, good).link = l
             /\ Event(k, l, m, good).call = m /\ Event(k, l, m, good).good = good
  <2>1. k \in Kind \cup {"enc"}
    BY DEF Kind
  <2>2. QED
    BY <2>1, EventOK DEF Event
<1>3. Watched \subseteq CallId /\ None \in MaybeId
  BY CallIds DEF Watched, MaybeId
<1>4. ASSUME NEW how, Ended(n, how)
      PROVE  \A m \in CallId :
               IF m \in Watched /\ m = n /\ outcome[m] = "open"
               THEN outcome'[m] = how ELSE SameOutcome(m)
  BY <1>3, <1>4 DEF Ended, OutcomeOK, SameOutcome
<1>5. ASSUME NEW how, NEW how2 \in {"done", "unbonded"}, KeysEnded(l, how, how2)
      PROVE  \A m \in CallId :
               IF m \in Watched /\ m = n /\ outcome[m] = "open"
               THEN outcome'[m] = how ELSE SameOutcome(m)
  BY <1>1, <1>5 DEF KeysEnded, SameOutcome
<1>6. CASE Encrypted(l)
  <2>1. PICK how \in {"encrypted", "done"} : Ended(n, how)
    BY <1>1, <1>6 DEF Encrypted
  <2>2. PICK e : e = Event("enc", l, n, TRUE)
    OBVIOUS
  <2>3. e \in QueuedEvent /\ e.kind = "enc" /\ e.link = l /\ e.call = n /\ e.good = TRUE
    BY <1>2, <2>2
  <2>4. Push(<<e>>)
    BY <1>1, <1>6, <2>2 DEF Encrypted
  <2>5. how \in Outcome /\ how # "open" /\ (e.good <=> how # "failed")
    BY <2>1, <2>3 DEF Outcome
  <2>6. Tells(l, e, e, how)
    BY <1>1, <1>4, <2>1, <2>3, <2>4, <2>5 DEF Tells
  <2>7. QED
    BY <2>3, <2>5, <2>6
<1>7. CASE PairingComplete(l)
  <2>1. PICK e : e = Event("bond", l, n, TRUE)
    OBVIOUS
  <2>2. e \in QueuedEvent /\ e.kind = "bond" /\ e.link = l /\ e.call = n /\ e.good = TRUE
    BY <1>2, <2>1
  <2>3. Push(<<e>>) /\ KeysEnded(l, "done", "done")
    BY <1>1, <1>7, <2>1 DEF PairingComplete
  <2>4. PICK how \in Outcome : how = "done"
    BY DEF Outcome
  <2>5. Tells(l, e, e, how)
    BY <1>1, <1>5, <2>2, <2>3, <2>4 DEF Tells
  <2>6. QED
    BY <2>2, <2>5
<1>8. CASE PairingFails(l)
  <2>1. PICK e : e = Event("bond", l, n, FALSE)
    OBVIOUS
  <2>2. PICK d : d = Event("bond", l, None, FALSE)
    OBVIOUS
  <2>3. /\ e \in QueuedEvent /\ e.kind = "bond" /\ e.link = l /\ e.call = n /\ e.good = FALSE
        /\ d \in QueuedEvent /\ d.kind = "bond" /\ d.link = l
    BY <1>2, <1>3, <2>1, <2>2
  <2>4. (Push(<<e>>) \/ Push(<<e, d>>)) /\ KeysEnded(l, "failed", "unbonded")
    BY <1>1, <1>8, <2>1, <2>2 DEF PairingFails
  <2>5. PICK how \in Outcome : how = "failed"
    BY DEF Outcome
  <2>6. Tells(l, e, d, how)
    BY <1>1, <1>5, <2>3, <2>4, <2>5 DEF Tells
  <2>7. QED
    BY <2>3, <2>6
<1>9. QED
  BY <1>6, <1>7, <1>8

\* A pairing ends, or its link is encrypted: whoever waits for one on the link is told.
LEMMA PairingHonest ==
  ASSUME NrfInv, EspInv, EspInv', OutcomeOK, OutcomeOK', AllAssured, AllAssured',
         HonestInv, NEW l0 \in Link, Encrypted(l0) \/ PairingComplete(l0) \/ PairingFails(l0)
  PROVE  HonestInv'
<1>0. PICK e, d \in QueuedEvent, how \in Outcome : Tells(l0, e, d, how)
  BY PairingTells
<1>1. /\ e.kind \in {"bond", "enc"} /\ e.link = l0 /\ e.call = BondCall(l0)
      /\ d.kind = e.kind /\ d.link = l0
      /\ Push(<<e>>) \/ Push(<<e, d>>)
      /\ how # "open" /\ (e.good <=> how # "failed")
      /\ \A n \in CallId :
           IF n \in Watched /\ n = BondCall(l0) /\ outcome[n] = "open"
           THEN outcome'[n] = how ELSE SameOutcome(n)
  BY <1>0 DEF Tells
<1>2. UNCHANGED <<calls, oks>>
  BY DEF Encrypted, PairingComplete, PairingFails, esp, told
<1>3. /\ excused \subseteq excused'
      /\ \/ queue' = Append(queue, e)
         \/ queue' = Append(Append(queue, e), d)
         \/ queue' = queue /\ (e.call # None => e.call \in excused')
  <2>1. CASE Push(<<e>>)
    BY <2>1, PushOne
  <2>2. CASE Push(<<e, d>>)
    BY <2>2, PushTwo
  <2>3. QED
    BY <1>1, <2>1, <2>2
<1>4. Pushed(e) /\ (queue' = queue \/ Len(queue) < Len(queue'))
  <2>1. queue \in Seq(QueuedEvent) /\ d.link = e.link /\ d.kind = e.kind
    BY <1>1 DEF NrfInv
  <2>2. QED
    BY <1>3, <2>1, PushedOne
<1>5. Watched' = Watched /\ CallsKept
  BY <1>2, SameWatched
<1>6. TruthLasting
  <2>1. SUFFICES ASSUME NEW n \in Watched, NEW k \in {"write", "bond"}, NEW l \in Link,
                        n \notin excused', calls[n].kind = k, calls[n].link = l, Truth(n, k, l)
                 PROVE  Truth(n, k, l)'
    BY DEF TruthLasting
  <2>2. n \notin excused /\ n \in Waiting /\ n # None /\ n \in CallId
    BY <1>3, <2>1, Caller DEF Watched
  <2>3. Assured(n, k, l)'
    BY <1>2, <1>5, <2>1, <2>2 DEF AllAssured, Watched
  <2>4. CASE e.call = n /\ outcome[n] = "open"
    <3>1. waiter["bond"][l0] = n
      BY <1>1, <2>2, <2>4 DEF BondCall
    <3>2. k = "bond" /\ l = l0
      <4>1. "bond" \in Kind
        BY DEF Kind
      <4>2. QED
        BY <2>1, <2>2, <3>1, <4>1 DEF EspInv, WaitersKnown
    <3>3. Answering(e, k, l)
      BY <1>1, <3>2 DEF Answering, Answers
    <3>4. Len(queue) < Len(queue')
      <4>1. Len(queue) \in Nat /\ Append(queue, e) # queue /\ Append(Append(queue, e), d) # queue
        BY Appended DEF NrfInv
      <4>2. QED
        BY <1>3, <1>4, <2>1, <2>2, <2>4
    <3>5. outcome'[n] = how
      BY <1>1, <2>1, <2>2, <2>4
    <3>6. QED
      BY <1>1, <1>4, <2>1, <2>3, <2>4, <3>3, <3>4, <3>5, TruthPushed
  <2>5. CASE ~(e.call = n /\ outcome[n] = "open")
    <3>1. SameOutcome(n)
      BY <1>1, <2>2, <2>5
    <3>2. QED
      BY <1>1, <1>4, <2>1, <2>3, <2>5, <3>1, TruthPushed
  <2>6. QED
    BY <2>4, <2>5
<1>7. AllTrue'
  BY <1>3, <1>5, <1>6, AllTruthKept DEF HonestInv
<1>8. \A n \in CallId \ Watched : SameOutcome(n)
  BY <1>1
<1>9. QED
  BY <1>2, <1>3, <1>5, <1>7, <1>8, SilentHonest

\* The oldest event is drained and answers nobody.
LEMMA TailTrue ==
  ASSUME NrfInv, EspInv, HonestInv, CallsKept, queue # <<>>, queue' = Tail(queue),
         outcome' = outcome, excused' = excused, Watched' \subseteq Watched,
         \A n \in Watched' \ excused : ~Answering(queue[1], calls[n].kind, calls[n].link)
  PROVE  AllTrue'
<1>1. TruthLasting
  <2>1. SUFFICES ASSUME NEW n \in Watched, NEW k \in {"write", "bond"}, NEW l \in Link,
                        n \in Watched', n \notin excused', calls[n].kind = k,
                        calls[n].link = l, Truth(n, k, l)
                 PROVE  Truth(n, k, l)'
    BY DEF TruthLasting
  <2>2. ~Answering(queue[1], k, l) /\ queue \in Seq(QueuedEvent)
    BY <2>1 DEF NrfInv
  <2>3. QED
    BY <2>1, <2>2, TruthTail
<1>2. QED
  BY <1>1, AllTruthKept DEF HonestInv

\* A caller of a write or a bond is told what the first event that answers it says.
LEMMA ReplyHonest ==
  ASSUME NrfInv, EspInv, EspInv', OutcomeOK, OutcomeOK', AllAssured, HonestInv,
         NEW k0 \in Kind, NEW right, NEW ok, NEW kinds, kinds \subseteq Answers(k0),
         Drained(kinds), Reply(k0, right, ok), k0 \in {"write", "bond"} => ok = Head(queue).good
  PROVE  HonestInv'
<1>1. /\ queue # <<>> /\ queue' = Tail(queue) /\ UNCHANGED <<excused, outcome>>
      /\ Head(queue).kind \in Answers(k0)
  BY DEF Drained
<1>2. Head(queue) = queue[1] /\ queue[1] \in QueuedEvent /\ 1 \in DOMAIN queue
  BY <1>1, Tailed DEF NrfInv
<1>3. PICK e \in QueuedEvent : e = queue[1] /\ e = Head(queue)
  BY <1>2
<1>4. PICK l0 \in Link : l0 = e.link
  BY DEF QueuedEvent
<1>5. PICK n0 : n0 = waiter[k0][l0]
  OBVIOUS
<1>6. Answering(e, k0, l0) /\ \A j \in Kind : \A h : Answering(e, j, h) => j = k0 /\ h = l0
  <2>1. Answering(e, k0, l0)
    BY <1>1, <1>3, <1>4 DEF Answering
  <2>2. e.kind \in Gatt \cup {"bond", "enc"}
    BY <1>1, <1>3 DEF Answers, Kind, Gatt
  <2>3. e.link = l0
    BY <1>4
  <2>4. QED
    BY <2>1, <2>2, <2>3, KindOfAnswer
<1>7. /\ n0 \in Waiting =>
           /\ calls' = [calls EXCEPT ![n0].state = "answered"]
           /\ oks' = IF ok THEN oks \cup {n0} ELSE oks
      /\ n0 \notin Waiting => UNCHANGED <<calls, oks>>
  BY <1>3, <1>4, <1>5 DEF Reply, told
<1>8. CallsKept
  BY <1>7, OldCalls
<1>9. ASSUME NEW n \in Watched \ excused, Answering(queue[1], calls[n].kind, calls[n].link)
      PROVE  n = n0
  <2>1. n \in Waiting \ excused
    BY <1>9 DEF Watched
  <2>2. PICK k \in Kind, l \in Link : k = calls[n].kind /\ l = calls[n].link
    BY <2>1, Caller
  <2>3. k = k0 /\ l = l0
    BY <1>3, <1>6, <1>9, <2>2
  <2>4. Assured(n, k, l)
    BY <2>1, <2>2 DEF AllAssured
  <2>5. QED
    BY <1>5, <2>3, <2>4 DEF Assured
<1>10. CASE n0 \notin Waiting
  <2>1. UNCHANGED <<calls, oks>> /\ Watched' = Watched
    BY <1>7, <1>10, SameWatched
  <2>2. \A n \in Watched' \ excused : ~Answering(queue[1], calls[n].kind, calls[n].link)
    BY <1>9, <1>10, <2>1 DEF Watched
  <2>3. AllTrue'
    BY <1>1, <1>8, <2>1, <2>2, TailTrue
  <2>4. \A n : SameOutcome(n)
    BY <1>1 DEF SameOutcome
  <2>5. QED
    BY <1>1, <1>8, <2>1, <2>3, <2>4, SilentHonest
<1>11. CASE n0 \in Waiting
  <2>1. /\ n0 \in DOMAIN calls /\ n0 \in CallId /\ calls[n0].state = "waiting"
        /\ calls[n0].kind = k0 /\ calls[n0].link = l0
    <3>1. n0 \in DOMAIN calls /\ n0 \in CallId /\ n0 # None /\ calls[n0].state = "waiting"
      BY <1>11, Caller
    <3>2. QED
      BY <1>5, <3>1 DEF EspInv, WaitersKnown
  <2>2. /\ DOMAIN calls' = DOMAIN calls
        /\ \A m \in DOMAIN calls :
             /\ calls'[m].kind = calls[m].kind /\ calls'[m].link = calls[m].link
             /\ calls'[m].state = IF m = n0 THEN "answered" ELSE calls[m].state
    BY <1>7, <1>11, <2>1, EndOK
  <2>3. Watched' \subseteq Watched \ {n0}
    BY <2>1, <2>2 DEF Watched, Waiting
  <2>4. \A n \in Watched' \ excused : ~Answering(queue[1], calls[n].kind, calls[n].link)
    BY <1>9, <2>3
  <2>5. AllTrue'
    BY <1>1, <1>8, <2>3, <2>4, TailTrue
  <2>6. n0 \notin oks
    BY <2>1 DEF HonestInv
  <2>7. oks' = IF ok THEN oks \cup {n0} ELSE oks
    BY <1>7, <1>11
  <2>8. \A n \in oks' : n \in DOMAIN calls' /\ calls'[n].state = "answered"
    BY <2>1, <2>2, <2>7 DEF HonestInv
  <2>9. \A n \in CallId \ DOMAIN calls' : outcome'[n] = "open"
    BY <1>1, <2>2 DEF HonestInv
  <2>10. ASSUME n0 \notin excused, k0 \in {"write", "bond"}
         PROVE  IF ok THEN outcome[n0] \in {"done", "encrypted", "unbonded"}
                      ELSE outcome[n0] = "failed"
    <3>1. Truth(n0, k0, l0)
      BY <1>11, <2>1, <2>10 DEF HonestInv, AllTrue, Watched
    <3>2. /\ outcome[n0] # "open"
          /\ (e.good <=> outcome[n0] # "failed") \/ \E j \in 1 .. 1 - 1 : Answering(queue[j], k0, l0)
      BY <1>2, <1>3, <1>6, <3>1 DEF Truth
    <3>3. ok = e.good /\ e.good \in BOOLEAN /\ outcome[n0] \in Outcome
      BY <1>3, <2>1, <2>10 DEF QueuedEvent, OutcomeOK
    <3>4. QED
      BY <3>2, <3>3 DEF Outcome
  <2>11. ASSUME NEW n \in DOMAIN calls' \ excused', calls'[n].state = "answered",
                calls'[n].kind \in {"write", "bond"}
         PROVE  IF n \in oks' THEN outcome'[n] \in {"done", "encrypted", "unbonded"}
                              ELSE outcome'[n] = "failed"
    <3>1. CASE n = n0
      <4>1. n0 \notin excused /\ k0 \in {"write", "bond"}
        BY <1>1, <2>1, <2>2, <2>11, <3>1
      <4>2. n \in oks' <=> ok
        BY <2>6, <2>7, <3>1
      <4>3. QED
        BY <1>1, <2>10, <3>1, <4>1, <4>2
    <3>2. CASE n # n0
      <4>1. /\ n \in DOMAIN calls \ excused /\ calls[n].state = "answered"
            /\ calls[n].kind \in {"write", "bond"} /\ (n \in oks' <=> n \in oks)
        BY <1>1, <2>2, <2>7, <2>11, <3>2
      <4>2. IF n \in oks THEN outcome[n] \in {"done", "encrypted", "unbonded"}
                         ELSE outcome[n] = "failed"
        BY <4>1 DEF HonestInv, HonestOutcome, ToldTruth
      <4>3. QED
        BY <1>1, <4>1, <4>2
    <3>3. QED
      BY <3>1, <3>2
  <2>12. HonestOutcome'
    BY <2>11 DEF HonestOutcome, ToldTruth
  <2>13. QED
    BY <2>5, <2>8, <2>9, <2>12 DEF HonestInv
<1>12. QED
  BY <1>10, <1>11

\* A characteristic answers no write and no bond.
LEMMA EntryHonest ==
  ASSUME NrfInv, EspInv, EspInv', OutcomeOK, OutcomeOK', HonestInv, ServicesEntry
  PROVE  HonestInv'
<1>1. /\ queue # <<>> /\ queue' = Tail(queue) /\ UNCHANGED <<excused, outcome, calls, oks>>
      /\ Head(queue).kind = "discover"
  BY DEF ServicesEntry, Drained, told
<1>2. Head(queue) = queue[1]
  BY <1>1, Tailed DEF NrfInv
<1>3. Watched' = Watched /\ CallsKept
  BY <1>1, SameWatched
<1>4. \A n \in Watched : ~Answering(queue[1], calls[n].kind, calls[n].link)
  BY <1>1, <1>2 DEF Watched, Answering, Answers
<1>5. AllTrue'
  BY <1>1, <1>3, <1>4, TailTrue
<1>6. \A n : SameOutcome(n)
  BY <1>1 DEF SameOutcome
<1>7. QED
  BY <1>1, <1>3, <1>5, <1>6, SilentHonest

\* A restart of the nRF ends the operations, and nobody who waits may complain of it.
LEMMA ResetHonest ==
  ASSUME EspInv, EspInv', OutcomeOK, OutcomeOK', HonestInv, Reset
  PROVE  HonestInv'
<1>1. UNCHANGED <<calls, oks>> /\ excused' = excused \cup Waiting
  BY DEF Reset, esp, told
<1>2. Watched' = Watched /\ CallsKept
  BY <1>1, SameWatched
<1>3. AllTrue'
  BY <1>1, <1>2 DEF AllTrue, Watched
<1>4. \A n \in CallId : SameOutcome(n)
  BY DEF Reset, SameOutcome
<1>5. QED
  BY <1>1, <1>2, <1>3, <1>4, SilentHonest

LEMMA HonestStep == ServiceInv /\ ServiceInv' /\ HonestInv /\ [Next]_vars => HonestInv'
<1> SUFFICES ASSUME NrfInv, EspInv, EspInv', OutcomeOK, OutcomeOK', AllAssured, AllAssured',
                    Sourced, HonestInv, [Next]_vars
             PROVE  HonestInv'
  <2>1. ServiceInv => NrfInv /\ EspInv /\ OutcomeOK /\ AllAssured /\ Sourced
    BY Halves DEF ServiceInv
  <2>2. ServiceInv' => EspInv' /\ OutcomeOK' /\ AllAssured'
    BY <2>1, PTL
  <2>3. QED
    BY <2>1, <2>2
<1>1. ASSUME UNCHANGED <<oks, queue, outcome>>, excused \subseteq excused',
             \/ calls' = calls
             \/ \E n \in Waiting : calls' = [calls EXCEPT ![n].state = "timeout"]
             \/ Restart
      PROVE  HonestInv'
  <2>1. /\ CallsKept /\ Watched' \subseteq Watched
        /\ \A n \in DOMAIN calls' :
             calls'[n].state = "answered" => n \in DOMAIN calls /\ calls[n].state = "answered"
    BY <1>1, NobodyNew
  <2>2. QED
    BY <1>1, <2>1, QuietHonest
<1>2. CASE \E k \in Kind, l \in Link : Call(k, l) \/ CallFails(k, l)
  BY <1>2, CallHonest
<1>3. CASE \/ \E l \in Link : Plain(l) \/ LinkUp(l) \/ Drop(l)
           \/ \E n \in Waiting : Timeout(n)
           \/ Restart \/ CmdStart
  BY <1>1, <1>3 DEF Plain, LinkUp, Drop, Timeout, Restart, CmdStart, esp, told
<1>4. CASE CmdExec
  BY <1>1, <1>4, ExecConcerns DEF CmdExec, esp, told
<1>5. CASE Reset
  BY <1>5, ResetHonest
<1>6. CASE \E l \in Link, good \in BOOLEAN : HostAnswers(l, good)
  BY <1>6, HostHonest
<1>7. CASE \E l \in Link : Encrypted(l) \/ PairingComplete(l) \/ PairingFails(l)
  BY <1>7, PairingHonest
<1>8. /\ {"read"} \subseteq Answers("read") /\ {"write"} \subseteq Answers("write")
      /\ {"bond"} \subseteq Answers("bond") /\ {"enc"} \subseteq Answers("bond")
      /\ {"discover"} \subseteq Answers("discover")
      /\ "discover" \in Kind /\ "read" \in Kind /\ "write" \in Kind /\ "bond" \in Kind
  BY DEF Answers, Kind, Gatt
<1>9. CASE ReadRsp
  BY <1>8, <1>9, ReplyHonest DEF ReadRsp
<1>10. CASE WriteRsp
  BY <1>8, <1>10, ReplyHonest DEF WriteRsp
<1>11. CASE BondComplete
  BY <1>8, <1>11, ReplyHonest DEF BondComplete
<1>12. CASE EncChange
  BY <1>8, <1>12, ReplyHonest DEF EncChange
<1>13. CASE ServicesEntry
  BY <1>13, EntryHonest
<1>14. CASE ServicesDone
  <2>1. PICK right : right = (Head(queue).good => results[Head(queue).link] = Whole(Head(queue).link))
    OBVIOUS
  <2>2. Drained({"discover"}) /\ Reply("discover", right, TRUE)
    BY <1>14, <2>1 DEF ServicesDone
  <2>3. QED
    BY <1>8, <2>2, ReplyHonest
<1>15. CASE UNCHANGED vars
  BY <1>1, <1>15 DEF vars, esp, told
<1>16. QED
  BY <1>2, <1>3, <1>4, <1>5, <1>6, <1>7, <1>9, <1>10, <1>11, <1>12, <1>13, <1>14, <1>15
     DEF Next

\* Outside the known exceptions the caller of a write or of a bond is told how its own
\* operation ended, although whoever waits under the handle takes the first answer that
\* comes; a bond is told so once its link is encrypted, whatever becomes of its keys.
THEOREM OutcomesHonest == Spec => []HonestOutcome
<1>1. Init => ServiceInv /\ HonestInv
  <2>1. Init => ServiceInv
    BY InitInv, InitAssured, InitService DEF ServiceInv
  <2>2. Init => HonestInv
    <3>1. SUFFICES ASSUME Init PROVE HonestInv
      OBVIOUS
    <3>2. calls = <<>> /\ oks = {} /\ outcome = [n \in CallId |-> "open"]
      BY <3>1 DEF Init
    <3>3. DOMAIN calls = {}
      BY <3>2
    <3>4. Watched = {}
      BY <3>3 DEF Watched, Waiting
    <3>5. QED
      BY <3>2, <3>3, <3>4 DEF HonestInv, HonestOutcome, ToldTruth, AllTrue
  <2>3. QED
    BY <2>1, <2>2
<1>2. HonestInv => HonestOutcome
  BY DEF HonestInv
<1>3. QED
  BY <1>1, <1>2, StepService, HonestStep, PTL DEF Spec
=============================================================================
