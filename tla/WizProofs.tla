------------------------------- MODULE WizProofs -------------------------------
(***************************************************************************)
(* For any lamps and addresses and any number of calls, moves, refreshes   *)
(* and restarts: whoever is parked has a discovery behind it; the cache is *)
(* wrong only of lamps that have moved; commands to one lamp are sent in   *)
(* an order that can be told; and callers are told the truth about them.   *)
(***************************************************************************)
EXTENDS Wiz, SequenceTheorems, FiniteSetTheorems, TLAPS

CallRecord ==
  [name : Name \cup {None}, action : {"pilot", "get_state", "discover"},
   status : {"ok", "error", "parked", "timeout", "exit"}, batch : Nat]

Types ==
  /\ addr \in [Lamp -> Address]
  /\ scanning \in BOOLEAN /\ scans \in Nat
  /\ worker \in Worker \cup {None} /\ result \in Result \cup {None}
  /\ pending \in Seq(Nat)
  /\ calls \in Seq(CallRecord)

\* What has been heard of a lamp is true unless it moved since.
Right(found) ==
  \A a \in DOMAIN found : found[a] \in movedNow \/ addr[found[a]] = a

Heard ==
  /\ worker # None => Right(worker.found)
  /\ result # None /\ "found" \in DOMAIN result => Right(result.found)

WizInv == Types /\ ScanBacked /\ Heard /\ CacheFresh

-----------------------------------------------------------------------------
(* Lemmas                                                                   *)

\* Replies are functions from some addresses to lamps known by MAC.
LEMMA RepliesFacts ==
  /\ [a \in {} |-> None] \in Replies
  /\ \A f \in Replies : DOMAIN f \subseteq Address /\ \A a \in DOMAIN f : f[a] \in Mac
  /\ \A f \in Replies, a \in Address, n \in Mac :
       [b \in DOMAIN f \cup {a} |-> IF b = a THEN n ELSE f[b]] \in Replies
<1>1. [a \in {} |-> None] \in [{} -> Mac]
  OBVIOUS
<1>2. ASSUME NEW f \in Replies
      PROVE  DOMAIN f \subseteq Address /\ f \in [DOMAIN f -> Mac]
    BY DEF Replies
<1>3. ASSUME NEW f \in Replies, NEW a \in Address, NEW n \in Mac
      PROVE  [b \in DOMAIN f \cup {a} |-> IF b = a THEN n ELSE f[b]] \in Replies
  <2>1. [b \in DOMAIN f \cup {a} |-> IF b = a THEN n ELSE f[b]] \in [DOMAIN f \cup {a} -> Mac]
    BY <1>2
  <2>2. DOMAIN f \cup {a} \in SUBSET Address
    BY <1>2
  <2>3. QED
    BY <2>1, <2>2 DEF Replies
<1>4. [a \in {} |-> None] \in Replies
  BY <1>1 DEF Replies
<1>5. QED
  BY <1>2, <1>3, <1>4

\* A worker, or a result, is there or is not.
LEMMA RecordFacts ==
  /\ \A w \in Worker : w # None /\ w.scope \in Scope /\ w.found \in Replies
  /\ \A f \in Replies : [found |-> f] \in Result /\ [found |-> f] # None
                        /\ "found" \in DOMAIN [found |-> f] /\ [found |-> f].found = f
  /\ [error |-> TRUE] \in Result /\ [error |-> TRUE] # None
  /\ "found" \notin DOMAIN [error |-> TRUE]
  /\ \A r \in Result : "found" \in DOMAIN r => r.found \in Replies
<1>1. \A w \in Worker : w # None /\ w.scope \in Scope /\ w.found \in Replies
  BY WizAssumption DEF Worker
<1>2. ASSUME NEW f \in Replies
      PROVE  [found |-> f] \in Result /\ [found |-> f] # None
             /\ "found" \in DOMAIN [found |-> f] /\ [found |-> f].found = f
  <2>1. [found |-> f] \in Result
    BY DEF Result
  <2>2. QED
    BY <2>1, WizAssumption
<1>3. [error |-> TRUE] \in Result /\ [error |-> TRUE] # None
  <2>1. [error |-> TRUE] \in Result
    BY DEF Result
  <2>2. QED
    BY <2>1, WizAssumption
<1>4. "found" \notin DOMAIN [error |-> TRUE]
  OBVIOUS
<1>5. ASSUME NEW r \in Result, "found" \in DOMAIN r PROVE r.found \in Replies
  <2>1. CASE r \in [found : Replies]
    BY <2>1
  <2>2. CASE r \in [error : {TRUE}]
    <3>1. DOMAIN r = {"error"}
      BY <2>2
    <3>2. QED
      BY <1>5, <3>1
  <2>3. QED
    BY <2>1, <2>2 DEF Result
<1>6. QED
  BY <1>1, <1>2, <1>3, <1>4, <1>5

LEMMA InitOK == Init => WizInv
<1> SUFFICES ASSUME Init PROVE WizInv
  OBVIOUS
<1>1. Types
  <2>1. addr \in [Lamp -> Address]
    BY WizAssumption DEF Init
  <2>2. /\ scanning \in BOOLEAN /\ scans \in Nat
        /\ worker \in Worker \cup {None} /\ result \in Result \cup {None}
    BY DEF Init
  <2>3. pending \in Seq(Nat) /\ calls \in Seq(CallRecord)
    BY DEF Init
  <2>4. QED
    BY <2>1, <2>2, <2>3 DEF Types
<1>2. ScanBacked
  BY DEF Init, ScanBacked
<1>3. Heard /\ CacheFresh
  BY DEF Init, Heard, CacheFresh
<1>4. QED
  BY <1>1, <1>2, <1>3 DEF WizInv

\* A new request is the last of calls.
LEMMA NewCallOK ==
  ASSUME WizInv, NEW n \in Name \cup {None}, NEW action \in {"pilot", "get_state", "discover"},
         NEW status \in {"ok", "error", "parked"}, NEW batch \in Nat,
         NewCall(n, action, status, batch), NEW k, k = Len(calls) + 1
  PROVE  /\ calls' \in Seq(CallRecord) /\ k \in Nat
         /\ DOMAIN calls' = DOMAIN calls \cup {k}
         /\ calls'[k].status = status
         /\ \A r \in DOMAIN calls : calls'[r] = calls[r]
<1> DEFINE new == [name |-> n, action |-> action, status |-> status, batch |-> batch]
<1>1. new \in CallRecord /\ new.status = status
  BY DEF CallRecord
<1>2. calls \in Seq(CallRecord) /\ calls' = Append(calls, new)
  BY DEF WizInv, Types, NewCall
<1> HIDE DEF new
<1>3. /\ calls' \in Seq(CallRecord) /\ Len(calls) \in Nat /\ calls'[k] = new
      /\ DOMAIN calls = 1 .. Len(calls) /\ DOMAIN calls' = 1 .. k
      /\ \A r \in 1 .. Len(calls) : calls'[r] = calls[r]
  BY <1>1, <1>2
<1>4. QED
  BY <1>1, <1>3

\* Replies and time-outs only change a status, and park nobody.
LEMMA AnswersOK ==
  ASSUME WizInv, calls' = [r \in DOMAIN calls |-> calls'[r]],
         \A r \in DOMAIN calls :
           \/ calls'[r] = calls[r]
           \/ \E st \in {"ok", "error", "exit", "timeout"} :
                calls'[r] = [calls[r] EXCEPT !.status = st]
  PROVE  /\ calls' \in Seq(CallRecord) /\ DOMAIN calls' = DOMAIN calls
         /\ \A r \in DOMAIN calls :
              calls'[r].status = "parked" => calls[r].status = "parked" /\ calls'[r] = calls[r]
<1>1. /\ calls \in Seq(CallRecord) /\ Len(calls) \in Nat /\ DOMAIN calls = 1 .. Len(calls)
      /\ \A r \in DOMAIN calls : calls[r] \in CallRecord
  BY ElementOfSeq DEF WizInv, Types
<1>2. ASSUME NEW r \in DOMAIN calls
      PROVE  /\ calls'[r] \in CallRecord
             /\ calls'[r].status = "parked" => calls[r].status = "parked" /\ calls'[r] = calls[r]
  <2>1. CASE calls'[r] = calls[r]
    BY <1>1, <2>1
  <2>2. ASSUME NEW st \in {"ok", "error", "exit", "timeout"},
               calls'[r] = [calls[r] EXCEPT !.status = st]
        PROVE  calls'[r] \in CallRecord /\ calls'[r].status # "parked"
    BY <1>1, <2>2 DEF CallRecord
  <2>3. QED
    BY <2>1, <2>2
<1>3. DOMAIN calls' = 1 .. Len(calls)
  BY <1>1
<1>4. calls' \in [1 .. Len(calls) -> CallRecord]
  BY <1>1, <1>2, <1>3
<1>5. QED
  BY <1>1, <1>2, <1>3, <1>4, SeqDef

LEMMA ToSetFacts ==
  /\ ToSet(<<>>) = {}
  /\ \A k, s : s \in Seq(Nat) /\ k \in Nat =>
       <<k>> \o s \in Seq(Nat) /\ ToSet(<<k>> \o s) = {k} \cup ToSet(s)
<1>1. ToSet(<<>>) = {}
  BY DEF ToSet
<1>2. ASSUME NEW s \in Seq(Nat), NEW k \in Nat
      PROVE  <<k>> \o s \in Seq(Nat) /\ ToSet(<<k>> \o s) = {k} \cup ToSet(s)
  <2> DEFINE t == <<k>> \o s
  <2>1. /\ Len(s) \in Nat /\ DOMAIN s = 1 .. Len(s)
        /\ t \in Seq(Nat) /\ DOMAIN t = 1 .. (Len(s) + 1) /\ t[1] = k
        /\ \A i \in 1 .. Len(s) : t[i + 1] = s[i]
    OBVIOUS
  <2> HIDE DEF t
  <2>2. ASSUME NEW x \in ToSet(t) PROVE x \in {k} \cup ToSet(s)
    <3>1. PICK i \in 1 .. (Len(s) + 1) : x = t[i]
      BY <2>1, <2>2 DEF ToSet
    <3>2. CASE i = 1
      BY <2>1, <3>1, <3>2
    <3>3. CASE i # 1
      <4>1. i - 1 \in 1 .. Len(s) /\ x = t[(i - 1) + 1]
        BY <2>1, <3>1, <3>3
      <4>2. QED
        BY <2>1, <4>1 DEF ToSet
    <3>4. QED
      BY <3>2, <3>3
  <2>3. k \in ToSet(t)
    <3>1. 1 \in DOMAIN t
      BY <2>1
    <3>2. QED
      BY <2>1, <3>1 DEF ToSet
  <2>4. ASSUME NEW x \in ToSet(s) PROVE x \in ToSet(t)
    <3>1. PICK i \in 1 .. Len(s) : x = s[i]
      BY <2>1, <2>4 DEF ToSet
    <3>2. i + 1 \in DOMAIN t /\ x = t[i + 1]
      BY <2>1, <3>1
    <3>3. QED
      BY <3>2 DEF ToSet
  <2>5. QED
    BY <2>1, <2>2, <2>3, <2>4 DEF t
<1>3. QED
  BY <1>1, <1>2

\* start_scan leaves one discovery under way, which has heard nothing wrong.
LEMMA StartScanOK ==
  ASSUME WizInv, NEW sc \in Scope, StartScan(sc), UNCHANGED <<addr, cache, result, moved>>
  PROVE  /\ scanning' = TRUE /\ scans' \in Nat
         /\ worker' \in Worker \cup {None}
         /\ worker' # None \/ result' # None
         /\ worker' = None \/ result' = None
         /\ Heard' /\ CacheFresh'
<1>1. CASE scanning
  BY <1>1 DEF StartScan, WizInv, Types, ScanBacked, Heard, Right, CacheFresh
<1>2. CASE ~scanning
  <2> DEFINE w == [scope |-> sc, found |-> [a \in {} |-> None]]
  <2>1. result = None /\ result' = None /\ scans' \in Nat
    BY <1>2 DEF WizInv, ScanBacked, StartScan, Types
  <2>2. w \in Worker /\ w # None /\ w.found = [a \in {} |-> None]
    BY RepliesFacts, WizAssumption DEF Worker
  <2>3. worker' = w /\ scanning' = TRUE
    BY <1>2 DEF StartScan
  <2> HIDE DEF w
  <2>4. Right(worker.found)'
    BY <2>2, <2>3 DEF Right
  <2>5. Heard' /\ CacheFresh'
    BY <2>1, <2>4 DEF Heard, CacheFresh, WizInv
  <2>6. QED
    BY <2>1, <2>2, <2>3, <2>5
<1>3. QED
  BY <1>1, <1>2 DEF WizInv, Types
\* A step that parks nobody and leaves the discovery alone.
LEMMA CallsOnlyOK ==
  ASSUME WizInv, UNCHANGED <<addr, state, scans, movedNow, moved>>,
         calls' \in Seq(CallRecord),
         \A r \in DOMAIN calls' :
           calls'[r].status = "parked" => r \in DOMAIN calls /\ calls[r].status = "parked"
  PROVE  WizInv'
<1>1. Types'
  BY DEF WizInv, Types, state
<1>2. ScanBacked'
  BY DEF WizInv, ScanBacked, state
<1>3. Heard' /\ CacheFresh'
  BY DEF WizInv, Heard, Right, CacheFresh, state
<1>4. QED
  BY <1>1, <1>2, <1>3 DEF WizInv

LEMMA CallOK ==
  ASSUME WizInv, NEW n \in Name, NEW action \in {"pilot", "get_state"}, Call(n, action)
  PROVE  WizInv'
<1>1. UNCHANGED <<addr, cache, waiters, result, moved, bound>>
  BY DEF Call
<1>2. ASSUME NEW status \in {"ok", "error"}, NewCall(n, action, status, 0),
             UNCHANGED <<scanning, pending, worker, scans, movedNow>>
      PROVE  WizInv'
  <2>1. PICK k : k = Len(calls) + 1
    OBVIOUS
  <2>2. /\ calls' \in Seq(CallRecord)
        /\ DOMAIN calls' = DOMAIN calls \cup {k}
        /\ calls'[k].status = status
        /\ \A r \in DOMAIN calls : calls'[r] = calls[r]
    <3>1. /\ n \in Name \cup {None} /\ action \in {"pilot", "get_state", "discover"}
          /\ status \in {"ok", "error", "parked"} /\ 0 \in Nat
      OBVIOUS
    <3>2. NewCall(n, action, status, 0)
      BY <1>2
    <3>3. QED
      BY <2>1, <3>1, <3>2, NewCallOK
  <2>3. ASSUME NEW r \in DOMAIN calls', calls'[r].status = "parked"
        PROVE  r \in DOMAIN calls /\ calls[r].status = "parked"
    <3>1. r # k
      BY <1>2, <2>2, <2>3
    <3>2. QED
      BY <2>2, <2>3, <3>1
  <2>4. UNCHANGED <<addr, state, scans, movedNow, moved>>
    BY <1>1, <1>2 DEF state
  <2>5. QED
    BY <2>2, <2>3, <2>4, CallsOnlyOK
<1>3. ASSUME StartScan("local24"), NewCall(n, action, "parked", scans'),
             pending' = <<Len(calls) + 1>> \o pending
      PROVE  WizInv'
  <2>1. PICK k : k = Len(calls) + 1
    OBVIOUS
  <2>2. /\ scanning' = TRUE /\ scans' \in Nat
        /\ worker' \in Worker \cup {None}
        /\ worker' # None \/ result' # None
        /\ worker' = None \/ result' = None
        /\ Heard' /\ CacheFresh'
    BY <1>1, <1>3, StartScanOK DEF Scope
  <2>3. /\ calls' \in Seq(CallRecord) /\ k \in Nat
        /\ DOMAIN calls' = DOMAIN calls \cup {k}
        /\ \A r \in DOMAIN calls : calls'[r] = calls[r]
    BY <1>3, <2>1, <2>2, NewCallOK
  <2>4. pending' \in Seq(Nat) /\ ToSet(pending') = {k} \cup ToSet(pending)
    <3>1. pending \in Seq(Nat) /\ pending' = <<k>> \o pending
      BY <1>3, <2>1 DEF WizInv, Types
    <3>2. QED
      BY <2>3, <3>1, ToSetFacts
  <2>5. \A r \in DOMAIN calls' :
          calls'[r].status = "parked" => r \in waiters' \cup ToSet(pending')
    BY <1>1, <2>3, <2>4 DEF WizInv, ScanBacked
  <2>6. ToSet(pending)' = ToSet(pending')
    BY DEF ToSet
  <2>7. ScanBacked'
    BY <2>2, <2>5, <2>6 DEF ScanBacked
  <2>8. Types'
    BY <1>1, <2>2, <2>3, <2>4 DEF WizInv, Types
  <2>9. QED
    BY <2>2, <2>7, <2>8 DEF WizInv
<1>4. QED
  BY <1>2, <1>3 DEF Call

LEMMA DiscoverOK == ASSUME WizInv, Discover PROVE WizInv'
<1>1. PICK k : k = Len(calls) + 1
  OBVIOUS
<1>2. UNCHANGED <<addr, cache, pending, result, sent, moved, bound>>
  BY DEF Discover
<1>3. /\ scanning' = TRUE /\ scans' \in Nat
      /\ worker' \in Worker \cup {None}
      /\ worker' # None \/ result' # None
      /\ worker' = None \/ result' = None
      /\ Heard' /\ CacheFresh'
  BY <1>2, StartScanOK DEF Scope, Discover
<1>4. /\ calls' \in Seq(CallRecord)
      /\ DOMAIN calls' = DOMAIN calls \cup {k}
      /\ \A r \in DOMAIN calls : calls'[r] = calls[r]
  BY <1>1, <1>3, NewCallOK DEF Discover
<1>5. waiters' = waiters \cup {k}
  BY <1>1 DEF Discover
<1>6. \A r \in DOMAIN calls' :
        calls'[r].status = "parked" => r \in waiters' \cup ToSet(pending)
  BY <1>4, <1>5 DEF WizInv, ScanBacked
<1>7. ScanBacked'
  BY <1>2, <1>3, <1>6 DEF ScanBacked
<1>8. Types'
  BY <1>2, <1>3, <1>4 DEF WizInv, Types
<1>9. QED
  BY <1>3, <1>7, <1>8 DEF WizInv

LEMMA RefreshOK == ASSUME WizInv, Refresh PROVE WizInv'
<1>1. UNCHANGED <<addr, cache, waiters, pending, result, calls, sent, moved, bound>>
  BY DEF Refresh
<1>2. /\ scanning' = TRUE /\ scans' \in Nat
      /\ worker' \in Worker \cup {None}
      /\ worker' # None \/ result' # None
      /\ worker' = None \/ result' = None
      /\ Heard' /\ CacheFresh'
  BY <1>1, StartScanOK DEF Scope, Refresh
<1>3. ScanBacked'
  BY <1>1, <1>2 DEF WizInv, ScanBacked
<1>4. Types'
  BY <1>1, <1>2 DEF WizInv, Types
<1>5. QED
  BY <1>2, <1>3, <1>4 DEF WizInv

LEMMA GivesUpOK == ASSUME WizInv, NEW q \in DOMAIN calls, GivesUp(q) PROVE WizInv'
<1>1. /\ UNCHANGED <<addr, state, scans, movedNow, moved>>
      /\ calls' = [calls EXCEPT ![q].status = "timeout"]
  BY DEF GivesUp
<1>2. calls' = [r \in DOMAIN calls |-> calls'[r]]
  BY <1>1
<1>3. \A r \in DOMAIN calls :
        calls'[r] = calls[r] \/ calls'[r] = [calls[r] EXCEPT !.status = "timeout"]
  BY <1>1
<1>4. /\ calls' \in Seq(CallRecord) /\ DOMAIN calls' = DOMAIN calls
      /\ \A r \in DOMAIN calls : calls'[r].status = "parked" => calls[r].status = "parked"
  BY <1>2, <1>3, AnswersOK
<1>5. QED
  BY <1>1, <1>4, CallsOnlyOK

LEMMA HearOK == ASSUME WizInv, NEW a \in Address, Hear(a) PROVE WizInv'
<1>1. /\ worker # None
      /\ UNCHANGED <<addr, cache, scanning, waiters, pending, result, calls, sent, scans,
                     movedNow, moved, bound>>
  BY DEF Hear
<1>2. PICK n \in Mac :
        /\ addr[n] = a
        /\ worker' = [worker EXCEPT !.found = [b \in DOMAIN @ \cup {a} |->
                                                 IF b = a THEN n ELSE @[b]]]
  BY DEF Hear
<1> DEFINE f == [b \in DOMAIN worker.found \cup {a} |-> IF b = a THEN n ELSE worker.found[b]]
<1>3. worker \in Worker /\ worker.found \in Replies
  BY <1>1, RecordFacts DEF WizInv, Types
<1>4. f \in Replies
  BY <1>3, RepliesFacts
<1>5. worker' = [worker EXCEPT !.found = f]
  BY <1>2
<1>6. Right(worker.found)
  BY <1>1 DEF WizInv, Heard
<1>7. \A b \in DOMAIN f : f[b] \in movedNow \/ addr[f[b]] = b
  BY <1>2, <1>6 DEF Right
<1> HIDE DEF f
<1>8. worker' \in Worker /\ worker'.found = f
  BY <1>3, <1>4, <1>5 DEF Worker
<1>9. worker' # None
  BY <1>8, RecordFacts
<1>10. Right(worker.found)'
  BY <1>1, <1>7, <1>8 DEF Right
<1>11. Heard' /\ CacheFresh'
  BY <1>1, <1>10 DEF WizInv, Heard, CacheFresh, ScanBacked
<1>12. ScanBacked'
  BY <1>1, <1>9 DEF WizInv, ScanBacked
<1>13. Types'
  BY <1>1, <1>8 DEF WizInv, Types
<1>14. QED
  BY <1>11, <1>12, <1>13 DEF WizInv

LEMMA WorkerEndsOK == ASSUME WizInv, WorkerEnds PROVE WizInv'
<1>1. /\ worker # None /\ worker' = None
      /\ UNCHANGED <<addr, cache, scanning, waiters, pending, calls, sent, scans,
                     movedNow, moved, bound>>
  BY DEF WorkerEnds
<1>2. worker.found \in Replies /\ Right(worker.found)
  BY <1>1, RecordFacts DEF WizInv, Types, Heard
<1>3. /\ result' \in Result /\ result' # None
      /\ "found" \in DOMAIN result' => result'.found = worker.found
  BY <1>2, RecordFacts DEF WorkerEnds
<1>4. Heard'
  <2>1. ASSUME "found" \in DOMAIN result' PROVE Right(result.found)'
    BY <1>1, <1>2, <1>3, <2>1 DEF Right
  <2>2. QED
    BY <1>1, <2>1 DEF Heard
<1>5. ScanBacked' /\ CacheFresh'
  BY <1>1, <1>3 DEF WizInv, ScanBacked, CacheFresh
<1>6. Types'
  BY <1>1, <1>3 DEF WizInv, Types
<1>7. QED
  BY <1>4, <1>5, <1>6 DEF WizInv
\* Whoever is parked is told at the end of the discovery: nobody is parked any longer.
LEMMA AllTold ==
  ASSUME WizInv, calls' = [r \in DOMAIN calls |-> calls'[r]],
         \A r \in DOMAIN calls :
           \/ calls'[r] = Told(r, "ok") \/ calls'[r] = Told(r, "error")
           \/ calls'[r] = Told(r, "exit")
           \/ r \notin waiters \cup ToSet(pending) /\ calls'[r] = calls[r]
  PROVE  calls' \in Seq(CallRecord) /\ \A r \in DOMAIN calls' : calls'[r].status # "parked"
<1>1. /\ calls \in Seq(CallRecord) /\ \A r \in DOMAIN calls : calls[r] \in CallRecord
  BY ElementOfSeq DEF WizInv, Types
<1>2. ASSUME NEW r \in DOMAIN calls, NEW st \in {"ok", "error", "exit"},
             calls'[r] = Told(r, st)
      PROVE  /\ calls'[r] = calls[r] \/ calls'[r] = [calls[r] EXCEPT !.status = st]
             /\ calls'[r].status # "parked"
  BY <1>1, <1>2 DEF Told, CallRecord
<1>3. ASSUME NEW r \in DOMAIN calls
      PROVE  /\ \/ calls'[r] = calls[r]
                \/ \E st \in {"ok", "error", "exit", "timeout"} :
                     calls'[r] = [calls[r] EXCEPT !.status = st]
             /\ calls'[r].status # "parked"
  <2>1. CASE r \notin waiters \cup ToSet(pending) /\ calls'[r] = calls[r]
    BY <2>1 DEF WizInv, ScanBacked
  <2>2. CASE calls'[r] = Told(r, "ok")
    BY <1>2, <2>2
  <2>3. CASE calls'[r] = Told(r, "error")
    BY <1>2, <2>3
  <2>4. CASE calls'[r] = Told(r, "exit")
    BY <1>2, <2>4
  <2>5. QED
    BY <2>1, <2>2, <2>3, <2>4
<1>4. calls' \in Seq(CallRecord) /\ DOMAIN calls' = DOMAIN calls
  BY <1>3, AnswersOK
<1>5. QED
  BY <1>3, <1>4

\* The end of a discovery: the flag is down and nobody waits.
LEMMA IdleBacked ==
  ASSUME scanning' = FALSE, waiters' = {}, pending' = <<>>, worker' = None, result' = None,
         \A r \in DOMAIN calls' : calls'[r].status # "parked"
  PROVE  ScanBacked'
BY DEF ScanBacked

LEMMA IdleTypes ==
  ASSUME Types, UNCHANGED <<addr, scans>>, calls' \in Seq(CallRecord),
         scanning' = FALSE, pending' = <<>>, worker' = None, result' = None
  PROVE  Types'
<1>1. pending' \in Seq(Nat)
  OBVIOUS
<1>2. /\ addr' \in [Lamp -> Address] /\ scanning' \in BOOLEAN /\ scans' \in Nat
      /\ worker' \in Worker \cup {None} /\ result' \in Result \cup {None}
  BY DEF Types
<1>3. QED
  BY <1>1, <1>2 DEF Types

\* What was heard of a lamp that has not moved is its address, the only one.
LEMMA BuildCacheOK ==
  ASSUME WizInv, NEW found \in Replies, Right(found),
         NEW n \in Mac, {a \in DOMAIN found : found[a] = n} # {}, n \notin movedNow
  PROVE  BuildCache(found)[n] = addr[n]
<1> DEFINE heard == {a \in DOMAIN found : found[a] = n}
<1>1. heard = {addr[n]}
  BY DEF Right
<1>2. Max({addr[n]}) = addr[n]
  <2>1. addr[n] \in Nat
    BY WizAssumption DEF WizInv, Types, Lamp
  <2>2. QED
    BY <2>1 DEF Max
<1>3. BuildCache(found)[n] = IF heard = {} THEN cache[n] ELSE Max(heard)
  BY DEF BuildCache
<1>4. QED
  BY <1>1, <1>2, <1>3

LEMMA DiscoveryOkOK == ASSUME WizInv, DiscoveryOk PROVE WizInv'
<1> DEFINE found == result.found
<1>1. /\ result # None /\ "found" \in DOMAIN result /\ result' = None
      /\ scanning' = FALSE /\ waiters' = {} /\ pending' = <<>>
      /\ UNCHANGED <<addr, worker, scans, movedNow, bound>>
      /\ cache' = BuildCache(found)
      /\ moved' = {n \in Mac : IF n \in {found[a] : a \in DOMAIN found}
                               THEN n \in movedNow ELSE n \in moved}
  BY DEF DiscoveryOk, Drained
<1>2. PICK ok, S :
        calls' = [r \in DOMAIN calls |->
                    IF r \in waiters \cup ok THEN Told(r, "ok")
                    ELSE IF r \in S THEN Told(r, "error") ELSE calls[r]]
        /\ S = ToSet(pending)
  BY DEF DiscoveryOk
<1>3. worker' = None
  BY <1>1 DEF WizInv, ScanBacked
<1>4. calls' \in Seq(CallRecord) /\ \A r \in DOMAIN calls' : calls'[r].status # "parked"
  <2>1. calls' = [r \in DOMAIN calls |-> calls'[r]]
    BY <1>2
  <2>2. \A r \in DOMAIN calls :
          \/ calls'[r] = Told(r, "ok") \/ calls'[r] = Told(r, "error")
          \/ r \notin waiters \cup ToSet(pending) /\ calls'[r] = calls[r]
    BY <1>2
  <2>3. QED
    BY <2>1, <2>2, AllTold
<1>5. ScanBacked'
  BY <1>1, <1>3, <1>4, IdleBacked
<1>6. found \in Replies /\ Right(found)
  BY <1>1, RecordFacts DEF WizInv, Types, Heard
<1> HIDE DEF found
<1>7. ASSUME NEW n \in Mac PROVE cache'[n] \in {None, addr[n]} \/ n \in moved'
  <2> DEFINE heard == {a \in DOMAIN found : found[a] = n}
  <2>1. CASE heard = {}
    <3>1. cache'[n] = cache[n]
      BY <1>1, <2>1 DEF BuildCache
    <3>2. n \in moved => n \in moved'
      BY <1>1, <2>1
    <3>3. QED
      BY <3>1, <3>2 DEF WizInv, CacheFresh
  <2>2. CASE heard # {} /\ n \in movedNow
    BY <1>1, <2>2
  <2>3. CASE heard # {} /\ n \notin movedNow
    BY <1>1, <1>6, <2>3, BuildCacheOK
  <2>4. QED
    BY <2>1, <2>2, <2>3
<1>8. CacheFresh'
  BY <1>1, <1>7 DEF CacheFresh
<1>9. Heard'
  BY <1>1, <1>3 DEF Heard
<1>10. Types'
  BY <1>1, <1>3, <1>4, IdleTypes DEF WizInv
<1>11. QED
  BY <1>5, <1>8, <1>9, <1>10 DEF WizInv

LEMMA DiscoveryErrorOK == ASSUME WizInv, DiscoveryError PROVE WizInv'
<1>1. /\ result # None /\ result' = None
      /\ calls' = [r \in DOMAIN calls |->
                     IF r \in waiters \cup ToSet(pending) THEN Told(r, "error") ELSE calls[r]]
      /\ scanning' = FALSE /\ waiters' = {} /\ pending' = <<>>
      /\ UNCHANGED <<addr, cache, worker, sent, scans, movedNow, moved, bound>>
  BY DEF DiscoveryError
<1>2. worker' = None
  BY <1>1 DEF WizInv, ScanBacked
<1>3. calls' \in Seq(CallRecord) /\ \A r \in DOMAIN calls' : calls'[r].status # "parked"
  <2>1. calls' = [r \in DOMAIN calls |-> calls'[r]]
    BY <1>1
  <2>2. \A r \in DOMAIN calls :
          \/ calls'[r] = Told(r, "error")
          \/ r \notin waiters \cup ToSet(pending) /\ calls'[r] = calls[r]
    BY <1>1
  <2>3. QED
    BY <2>1, <2>2, AllTold
<1>4. ScanBacked'
  BY <1>1, <1>2, <1>3, IdleBacked
<1>5. Heard' /\ CacheFresh'
  BY <1>1, <1>2 DEF WizInv, Heard, CacheFresh
<1>6. Types'
  BY <1>1, <1>2, <1>3, IdleTypes DEF WizInv
<1>7. QED
  BY <1>4, <1>5, <1>6 DEF WizInv

LEMMA MoveOK == ASSUME WizInv, NEW n \in Mac, NEW a \in Address, Move(n, a) PROVE WizInv'
<1>1. /\ addr' = [addr EXCEPT ![n] = a]
      /\ movedNow' = movedNow \cup {n} /\ moved' = moved \cup {n}
      /\ UNCHANGED <<state, calls, sent, scans, restarts>>
  BY DEF Move
<1>2. Types'
  BY <1>1 DEF WizInv, Types, state
<1>3. ScanBacked'
  BY <1>1 DEF WizInv, ScanBacked, state
<1>4. CacheFresh'
  <2>1. ASSUME NEW m \in Mac PROVE cache[m] \in {None, addr'[m]} \/ m \in moved'
    BY <1>1 DEF WizInv, CacheFresh, Types, Lamp
  <2>2. QED
    BY <1>1, <2>1 DEF CacheFresh, state
<1>5. ASSUME NEW f \in Replies, Right(f)
      PROVE  \A b \in DOMAIN f : f[b] \in movedNow' \/ addr'[f[b]] = b
  <2>1. ASSUME NEW b \in DOMAIN f PROVE f[b] \in movedNow' \/ addr'[f[b]] = b
    <3>1. f[b] \in Lamp
      BY RepliesFacts DEF Lamp
    <3>2. f[b] \in movedNow \/ addr[f[b]] = b
      BY <1>5 DEF Right
    <3>3. QED
      BY <1>1, <3>1, <3>2 DEF WizInv, Types
  <2>2. QED
    BY <2>1
<1>6. worker' # None => Right(worker.found)'
  BY <1>1, <1>5, RecordFacts DEF WizInv, Types, Heard, Right, state
<1>7. result' # None /\ "found" \in DOMAIN result' => Right(result.found)'
  BY <1>1, <1>5, RecordFacts DEF WizInv, Types, Heard, Right, state
<1>8. QED
  BY <1>2, <1>3, <1>4, <1>6, <1>7 DEF WizInv, Heard

LEMMA RestartOK == ASSUME WizInv, Restart PROVE WizInv'
<1>1. /\ cache' = [n \in Mac |-> None]
      /\ scanning' = FALSE /\ waiters' = {} /\ pending' = <<>>
      /\ worker' = None /\ result' = None
      /\ calls' = [r \in DOMAIN calls |-> Told(r, "exit")]
      /\ UNCHANGED <<addr, sent, scans, movedNow, moved, moves>>
  BY DEF Restart
<1>2. calls' \in Seq(CallRecord) /\ \A r \in DOMAIN calls' : calls'[r].status # "parked"
  BY <1>1, AllTold
<1>3. ScanBacked'
  BY <1>1, <1>2, IdleBacked
<1>4. Heard' /\ CacheFresh'
  BY <1>1 DEF Heard, CacheFresh
<1>5. Types'
  BY <1>1, <1>2, IdleTypes DEF WizInv
<1>6. QED
  BY <1>3, <1>4, <1>5 DEF WizInv

LEMMA StutterOK == ASSUME WizInv, UNCHANGED vars PROVE WizInv'
<1>1. UNCHANGED <<addr, state, calls, scans, movedNow, moved>>
  BY DEF vars
<1>2. Types'
  BY <1>1 DEF WizInv, Types, state
<1>3. ScanBacked' /\ CacheFresh'
  BY <1>1 DEF WizInv, ScanBacked, CacheFresh, state
<1>4. Heard'
  BY <1>1 DEF WizInv, Heard, Right, state
<1>5. QED
  BY <1>2, <1>3, <1>4 DEF WizInv

LEMMA NextOK == ASSUME WizInv, [Next]_vars PROVE WizInv'
<1>1. CASE \E n \in Name, action \in {"pilot", "get_state"} : Call(n, action)
  BY <1>1, CallOK
<1>2. CASE Discover \/ Refresh
  BY <1>2, DiscoverOK, RefreshOK
<1>3. CASE \E r \in DOMAIN calls : GivesUp(r)
  BY <1>3, GivesUpOK
<1>4. CASE \E a \in Address : Hear(a)
  BY <1>4, HearOK
<1>5. CASE WorkerEnds \/ DiscoveryOk \/ DiscoveryError
  BY <1>5, WorkerEndsOK, DiscoveryOkOK, DiscoveryErrorOK
<1>6. CASE \E n \in Mac, a \in Address : Move(n, a)
  BY <1>6, MoveOK
<1>7. CASE Restart
  BY <1>7, RestartOK
<1>8. CASE UNCHANGED vars
  BY <1>8, StutterOK
<1>9. QED
  BY <1>1, <1>2, <1>3, <1>4, <1>5, <1>6, <1>7, <1>8 DEF Next

-----------------------------------------------------------------------------
(* Commands on their way to the lamps.  In what follows c, p, s, w, n, g    *)
(* and a are values of calls, pending, sent, waiters, scans, scanning and   *)
(* cache.                                                                   *)

\* The parked requests: the newest first, for lamps that are not in the cache, all of
\* the discovery that is under way.
Queued(c, p, n, a) ==
  /\ \A k \in DOMAIN p :
       /\ p[k] \in DOMAIN c /\ c[p[k]].name \in Mac /\ a[c[p[k]].name] = None
       /\ c[p[k]].batch = n
       /\ c[p[k]].action # "discover" /\ c[p[k]].status \in {"parked", "timeout"}
  /\ \A k, l \in DOMAIN p : k < l => p[k] > p[l]

\* What was sent is of pilot calls, each once, and of no discovery that is under way.
Posted(c, s, n, g) ==
  /\ s \in Seq(ToSet(s))
  /\ \A i \in DOMAIN s :
       /\ s[i].call \in DOMAIN c /\ c[s[i].call].action = "pilot"
       /\ c[s[i].call].status \in {"ok", "timeout"}
       /\ g => c[s[i].call].batch # n
  /\ \A i, j \in DOMAIN s : s[i].call = s[j].call => i = j

\* A parked request is newer than what was sent to its lamp.
Newer(c, p, s) ==
  \A i \in DOMAIN s, k \in DOMAIN p : c[s[i].call].name = c[p[k]].name => s[i].call < p[k]

\* Whoever was told that a command was sent, is right.
Fulfilled(c, s) ==
  \A r \in DOMAIN c :
    c[r].action = "pilot" /\ c[r].status = "ok" => \E i \in DOMAIN s : s[i].call = r

\* Discoveries are numbered; 0 is for requests that parked behind none.
Numbered(c, n, g) == (g => n # 0) /\ \A r \in DOMAIN c : c[r].batch <= n

\* Commands to one lamp are sent as OrderKept says.
InTurn(c, s) ==
  \A i, j \in DOMAIN s :
    i < j /\ c[s[i].call].name = c[s[j].call].name =>
      (s[i].call < s[j].call)
        <=> (c[s[i].call].batch = 0 \/ c[s[i].call].batch # c[s[j].call].batch)

Askers(c, w) == \A r \in w : r \in DOMAIN c /\ c[r].action = "discover"

Traffic(c, p, s, w, n, g, a) ==
  /\ Queued(c, p, n, a) /\ Posted(c, s, n, g) /\ Newer(c, p, s) /\ Fulfilled(c, s)
  /\ Numbered(c, n, g) /\ InTurn(c, s) /\ Askers(c, w)

TrafficInv == Traffic(calls, pending, sent, waiters, scans, scanning, cache)

CallSeq == Seq(CallRecord)

LEMMA CallFacts ==
  ASSUME NEW c \in CallSeq
  PROVE  /\ Len(c) \in Nat /\ DOMAIN c = 1 .. Len(c)
         /\ \A r \in DOMAIN c : c[r] \in CallRecord /\ c[r].batch \in Nat
<1>1. Len(c) \in Nat /\ DOMAIN c = 1 .. Len(c) /\ \A r \in DOMAIN c : c[r] \in CallRecord
  BY ElementOfSeq DEF CallSeq
<1>2. \A e \in CallRecord : e.batch \in Nat
  BY DEF CallRecord
<1>3. QED
  BY <1>1, <1>2

\* The elements of a sequence, and the sequence with one element more
LEMMA OwnElements ==
  ASSUME NEW S, NEW q \in Seq(S)
  PROVE  /\ q \in Seq(ToSet(q)) /\ Len(q) \in Nat /\ DOMAIN q = 1 .. Len(q)
         /\ \A i \in DOMAIN q : q[i] \in S
<1>1. Len(q) \in Nat /\ DOMAIN q = 1 .. Len(q) /\ q = [i \in 1 .. Len(q) |-> q[i]]
      /\ \A i \in DOMAIN q : q[i] \in S
  BY ElementOfSeq
<1>2. q \in [1 .. Len(q) -> ToSet(q)]
  BY <1>1 DEF ToSet
<1>3. QED
  BY <1>1, <1>2, SeqDef

LEMMA OneMore ==
  ASSUME NEW S, NEW q \in Seq(S), NEW e
  PROVE  /\ Append(q, e) \in Seq(ToSet(Append(q, e)))
         /\ Len(q) \in Nat /\ DOMAIN q = 1 .. Len(q)
         /\ DOMAIN Append(q, e) = 1 .. Len(q) + 1
         /\ Append(q, e)[Len(q) + 1] = e
         /\ \A i \in DOMAIN q : Append(q, e)[i] = q[i]
<1>1. q \in Seq(S \cup {e})
  BY SeqMonotonic
<1> DEFINE T == S \cup {e}
<1>2. q \in Seq(T) /\ e \in T
  BY <1>1
<1> HIDE DEF T
<1>3. /\ Append(q, e) \in Seq(T) /\ Len(q) \in Nat /\ DOMAIN q = 1 .. Len(q)
      /\ DOMAIN Append(q, e) = 1 .. Len(q) + 1
      /\ Append(q, e)[Len(q) + 1] = e
      /\ \A i \in 1 .. Len(q) : Append(q, e)[i] = q[i]
  BY <1>2
<1>4. Append(q, e) \in Seq(ToSet(Append(q, e)))
  BY <1>3, OwnElements
<1>5. QED
  BY <1>3, <1>4

\* A discovery starts while nobody is parked.
LEMMA ScanTraffic ==
  ASSUME NEW c \in CallSeq, NEW p, p = <<>>, NEW s, NEW w, NEW n \in Nat, NEW g, NEW a,
         Traffic(c, p, s, w, n, g, a)
  PROVE  Traffic(c, p, s, w, n + 1, TRUE, a)
<1>1. \A r \in DOMAIN c : c[r].batch \in Nat /\ c[r].batch <= n
  BY CallFacts DEF Traffic, Numbered
<1>2. Queued(c, p, n + 1, a)
  BY DEF Queued
<1>3. Posted(c, s, n + 1, TRUE)
  BY <1>1 DEF Traffic, Posted
<1>4. Numbered(c, n + 1, TRUE)
  BY <1>1 DEF Numbered
<1>5. QED
  BY <1>2, <1>3, <1>4 DEF Traffic

\* A request is answered, refused or parked; pending and sent are as before.
LEMMA NewTraffic ==
  ASSUME NEW c \in CallSeq, NEW p, NEW s, NEW w, NEW n \in Nat, NEW g, NEW a,
         Traffic(c, p, s, w, n, g, a),
         NEW e \in CallRecord, e.batch <= n, ~(e.action = "pilot" /\ e.status = "ok"),
         NEW d, d = Append(c, e), NEW m, m = Len(c) + 1
  PROVE  /\ Traffic(d, p, s, w, n, g, a)
         /\ e.action = "discover" => Traffic(d, p, s, w \cup {m}, n, g, a)
<1>1. /\ DOMAIN d = DOMAIN c \cup {m} /\ d[m] = e
      /\ \A r \in DOMAIN c : d[r] = c[r]
  <2>1. /\ DOMAIN c = 1 .. Len(c) /\ Len(c) \in Nat /\ DOMAIN d = 1 .. m /\ d[m] = e
        /\ \A r \in 1 .. Len(c) : d[r] = c[r]
    BY DEF CallSeq
  <2>2. QED
    BY <2>1
<1>2. \A i \in DOMAIN s : s[i].call \in DOMAIN c /\ d[s[i].call] = c[s[i].call]
  BY <1>1 DEF Traffic, Posted
<1>3. \A k \in DOMAIN p : p[k] \in DOMAIN c /\ d[p[k]] = c[p[k]]
  BY <1>1 DEF Traffic, Queued
<1>4. Queued(d, p, n, a)
  BY <1>1, <1>3 DEF Traffic, Queued
<1>5. Posted(d, s, n, g)
  BY <1>1, <1>2 DEF Traffic, Posted
<1>6. Newer(d, p, s)
  BY <1>2, <1>3 DEF Traffic, Newer
<1>7. Fulfilled(d, s)
  BY <1>1 DEF Traffic, Fulfilled
<1>8. Numbered(d, n, g)
  BY <1>1 DEF Traffic, Numbered
<1>9. InTurn(d, s)
  BY <1>2 DEF Traffic, InTurn
<1>10. Askers(d, w) /\ (e.action = "discover" => Askers(d, w \cup {m}))
  BY <1>1 DEF Traffic, Askers
<1>11. QED
  BY <1>4, <1>5, <1>6, <1>7, <1>8, <1>9, <1>10 DEF Traffic

\* A request for a lamp of the cache is sent at once: it is the newest of all.
LEMMA SendTraffic ==
  ASSUME NEW c \in CallSeq, NEW p, NEW s, NEW w, NEW n \in Nat, NEW g, NEW a,
         Traffic(c, p, s, w, n, g, a),
         NEW e \in CallRecord, e.batch = 0, e.action = "pilot", e.status = "ok",
         e.name \in Mac => a[e.name] # None,
         NEW d, d = Append(c, e), NEW m, m = Len(c) + 1,
         NEW x, x.call = m, NEW t, t = Append(s, x)
  PROVE  Traffic(d, p, t, w, n, g, a)
<1>1. /\ DOMAIN d = DOMAIN c \cup {m} /\ d[m] = e
      /\ m \in Nat /\ \A r \in DOMAIN c : r \in Nat /\ r < m /\ d[r] = c[r]
  <2>1. /\ DOMAIN c = 1 .. Len(c) /\ Len(c) \in Nat /\ DOMAIN d = 1 .. m /\ d[m] = e
        /\ \A r \in 1 .. Len(c) : d[r] = c[r]
    BY DEF CallSeq
  <2>2. QED
    BY <2>1
<1>2. PICK z : z = Len(s) + 1
  OBVIOUS
<1>3. /\ t \in Seq(ToSet(t)) /\ z \in Nat /\ DOMAIN s \subseteq Nat
      /\ DOMAIN t = DOMAIN s \cup {z} /\ t[z] = x
      /\ \A i \in DOMAIN s : i < z /\ t[i] = s[i]
  <2>1. s \in Seq(ToSet(s))
    BY DEF Traffic, Posted
  <2>2. /\ t \in Seq(ToSet(t)) /\ Len(s) \in Nat /\ DOMAIN s = 1 .. Len(s)
        /\ DOMAIN t = 1 .. Len(s) + 1 /\ t[Len(s) + 1] = x
        /\ \A i \in DOMAIN s : t[i] = s[i]
    BY <2>1, OneMore
  <2>3. QED
    BY <1>2, <2>2
<1>4. /\ \A i \in DOMAIN s : s[i].call \in DOMAIN c /\ d[s[i].call] = c[s[i].call] /\ s[i].call < m
      /\ d[t[z].call] = e /\ t[z].call = m
  BY <1>1, <1>3 DEF Traffic, Posted
<1>5. \A k \in DOMAIN p : p[k] \in DOMAIN c /\ d[p[k]] = c[p[k]] /\ d[p[k]].name # e.name
  BY <1>1 DEF Traffic, Queued
<1>6. Queued(d, p, n, a)
  BY <1>1, <1>5 DEF Traffic, Queued
<1>7. Posted(d, t, n, g)
  <2>1. \A i \in DOMAIN t :
       /\ t[i].call \in DOMAIN d /\ d[t[i].call].action = "pilot"
       /\ d[t[i].call].status \in {"ok", "timeout"}
       /\ g => d[t[i].call].batch # n
    BY <1>1, <1>3, <1>4 DEF Traffic, Posted, Numbered
  <2>2. \A i, j \in DOMAIN t : t[i].call = t[j].call => i = j
    BY <1>1, <1>3, <1>4 DEF Traffic, Posted
  <2>3. QED
    BY <1>3, <2>1, <2>2 DEF Posted
<1>8. Newer(d, p, t)
  <2>1. ASSUME NEW i \in DOMAIN t, NEW k \in DOMAIN p, d[t[i].call].name = d[p[k]].name
        PROVE  t[i].call < p[k]
    <3>1. i # z
      BY <1>4, <1>5, <2>1
    <3>2. i \in DOMAIN s /\ t[i] = s[i]
      BY <1>3, <3>1
    <3>3. QED
      BY <1>4, <1>5, <2>1, <3>2 DEF Traffic, Newer
  <2>2. QED
    BY <2>1 DEF Newer
<1>9. Fulfilled(d, t)
  <2>1. ASSUME NEW r \in DOMAIN d, d[r].action = "pilot", d[r].status = "ok"
        PROVE  \E i \in DOMAIN t : t[i].call = r
    <3>1. CASE r = m
      BY <1>3, <1>4, <3>1
    <3>2. CASE r # m
      BY <1>1, <1>3, <2>1, <3>2 DEF Traffic, Fulfilled
    <3>3. QED
      BY <3>1, <3>2
  <2>2. QED
    BY <2>1 DEF Fulfilled
<1>10. Numbered(d, n, g)
  BY <1>1 DEF Traffic, Numbered
<1>11. InTurn(d, t)
  <2>1. ASSUME NEW i \in DOMAIN t, NEW j \in DOMAIN t,
               i < j, d[t[i].call].name = d[t[j].call].name
        PROVE  (t[i].call < t[j].call)
                 <=> (d[t[i].call].batch = 0 \/ d[t[i].call].batch # d[t[j].call].batch)
    <3>1. i # z
      BY <1>3, <2>1
    <3>2. i \in DOMAIN s /\ t[i] = s[i]
      BY <1>3, <3>1
    <3>3. CASE j = z
      BY <1>4, <3>2, <3>3
    <3>4. CASE j # z
      <4>1. j \in DOMAIN s /\ t[j] = s[j]
        BY <1>3, <3>4
      <4>2. d[s[i].call] = c[s[i].call] /\ d[s[j].call] = c[s[j].call]
        BY <1>4, <3>2, <4>1
      <4>3. c[s[i].call].name = c[s[j].call].name
        BY <2>1, <3>2, <4>1, <4>2
      <4>4. (s[i].call < s[j].call)
              <=> (c[s[i].call].batch = 0 \/ c[s[i].call].batch # c[s[j].call].batch)
        BY <1>1, <2>1, <3>2, <4>1, <4>3 DEF Traffic, InTurn
      <4>5. QED
        BY <3>2, <4>1, <4>2, <4>4
    <3>5. QED
      BY <3>3, <3>4
  <2>2. QED
    BY ONLY <2>1 DEF InTurn
<1>12. Askers(d, w)
  BY <1>1 DEF Traffic, Askers
<1>13. QED
  BY <1>6, <1>7, <1>8, <1>9, <1>10, <1>11, <1>12 DEF Traffic

\* Of the calls whose status changes, each was parked; it is answered, or its caller gives
\* up or dies with the process.
Closes(c, d, S) ==
  /\ DOMAIN d = DOMAIN c
  /\ \A r \in DOMAIN c :
       \/ d[r] = c[r]
       \/ /\ c[r].status = "parked"
          /\ \E st \in S : d[r] = [c[r] EXCEPT !.status = st]

LEMMA ClosesFacts ==
  ASSUME NEW c \in CallSeq, NEW d, NEW S, Closes(c, d, S)
  PROVE  \A r \in DOMAIN c :
           /\ d[r].name = c[r].name /\ d[r].action = c[r].action /\ d[r].batch = c[r].batch
           /\ \/ d[r].status = c[r].status
              \/ c[r].status = "parked" /\ d[r].status \in S
<1>1. ASSUME NEW r \in DOMAIN c
      PROVE  /\ d[r].name = c[r].name /\ d[r].action = c[r].action /\ d[r].batch = c[r].batch
             /\ \/ d[r].status = c[r].status
                \/ c[r].status = "parked" /\ d[r].status \in S
  <2>1. c[r] \in CallRecord
    BY CallFacts
  <2>2. CASE d[r] = c[r]
    BY <2>2
  <2>3. ASSUME c[r].status = "parked", NEW st \in S, d[r] = [c[r] EXCEPT !.status = st]
        PROVE  /\ d[r].name = c[r].name /\ d[r].action = c[r].action /\ d[r].batch = c[r].batch
               /\ d[r].status = st
    BY <2>1, <2>3 DEF CallRecord
  <2>4. QED
    BY <2>2, <2>3 DEF Closes
<1>2. QED
  BY <1>1

\* Nothing is sent when a caller gives up, a discovery fails or the process dies.
LEMMA CloseTraffic ==
  ASSUME NEW c \in CallSeq, NEW p, NEW s, NEW w, NEW n \in Nat, NEW g, NEW a,
         Traffic(c, p, s, w, n, g, a), NEW d
  PROVE  /\ Closes(c, d, {"timeout"}) => Traffic(d, p, s, w, n, g, a)
         /\ \A b : Closes(c, d, {"error", "exit"}) => Traffic(d, <<>>, s, {}, n, FALSE, b)
<1>1. ASSUME NEW S \in SUBSET {"timeout", "error", "exit"}, Closes(c, d, S), NEW h, h => g
      PROVE  /\ Posted(d, s, n, h) /\ Fulfilled(d, s) /\ Numbered(d, n, h)
             /\ InTurn(d, s) /\ Askers(d, w)
             /\ \A q : Newer(c, q, s) /\ (\A k \in DOMAIN q : q[k] \in DOMAIN c) => Newer(d, q, s)
  <2>1. /\ DOMAIN d = DOMAIN c
        /\ \A r \in DOMAIN c :
             /\ d[r].name = c[r].name /\ d[r].action = c[r].action /\ d[r].batch = c[r].batch
             /\ \/ d[r].status = c[r].status
                \/ c[r].status = "parked" /\ d[r].status \in S
    <3>1. DOMAIN d = DOMAIN c
      BY <1>1 DEF Closes
    <3>2. QED
      BY <1>1, <3>1, ClosesFacts
  <2>2. \A i \in DOMAIN s : s[i].call \in DOMAIN c
    BY DEF Traffic, Posted
  <2>3. Posted(d, s, n, h)
    BY <1>1, <2>1, <2>2 DEF Traffic, Posted
  <2>4. Fulfilled(d, s)
    BY <2>1 DEF Traffic, Fulfilled
  <2>5. Numbered(d, n, h)
    BY <1>1, <2>1 DEF Traffic, Numbered
  <2>6. InTurn(d, s)
    BY <2>1, <2>2 DEF Traffic, InTurn
  <2>7. Askers(d, w)
    BY <2>1 DEF Traffic, Askers
  <2>8. \A q : Newer(c, q, s) /\ (\A k \in DOMAIN q : q[k] \in DOMAIN c) => Newer(d, q, s)
    BY <2>1, <2>2 DEF Newer
  <2>9. QED
    BY <2>3, <2>4, <2>5, <2>6, <2>7, <2>8
<1>2. ASSUME Closes(c, d, {"timeout"}) PROVE Traffic(d, p, s, w, n, g, a)
  <2>1. /\ DOMAIN d = DOMAIN c
        /\ \A r \in DOMAIN c :
             /\ d[r].name = c[r].name /\ d[r].action = c[r].action /\ d[r].batch = c[r].batch
             /\ d[r].status = c[r].status \/ d[r].status = "timeout"
    <3>1. DOMAIN d = DOMAIN c
      BY <1>2 DEF Closes
    <3>2. QED
      BY <1>2, <3>1, ClosesFacts
  <2>2. Queued(d, p, n, a)
    BY <2>1 DEF Traffic, Queued
  <2>3. Newer(d, p, s)
    BY <1>1, <1>2 DEF Traffic, Queued
  <2>4. QED
    BY <1>1, <1>2, <2>2, <2>3 DEF Traffic
<1>3. ASSUME NEW b, Closes(c, d, {"error", "exit"}) PROVE Traffic(d, <<>>, s, {}, n, FALSE, b)
  <2>1. Queued(d, <<>>, n, b) /\ Newer(d, <<>>, s) /\ Askers(d, {})
    BY DEF Queued, Newer, Askers
  <2>2. QED
    BY <1>1, <1>3, <2>1 DEF Traffic
<1>4. QED
  BY <1>2, <1>3

LEMMA JoinIndex ==
  ASSUME NEW S, NEW q \in Seq(S), NEW T, NEW e \in Seq(T)
  PROVE  /\ q \o e \in Seq(ToSet(q \o e))
         /\ Len(q) \in Nat /\ DOMAIN q = 1 .. Len(q) /\ DOMAIN e = 1 .. Len(e) /\ Len(e) \in Nat
         /\ DOMAIN (q \o e) = 1 .. Len(q) + Len(e)
         /\ \A i \in DOMAIN q : (q \o e)[i] = q[i]
         /\ \A i \in DOMAIN e : (q \o e)[Len(q) + i] = e[i]
<1> DEFINE U == S \cup T
<1>1. q \in Seq(U) /\ e \in Seq(U)
  BY SeqMonotonic
<1> HIDE DEF U
<1>2. /\ q \o e \in Seq(U)
      /\ Len(q) \in Nat /\ DOMAIN q = 1 .. Len(q) /\ DOMAIN e = 1 .. Len(e) /\ Len(e) \in Nat
      /\ DOMAIN (q \o e) = 1 .. Len(q) + Len(e)
      /\ \A i \in 1 .. Len(q) : (q \o e)[i] = q[i]
      /\ \A i \in 1 .. Len(e) : (q \o e)[Len(q) + i] = e[i]
  BY <1>1
<1>3. q \o e \in Seq(ToSet(q \o e))
  BY <1>2, OwnElements
<1>4. QED
  BY <1>2, <1>3

\* The sequences Served are those of distinct elements, all of them, in order.
LEMMA ServedFacts ==
  ASSUME pending \in Seq(Nat), NEW P \in SUBSET ToSet(pending), NEW done \in Served(P)
  PROVE  /\ done \in Seq(P) /\ Len(done) \in Nat /\ DOMAIN done = 1 .. Len(done)
         /\ \A i \in DOMAIN done : done[i] \in P
         /\ \A i, j \in DOMAIN done : done[i] = done[j] => i = j
         /\ \A r \in P : \E i \in DOMAIN done : done[i] = r
         /\ \A i, j \in DOMAIN done : i < j =>
              \E k, l \in DOMAIN pending : k < l /\ pending[k] = done[i] /\ pending[l] = done[j]
<1>1. IsFiniteSet(P)
  <2>1. /\ Len(pending) \in Nat /\ DOMAIN pending = 1 .. Len(pending)
        /\ pending \in [1 .. Len(pending) -> ToSet(pending)]
    <3>1. /\ Len(pending) \in Nat /\ DOMAIN pending = 1 .. Len(pending)
          /\ pending = [i \in 1 .. Len(pending) |-> pending[i]]
      OBVIOUS
    <3>2. QED
      BY <3>1 DEF ToSet
  <2>2. pending \in Surjection(1 .. Len(pending), ToSet(pending))
    BY <2>1 DEF Surjection, ToSet
  <2>3. IsFiniteSet(ToSet(pending))
    BY <2>1, <2>2, FS_Surjection, FS_Interval
  <2>4. QED
    BY <2>3, FS_Subset
<1> DEFINE D == 1 .. Cardinality(P)
<1>2. Cardinality(P) \in Nat
  BY <1>1, FS_CardinalityType
<1>3. IsFiniteSet(D) /\ Cardinality(D) = Cardinality(P)
  BY <1>2, FS_Interval
<1>4. /\ done \in SetToSeqs(P)
      /\ \A i, j \in DOMAIN done : i < j =>
           \E k, l \in DOMAIN pending : k < l /\ pending[k] = done[i] /\ pending[l] = done[j]
  BY DEF Served, Parked
<1>5. done \in [D -> P] /\ \A i, j \in D : i # j => done[i] # done[j]
  BY <1>4 DEF SetToSeqs
<1>6. done \in Injection(D, P)
  BY <1>5 DEF Injection, IsInjective
<1>7. done \in Surjection(D, P)
  BY <1>1, <1>3, <1>6, FS_Injection
<1>8. \A r \in P : \E i \in D : done[i] = r
  BY <1>7 DEF Surjection
<1>9. done \in Seq(P)
  <2>1. PICK n \in Nat : n = Cardinality(P)
    BY <1>2
  <2>2. done \in [1 .. n -> P]
    BY <1>5, <2>1
  <2>3. QED
    BY <2>2, SeqDef
<1>10. /\ Len(done) \in Nat /\ DOMAIN done = 1 .. Len(done)
  BY <1>9
<1>11. DOMAIN done = D
  BY <1>5
<1>12. QED
  BY <1>4, <1>5, <1>8, <1>9, <1>10, <1>11

\* In t, what is sent in one go, done, newest first, goes behind what was sent before.
Follows(d, s, t, z, n, P, done) ==
  /\ \A i \in DOMAIN t :
       /\ i \in Nat
       /\ \/ i <= z /\ i \in DOMAIN s /\ t[i] = s[i]
          \/ i > z /\ i - z \in DOMAIN done /\ t[i].call = done[i - z]
  /\ \A i \in DOMAIN s : s[i].call \in Nat /\ d[s[i].call].batch # n
  /\ \A i \in DOMAIN s, r \in P : d[s[i].call].name = d[r].name => s[i].call < r
  /\ \A r \in P : r \in Nat /\ d[r].batch = n
  /\ \A i \in DOMAIN done : done[i] \in P
  /\ \A i, j \in DOMAIN done : i < j => done[i] > done[j]

LEMMA JoinInTurn ==
  ASSUME NEW d, NEW s, NEW t, NEW z \in Nat, NEW n \in Nat \ {0}, NEW P, NEW done,
         InTurn(d, s), Follows(d, s, t, z, n, P, done)
  PROVE  InTurn(d, t)
<1>1. ASSUME NEW i \in DOMAIN t, NEW j \in DOMAIN t,
             i < j, d[t[i].call].name = d[t[j].call].name
      PROVE  (t[i].call < t[j].call)
               <=> (d[t[i].call].batch = 0 \/ d[t[i].call].batch # d[t[j].call].batch)
  <2>1. CASE i <= z /\ j <= z
    <3>1. i \in DOMAIN s /\ t[i] = s[i] /\ j \in DOMAIN s /\ t[j] = s[j]
      BY <2>1 DEF Follows
    <3>2. QED
      BY <1>1, <3>1 DEF InTurn
  <2>2. CASE i > z /\ j > z
    <3>1. /\ i - z \in DOMAIN done /\ t[i].call = done[i - z]
          /\ j - z \in DOMAIN done /\ t[j].call = done[j - z]
          /\ i - z < j - z
      BY <1>1, <2>2 DEF Follows
    <3>2. t[i].call \in P /\ t[j].call \in P /\ t[i].call > t[j].call
      BY <3>1 DEF Follows
    <3>3. d[t[i].call].batch = n /\ d[t[j].call].batch = n
      BY <3>2 DEF Follows
    <3>4. t[i].call \in Nat /\ t[j].call \in Nat
      BY <3>2 DEF Follows
    <3>5. ~(t[i].call < t[j].call)
      BY <3>2, <3>4
    <3>6. QED
      BY <3>3, <3>5
  <2>3. CASE i <= z /\ j > z
    <3>1. i \in DOMAIN s /\ t[i] = s[i] /\ t[j].call \in P
      BY <2>3 DEF Follows
    <3>2. t[i].call < t[j].call
      BY <1>1, <3>1 DEF Follows
    <3>3. d[t[i].call].batch # n /\ d[t[j].call].batch = n
      BY <3>1 DEF Follows
    <3>4. QED
      BY <3>2, <3>3
  <2>4. CASE i > z /\ j <= z
    <3>1. i \in Nat /\ j \in Nat
      BY DEF Follows
    <3>2. QED
      BY <1>1, <2>4, <3>1
  <2>5. i \in Nat /\ j \in Nat
    BY DEF Follows
  <2>6. QED
    BY <2>1, <2>2, <2>3, <2>4, <2>5
<1>2. QED
  BY <1>1 DEF InTurn

\* done is made of the elements of P in the order in which they are in p.
Lists(done, P, p) ==
  /\ \A i \in DOMAIN done : done[i] \in P
  /\ \A i, j \in DOMAIN done : done[i] = done[j] => i = j
  /\ \A r \in P : \E i \in DOMAIN done : done[i] = r
  /\ \A i, j \in DOMAIN done : i < j =>
       \E k, l \in DOMAIN p : k < l /\ p[k] = done[i] /\ p[l] = done[j]

\* Of the parked calls whose callers are told ok, P are those of commands.
Commands(c, d, P) ==
  /\ \A r \in P : c[r].action = "pilot" /\ d[r].status \notin {"error", "parked"}
  /\ \A r \in DOMAIN c : c[r].action = "pilot" /\ c[r] # d[r] /\ d[r].status = "ok" => r \in P

\* A discovery has ended well: the commands of the calls in P are sent, newest first.
LEMMA ServeTraffic ==
  ASSUME NEW c \in CallSeq, NEW p, NEW s, NEW w, NEW n \in Nat, NEW a,
         Traffic(c, p, s, w, n, TRUE, a),
         NEW d, Closes(c, d, {"ok", "error"}),
         NEW P \in SUBSET ToSet(p), Commands(c, d, P),
         NEW done, Lists(done, P, p),
         NEW T, NEW e \in Seq(T), DOMAIN e = DOMAIN done,
         \A i \in DOMAIN e : e[i].call = done[i],
         NEW t, t = s \o e
  PROVE  \A b : Traffic(d, <<>>, t, {}, n, FALSE, b)
<1>1. /\ DOMAIN d = DOMAIN c /\ DOMAIN c \subseteq Nat
      /\ \A r \in DOMAIN c :
           /\ d[r].name = c[r].name /\ d[r].action = c[r].action /\ d[r].batch = c[r].batch
           /\ \/ d[r].status = c[r].status
              \/ c[r].status = "parked" /\ d[r].status \in {"ok", "error"}
  <2>1. DOMAIN d = DOMAIN c /\ DOMAIN c \subseteq Nat
    BY CallFacts DEF Closes
  <2>2. QED
    BY <2>1, ClosesFacts
<1>2. PICK z : z = Len(s)
  OBVIOUS
<1>3. /\ t \in Seq(ToSet(t)) /\ z \in Nat /\ DOMAIN s = 1 .. z /\ Len(e) \in Nat
      /\ DOMAIN e = 1 .. Len(e) /\ DOMAIN t = 1 .. z + Len(e)
      /\ \A i \in DOMAIN s : t[i] = s[i]
      /\ \A i \in DOMAIN e : t[z + i] = e[i]
  <2>1. s \in Seq(ToSet(s))
    BY DEF Traffic, Posted
  <2>2. QED
    BY <1>2, <2>1, JoinIndex
\* Each index of t is an old one or one of done.
<1>4. ASSUME NEW i \in DOMAIN t
      PROVE  \/ i \in DOMAIN s /\ t[i] = s[i] /\ i <= z
             \/ i - z \in DOMAIN done /\ t[i].call = done[i - z] /\ i > z
  <2>1. CASE i <= z
    BY <1>3, <2>1
  <2>2. CASE i > z
    <3>1. i - z \in DOMAIN e /\ z + (i - z) = i
      BY <1>3, <2>2
    <3>2. QED
      BY <1>3, <2>2, <3>1
  <2>3. QED
    BY <1>3, <2>1, <2>2
<1>5. \A i \in DOMAIN s :
        /\ s[i].call \in DOMAIN c /\ c[s[i].call].action = "pilot"
        /\ c[s[i].call].status \in {"ok", "timeout"} /\ c[s[i].call].batch # n
  BY DEF Traffic, Posted
<1>6. ASSUME NEW r \in P
      PROVE  /\ r \in DOMAIN c /\ c[r].batch = n /\ d[r].action = "pilot"
             /\ d[r].status \in {"ok", "timeout"} /\ c[r].status \in {"parked", "timeout"}
             /\ \E k \in DOMAIN p : p[k] = r
  <2>1. PICK k \in DOMAIN p : p[k] = r
    BY DEF ToSet
  <2>2. r \in DOMAIN c /\ c[r].batch = n /\ c[r].status \in {"parked", "timeout"}
    BY <2>1 DEF Traffic, Queued
  <2>3. c[r].action = "pilot" /\ d[r].status \notin {"error", "parked"}
    BY DEF Commands
  <2>4. QED
    BY <1>1, <2>1, <2>2, <2>3
<1>7. \A i \in DOMAIN s, r \in P : c[s[i].call].name = c[r].name => s[i].call < r
  BY <1>6 DEF Traffic, Newer
<1>8. \A i \in DOMAIN s : s[i].call \notin P
  BY <1>5, <1>6
<1>9. \A i, j \in DOMAIN done : i < j => done[i] > done[j]
  BY DEF Traffic, Queued, Lists
<1>17. \A i \in DOMAIN done : done[i] \in P
  BY DEF Lists
<1>10. Posted(d, t, n, FALSE)
  <2>1. ASSUME NEW i \in DOMAIN t
        PROVE  /\ t[i].call \in DOMAIN d /\ d[t[i].call].action = "pilot"
               /\ d[t[i].call].status \in {"ok", "timeout"}
    <3>1. CASE i \in DOMAIN s /\ t[i] = s[i]
      <4>1. PICK r : r = s[i].call
        OBVIOUS
      <4>2. r \in DOMAIN c /\ c[r].action = "pilot" /\ c[r].status \in {"ok", "timeout"}
        BY <1>5, <3>1, <4>1
      <4>3. QED
        BY <1>1, <3>1, <4>1, <4>2
    <3>2. CASE i - z \in DOMAIN done /\ t[i].call = done[i - z]
      BY <1>1, <1>6, <1>17, <3>2
    <3>3. QED
      BY <1>4, <3>1, <3>2
  <2>2. ASSUME NEW i \in DOMAIN t, NEW j \in DOMAIN t, t[i].call = t[j].call PROVE i = j
    <3>1. CASE i \in DOMAIN s /\ t[i] = s[i] /\ j \in DOMAIN s /\ t[j] = s[j]
      BY <2>2, <3>1 DEF Traffic, Posted
    <3>2. CASE /\ i - z \in DOMAIN done /\ t[i].call = done[i - z]
               /\ j - z \in DOMAIN done /\ t[j].call = done[j - z]
      <4>1. i - z = j - z
        BY <2>2, <3>2 DEF Lists
      <4>2. i \in Int /\ j \in Int /\ z \in Int
        BY <1>3
      <4>3. QED
        BY <4>1, <4>2
    <3>3. CASE /\ i \in DOMAIN s /\ t[i] = s[i]
               /\ j - z \in DOMAIN done /\ t[j].call = done[j - z]
      BY <1>8, <1>17, <2>2, <3>3
    <3>4. CASE /\ j \in DOMAIN s /\ t[j] = s[j]
               /\ i - z \in DOMAIN done /\ t[i].call = done[i - z]
      BY <1>8, <1>17, <2>2, <3>4
    <3>5. QED
      BY <1>4, <3>1, <3>2, <3>3, <3>4
  <2>3. QED
    BY <1>3, <2>1, <2>2 DEF Posted
<1>11. Fulfilled(d, t)
  <2>1. ASSUME NEW r \in DOMAIN d, d[r].action = "pilot", d[r].status = "ok"
        PROVE  \E i \in DOMAIN t : t[i].call = r
    <3>1. CASE d[r] = c[r]
      <4>1. PICK i \in DOMAIN s : s[i].call = r
        BY <1>1, <2>1, <3>1 DEF Traffic, Fulfilled
      <4>2. i \in DOMAIN t /\ t[i] = s[i]
        BY <1>3, <4>1
      <4>3. QED
        BY <4>1, <4>2
    <3>2. CASE d[r] # c[r]
      <4>1. r \in P
        BY <1>1, <2>1, <3>2 DEF Commands
      <4>2. PICK i \in DOMAIN done : done[i] = r
        BY <4>1 DEF Lists
      <4>3. z + i \in DOMAIN t /\ t[z + i] = e[i]
        BY <1>3, <4>2
      <4>4. QED
        BY <4>2, <4>3
    <3>3. QED
      BY <3>1, <3>2
  <2>2. QED
    BY <2>1 DEF Fulfilled
<1>12. Numbered(d, n, FALSE)
  BY <1>1 DEF Traffic, Numbered
<1>13. InTurn(d, t)
  <2>1. \A i \in DOMAIN s :
          /\ s[i].call \in Nat
          /\ d[s[i].call].name = c[s[i].call].name /\ d[s[i].call].batch = c[s[i].call].batch
    BY <1>1, <1>5
  <2>2. InTurn(d, s)
    <3>1. InTurn(c, s)
      BY DEF Traffic
    <3>2. QED
      BY ONLY <2>1, <3>1 DEF InTurn
  <2>3. n \in Nat \ {0} /\ P \in SUBSET Nat
    BY <1>1, <1>6 DEF Traffic, Numbered
  <2>4. \A i \in DOMAIN s : s[i].call \in Nat /\ d[s[i].call].batch # n
    BY <1>5, <2>1
  <2>5. \A r \in P : d[r].batch = n /\ d[r].name = c[r].name
    BY <1>1, <1>6
  <2>6. \A i \in DOMAIN s, r \in P : d[s[i].call].name = d[r].name => s[i].call < r
    BY <1>7, <2>1, <2>5
  <2>7. \A i \in DOMAIN t :
          /\ i \in Nat
          /\ \/ i <= z /\ i \in DOMAIN s /\ t[i] = s[i]
             \/ i > z /\ i - z \in DOMAIN done /\ t[i].call = done[i - z]
    <3>1. DOMAIN t \subseteq Nat
      BY <1>3
    <3>2. QED
      BY <1>4, <3>1
  <2>8. z \in Nat
    BY <1>3
  <2>9. Follows(d, s, t, z, n, P, done)
    BY <1>9, <1>17, <2>3, <2>4, <2>5, <2>6, <2>7 DEF Follows
  <2>10. QED
    BY <2>2, <2>3, <2>8, <2>9, JoinInTurn
<1>14. \A b : Queued(d, <<>>, n, b)
  BY DEF Queued
<1>15. Newer(d, <<>>, t) /\ Askers(d, {})
  BY DEF Newer, Askers
<1>16. QED
  BY <1>10, <1>11, <1>12, <1>13, <1>14, <1>15 DEF Traffic

-----------------------------------------------------------------------------
(* Every step keeps the traffic in order.                                   *)

LEMMA TrafficPrime ==
  ASSUME NEW c, NEW p, NEW s, NEW w, NEW n, NEW g, NEW a, Traffic(c, p, s, w, n, g, a),
         calls' = c, pending' = p, sent' = s, waiters' = w, scans' = n, scanning' = g, cache' = a
  PROVE  TrafficInv'
<1>1. Queued(calls, pending, scans, cache)'
  BY DEF Traffic, Queued
<1>2. Posted(calls, sent, scans, scanning)'
  <2>1. sent' \in Seq(ToSet(sent'))
    BY DEF Traffic, Posted
  <2>2. ToSet(sent)' = ToSet(sent')
    BY DEF ToSet
  <2>3. QED
    BY <2>1, <2>2 DEF Traffic, Posted
<1>3. Newer(calls, pending, sent)'
  BY DEF Traffic, Newer
<1>4. Fulfilled(calls, sent)'
  BY DEF Traffic, Fulfilled
<1>5. Numbered(calls, scans, scanning)'
  BY DEF Traffic, Numbered
<1>6. InTurn(calls, sent)'
  BY DEF Traffic, InTurn
<1>7. Askers(calls, waiters)'
  BY DEF Traffic, Askers
<1>8. QED
  BY <1>1, <1>2, <1>3, <1>4, <1>5, <1>6, <1>7 DEF TrafficInv, Traffic

LEMMA SameTraffic ==
  ASSUME TrafficInv, UNCHANGED <<calls, pending, sent, waiters, scans, scanning, cache>>
  PROVE  TrafficInv'
BY TrafficPrime DEF TrafficInv

LEMMA StateFacts ==
  ASSUME WizInv
  PROVE  calls \in CallSeq /\ pending \in Seq(Nat) /\ scans \in Nat /\ scanning \in BOOLEAN
BY DEF WizInv, Types, CallSeq

LEMMA StartTraffic ==
  ASSUME WizInv, TrafficInv, NEW sc \in Scope, StartScan(sc)
  PROVE  /\ scanning' = TRUE /\ scans' \in Nat /\ scans' >= scans
         /\ Traffic(calls, pending, sent, waiters, scans', TRUE, cache)
<1>1. CASE scanning
  <2>1. scanning' = TRUE /\ scanning = TRUE
    BY <1>1, StateFacts DEF StartScan
  <2>2. scans' = scans /\ scans \in Nat
    BY <1>1, StateFacts DEF StartScan
  <2>3. Traffic(calls, pending, sent, waiters, scans, TRUE, cache)
    BY <2>1 DEF TrafficInv
  <2>4. Traffic(calls, pending, sent, waiters, scans', TRUE, cache)
    BY <2>2, <2>3
  <2>5. scans' >= scans /\ scans' \in Nat
    BY <2>2
  <2>6. QED
    BY <2>1, <2>4, <2>5
<1>2. CASE ~scanning
  <2>1. scanning' = TRUE /\ scans' = scans + 1 /\ pending = <<>>
    BY <1>2 DEF StartScan, WizInv, ScanBacked
  <2>2. Traffic(calls, pending, sent, waiters, scans, scanning, cache)
    BY DEF TrafficInv
  <2>3. Traffic(calls, pending, sent, waiters, scans + 1, TRUE, cache)
    BY <2>1, <2>2, StateFacts, ScanTraffic
  <2>4. scans + 1 \in Nat /\ scans + 1 >= scans
    BY StateFacts
  <2>5. QED
    BY <2>1, <2>3, <2>4
<1>3. QED
  BY <1>1, <1>2

LEMMA ParkedTraffic ==
  ASSUME NEW c \in CallSeq, NEW p \in Seq(Nat), NEW s, NEW w, NEW n \in Nat, NEW a,
         Traffic(c, p, s, w, n, TRUE, a),
         NEW e \in CallRecord, e.batch = n, e.status = "parked", e.action # "discover",
         e.name \in Mac, a[e.name] = None,
         NEW d, d = Append(c, e), NEW m, m = Len(c) + 1, NEW q, q = <<m>> \o p
  PROVE  Traffic(d, q, s, w, n, TRUE, a)
<1>1. Traffic(d, p, s, w, n, TRUE, a)
  <2>1. e.batch <= n /\ ~(e.action = "pilot" /\ e.status = "ok")
    OBVIOUS
  <2>2. QED
    BY <2>1, NewTraffic
<1>2. /\ DOMAIN d = DOMAIN c \cup {m} /\ d[m] = e
      /\ m \in Nat /\ \A r \in DOMAIN c : r \in Nat /\ r < m /\ d[r] = c[r]
  <2>1. /\ DOMAIN c = 1 .. Len(c) /\ Len(c) \in Nat /\ DOMAIN d = 1 .. m /\ d[m] = e
        /\ \A r \in 1 .. Len(c) : d[r] = c[r]
    BY DEF CallSeq
  <2>2. QED
    BY <2>1
<1>3. /\ DOMAIN q \subseteq Nat /\ q[1] = m
      /\ \A k \in DOMAIN q : k = 1 \/ (k > 1 /\ k - 1 \in DOMAIN p /\ q[k] = p[k - 1])
  <2>1. /\ Len(p) \in Nat /\ DOMAIN p = 1 .. Len(p)
        /\ q \in Seq(Nat) /\ DOMAIN q = 1 .. (Len(p) + 1) /\ q[1] = m
        /\ \A i \in 1 .. Len(p) : q[i + 1] = p[i]
    BY <1>2
  <2>2. ASSUME NEW k \in DOMAIN q, k # 1 PROVE k > 1 /\ k - 1 \in DOMAIN p /\ q[k] = p[k - 1]
    <3>1. k - 1 \in 1 .. Len(p) /\ (k - 1) + 1 = k
      BY <2>1, <2>2
    <3>2. QED
      BY <2>1, <3>1
  <2>3. QED
    BY <2>1, <2>2
<1>4. \A k \in DOMAIN p : p[k] \in DOMAIN c
  BY DEF Traffic, Queued
<1>5. \A i \in DOMAIN s : s[i].call \in DOMAIN c
  BY DEF Traffic, Posted
<1>6. Queued(d, q, n, a)
  <2>1. ASSUME NEW k \in DOMAIN q
        PROVE  /\ q[k] \in DOMAIN d /\ d[q[k]].name \in Mac /\ a[d[q[k]].name] = None
               /\ d[q[k]].batch = n
               /\ d[q[k]].action # "discover" /\ d[q[k]].status \in {"parked", "timeout"}
    <3>1. CASE k = 1
      BY <1>2, <1>3, <3>1
    <3>2. CASE k # 1
      <4>1. k - 1 \in DOMAIN p /\ q[k] = p[k - 1]
        BY <1>3, <3>2
      <4>2. QED
        BY <1>1, <4>1 DEF Traffic, Queued
    <3>3. QED
      BY <3>1, <3>2
  <2>2. ASSUME NEW k \in DOMAIN q, NEW l \in DOMAIN q, k < l PROVE q[k] > q[l]
    <3>1. l > 1 /\ l - 1 \in DOMAIN p /\ q[l] = p[l - 1]
      BY <1>3, <2>2
    <3>2. CASE k = 1
      <4>1. q[l] \in DOMAIN c
        BY <1>4, <3>1
      <4>2. QED
        BY <1>2, <1>3, <3>2, <4>1
    <3>3. CASE k # 1
      <4>1. k - 1 \in DOMAIN p /\ q[k] = p[k - 1]
        BY <1>3, <3>3
      <4>2. k - 1 < l - 1
        BY <1>3, <2>2
      <4>3. QED
        BY <3>1, <4>1, <4>2 DEF Traffic, Queued
    <3>4. QED
      BY <3>2, <3>3
  <2>3. QED
    BY <2>1, <2>2 DEF Queued
<1>7. Newer(d, q, s)
  <2>1. ASSUME NEW i \in DOMAIN s, NEW k \in DOMAIN q, d[s[i].call].name = d[q[k]].name
        PROVE  s[i].call < q[k]
    <3>1. CASE k = 1
      BY <1>2, <1>3, <1>5, <3>1
    <3>2. CASE k # 1
      <4>1. k - 1 \in DOMAIN p /\ q[k] = p[k - 1]
        BY <1>3, <3>2
      <4>2. QED
        BY <1>1, <2>1, <4>1 DEF Traffic, Newer
    <3>3. QED
      BY <3>1, <3>2
  <2>2. QED
    BY <2>1 DEF Newer
<1>8. QED
  BY <1>1, <1>6, <1>7 DEF Traffic

LEMMA CallTraffic ==
  ASSUME WizInv, TrafficInv, NEW nm \in Name, NEW action \in {"pilot", "get_state"}, Call(nm, action)
  PROVE  TrafficInv'
<1> DEFINE rec(st, b) == [name |-> nm, action |-> action, status |-> st, batch |-> b]
<1>1. UNCHANGED <<cache, waiters>>
  BY DEF Call
<1>2. /\ calls \in CallSeq /\ pending \in Seq(Nat) /\ scans \in Nat /\ scanning \in BOOLEAN
      /\ Traffic(calls, pending, sent, waiters, scans, scanning, cache)
  BY StateFacts DEF TrafficInv
<1>3. \A st \in {"ok", "error", "parked"}, b \in Nat :
        /\ rec(st, b) \in CallRecord
        /\ rec(st, b).name = nm /\ rec(st, b).action = action
        /\ rec(st, b).status = st /\ rec(st, b).batch = b
  BY DEF CallRecord
<1>4. \A st, b : NewCall(nm, action, st, b) => calls' = Append(calls, rec(st, b))
  BY DEF NewCall
<1> HIDE DEF rec
<1>5. ASSUME NEW st \in {"ok", "error"}, NewCall(nm, action, st, 0), ~(action = "pilot" /\ st = "ok"),
             UNCHANGED <<scanning, pending, scans, sent>>
      PROVE  TrafficInv'
  <2>1. PICK e \in CallRecord : e = rec(st, 0) /\ e.batch = 0 /\ e.status = st /\ e.action = action
    BY <1>3, <1>5
  <2>2. PICK d : d = Append(calls, e)
    OBVIOUS
  <2>3. Traffic(d, pending, sent, waiters, scans, scanning, cache)
    <3>1. e.batch <= scans /\ ~(e.action = "pilot" /\ e.status = "ok")
      BY <1>2, <1>5, <2>1
    <3>2. QED
      BY <1>2, <2>2, <3>1, NewTraffic
  <2>4. calls' = d
    BY <1>4, <1>5, <2>1, <2>2
  <2>5. QED
    BY <1>1, <1>5, <2>3, <2>4, TrafficPrime
<1>6. ASSUME nm \in Lamp, IpOf(nm, cache) # None, NewCall(nm, action, "ok", 0), action = "pilot",
             sent' = Append(sent, [call |-> Len(calls) + 1, to |-> IpOf(nm, cache)]),
             UNCHANGED <<scanning, pending, scans>>
      PROVE  TrafficInv'
  <2>1. PICK e \in CallRecord : /\ e = rec("ok", 0) /\ e.batch = 0 /\ e.status = "ok"
                                /\ e.action = "pilot" /\ e.name = nm
    BY <1>3, <1>6
  <2>2. PICK d : d = Append(calls, e)
    OBVIOUS
  <2>3. PICK x : x = [call |-> Len(calls) + 1, to |-> IpOf(nm, cache)]
    OBVIOUS
  <2>4. PICK t : t = Append(sent, x)
    OBVIOUS
  <2>5. x.call = Len(calls) + 1
    BY <2>3
  <2>6. e.name \in Mac => cache[e.name] # None
    BY <1>6, <2>1, WizAssumption DEF IpOf
  <2>7. Traffic(d, pending, t, waiters, scans, scanning, cache)
    BY <1>2, <2>1, <2>2, <2>4, <2>5, <2>6, SendTraffic
  <2>8. calls' = d /\ sent' = t
    BY <1>4, <1>6, <2>1, <2>2, <2>3, <2>4
  <2>9. QED
    BY <1>1, <1>6, <2>7, <2>8, TrafficPrime
<1>7. ASSUME nm \in Lamp, IpOf(nm, cache) = None, StartScan("local24"),
             NewCall(nm, action, "parked", scans'),
             pending' = <<Len(calls) + 1>> \o pending, UNCHANGED sent
      PROVE  TrafficInv'
  <2>1. /\ scanning' = TRUE /\ scans' \in Nat
        /\ Traffic(calls, pending, sent, waiters, scans', TRUE, cache)
    BY <1>7, StartTraffic DEF Scope
  <2>2. PICK n \in Nat : n = scans'
    BY <2>1
  <2>3. PICK e \in CallRecord : /\ e = rec("parked", n) /\ e.batch = n /\ e.status = "parked"
                                /\ e.action = action /\ e.name = nm
    BY <1>3
  <2>4. PICK d : d = Append(calls, e)
    OBVIOUS
  <2>5. PICK m : m = Len(calls) + 1
    OBVIOUS
  <2>6. PICK q : q = <<m>> \o pending
    OBVIOUS
  <2>7. e.name \in Mac /\ cache[e.name] = None
    <3>1. nm \notin Static
      <4>1. nm \in Static => IpOf(nm, cache) \in Address
        BY <1>7, WizAssumption DEF IpOf, Lamp
      <4>2. QED
        BY <1>7, <4>1, WizAssumption
    <3>2. QED
      BY <1>7, <2>3, <3>1 DEF IpOf, Lamp
  <2>8. Traffic(calls, pending, sent, waiters, n, TRUE, cache)
    BY <2>1, <2>2
  <2>9. e.action # "discover"
    BY <2>3
  <2>10. Traffic(d, q, sent, waiters, n, TRUE, cache)
    BY <1>2, <2>3, <2>4, <2>5, <2>6, <2>7, <2>8, <2>9, ParkedTraffic
  <2>11. calls' = d /\ pending' = q
    BY <1>4, <1>7, <2>2, <2>3, <2>4, <2>5, <2>6
  <2>12. QED
    BY <1>1, <1>7, <2>1, <2>2, <2>10, <2>11, TrafficPrime
<1>8. QED
  BY <1>5, <1>6, <1>7 DEF Call

LEMMA DiscoverTraffic == ASSUME WizInv, TrafficInv, Discover PROVE TrafficInv'
<1> DEFINE rec(b) == [name |-> None, action |-> "discover", status |-> "parked", batch |-> b]
<1>1. /\ scanning' = TRUE /\ scans' \in Nat
      /\ Traffic(calls, pending, sent, waiters, scans', TRUE, cache)
  BY StartTraffic DEF Scope, Discover
<1>2. PICK n \in Nat : n = scans'
  BY <1>1
<1>3. PICK e \in CallRecord : e = rec(n) /\ e.batch = n /\ e.status = "parked" /\ e.action = "discover"
  <2>1. /\ rec(n) \in CallRecord /\ rec(n).batch = n /\ rec(n).status = "parked"
        /\ rec(n).action = "discover"
    BY DEF CallRecord
  <2> HIDE DEF rec
  <2>2. QED
    BY <2>1
<1>4. PICK d : d = Append(calls, e)
  OBVIOUS
<1>5. PICK m : m = Len(calls) + 1
  OBVIOUS
<1>6. /\ calls' = d /\ waiters' = waiters \cup {m}
      /\ UNCHANGED <<cache, pending, sent>>
  BY <1>2, <1>3, <1>4, <1>5 DEF Discover, NewCall
<1>7. Traffic(d, pending, sent, waiters \cup {m}, n, TRUE, cache)
  <2>1. Traffic(calls, pending, sent, waiters, n, TRUE, cache)
    BY <1>1, <1>2
  <2>2. e.batch <= n /\ ~(e.action = "pilot" /\ e.status = "ok")
    BY <1>3
  <2>3. QED
    BY <1>3, <1>4, <1>5, <2>1, <2>2, StateFacts, NewTraffic
<1>8. QED
  BY <1>1, <1>2, <1>6, <1>7, TrafficPrime

LEMMA RefreshTraffic == ASSUME WizInv, TrafficInv, Refresh PROVE TrafficInv'
<1>1. /\ scanning' = TRUE
      /\ Traffic(calls, pending, sent, waiters, scans', TRUE, cache)
  BY StartTraffic DEF Scope, Refresh
<1>2. PICK n : n = scans'
  OBVIOUS
<1>3. Traffic(calls, pending, sent, waiters, n, TRUE, cache)
  BY <1>1, <1>2
<1>4. UNCHANGED <<calls, pending, sent, waiters, cache>>
  BY DEF Refresh
<1>5. QED
  BY <1>1, <1>2, <1>3, <1>4, TrafficPrime

LEMMA GivesUpTraffic ==
  ASSUME WizInv, TrafficInv, NEW q \in DOMAIN calls, GivesUp(q)
  PROVE  TrafficInv'
<1>1. PICK d : d = [calls EXCEPT ![q].status = "timeout"]
  OBVIOUS
<1>2. Closes(calls, d, {"timeout"})
  BY <1>1 DEF GivesUp, Closes
<1>3. Traffic(calls, pending, sent, waiters, scans, scanning, cache)
  BY DEF TrafficInv
<1>4. Traffic(d, pending, sent, waiters, scans, scanning, cache)
  BY <1>2, <1>3, StateFacts, CloseTraffic
<1>5. calls' = d /\ UNCHANGED <<pending, sent, waiters, scans, scanning, cache>>
  BY <1>1 DEF GivesUp, state
<1>6. QED
  BY <1>4, <1>5, TrafficPrime

\* Nobody is told anything, or all who are parked are told that it failed.
LEMMA FailTraffic ==
  ASSUME WizInv, TrafficInv, NEW W, NEW st \in {"error", "exit"},
         calls' = [r \in DOMAIN calls |-> IF r \in W THEN Told(r, st) ELSE calls[r]],
         scanning' = FALSE, waiters' = {}, pending' = <<>>, UNCHANGED <<sent, scans>>
  PROVE  TrafficInv'
<1>1. PICK d : d = [r \in DOMAIN calls |-> IF r \in W THEN Told(r, st) ELSE calls[r]]
  OBVIOUS
<1>2. Closes(calls, d, {"error", "exit"})
  BY <1>1 DEF Told, Closes
<1>3. PICK b : b = cache'
  OBVIOUS
<1>4. Traffic(calls, pending, sent, waiters, scans, scanning, cache)
  BY DEF TrafficInv
<1>5. Traffic(d, <<>>, sent, {}, scans, FALSE, b)
  BY <1>2, <1>4, StateFacts, CloseTraffic
<1>6. calls' = d
  BY <1>1
<1>7. QED
  BY <1>3, <1>5, <1>6, TrafficPrime

LEMMA DiscoveryErrorTraffic == ASSUME WizInv, TrafficInv, DiscoveryError PROVE TrafficInv'
<1>1. PICK W : W = waiters \cup ToSet(pending)
  OBVIOUS
<1>2. calls' = [r \in DOMAIN calls |-> IF r \in W THEN Told(r, "error") ELSE calls[r]]
  BY <1>1 DEF DiscoveryError
<1>3. scanning' = FALSE /\ waiters' = {} /\ pending' = <<>> /\ UNCHANGED <<sent, scans>>
  BY DEF DiscoveryError
<1>4. QED
  BY <1>2, <1>3, FailTraffic

LEMMA RestartTraffic == ASSUME WizInv, TrafficInv, Restart PROVE TrafficInv'
<1>1. PICK W : W = DOMAIN calls
  OBVIOUS
<1>2. calls' = [r \in DOMAIN calls |-> IF r \in W THEN Told(r, "exit") ELSE calls[r]]
  BY <1>1 DEF Restart
<1>3. scanning' = FALSE /\ waiters' = {} /\ pending' = <<>> /\ UNCHANGED <<sent, scans>>
  BY DEF Restart
<1>4. QED
  BY <1>2, <1>3, FailTraffic

LEMMA DiscoveryOkTraffic == ASSUME WizInv, TrafficInv, DiscoveryOk PROVE TrafficInv'
<1> DEFINE new == BuildCache(result.found)
           known == {r \in ToSet(pending) : Resolved(r, new)}
<1>1. /\ scanning' = FALSE /\ waiters' = {} /\ pending' = <<>> /\ UNCHANGED scans
      /\ scanning = TRUE
  BY StateFacts DEF DiscoveryOk, Drained, WizInv, ScanBacked
<1>2. PICK failed \in SUBSET known :
        /\ \E done \in Served({r \in known \ failed : calls[r].action = "pilot"}) :
             sent' = sent \o [i \in 1 .. Len(done) |->
                       [call |-> done[i], to |-> IpOf(calls[done[i]].name, new)]]
        /\ calls' = [r \in DOMAIN calls |->
                       IF r \in waiters \cup (known \ failed) THEN Told(r, "ok")
                       ELSE IF r \in ToSet(pending) THEN Told(r, "error")
                       ELSE calls[r]]
  BY DEF DiscoveryOk
<1>3. PICK K : K = known \ failed
  OBVIOUS
<1>4. PICK P : P = {r \in K : calls[r].action = "pilot"}
  OBVIOUS
<1>5. PICK done \in Served(P) :
        sent' = sent \o [i \in 1 .. Len(done) |->
                  [call |-> done[i], to |-> IpOf(calls[done[i]].name, new)]]
  BY <1>2, <1>3, <1>4
<1>6. PICK d : d = [r \in DOMAIN calls |->
                      IF r \in waiters \cup K THEN Told(r, "ok")
                      ELSE IF r \in ToSet(pending) THEN Told(r, "error")
                      ELSE calls[r]]
  OBVIOUS
<1>7. calls' = d
  BY <1>2, <1>3, <1>6
<1>8. K \subseteq ToSet(pending) /\ P \subseteq K /\ P \in SUBSET ToSet(pending)
  BY <1>3, <1>4
<1>9. Closes(calls, d, {"ok", "error"})
  BY <1>6 DEF Told, Closes
<1>10. Traffic(calls, pending, sent, waiters, scans, TRUE, cache)
  BY <1>1 DEF TrafficInv
<1>11. \A r \in ToSet(pending) : r \in DOMAIN calls
  BY <1>10 DEF Traffic, Queued, ToSet
<1>12. \A r \in DOMAIN calls : calls[r] \in CallRecord
  BY StateFacts, CallFacts
<1>13. Commands(calls, d, P)
  <2>1. ASSUME NEW r \in P PROVE calls[r].action = "pilot" /\ d[r].status \notin {"error", "parked"}
    <3>1. r \in DOMAIN calls /\ r \in K /\ calls[r].action = "pilot" /\ calls[r] \in CallRecord
      BY <1>4, <1>8, <1>11, <1>12
    <3>2. calls[r].status \in {"parked", "timeout"}
      <4>1. PICK k \in DOMAIN pending : pending[k] = r
        BY <1>8 DEF ToSet
      <4>2. QED
        BY <1>10, <4>1 DEF Traffic, Queued
    <3>3. d[r] = Told(r, "ok")
      BY <1>6, <3>1
    <3>4. QED
      BY <3>1, <3>2, <3>3 DEF Told, CallRecord
  <2>2. ASSUME NEW r \in DOMAIN calls, calls[r].action = "pilot", calls[r] # d[r], d[r].status = "ok"
        PROVE  r \in P
    <3>1. r \notin waiters
      BY <1>10, <2>2 DEF Traffic, Askers
    <3>2. CASE r \in K
      BY <1>4, <2>2, <3>2
    <3>3. CASE r \notin K
      <4>1. d[r] = Told(r, "error") \/ d[r] = calls[r]
        BY <1>6, <3>1, <3>3
      <4>2. Told(r, "error").status # "ok" \/ Told(r, "error") = calls[r]
        BY <1>12 DEF Told, CallRecord
      <4>3. QED
        BY <2>2, <4>1, <4>2
    <3>4. QED
      BY <3>2, <3>3
  <2>3. QED
    BY <2>1, <2>2 DEF Commands
<1>14. /\ done \in Seq(P) /\ Len(done) \in Nat /\ DOMAIN done = 1 .. Len(done)
       /\ Lists(done, P, pending)
  <2>1. /\ done \in Seq(P) /\ Len(done) \in Nat /\ DOMAIN done = 1 .. Len(done)
        /\ \A i \in DOMAIN done : done[i] \in P
        /\ \A i, j \in DOMAIN done : done[i] = done[j] => i = j
        /\ \A r \in P : \E i \in DOMAIN done : done[i] = r
        /\ \A i, j \in DOMAIN done : i < j =>
             \E k, l \in DOMAIN pending : k < l /\ pending[k] = done[i] /\ pending[l] = done[j]
    BY <1>8, StateFacts, ServedFacts
  <2>2. QED
    BY <2>1 DEF Lists
<1> HIDE DEF new, known
<1>15. PICK T, e :
         /\ e \in Seq(T)
         /\ DOMAIN e = DOMAIN done /\ \A i \in DOMAIN e : e[i].call = done[i]
         /\ sent' = sent \o e
  <2> DEFINE f == [i \in 1 .. Len(done) |->
                     [call |-> done[i], to |-> IpOf(calls[done[i]].name, new)]]
             U == {f[i] : i \in 1 .. Len(done)}
  <2>1. f \in [1 .. Len(done) -> U]
    OBVIOUS
  <2>2. f \in Seq(U)
    BY <1>14, <2>1, SeqDef
  <2>3. DOMAIN f = DOMAIN done /\ \A i \in DOMAIN f : f[i].call = done[i]
    BY <1>14
  <2>4. sent' = sent \o f
    BY <1>5
  <2> HIDE DEF f, U
  <2>5. QED
    BY <2>2, <2>3, <2>4
<1>16. PICK t : t = sent \o e
  OBVIOUS
<1>17. PICK b : b = cache'
  OBVIOUS
<1>18. Traffic(d, <<>>, t, {}, scans, FALSE, b)
  BY <1>8, <1>9, <1>10, <1>13, <1>14, <1>15, <1>16, StateFacts, ServeTraffic
<1>19. sent' = t
  BY <1>15, <1>16
<1>20. QED
  BY <1>1, <1>7, <1>17, <1>18, <1>19, TrafficPrime

LEMMA TrafficKept == ASSUME WizInv, TrafficInv, [Next]_vars PROVE TrafficInv'
<1>1. CASE \E n \in Name, action \in {"pilot", "get_state"} : Call(n, action)
  BY <1>1, CallTraffic
<1>2. CASE Discover \/ Refresh
  BY <1>2, DiscoverTraffic, RefreshTraffic
<1>3. CASE \E r \in DOMAIN calls : GivesUp(r)
  BY <1>3, GivesUpTraffic
<1>4. CASE \E a \in Address : Hear(a)
  BY <1>4, SameTraffic DEF Hear
<1>5. CASE WorkerEnds
  BY <1>5, SameTraffic DEF WorkerEnds
<1>6. CASE DiscoveryOk \/ DiscoveryError
  BY <1>6, DiscoveryOkTraffic, DiscoveryErrorTraffic
<1>7. CASE \E n \in Mac, a \in Address : Move(n, a)
  BY <1>7, SameTraffic DEF Move, state
<1>8. CASE Restart
  BY <1>8, RestartTraffic
<1>9. CASE UNCHANGED vars
  BY <1>9, SameTraffic DEF vars, state
<1>10. QED
  BY <1>1, <1>2, <1>3, <1>4, <1>5, <1>6, <1>7, <1>8, <1>9 DEF Next

LEMMA TrafficInit == Init => TrafficInv
<1> SUFFICES ASSUME Init PROVE TrafficInv
  OBVIOUS
<1>1. /\ calls = <<>> /\ sent = <<>> /\ pending = <<>> /\ waiters = {} /\ scans = 0
      /\ scanning = FALSE
  BY DEF Init
<1>2. <<>> \in Seq(ToSet(<<>>)) /\ DOMAIN <<>> = {}
  OBVIOUS
<1>3. Queued(calls, pending, scans, cache) /\ Newer(calls, pending, sent)
  BY <1>1 DEF Queued, Newer
<1>4. Posted(calls, sent, scans, scanning) /\ Fulfilled(calls, sent) /\ InTurn(calls, sent)
  BY <1>1, <1>2 DEF Posted, Fulfilled, InTurn
<1>5. Numbered(calls, scans, scanning) /\ Askers(calls, waiters)
  BY <1>1 DEF Numbered, Askers
<1>6. QED
  BY <1>3, <1>4, <1>5 DEF TrafficInv, Traffic

LEMMA TrafficHonest == ASSUME WizInv, TrafficInv PROVE OrderKept /\ HonestAnswers
<1>1. Posted(calls, sent, scans, scanning) /\ Fulfilled(calls, sent) /\ InTurn(calls, sent)
  BY DEF TrafficInv, Traffic
<1>2. OrderKept
  BY <1>1 DEF OrderKept, InTurn, Sender
<1>3. ASSUME NEW r \in DOMAIN calls
      PROVE  LET times == Cardinality({i \in DOMAIN sent : sent[i].call = r})
             IN  /\ times <= 1
                 /\ calls[r].action = "pilot" /\ calls[r].status = "ok" => times = 1
                 /\ calls[r].status \in {"error", "exit", "parked"} => times = 0
  <2> DEFINE of == {i \in DOMAIN sent : sent[i].call = r}
  <2>1. CASE of = {}
    <3>1. Cardinality(of) = 0
      BY <2>1, FS_EmptySet
    <3>2. ~(calls[r].action = "pilot" /\ calls[r].status = "ok")
      BY <1>1, <2>1 DEF Fulfilled
    <3>3. QED
      BY <3>1, <3>2
  <2>2. CASE of # {}
    <3>1. PICK i \in DOMAIN sent : sent[i].call = r
      BY <2>2
    <3>2. of = {i}
      BY <1>1, <3>1 DEF Posted
    <3>3. Cardinality(of) = 1
      BY <3>2, FS_Singleton
    <3>4. calls[r].status \notin {"error", "exit", "parked"}
      BY <1>1, <3>1 DEF Posted
    <3>5. QED
      BY <3>3, <3>4
  <2>3. QED
    BY <2>1, <2>2
<1>4. HonestAnswers
  BY <1>3 DEF HonestAnswers
<1>5. QED
  BY <1>2, <1>4

-----------------------------------------------------------------------------
(* Theorems                                                                 *)

THEOREM Invariance == Spec => []WizInv
<1>1. Init => WizInv
  BY InitOK
<1>2. WizInv /\ [Next]_vars => WizInv'
  BY NextOK
<1>3. QED
  BY <1>1, <1>2, PTL DEF Spec

\* Of every history of requests, discoveries, moves, failures and restarts of
\* myhome_wiz.erl: the scanning flag is up exactly while a worker runs or its result is in
\* the mailbox, and no caller is parked without it.
THEOREM ScanTheorem == Spec => []ScanBacked
<1>1. WizInv => ScanBacked
  BY DEF WizInv
<1>2. QED
  BY <1>1, Invariance, PTL

\* The cache of addresses that build_cache keeps is wrong only of a lamp that has moved
\* since the start of the discovery that told it, however discoveries and moves overlap.
THEOREM CacheTheorem == Spec => []CacheFresh
<1>1. WizInv => CacheFresh
  BY DEF WizInv
<1>2. QED
  BY <1>1, Invariance, PTL

LEMMA TrafficInvariance == Spec => [](WizInv /\ TrafficInv)
<1>1. Init => WizInv /\ TrafficInv
  BY InitOK, TrafficInit
<1>2. WizInv /\ TrafficInv /\ [Next]_vars => (WizInv /\ TrafficInv)'
  BY NextOK, TrafficKept
<1>3. QED
  BY <1>1, <1>2, PTL DEF Spec

\* The commands of all callers that lead to one lamp reach the network in the order in
\* which they came in; those that drain_pending serves after one discovery in the exact
\* opposite order; for any number of lamps, calls, discoveries, moves and restarts.
THEOREM OrderTheorem == Spec => []OrderKept
<1>1. WizInv /\ TrafficInv => OrderKept
  BY TrafficHonest
<1>2. QED
  BY <1>1, TrafficInvariance, PTL

\* A caller of a setter is told ok when its command was sent, once, and an error only when
\* it was not, whatever is parked, given up, drained or lost in a restart meanwhile.
THEOREM AnswerTheorem == Spec => []HonestAnswers
<1>1. WizInv /\ TrafficInv => HonestAnswers
  BY TrafficHonest
<1>2. QED
  BY <1>1, TrafficInvariance, PTL
=============================================================================
