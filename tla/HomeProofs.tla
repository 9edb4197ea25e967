------------------------------ MODULE HomeProofs ------------------------------
(***************************************************************************)
(* The two processes that decide about the house, apart from each other.   *)
(* Rules, for any number of bulbs and actions, any cooldowns and any       *)
(* clock: no rule fires before its cooldown or is held back after it, and  *)
(* no bulb takes an older action after a newer one.  Discovery, an         *)
(* instance below, for any limits, bulbs, failures and restarts: which     *)
(* number means which bulb.                                                *)
(***************************************************************************)
EXTENDS Rules, Discovery, SequenceTheorems, TLAPS

(***************************************************************************)
(* Cooldowns                                                               *)
(***************************************************************************)

\* last_fired is the wall clock's time of the last firing, unless a restart lost it.
CoolInv ==
  /\ time \in Int /\ offset \in Int
  /\ last \in [Rule -> Int \cup {None}]
  /\ fired \in [Rule -> (Int \X Int) \cup {None}]
  /\ \A r \in Rule : /\ last[r] = None <=> fired[r] = None \/ r \in forgotten
                     /\ last[r] # None => last[r] = fired[r][1] + fired[r][2]
  /\ CooldownHolds

LEMMA CoolInit == Init => CoolInv
<1> SUFFICES ASSUME Init PROVE CoolInv
  OBVIOUS
<1>1. offset \in Int
  BY RulesAssumption DEF Init
<1>2. QED
  BY <1>1 DEF Init, CoolInv, CooldownHolds

\* A rule that fires has not fired within its cooldown, unless the clock was set
\* forward in between; one that is held back has, unless it was set back.
LEMMA CooldownRight ==
  ASSUME CoolInv, NEW r \in Rule
  PROVE  /\ r \notin forgotten /\ CooldownExpired(r) => Elapsed(r) \/ ~NotForward(r)
         /\ ~CooldownExpired(r) => ~Elapsed(r) \/ ~NotBackward(r)
<1>1. Cooldown[r] \in Int
  BY RulesAssumption DEF Cooldown, Rule
<1>2. CASE last[r] = None
  BY <1>2 DEF CoolInv, CooldownExpired, Elapsed
<1>3. CASE last[r] # None
  <2>1. fired[r] # None /\ fired[r][1] \in Int /\ fired[r][2] \in Int
    BY <1>3 DEF CoolInv
  <2>2. last[r] # None /\ last[r] = fired[r][1] + fired[r][2]
    BY <1>3 DEF CoolInv
  <2>3. time \in Int /\ offset \in Int
    BY DEF CoolInv
  <2>4. QED
    BY <1>1, <1>3, <2>1, <2>2, <2>3
    DEF CooldownExpired, Elapsed, NotForward, NotBackward, Wall
<1>4. QED
  BY <1>2, <1>3

LEMMA CoolEvaluate ==
  ASSUME CoolInv, NEW t, NEW l, Evaluate(t, l), UNCHANGED clock
  PROVE  CoolInv'
<1> DEFINE due == Wanted(t, l)
           now == {r \in due : CooldownExpired(r)}
<1>1. due \subseteq Rule /\ now \subseteq Rule
  BY DEF Wanted
<1>2. /\ last'  = [r \in Rule |-> IF r \in now THEN Wall ELSE last[r]]
      /\ fired' = [r \in Rule |-> IF r \in now THEN <<time, offset>> ELSE fired[r]]
      /\ forgotten' = forgotten \ now
      /\ early' = early \cup {r \in now \ forgotten : ~Elapsed(r) /\ NotForward(r)}
      /\ late'  = late \cup {r \in due \ now : Elapsed(r) /\ NotBackward(r)}
  BY DEF Evaluate
<1>3. early' = {} /\ late' = {}
  <2>1. \A r \in now : CooldownExpired(r)
    OBVIOUS
  <2>2. \A r \in due \ now : ~CooldownExpired(r)
    OBVIOUS
  <2> HIDE DEF due, now
  <2>3. {r \in now \ forgotten : ~Elapsed(r) /\ NotForward(r)} = {}
    BY <1>1, <2>1, CooldownRight
  <2>4. {r \in due \ now : Elapsed(r) /\ NotBackward(r)} = {}
    BY <1>1, <2>2, CooldownRight
  <2>5. QED
    BY <1>2, <2>3, <2>4 DEF CoolInv, CooldownHolds
<1>4. time \in Int /\ offset \in Int /\ Wall \in Int /\ time' = time /\ offset' = offset
  BY DEF CoolInv, Wall, clock
<1>5. Wall # None /\ <<time, offset>> # None /\ <<time, offset>> \in Int \X Int
  BY <1>4, RulesAssumption
<1> HIDE DEF now
<1>6. last' \in [Rule -> Int \cup {None}]
  BY <1>2, <1>4 DEF CoolInv
<1>7. fired' \in [Rule -> (Int \X Int) \cup {None}]
  BY <1>2, <1>5 DEF CoolInv
<1>8. ASSUME NEW r \in Rule
      PROVE  /\ last'[r] = None <=> fired'[r] = None \/ r \in forgotten'
             /\ last'[r] # None => last'[r] = fired'[r][1] + fired'[r][2]
  <2>1. CASE r \in now
    BY <1>2, <1>5, <2>1 DEF Wall
  <2>2. CASE r \notin now
    BY <1>2, <2>2 DEF CoolInv
  <2>3. QED
    BY <2>1, <2>2
<1>9. QED
  BY <1>3, <1>4, <1>6, <1>7, <1>8 DEF CoolInv, CooldownHolds

LEMMA CoolNext == CoolInv /\ [Next]_vars => CoolInv'
<1> SUFFICES ASSUME CoolInv, [Next]_vars PROVE CoolInv'
  OBVIOUS
<1>1. ASSUME UNCHANGED <<clock, last, history>> PROVE CoolInv'
  BY <1>1 DEF CoolInv, clock, history, CooldownHolds
<1>2. CASE TimePasses
  <2>1. time' \in Int
    BY <1>2 DEF TimePasses, CoolInv
  <2>2. QED
    BY <1>2, <2>1 DEF TimePasses, CoolInv, rules, history, CooldownHolds
<1>3. CASE SetClock
  <2>1. offset' \in Int
    BY <1>3, RulesAssumption DEF SetClock
  <2>2. QED
    BY <1>3, <2>1 DEF SetClock, CoolInv, rules, history, CooldownHolds
<1>4. CASE HandleBox
  <2>1. UNCHANGED clock
    BY <1>4 DEF HandleBox
  <2>2. CASE Evaluate("timer", readings)
    BY <2>1, <2>2, CoolEvaluate
  <2>3. CASE Evaluate("sensor", readings')
    BY <2>1, <2>3, CoolEvaluate
  <2>4. QED
    BY <1>4, <2>2, <2>3 DEF HandleBox
<1>5. CASE RulesRestart
  BY <1>5 DEF RulesRestart, CoolInv, clock, CooldownHolds
<1>6. CASE SensorPoll \/ SensorFails
  BY <1>1, <1>6 DEF SensorPoll, SensorFails, Poll
<1>7. CASE TimerTicks \/ NapEnds
  BY <1>1, <1>7 DEF TimerTicks, NapEnds, CallNext, rules
<1>8. CASE \E p \in {"evening_comfort", "night_shutoff"} : SetPolicy(p)
  BY <1>1, <1>8 DEF SetPolicy
<1>9. CASE \E b \in Bulb : BulbServes(b) \/ BulbCrash(b)
  BY <1>1, <1>9 DEF BulbServes, BulbCrash, rules
<1>10. CASE \E j \in DOMAIN jobs : ActionTimesOut(j)
  BY <1>1, <1>10 DEF ActionTimesOut, rules
<1>11. CASE UNCHANGED vars
  BY <1>1, <1>11 DEF vars, rules
<1>12. QED
  BY <1>2, <1>3, <1>4, <1>5, <1>6, <1>7, <1>8, <1>9, <1>10, <1>11 DEF Next

\* Cooldowns hold in true time between consecutive firings, however policies are
\* switched, but where the clock was set in between or a restart has lost last_fired
\* (evaluate_one, cooldown_expired, init_policies of myhome_rules.erl).
THEOREM CooldownTheorem == Spec => []CooldownHolds
<1>1. CoolInv => CooldownHolds
  BY DEF CoolInv
<1>2. QED
  BY CoolInit, CoolNext, <1>1, PTL DEF Spec

(***************************************************************************)
(* The order of actions                                                    *)
(***************************************************************************)

Increasing(s) == \A m, n \in DOMAIN s : m < n => s[m] < s[n]
Holds(s, x)   == \E m \in DOMAIN s : s[m] = x

LEMMA TailOK ==
  ASSUME NEW S, S \subseteq Nat, NEW s \in Seq(S), s # <<>>, Increasing(s)
  PROVE  /\ Tail(s) \in Seq(S) /\ Increasing(Tail(s)) /\ Head(s) \in S
         /\ Holds(s, Head(s))
         /\ \A x : Holds(Tail(s), x) <=> Holds(s, x) /\ x # Head(s)
         /\ \A x \in S : Holds(Tail(s), x) => Head(s) < x
<1>1. /\ Len(s) \in Nat /\ Len(s) > 0 /\ DOMAIN s = 1 .. Len(s) /\ Head(s) = s[1]
      /\ Tail(s) \in Seq(S) /\ Len(Tail(s)) = Len(s) - 1
      /\ DOMAIN Tail(s) = 1 .. (Len(s) - 1)
      /\ \A m \in 1 .. (Len(s) - 1) : Tail(s)[m] = s[m + 1]
  OBVIOUS
<1>2. Increasing(Tail(s))
  <2> SUFFICES ASSUME NEW m \in DOMAIN Tail(s), NEW n \in DOMAIN Tail(s), m < n
               PROVE Tail(s)[m] < Tail(s)[n]
    BY DEF Increasing
  <2>1. m + 1 \in DOMAIN s /\ n + 1 \in DOMAIN s /\ m + 1 < n + 1
    BY <1>1
  <2>2. QED
    BY <1>1, <2>1 DEF Increasing
<1>3. ASSUME NEW m \in 2 .. Len(s) PROVE s[1] < s[m]
  <2>1. 1 \in DOMAIN s /\ m \in DOMAIN s /\ 1 < m
    BY <1>1
  <2>2. QED
    BY <2>1 DEF Increasing
<1>4. ASSUME NEW m \in 1 .. Len(s) PROVE s[m] \in S /\ s[m] \in Nat
  <2>1. s[m] \in S
    BY <1>1, ElementOfSeq
  <2>2. QED
    BY <2>1
<1>5. Holds(s, Head(s)) /\ Head(s) \in S
  BY <1>1, <1>4 DEF Holds
<1>6. ASSUME NEW x, Holds(Tail(s), x) PROVE Holds(s, x) /\ x # Head(s) /\ Head(s) < x
  <2>1. PICK m \in 1 .. (Len(s) - 1) : s[m + 1] = x
    BY <1>1, <1>6 DEF Holds
  <2>2. m + 1 \in 2 .. Len(s) /\ m + 1 \in DOMAIN s
    BY <1>1
  <2>3. s[1] < s[m + 1] /\ s[m + 1] \in Nat /\ s[1] \in Nat
    BY <1>1, <1>3, <1>4, <2>2
  <2>4. QED
    BY <1>1, <2>1, <2>2, <2>3 DEF Holds
<1>7. ASSUME NEW x, Holds(s, x), x # Head(s) PROVE Holds(Tail(s), x)
  <2>1. PICK m \in 1 .. Len(s) : s[m] = x
    BY <1>1, <1>7 DEF Holds
  <2>2. m - 1 \in 1 .. (Len(s) - 1) /\ s[(m - 1) + 1] = x
    BY <1>1, <1>7, <2>1
  <2>3. QED
    BY <1>1, <2>2 DEF Holds
<1>8. QED
  BY <1>1, <1>2, <1>5, <1>6, <1>7

LEMMA AppendOK ==
  ASSUME NEW S, S \subseteq Nat, NEW s \in Seq(S), Increasing(s), NEW x \in S,
         \A y \in S : Holds(s, y) => y < x
  PROVE  /\ Append(s, x) \in Seq(S) /\ Increasing(Append(s, x))
         /\ \A y : Holds(Append(s, x), y) <=> Holds(s, y) \/ y = x
<1> DEFINE t == Append(s, x)
<1>1. /\ Len(s) \in Nat /\ DOMAIN s = 1 .. Len(s) /\ t \in Seq(S)
      /\ DOMAIN t = 1 .. (Len(s) + 1) /\ t[Len(s) + 1] = x
      /\ \A m \in 1 .. Len(s) : t[m] = s[m] /\ s[m] \in S
  OBVIOUS
<1> HIDE DEF t
<1>2. \A m \in 1 .. Len(s) : s[m] < x
  BY <1>1 DEF Holds
<1>3. Increasing(t)
  <2> SUFFICES ASSUME NEW m \in DOMAIN t, NEW n \in DOMAIN t, m < n PROVE t[m] < t[n]
    BY DEF Increasing
  <2>1. m \in 1 .. Len(s)
    BY <1>1
  <2>2. CASE n = Len(s) + 1
    BY <1>1, <1>2, <2>1, <2>2
  <2>3. CASE n # Len(s) + 1
    <3>1. n \in 1 .. Len(s)
      BY <1>1, <2>3
    <3>2. s[m] < s[n]
      BY <1>1, <2>1, <3>1 DEF Increasing
    <3>3. QED
      BY <1>1, <2>1, <3>1, <3>2
  <2>4. QED
    BY <2>2, <2>3
<1>4. ASSUME NEW y PROVE Holds(t, y) <=> Holds(s, y) \/ y = x
  <2>1. ASSUME Holds(t, y) PROVE Holds(s, y) \/ y = x
    <3>1. PICK m \in 1 .. (Len(s) + 1) : t[m] = y
      BY <1>1, <2>1 DEF Holds
    <3>2. m = Len(s) + 1 \/ m \in 1 .. Len(s)
      BY <1>1
    <3>3. QED
      BY <1>1, <3>1, <3>2 DEF Holds
  <2>2. ASSUME Holds(s, y) PROVE Holds(t, y)
    <3>1. PICK m \in 1 .. Len(s) : s[m] = y
      BY <1>1, <2>2 DEF Holds
    <3>2. m \in DOMAIN t /\ t[m] = y
      BY <1>1, <3>1
    <3>3. QED
      BY <3>2 DEF Holds
  <2>3. Holds(t, x)
    <3>1. Len(s) + 1 \in DOMAIN t
      BY <1>1
    <3>2. QED
      BY <1>1, <3>1 DEF Holds
  <2>4. QED
    BY <2>1, <2>2, <2>3
<1>5. QED
  BY <1>1, <1>3, <1>4 DEF t

LEMMA HoldsAppend ==
  ASSUME NEW S, NEW s \in Seq(S), NEW x \in S
  PROVE  /\ Append(s, x) \in Seq(S)
         /\ \A y : Holds(Append(s, x), y) <=> Holds(s, y) \/ y = x
         /\ Len(Append(s, x)) = Len(s) + 1 /\ Append(s, x)[Len(s) + 1] = x
         /\ \A m \in 1 .. Len(s) : Append(s, x)[m] = s[m]
<1> DEFINE t == Append(s, x)
<1>1. /\ Len(s) \in Nat /\ DOMAIN s = 1 .. Len(s) /\ t \in Seq(S)
      /\ Len(t) = Len(s) + 1 /\ DOMAIN t = 1 .. (Len(s) + 1) /\ t[Len(s) + 1] = x
      /\ \A m \in 1 .. Len(s) : t[m] = s[m]
  OBVIOUS
<1> HIDE DEF t
<1>2. ASSUME NEW y, Holds(t, y) PROVE Holds(s, y) \/ y = x
  <2>1. PICK m \in 1 .. (Len(s) + 1) : t[m] = y
    BY <1>1, <1>2 DEF Holds
  <2>2. m = Len(s) + 1 \/ m \in 1 .. Len(s)
    BY <1>1
  <2>3. QED
    BY <1>1, <2>1, <2>2 DEF Holds
<1>3. ASSUME NEW y, Holds(s, y) PROVE Holds(t, y)
  <2>1. PICK m \in 1 .. Len(s) : s[m] = y
    BY <1>1, <1>3 DEF Holds
  <2>2. m \in DOMAIN t /\ t[m] = y
    BY <1>1, <2>1
  <2>3. QED
    BY <2>2 DEF Holds
<1>4. Holds(t, x)
  <2>1. Len(s) + 1 \in DOMAIN t
    BY <1>1
  <2>2. QED
    BY <1>1, <2>1 DEF Holds
<1>5. QED
  BY <1>1, <1>2, <1>3, <1>4 DEF t

Naps(j) == jobs[j].state = "naps"
Alive(j) == Calls(j) \/ Naps(j)

Entry(b, j) == Holds(mail[b], j)
Took(b, j)  == Holds(applied, <<j, b>>)

Job == [command : {"on", "off"}, at : Bulb, state : {"calls", "naps", "done", "dead"}]

QueueTypes ==
  /\ jobs \in Seq(Job)
  /\ mail \in [Bulb -> Seq(DOMAIN jobs)]
  /\ naps \in Seq(DOMAIN jobs)
  /\ applied \in Seq((DOMAIN jobs) \X Bulb)

\* An action's calls and gaps are where its state says.
Placed ==
  /\ \A b \in Bulb, j \in DOMAIN jobs : Entry(b, j) => jobs[j].at = b /\ ~Naps(j)
  /\ \A j \in DOMAIN jobs : Calls(j) => Entry(jobs[j].at, j)
  /\ \A m \in DOMAIN naps : Naps(naps[m])
  /\ \A j \in DOMAIN jobs :
       Naps(j) => jobs[j].at < NBulbs /\ Holds(naps, j)
  /\ \A b \in Bulb, j \in DOMAIN jobs : Took(b, j) => b <= jobs[j].at

\* Every queue is in the order in which the actions fired.
Sorted ==
  /\ \A b \in Bulb : Increasing(mail[b])
  /\ \A m, n \in DOMAIN naps :
       m < n /\ jobs[naps[m]].at = jobs[naps[n]].at => naps[m] < naps[n]
  /\ \A b \in Bulb, i, j \in DOMAIN jobs : Entry(b, i) /\ Took(b, j) => j < i

\* An action that is under way is nowhere overtaken by a newer one.
Ahead ==
  \A i, j \in DOMAIN jobs : i < j /\ Alive(i) =>
    /\ \A b \in Bulb : Entry(b, j) => b <= jobs[i].at
    /\ \A b \in Bulb : Took(b, j) => b < jobs[i].at \/ (b = jobs[i].at /\ Naps(i))
    /\ Naps(j) => \/ jobs[j].at < jobs[i].at
                  \/ jobs[j].at = jobs[i].at /\ Naps(i)

OrderInv == QueueTypes /\ Placed /\ Sorted /\ Ahead /\ LastFiredWins
LEMMA OrderInit == Init => OrderInv
<1> SUFFICES ASSUME Init PROVE OrderInv
  OBVIOUS
<1>1. /\ jobs = <<>> /\ naps = <<>> /\ applied = <<>>
      /\ mail = [b \in Bulb |-> <<>>]
  BY DEF Init
<1>2. DOMAIN jobs = {} /\ DOMAIN naps = {} /\ DOMAIN applied = {}
  BY <1>1
<1>3. \A b \in Bulb : mail[b] = <<>> /\ DOMAIN mail[b] = {}
  BY <1>1
<1>4. QueueTypes
  BY <1>1 DEF QueueTypes
<1>5. Placed
  BY <1>2 DEF Placed
<1>6. Sorted
  BY <1>2, <1>3 DEF Sorted, Increasing
<1>7. QED
  BY <1>2, <1>4, <1>5, <1>6 DEF OrderInv, Ahead, LastFiredWins

\* What does not touch the actions.
LEMMA OrderSame ==
  ASSUME OrderInv, UNCHANGED <<jobs, mail, naps, applied>>
  PROVE  OrderInv'
  BY DEF OrderInv, QueueTypes, Placed, Sorted, Ahead, LastFiredWins, Calls, Naps, Alive,
         Entry, Took

\* Numbers of actions, bulbs and the queues' contents.
LEMMA QueueFacts ==
  ASSUME OrderInv
  PROVE  /\ Len(jobs) \in Nat /\ DOMAIN jobs = 1 .. Len(jobs) /\ DOMAIN jobs \subseteq Nat
         /\ \A j \in DOMAIN jobs : jobs[j] \in Job /\ jobs[j].at \in Bulb
         /\ \A b \in Bulb : \A j : Entry(b, j) => j \in DOMAIN jobs
         /\ \A m \in DOMAIN naps : naps[m] \in DOMAIN jobs
         /\ \A b, j : Took(b, j) => j \in DOMAIN jobs /\ b \in Bulb
<1>1. Len(jobs) \in Nat /\ DOMAIN jobs = 1 .. Len(jobs) /\ DOMAIN jobs \subseteq Nat
  BY DEF OrderInv, QueueTypes
<1>2. ASSUME NEW j \in DOMAIN jobs PROVE jobs[j] \in Job /\ jobs[j].at \in Bulb
  <2>1. jobs[j] \in Job
    BY <1>1, ElementOfSeq DEF OrderInv, QueueTypes
  <2>2. QED
    BY <2>1 DEF Job
<1>3. ASSUME NEW b \in Bulb, NEW j, Entry(b, j) PROVE j \in DOMAIN jobs
  <2>1. mail[b] \in Seq(DOMAIN jobs)
    BY DEF OrderInv, QueueTypes
  <2>2. PICK m \in DOMAIN mail[b] : mail[b][m] = j
    BY <1>3 DEF Entry, Holds
  <2>3. QED
    BY <2>1, <2>2, ElementOfSeq
<1>4. ASSUME NEW m \in DOMAIN naps PROVE naps[m] \in DOMAIN jobs
  BY ElementOfSeq DEF OrderInv, QueueTypes
<1>5. ASSUME NEW b, NEW j, Took(b, j) PROVE j \in DOMAIN jobs /\ b \in Bulb
  <2>1. applied \in Seq((DOMAIN jobs) \X Bulb)
    BY DEF OrderInv, QueueTypes
  <2>2. PICK m \in DOMAIN applied : applied[m] = <<j, b>>
    BY <1>5 DEF Took, Holds
  <2>3. applied[m] \in (DOMAIN jobs) \X Bulb
    BY <2>1, ElementOfSeq
  <2>4. QED
    BY <2>2, <2>3
<1>6. QED
  BY <1>1, <1>2, <1>3, <1>4, <1>5
\* What CallNext and Evaluate do to a mailbox, and what BulbServes does.
Enters(b, x) == mail' = [mail EXCEPT ![b] = Append(@, x)]
Leaves(b, x) == x = Head(mail[b]) /\ mail' = [mail EXCEPT ![b] = Tail(@)]

Entered(S, b, x) ==
  /\ mail' \in [Bulb -> Seq(S)]
  /\ \A c \in Bulb : Increasing(mail'[c])
  /\ \A c \in Bulb : \A y : Holds(mail'[c], y) <=> Holds(mail[c], y) \/ (c = b /\ y = x)

Left(S, b, x) ==
  /\ mail' \in [Bulb -> Seq(S)] /\ x \in S /\ Holds(mail[b], x)
  /\ \A c \in Bulb : Increasing(mail'[c])
  /\ \A c \in Bulb : \A y : Holds(mail'[c], y) <=> Holds(mail[c], y) /\ ~(c = b /\ y = x)
  /\ \A y \in S : Holds(mail'[b], y) => x < y

\* The mailboxes with the actions of S, in order.
Mailboxes(S) == /\ S \subseteq Nat /\ mail \in [Bulb -> Seq(S)]
                /\ \A c \in Bulb : Increasing(mail[c])

Newest(S, b, x) == x \in S /\ \A y \in S : Holds(mail[b], y) => y < x

\* A call enters the mailbox of bulb b, newest last.
LEMMA CallEnters ==
  ASSUME NEW S, Mailboxes(S), NEW b \in Bulb, NEW x, Newest(S, b, x), Enters(b, x)
  PROVE  Entered(S, b, x)
<1>1. PICK s : s = mail[b]
  OBVIOUS
<1>2. /\ S \subseteq Nat /\ x \in S /\ s \in Seq(S) /\ Increasing(s)
      /\ \A y \in S : Holds(s, y) => y < x
  BY <1>1 DEF Mailboxes, Newest
<1>3. /\ Append(s, x) \in Seq(S) /\ Increasing(Append(s, x))
      /\ \A y : Holds(Append(s, x), y) <=> Holds(s, y) \/ y = x
  BY <1>2, AppendOK
<1>4. /\ mail' \in [Bulb -> Seq(S)] /\ mail'[b] = Append(s, x)
      /\ \A c \in Bulb : c # b => mail'[c] = mail[c]
  BY <1>1, <1>3 DEF Enters, Mailboxes
<1>5. QED
  BY <1>1, <1>3, <1>4 DEF Entered, Mailboxes

\* Bulb b takes the first call from its mailbox.
LEMMA CallLeaves ==
  ASSUME NEW S, Mailboxes(S), NEW b \in Bulb, mail[b] # <<>>, NEW x, Leaves(b, x)
  PROVE  Left(S, b, x)
<1>1. PICK s : s = mail[b]
  OBVIOUS
<1>2. S \subseteq Nat /\ s \in Seq(S) /\ Increasing(s) /\ s # <<>> /\ x = Head(s)
  BY <1>1 DEF Leaves, Mailboxes
<1>3. /\ Tail(s) \in Seq(S) /\ Increasing(Tail(s)) /\ Head(s) \in S
      /\ Holds(s, Head(s))
      /\ \A y : Holds(Tail(s), y) <=> Holds(s, y) /\ y # Head(s)
      /\ \A y \in S : Holds(Tail(s), y) => Head(s) < y
  BY <1>2, TailOK
<1>4. /\ mail' \in [Bulb -> Seq(S)] /\ mail'[b] = Tail(s)
      /\ \A c \in Bulb : c # b => mail'[c] = mail[c]
  BY <1>1, <1>3 DEF Leaves, Mailboxes
<1>5. QED
  BY <1>1, <1>2, <1>3, <1>4 DEF Left, Mailboxes

\* A new action calls the first bulb.
LEMMA OrderFires ==
  ASSUME OrderInv, NEW c \in {"on", "off"}, NEW n, n = Len(jobs) + 1,
         jobs' = Append(jobs, [command |-> c, at |-> 1, state |-> "calls"]),
         Enters(1, n),
         UNCHANGED <<naps, applied>>
  PROVE  OrderInv'
<1> DEFINE new == [command |-> c, at |-> 1, state |-> "calls"]
<1>1. 1 \in Bulb
  BY RulesAssumption DEF Bulb
<1>2. new \in Job
  BY <1>1 DEF Job
<1>3. /\ jobs' \in Seq(Job) /\ Len(jobs') = n /\ n \in Nat
      /\ DOMAIN jobs' = 1 .. n /\ DOMAIN jobs = 1 .. Len(jobs)
      /\ DOMAIN jobs \subseteq DOMAIN jobs' /\ n \notin DOMAIN jobs
      /\ \A j \in DOMAIN jobs : jobs'[j] = jobs[j] /\ j < n
      /\ jobs'[n] = new
  BY <1>2 DEF OrderInv, QueueTypes
<1>4. DOMAIN jobs' \subseteq Nat /\ n \in DOMAIN jobs'
  BY <1>3
<1>5. /\ mail' \in [Bulb -> Seq(DOMAIN jobs')]
      /\ \A b \in Bulb : Increasing(mail'[b])
      /\ \A b \in Bulb : \A y : Entry(b, y)' <=> Entry(b, y) \/ (b = 1 /\ y = n)
  <2>1. \A b \in Bulb : mail[b] \in Seq(DOMAIN jobs')
    <3>1. \A b \in Bulb : mail[b] \in Seq(DOMAIN jobs)
      BY DEF OrderInv, QueueTypes
    <3>2. QED
      BY <1>3, <3>1
  <2>2. \A y \in DOMAIN jobs' : Holds(mail[1], y) => y < n
    BY <1>1, <1>3, QueueFacts DEF Entry
  <2>3. PICK S : S = DOMAIN jobs'
    OBVIOUS
  <2>4. Mailboxes(S)
    BY <1>4, <2>1, <2>3 DEF Mailboxes, OrderInv, QueueTypes, Sorted
  <2>5. Newest(S, 1, n)
    BY <1>4, <2>2, <2>3 DEF Newest
  <2>6. Entered(S, 1, n)
    BY <1>1, <2>4, <2>5, CallEnters
  <2>7. QED
    BY <2>3, <2>6 DEF Entered, Entry
<1>7. \A b \in Bulb : \A j : Entry(b, j)' <=> Entry(b, j) \/ (b = 1 /\ j = n)
  BY <1>5
<1>8. \A b, j : Took(b, j)' <=> Took(b, j)
  BY DEF Took
<1>9. /\ \A j \in DOMAIN jobs : (Calls(j)' <=> Calls(j)) /\ (Naps(j)' <=> Naps(j))
      /\ Calls(n)' /\ ~Naps(n)'
  BY <1>3 DEF Calls, Naps
<1>10. \A m \in DOMAIN naps : naps[m] \in DOMAIN jobs
  BY QueueFacts
<1>11. QueueTypes'
  <2>1. mail' \in [Bulb -> Seq(DOMAIN jobs')]
    BY <1>5
  <2>2. naps' \in Seq(DOMAIN jobs')
    <3>1. naps \in Seq(DOMAIN jobs)
      BY DEF OrderInv, QueueTypes
    <3>2. QED
      BY <1>3, <3>1
  <2>3. applied' \in Seq((DOMAIN jobs') \X Bulb)
    <3>1. applied \in Seq((DOMAIN jobs) \X Bulb)
      BY DEF OrderInv, QueueTypes
    <3>2. (DOMAIN jobs) \X Bulb \subseteq (DOMAIN jobs') \X Bulb
      BY <1>3
    <3>3. QED
      BY <3>1, <3>2
  <2>4. QED
    BY <1>3, <2>1, <2>2, <2>3 DEF QueueTypes
<1>12. \A j \in DOMAIN jobs' : j = n \/ j \in DOMAIN jobs
  BY <1>3
<1>13. jobs'[n].at = 1
  BY <1>3
<1>14. Placed'
  <2>1. ASSUME NEW b \in Bulb, NEW j \in DOMAIN jobs', Entry(b, j)'
        PROVE  jobs'[j].at = b /\ ~Naps(j)'
    <3>1. CASE b = 1 /\ j = n
      BY <1>9, <1>13, <3>1
    <3>2. CASE Entry(b, j)
      <4>1. j \in DOMAIN jobs
        BY <3>2, QueueFacts
      <4>2. QED
        BY <1>3, <1>9, <3>2, <4>1 DEF OrderInv, Placed
    <3>3. QED
      BY <1>7, <2>1, <3>1, <3>2
  <2>2. ASSUME NEW j \in DOMAIN jobs', Calls(j)' PROVE Entry(jobs[j].at, j)'
    <3>1. CASE j = n
      BY <1>1, <1>7, <1>13, <3>1
    <3>2. CASE j \in DOMAIN jobs
      <4>1. jobs[j].at \in Bulb /\ Calls(j)
        BY <1>9, <2>2, <3>2, QueueFacts
      <4>2. Entry(jobs[j].at, j)
        BY <3>2, <4>1 DEF OrderInv, Placed
      <4>3. QED
        BY <1>3, <1>7, <3>2, <4>1, <4>2
    <3>3. QED
      BY <1>12, <3>1, <3>2
  <2>3. (\A m \in DOMAIN naps : Naps(naps[m]))'
    <3>1. ASSUME NEW m \in DOMAIN naps PROVE jobs'[naps[m]].state = "naps"
      BY <1>3, <1>10 DEF OrderInv, Placed, Naps
    <3>2. QED
      BY <3>1 DEF Naps
  <2>4. \A j \in DOMAIN jobs' : Naps(j)' => jobs'[j].at < NBulbs /\ Holds(naps', j)
    BY <1>3, <1>9, <1>12 DEF OrderInv, Placed
  <2>5. \A b \in Bulb, j \in DOMAIN jobs' : Took(b, j)' => b <= jobs'[j].at
    BY <1>3, <1>8, QueueFacts DEF OrderInv, Placed
  <2>6. QED
    BY <2>1, <2>2, <2>3, <2>4, <2>5 DEF Placed
<1>15. Sorted'
  <2>1. \A b \in Bulb : Increasing(mail'[b])
    BY <1>5
  <2>2. \A k, m \in DOMAIN naps' :
          k < m /\ jobs'[naps'[k]].at = jobs'[naps'[m]].at => naps'[k] < naps'[m]
    BY <1>3, <1>10 DEF OrderInv, Sorted
  <2>3. ASSUME NEW b \in Bulb, NEW i \in DOMAIN jobs', NEW j \in DOMAIN jobs',
               Entry(b, i)', Took(b, j)'
        PROVE  j < i
    <3>1. Took(b, j) /\ j \in DOMAIN jobs
      BY <1>8, <2>3, QueueFacts
    <3>2. CASE i = n
      BY <1>3, <3>1, <3>2
    <3>3. CASE Entry(b, i)
      BY <3>1, <3>3, QueueFacts DEF OrderInv, Sorted
    <3>4. QED
      BY <1>7, <2>3, <3>2, <3>3
  <2>4. QED
    BY <2>1, <2>2, <2>3 DEF Sorted
<1>16. Ahead'
  <2> SUFFICES ASSUME NEW i \in DOMAIN jobs', NEW j \in DOMAIN jobs', i < j, Alive(i)'
               PROVE  /\ \A b \in Bulb : Entry(b, j)' => b <= jobs'[i].at
                      /\ \A b \in Bulb : Took(b, j)' =>
                           b < jobs'[i].at \/ (b = jobs'[i].at /\ Naps(i)')
                      /\ Naps(j)' => \/ jobs'[j].at < jobs'[i].at
                                     \/ jobs'[j].at = jobs'[i].at /\ Naps(i)'
    BY DEF Ahead
  <2>1. i \in DOMAIN jobs /\ jobs'[i] = jobs[i] /\ Alive(i) /\ (Naps(i)' <=> Naps(i))
    <3>1. i \in DOMAIN jobs
      BY <1>3, <1>12
    <3>2. QED
      BY <1>3, <1>9, <3>1 DEF Alive
  <2>2. CASE j = n
    <3>1. ~Naps(j)' /\ \A b : ~Took(b, j)'
      BY <1>3, <1>8, <1>9, <2>2, QueueFacts
    <3>2. \A b \in Bulb : Entry(b, j)' => b = 1
      BY <1>3, <1>7, <2>2, QueueFacts
    <3>3. 1 <= jobs[i].at
      BY <2>1, QueueFacts, RulesAssumption DEF Bulb
    <3>4. QED
      BY <2>1, <3>1, <3>2, <3>3
  <2>3. CASE j \in DOMAIN jobs
    <3>1. \A b \in Bulb : Entry(b, j)' <=> Entry(b, j)
      BY <1>3, <1>7, <2>3
    <3>2. QED
      BY <1>3, <1>8, <1>9, <2>1, <2>3, <3>1 DEF OrderInv, Ahead
  <2>4. QED
    BY <1>12, <2>2, <2>3
<1>17. LastFiredWins'
  BY DEF OrderInv, LastFiredWins
<1>18. QED
  BY <1>11, <1>14, <1>15, <1>16, <1>17 DEF OrderInv

\* A bulb takes a call; the action sleeps, is over, or is long gone.
LEMMA OrderServes ==
  ASSUME OrderInv, NEW b \in Bulb, BulbServes(b)
  PROVE  OrderInv'
<1>1. PICK j : j = Head(mail[b])
  OBVIOUS
<1>2. mail[b] # <<>> /\ Leaves(b, j)
  BY <1>1 DEF BulbServes, Leaves
<1>3. PICK J : J = DOMAIN jobs
  OBVIOUS
<1>4. Mailboxes(J)
  BY <1>3, QueueFacts DEF Mailboxes, OrderInv, QueueTypes, Sorted
<1>5. Left(J, b, j)
  BY <1>2, <1>4, CallLeaves
<1>6. j \in J /\ Entry(b, j) /\ J \subseteq Nat
  BY <1>3, <1>5, QueueFacts DEF Left, Entry
<1>7. /\ \A c \in Bulb : \A y : Entry(c, y)' <=> Entry(c, y) /\ ~(c = b /\ y = j)
      /\ \A y : Entry(b, y)' => j < y
  <2>1. \A c \in Bulb : \A y : Entry(c, y)' <=> Entry(c, y) /\ ~(c = b /\ y = j)
    BY <1>5 DEF Left, Entry
  <2>2. ASSUME NEW y, Entry(b, y)' PROVE j < y
    BY <1>3, <1>5, <2>1, <2>2, QueueFacts DEF Left, Entry
  <2>3. QED
    BY <2>1, <2>2
<1>8. jobs[j].at = b
  BY <1>3, <1>6 DEF OrderInv, Placed
<1>9. \/ Calls(j) /\ b # NBulbs /\ jobs' = [jobs EXCEPT ![j].state = "naps"] /\ naps' = Append(naps, j)
      \/ Calls(j) /\ b = NBulbs /\ jobs' = [jobs EXCEPT ![j].state = "done"] /\ naps' = naps
      \/ ~Calls(j) /\ jobs' = jobs /\ naps' = naps
  BY <1>1 DEF BulbServes
<1>10. /\ jobs' \in Seq(Job) /\ DOMAIN jobs' = J
       /\ \A i \in J : jobs'[i].at = jobs[i].at
       /\ \A i \in J : (Naps(i)' <=> Naps(i) \/ (i = j /\ Calls(j) /\ b # NBulbs))
       /\ \A i \in J : Calls(i)' => Calls(i) /\ i # j
  <2>1. jobs \in Seq(Job) /\ jobs[j] \in Job /\ \A i \in J : jobs[i] \in Job
    BY <1>3, <1>6, QueueFacts DEF OrderInv, QueueTypes
  <2>2. ASSUME NEW st \in {"naps", "done"}, jobs' = [jobs EXCEPT ![j].state = st]
        PROVE  /\ jobs' \in Seq(Job) /\ DOMAIN jobs' = J
               /\ jobs'[j].state = st
               /\ \A i \in J : jobs'[i].at = jobs[i].at
               /\ \A i \in J : i # j => jobs'[i] = jobs[i]
    <3>1. [jobs[j] EXCEPT !.state = st] \in Job
      BY <2>1 DEF Job
    <3>2. jobs' = [jobs EXCEPT ![j] = [jobs[j] EXCEPT !.state = st]]
      BY <2>2
    <3>3. jobs' \in Seq(Job) /\ DOMAIN jobs' = J
      BY <1>3, <1>6, <2>1, <3>1, <3>2
    <3>4. jobs'[j] = [jobs[j] EXCEPT !.state = st] /\ \A i \in J : i # j => jobs'[i] = jobs[i]
      BY <1>3, <1>6, <3>2
    <3>5. [jobs[j] EXCEPT !.state = st].at = jobs[j].at /\ [jobs[j] EXCEPT !.state = st].state = st
      BY <2>1 DEF Job
    <3>6. QED
      BY <3>3, <3>4, <3>5
  <2>3. CASE Calls(j) /\ b # NBulbs /\ jobs' = [jobs EXCEPT ![j].state = "naps"]
    BY <2>2, <2>3 DEF Calls, Naps
  <2>4. CASE Calls(j) /\ b = NBulbs /\ jobs' = [jobs EXCEPT ![j].state = "done"]
    BY <2>2, <2>4 DEF Calls, Naps
  <2>5. CASE ~Calls(j) /\ jobs' = jobs
    BY <1>3, <2>1, <2>5 DEF Calls, Naps
  <2>6. QED
    BY <1>9, <2>3, <2>4, <2>5
<1>11. /\ naps' \in Seq(J)
       /\ \A i : Holds(naps', i) <=> Holds(naps, i) \/ (i = j /\ Calls(j) /\ b # NBulbs)
       /\ \/ naps' = naps
          \/ Calls(j) /\ Len(naps') = Len(naps) + 1 /\ naps'[Len(naps) + 1] = j
             /\ \A m \in 1 .. Len(naps) : naps'[m] = naps[m]
  <2>1. naps \in Seq(J)
    BY <1>3 DEF OrderInv, QueueTypes
  <2>2. CASE naps' = Append(naps, j) /\ Calls(j) /\ b # NBulbs
    BY <1>6, <2>1, <2>2, HoldsAppend
  <2>3. CASE naps' = naps /\ ~(Calls(j) /\ b # NBulbs)
    BY <2>1, <2>3
  <2>4. QED
    BY <1>9, <2>2, <2>3
<1>12. /\ applied' \in Seq(J \X Bulb)
       /\ \A c, i : Took(c, i)' => Took(c, i) \/ (c = b /\ i = j)
       /\ \/ applied' = applied
          \/ Len(applied') = Len(applied) + 1 /\ applied'[Len(applied) + 1] = <<j, b>>
             /\ \A m \in 1 .. Len(applied) : applied'[m] = applied[m]
  <2>1. applied \in Seq(J \X Bulb)
    BY <1>3 DEF OrderInv, QueueTypes
  <2>2. CASE applied' = Append(applied, <<j, b>>)
    <3>1. <<j, b>> \in J \X Bulb
      BY <1>6
    <3>2. /\ applied' \in Seq(J \X Bulb)
          /\ \A y : Holds(applied', y) <=> Holds(applied, y) \/ y = <<j, b>>
          /\ Len(applied') = Len(applied) + 1 /\ applied'[Len(applied) + 1] = <<j, b>>
          /\ \A m \in 1 .. Len(applied) : applied'[m] = applied[m]
      BY <2>1, <2>2, <3>1, HoldsAppend
    <3>3. QED
      BY <3>2 DEF Took
  <2>3. CASE applied' = applied
    BY <2>1, <2>3 DEF Took
  <2>4. QED
    BY <1>1, <2>2, <2>3 DEF BulbServes
\* Nobody who is under way is behind bulb b, nor is anyone newer past it.
<1>13. \A k \in J : Took(b, k) => k < j
  BY <1>3, <1>6 DEF OrderInv, Sorted
<1>14. ASSUME NEW i \in J, i < j, Alive(i)
       PROVE  b < jobs[i].at \/ (b = jobs[i].at /\ Naps(i))
  <2>1. b <= jobs[i].at /\ jobs[i].at \in Nat /\ b \in Nat
    BY <1>3, <1>6, <1>14, QueueFacts DEF OrderInv, Ahead, Bulb
  <2>2. CASE b = jobs[i].at /\ Calls(i)
    <3>1. Entry(b, i) /\ i # j
      BY <1>3, <1>6, <1>14, <2>2 DEF OrderInv, Placed
    <3>2. j < i /\ j \in Nat /\ i \in Nat
      BY <1>6, <1>7, <3>1
    <3>3. QED
      BY <1>14, <3>2
  <2>3. QED
    BY <1>14, <2>1, <2>2 DEF Alive
<1>15. QueueTypes'
  BY <1>3, <1>5, <1>10, <1>11, <1>12 DEF QueueTypes, Left
<1>16. Placed'
  <2>1. ASSUME NEW c \in Bulb, NEW i \in DOMAIN jobs', Entry(c, i)'
        PROVE  jobs'[i].at = c /\ ~Naps(i)'
    <3>1. Entry(c, i) /\ ~(c = b /\ i = j) /\ i \in J
      BY <1>7, <1>10, <2>1
    <3>2. jobs[i].at = c /\ ~Naps(i)
      BY <1>3, <3>1 DEF OrderInv, Placed
    <3>3. i # j
      BY <1>8, <3>1, <3>2
    <3>4. QED
      BY <1>10, <3>1, <3>2, <3>3
  <2>2. ASSUME NEW i \in DOMAIN jobs', Calls(i)'
        PROVE  Entry(jobs[i].at, i)' /\ jobs'[i].at = jobs[i].at
    <3>1. Calls(i) /\ i # j /\ i \in J
      BY <1>10, <2>2
    <3>2. Entry(jobs[i].at, i) /\ jobs[i].at \in Bulb
      BY <1>3, <3>1, QueueFacts DEF OrderInv, Placed
    <3>3. QED
      BY <1>7, <1>10, <3>1, <3>2
  <2>3. (\A m \in DOMAIN naps : Naps(naps[m]))'
    <3>1. \A m \in DOMAIN naps : Naps(naps[m]) /\ naps[m] \in J /\ Holds(naps, naps[m])
      BY <1>3, QueueFacts DEF OrderInv, Placed, Holds
    <3>2. ASSUME NEW m \in DOMAIN naps' PROVE jobs'[naps'[m]].state = "naps"
      <4>1. PICK x : x = naps'[m]
        OBVIOUS
      <4>2. x \in J /\ Holds(naps', x)
        BY <1>11, <4>1, ElementOfSeq DEF Holds
      <4>3. Holds(naps, x) \/ (x = j /\ Calls(j) /\ b # NBulbs)
        BY <1>11, <4>2
      <4>4. Holds(naps, x) => Naps(x)
        BY <3>1 DEF Holds
      <4>5. Naps(x)'
        BY <1>10, <4>2, <4>3, <4>4
      <4>6. QED
        BY <4>1, <4>5 DEF Naps
    <3>3. QED
      BY <3>2 DEF Naps
  <2>4. \A i \in DOMAIN jobs' : Naps(i)' => jobs'[i].at < NBulbs /\ Holds(naps', i)
    <3>1. \A i \in J : Naps(i) => jobs[i].at < NBulbs /\ Holds(naps, i)
      BY <1>3 DEF OrderInv, Placed
    <3>2. b # NBulbs => jobs[j].at < NBulbs
      BY <1>8, RulesAssumption DEF Bulb
    <3>3. QED
      BY <1>6, <1>10, <1>11, <3>1, <3>2
  <2>5. ASSUME NEW c \in Bulb, NEW i \in DOMAIN jobs', Took(c, i)' PROVE c <= jobs'[i].at
    <3>1. CASE Took(c, i)
      BY <1>3, <1>10, <3>1 DEF OrderInv, Placed
    <3>2. CASE c = b /\ i = j
      BY <1>6, <1>8, <1>10, <3>2 DEF Bulb
    <3>3. QED
      BY <1>12, <2>5, <3>1, <3>2
  <2>6. QED
    BY <2>1, <2>2, <2>3, <2>4, <2>5 DEF Placed
<1>17. Sorted'
  <2>1. \A c \in Bulb : Increasing(mail'[c])
    BY <1>5 DEF Left
  <2>2. \A k, m \in DOMAIN naps' :
          k < m /\ jobs'[naps'[k]].at = jobs'[naps'[m]].at => naps'[k] < naps'[m]
    <3>1. \A k, m \in DOMAIN naps :
            k < m /\ jobs[naps[k]].at = jobs[naps[m]].at => naps[k] < naps[m]
      BY DEF OrderInv, Sorted
    <3>2. /\ DOMAIN naps = 1 .. Len(naps) /\ Len(naps) \in Nat
          /\ DOMAIN naps' = 1 .. Len(naps')
          /\ \A m \in DOMAIN naps : naps[m] \in J
          /\ \A m \in DOMAIN naps' : naps'[m] \in J
      BY <1>3, <1>11, QueueFacts, ElementOfSeq DEF OrderInv, QueueTypes
    <3>3. CASE naps' = naps
      BY <1>10, <3>1, <3>2, <3>3
    <3>4. CASE /\ Calls(j) /\ Len(naps') = Len(naps) + 1 /\ naps'[Len(naps) + 1] = j
               /\ \A m \in 1 .. Len(naps) : naps'[m] = naps[m]
      <4>1. ASSUME NEW k \in 1 .. Len(naps), jobs[naps[k]].at = b PROVE naps[k] < j
        <5>1. naps[k] \in J /\ Naps(naps[k]) /\ naps[k] \in Nat /\ j \in Nat
          BY <1>6, <3>2 DEF OrderInv, Placed
        <5>2. naps[k] # j
          BY <3>4, <5>1 DEF Calls, Naps
        <5>3. ~(j < naps[k])
          BY <1>3, <1>6, <1>8, <3>4, <4>1, <5>1 DEF OrderInv, Ahead, Alive, Calls, Naps, Bulb
        <5>4. QED
          BY <5>1, <5>2, <5>3
      <4> SUFFICES ASSUME NEW k \in DOMAIN naps', NEW m \in DOMAIN naps', k < m,
                          jobs'[naps'[k]].at = jobs'[naps'[m]].at
                   PROVE  naps'[k] < naps'[m]
        OBVIOUS
      <4>2. jobs[naps'[k]].at = jobs[naps'[m]].at
        BY <1>10, <3>2
      <4>3. k \in 1 .. Len(naps) /\ naps'[k] = naps[k]
        BY <3>2, <3>4
      <4>4. CASE m = Len(naps) + 1
        BY <1>8, <3>4, <4>1, <4>2, <4>3, <4>4
      <4>5. CASE m \in 1 .. Len(naps)
        BY <3>1, <3>2, <3>4, <4>2, <4>3, <4>5
      <4>6. QED
        BY <3>2, <3>4, <4>4, <4>5
    <3>5. QED
      BY <1>11, <3>3, <3>4
  <2>3. ASSUME NEW c \in Bulb, NEW i \in DOMAIN jobs', NEW k \in DOMAIN jobs',
               Entry(c, i)', Took(c, k)'
        PROVE  k < i
    <3>1. Entry(c, i) /\ i \in J /\ k \in J
      BY <1>7, <1>10, <2>3
    <3>2. CASE Took(c, k)
      BY <1>3, <3>1, <3>2 DEF OrderInv, Sorted
    <3>3. CASE c = b /\ k = j
      BY <1>7, <2>3, <3>3
    <3>4. QED
      BY <1>12, <2>3, <3>2, <3>3
  <2>4. QED
    BY <2>1, <2>2, <2>3 DEF Sorted
<1>18. Ahead'
  <2> SUFFICES ASSUME NEW i \in DOMAIN jobs', NEW k \in DOMAIN jobs', i < k, Alive(i)'
               PROVE  /\ \A c \in Bulb : Entry(c, k)' => c <= jobs'[i].at
                      /\ \A c \in Bulb : Took(c, k)' =>
                           c < jobs'[i].at \/ (c = jobs'[i].at /\ Naps(i)')
                      /\ Naps(k)' => \/ jobs'[k].at < jobs'[i].at
                                     \/ jobs'[k].at = jobs'[i].at /\ Naps(i)'
    BY DEF Ahead
  <2>1. i \in J /\ k \in J /\ jobs'[i].at = jobs[i].at /\ jobs'[k].at = jobs[k].at
    BY <1>10
  <2>2. Alive(i)
    BY <1>10, <2>1 DEF Alive
  <2>3. /\ \A c \in Bulb : Entry(c, k) => c <= jobs[i].at
        /\ \A c \in Bulb : Took(c, k) => c < jobs[i].at \/ (c = jobs[i].at /\ Naps(i))
        /\ Naps(k) => \/ jobs[k].at < jobs[i].at
                      \/ jobs[k].at = jobs[i].at /\ Naps(i)
    BY <1>3, <2>1, <2>2 DEF OrderInv, Ahead
  <2>4. Naps(i) => Naps(i)'
    BY <1>10, <2>1
  <2>5. k = j => b < jobs[i].at \/ (b = jobs[i].at /\ Naps(i))
    BY <1>14, <2>1, <2>2
  <2>6. \A c \in Bulb : Entry(c, k)' => c <= jobs'[i].at
    BY <1>7, <2>1, <2>3
  <2>7. ASSUME NEW c \in Bulb, Took(c, k)'
        PROVE  c < jobs'[i].at \/ (c = jobs'[i].at /\ Naps(i)')
    <3>1. Took(c, k) \/ (c = b /\ k = j)
      BY <1>12, <2>7
    <3>2. QED
      BY <2>1, <2>3, <2>4, <2>5, <3>1
  <2>8. Naps(k)' => \/ jobs'[k].at < jobs'[i].at
                    \/ jobs'[k].at = jobs'[i].at /\ Naps(i)'
    BY <1>8, <1>10, <2>1, <2>3, <2>4, <2>5
  <2>9. QED
    BY <2>6, <2>7, <2>8
<1>19. LastFiredWins'
  <2>1. /\ applied \in Seq(J \X Bulb) /\ DOMAIN applied = 1 .. Len(applied)
        /\ Len(applied) \in Nat /\ DOMAIN applied' = 1 .. Len(applied')
        /\ \A m, n \in DOMAIN applied :
             m < n /\ applied[m][2] = applied[n][2] => applied[m][1] < applied[n][1]
    BY <1>3, <1>12 DEF OrderInv, QueueTypes, LastFiredWins
  <2>2. CASE applied' = applied
    BY <2>2 DEF OrderInv, LastFiredWins
  <2>3. CASE /\ Len(applied') = Len(applied) + 1 /\ applied'[Len(applied) + 1] = <<j, b>>
             /\ \A m \in 1 .. Len(applied) : applied'[m] = applied[m]
    <3>1. ASSUME NEW m \in 1 .. Len(applied), applied[m][2] = b PROVE applied[m][1] < j
      <4>1. applied[m] \in J \X Bulb
        BY <2>1, ElementOfSeq
      <4>2. applied[m] = <<applied[m][1], b>> /\ applied[m][1] \in J
        BY <3>1, <4>1
      <4>3. Took(b, applied[m][1])
        BY <2>1, <4>2 DEF Took, Holds
      <4>4. QED
        BY <1>13, <4>2, <4>3
    <3> SUFFICES ASSUME NEW m \in DOMAIN applied', NEW n \in DOMAIN applied', m < n,
                        applied'[m][2] = applied'[n][2]
                 PROVE  applied'[m][1] < applied'[n][1]
      BY DEF LastFiredWins
    <3>2. m \in 1 .. Len(applied) /\ applied'[m] = applied[m]
      BY <2>1, <2>3
    <3>3. CASE n = Len(applied) + 1
      BY <2>3, <3>1, <3>2, <3>3
    <3>4. CASE n \in 1 .. Len(applied)
      BY <2>1, <2>3, <3>2, <3>4
    <3>5. QED
      BY <2>1, <2>3, <3>3, <3>4
  <2>4. QED
    BY <1>12, <2>2, <2>3
<1>20. QED
  BY <1>15, <1>16, <1>17, <1>18, <1>19 DEF OrderInv

\* An action that wakes calls the next bulb, as the newest to do so.
LEMMA OrderWakes ==
  ASSUME OrderInv, NapEnds
  PROVE  OrderInv'
<1>1. PICK j, b, J : j = Head(naps) /\ b = jobs[j].at /\ J = DOMAIN jobs
  OBVIOUS
<1>2. /\ naps # <<>> /\ naps' = Tail(naps) /\ Enters(b + 1, j) /\ applied' = applied
      /\ jobs' = [jobs EXCEPT ![j].state = "calls", ![j].at = @ + 1]
  BY <1>1 DEF NapEnds, CallNext, Enters
<1>3. /\ naps \in Seq(J) /\ Len(naps) \in Nat /\ Len(naps) > 0 /\ j = naps[1]
      /\ DOMAIN naps = 1 .. Len(naps) /\ naps' \in Seq(J)
      /\ DOMAIN naps' = 1 .. (Len(naps) - 1)
      /\ \A m \in 1 .. (Len(naps) - 1) : naps'[m] = naps[m + 1]
  <2>1. naps \in Seq(J) /\ naps # <<>>
    BY <1>1, <1>2 DEF OrderInv, QueueTypes
  <2>2. QED
    BY <1>1, <1>2, <2>1
<1>4. /\ j \in J /\ J \subseteq Nat /\ Naps(j) /\ ~Calls(j) /\ b \in Nat /\ b < NBulbs
      /\ b + 1 \in Bulb /\ b + 1 # b
  <2>1. 1 \in DOMAIN naps
    BY <1>3
  <2>2. j \in J /\ J \subseteq Nat /\ Naps(j)
    <3>1. j \in J /\ J \subseteq Nat
      BY <1>1, <1>3, <2>1, QueueFacts
    <3>2. \A m \in DOMAIN naps : jobs[naps[m]].state = "naps"
      BY DEF OrderInv, Placed, Naps
    <3>3. QED
      BY <1>3, <2>1, <3>1, <3>2 DEF Naps
  <2>3. b \in Bulb /\ b < NBulbs
    BY <1>1, <2>2, QueueFacts DEF OrderInv, Placed
  <2>4. QED
    BY <2>2, <2>3, RulesAssumption DEF Bulb, Calls, Naps
<1>5. \A c \in Bulb : ~Entry(c, j)
  BY <1>1, <1>4 DEF OrderInv, Placed
<1>6. \A k \in J : Entry(b + 1, k) \/ Took(b + 1, k) => k < j
  <2>1. ASSUME NEW k \in J, Entry(b + 1, k) \/ Took(b + 1, k) PROVE k < j
    <3>1. k # j
      BY <1>1, <1>4, <1>5, <2>1 DEF OrderInv, Placed
    <3>2. ~(j < k)
      BY <1>1, <1>4, <2>1 DEF OrderInv, Ahead, Alive
    <3>3. QED
      BY <1>4, <3>1, <3>2
  <2>2. QED
    BY <2>1
<1>7. Entered(J, b + 1, j)
  <2>1. Mailboxes(J)
    BY <1>1, <1>4 DEF Mailboxes, OrderInv, QueueTypes, Sorted
  <2>2. Newest(J, b + 1, j)
    BY <1>4, <1>6 DEF Newest, Entry
  <2>3. QED
    BY <1>2, <1>4, <2>1, <2>2, CallEnters
<1>8. \A c \in Bulb : \A y : Entry(c, y)' <=> Entry(c, y) \/ (c = b + 1 /\ y = j)
  BY <1>7 DEF Entered, Entry
<1>9. \A c, y : Took(c, y)' <=> Took(c, y)
  BY <1>2 DEF Took
<1>10. /\ jobs' \in Seq(Job) /\ DOMAIN jobs' = J
       /\ jobs'[j].at = b + 1 /\ \A i \in J : i # j => jobs'[i].at = jobs[i].at
       /\ \A i \in J : (Naps(i)' <=> Naps(i) /\ i # j)
       /\ \A i \in J : (Calls(i)' <=> Calls(i) \/ i = j)
  <2>1. jobs \in Seq(Job) /\ jobs[j] \in Job
    BY <1>1, <1>4, QueueFacts DEF OrderInv, QueueTypes
  <2> DEFINE new == [jobs[j] EXCEPT !.state = "calls", !.at = @ + 1]
  <2>2. new \in Job /\ new.at = b + 1 /\ new.state = "calls"
    BY <1>1, <1>4, <2>1 DEF Job
  <2>3. jobs' = [jobs EXCEPT ![j] = new]
    BY <1>2
  <2> HIDE DEF new
  <2>4. jobs' \in Seq(Job) /\ DOMAIN jobs' = J
    BY <1>1, <1>4, <2>1, <2>2, <2>3
  <2>5. jobs'[j] = new /\ \A i \in J : i # j => jobs'[i] = jobs[i]
    BY <1>1, <1>4, <2>3
  <2>6. QED
    BY <2>2, <2>4, <2>5 DEF Calls, Naps
<1>11. \A m \in 2 .. Len(naps) : naps[m] \in J /\ naps[m] # j
  <2>1. ASSUME NEW m \in 2 .. Len(naps), naps[m] = j PROVE FALSE
    <3>1. naps[1] < naps[m]
      BY <1>3, <2>1 DEF OrderInv, Sorted
    <3>2. QED
      BY <1>3, <1>4, <2>1, <3>1
  <2>2. QED
    BY <1>1, <1>3, <2>1, QueueFacts
<1>12. \A i : i # j /\ Holds(naps, i) => Holds(naps', i)
  <2>1. ASSUME NEW i, i # j, Holds(naps, i) PROVE Holds(naps', i)
    <3>1. PICK m \in 1 .. Len(naps) : naps[m] = i
      BY <1>3, <2>1 DEF Holds
    <3>2. m - 1 \in 1 .. (Len(naps) - 1) /\ naps[(m - 1) + 1] = i
      BY <1>3, <2>1, <3>1
    <3>3. QED
      BY <1>3, <3>2 DEF Holds
  <2>2. QED
    BY <2>1
\* Whoever is older than j and under way is ahead of it.
<1>13. ASSUME NEW i \in J, i < j, Alive(i) PROVE b < jobs[i].at
  <2>1. jobs[i].at \in Nat /\ (b < jobs[i].at \/ (b = jobs[i].at /\ Naps(i)))
    BY <1>1, <1>4, <1>13, QueueFacts DEF OrderInv, Ahead, Bulb
  <2>2. CASE b = jobs[i].at /\ Naps(i)
    <3>1. PICK m \in 1 .. Len(naps) : naps[m] = i
      BY <1>1, <1>3, <2>2 DEF OrderInv, Placed, Holds
    <3>2. 1 < m
      BY <1>3, <1>4, <1>13, <3>1
    <3>3. naps[1] < naps[m]
      <4>1. 1 \in DOMAIN naps /\ m \in DOMAIN naps /\ jobs[naps[1]].at = jobs[naps[m]].at
        <5>1. 1 \in DOMAIN naps /\ m \in DOMAIN naps
          BY <1>3
        <5>2. jobs[naps[1]].at = b
          BY <1>1, <1>3
        <5>3. jobs[naps[m]].at = b
          BY <2>2, <3>1
        <5>4. QED
          BY <5>1, <5>2, <5>3
      <4>2. \A k, n \in DOMAIN naps :
              k < n /\ jobs[naps[k]].at = jobs[naps[n]].at => naps[k] < naps[n]
        BY DEF OrderInv, Sorted
      <4>3. QED
        BY <3>2, <4>1, <4>2
    <3>4. naps[1] = j
      BY <1>3
    <3>5. i \in Nat /\ j \in Nat /\ i < j
      BY <1>4, <1>13
    <3>6. QED
      BY ONLY <3>1, <3>3, <3>4, <3>5
  <2>3. QED
    BY <2>1, <2>2
<1>14. QueueTypes'
  BY <1>1, <1>2, <1>3, <1>7, <1>10 DEF QueueTypes, Entered, OrderInv
<1>15. Placed'
  <2>1. ASSUME NEW c \in Bulb, NEW i \in DOMAIN jobs', Entry(c, i)'
        PROVE  jobs'[i].at = c /\ ~Naps(i)'
    <3>1. CASE c = b + 1 /\ i = j
      BY <1>4, <1>10, <3>1
    <3>2. CASE Entry(c, i)
      <4>1. i \in J /\ i # j
        BY <1>5, <1>10, <3>2
      <4>2. jobs[i].at = c /\ ~Naps(i)
        BY <1>1, <3>2, <4>1 DEF OrderInv, Placed
      <4>3. QED
        BY <1>10, <4>1, <4>2
    <3>3. QED
      BY <1>8, <2>1, <3>1, <3>2
  <2>2. ASSUME NEW i \in DOMAIN jobs', Calls(i)'
        PROVE  \E c \in Bulb : c = jobs'[i].at /\ Entry(c, i)'
    <3>1. i \in J
      BY <1>10
    <3>2. CASE i = j
      BY <1>4, <1>8, <1>10, <3>2
    <3>3. CASE i # j
      <4>1. Calls(i)
        BY <1>10, <2>2, <3>1, <3>3
      <4>2. Entry(jobs[i].at, i) /\ jobs[i].at \in Bulb
        BY <1>1, <3>1, <4>1, QueueFacts DEF OrderInv, Placed
      <4>3. QED
        BY <1>8, <1>10, <3>1, <3>3, <4>2
    <3>4. QED
      BY <3>2, <3>3
  <2>3. (\A m \in DOMAIN naps : Naps(naps[m]))'
    <3>1. ASSUME NEW m \in DOMAIN naps' PROVE jobs'[naps'[m]].state = "naps"
      <4>1. PICK x : x = naps'[m]
        OBVIOUS
      <4>2. m + 1 \in 2 .. Len(naps) /\ x = naps[m + 1]
        BY <1>3, <4>1
      <4>3. x \in J /\ x # j /\ Naps(x)
        BY <1>3, <1>11, <4>2 DEF OrderInv, Placed
      <4>4. Naps(x)'
        BY <1>10, <4>3
      <4>5. QED
        BY <4>1, <4>4 DEF Naps
    <3>2. QED
      BY <3>1 DEF Naps
  <2>4. \A i \in DOMAIN jobs' : Naps(i)' => jobs'[i].at < NBulbs /\ Holds(naps', i)
    BY <1>1, <1>10, <1>12 DEF OrderInv, Placed
  <2>5. ASSUME NEW c \in Bulb, NEW i \in DOMAIN jobs', Took(c, i)' PROVE c <= jobs'[i].at
    <3>1. Took(c, i) /\ i \in J /\ c <= jobs[i].at
      BY <1>1, <1>9, <1>10, <2>5 DEF OrderInv, Placed
    <3>2. CASE i = j
      BY <1>1, <1>4, <1>10, <3>1, <3>2 DEF Bulb
    <3>3. CASE i # j
      BY <1>10, <3>1, <3>3
    <3>4. QED
      BY <3>2, <3>3
  <2>6. QED
    BY <2>1, <2>2, <2>3, <2>4, <2>5 DEF Placed
<1>16. Sorted'
  <2>1. \A c \in Bulb : Increasing(mail'[c])
    BY <1>7 DEF Entered
  <2>2. ASSUME NEW k \in DOMAIN naps', NEW m \in DOMAIN naps', k < m,
               jobs'[naps'[k]].at = jobs'[naps'[m]].at
        PROVE  naps'[k] < naps'[m]
    <3>1. /\ k + 1 \in 2 .. Len(naps) /\ m + 1 \in 2 .. Len(naps) /\ k + 1 < m + 1
          /\ naps'[k] = naps[k + 1] /\ naps'[m] = naps[m + 1]
      BY <1>3, <2>2
    <3>2. jobs[naps[k + 1]].at = jobs[naps[m + 1]].at
      BY <1>10, <1>11, <2>2, <3>1
    <3>3. k + 1 \in DOMAIN naps /\ m + 1 \in DOMAIN naps
      BY <1>3, <3>1
    <3>4. naps[k + 1] < naps[m + 1]
      BY <3>1, <3>2, <3>3 DEF OrderInv, Sorted
    <3>5. QED
      BY <3>1, <3>4
  <2>3. ASSUME NEW c \in Bulb, NEW i \in DOMAIN jobs', NEW k \in DOMAIN jobs',
               Entry(c, i)', Took(c, k)'
        PROVE  k < i
    <3>1. i \in J /\ k \in J /\ Took(c, k)
      BY <1>9, <1>10, <2>3
    <3>2. CASE Entry(c, i)
      BY <1>1, <3>1, <3>2 DEF OrderInv, Sorted
    <3>3. CASE c = b + 1 /\ i = j
      BY <1>6, <3>1, <3>3
    <3>4. QED
      BY <1>8, <2>3, <3>2, <3>3
  <2>4. QED
    BY <2>1, <2>2, <2>3 DEF Sorted
<1>17. Ahead'
  <2> SUFFICES ASSUME NEW i \in DOMAIN jobs', NEW k \in DOMAIN jobs', i < k, Alive(i)'
               PROVE  /\ \A c \in Bulb : Entry(c, k)' => c <= jobs'[i].at
                      /\ \A c \in Bulb : Took(c, k)' =>
                           c < jobs'[i].at \/ (c = jobs'[i].at /\ Naps(i)')
                      /\ Naps(k)' => \/ jobs'[k].at < jobs'[i].at
                                     \/ jobs'[k].at = jobs'[i].at /\ Naps(i)'
    BY DEF Ahead
  <2>1. i \in J /\ k \in J
    BY <1>10
  <2>2. Alive(i)
    BY <1>4, <1>10, <2>1 DEF Alive
  <2>3. /\ \A c \in Bulb : Entry(c, k) => c <= jobs[i].at
        /\ \A c \in Bulb : Took(c, k) => c < jobs[i].at \/ (c = jobs[i].at /\ Naps(i))
        /\ Naps(k) => \/ jobs[k].at < jobs[i].at
                      \/ jobs[k].at = jobs[i].at /\ Naps(i)
        /\ jobs[i].at \in Nat /\ jobs[k].at \in Nat
    BY <1>1, <2>1, <2>2, QueueFacts DEF OrderInv, Ahead, Bulb
  <2>4. CASE i = j
    <3>1. k # j /\ jobs'[i].at = b + 1 /\ jobs[i].at = b /\ jobs'[k].at = jobs[k].at
      BY <1>1, <1>4, <1>10, <2>1, <2>4
    <3>2. \A c \in Bulb : Entry(c, k)' => c <= jobs'[i].at
      BY <1>4, <1>8, <2>3, <3>1 DEF Bulb
    <3>3. \A c \in Bulb : Took(c, k)' => c < jobs'[i].at
      BY <1>4, <1>9, <2>3, <3>1 DEF Bulb
    <3>4. Naps(k)' => jobs'[k].at < jobs'[i].at
      BY <1>4, <1>10, <2>1, <2>3, <3>1
    <3>5. QED
      BY <3>2, <3>3, <3>4
  <2>5. CASE i # j
    <3>1. jobs'[i].at = jobs[i].at /\ (Naps(i)' <=> Naps(i))
      BY <1>10, <2>1, <2>5
    <3>2. ASSUME NEW c \in Bulb, Entry(c, k)' PROVE c <= jobs'[i].at
      <4>1. CASE Entry(c, k)
        BY <2>3, <3>1, <4>1
      <4>2. CASE c = b + 1 /\ k = j
        <5>1. b < jobs[i].at
          BY <1>13, <2>1, <2>2, <4>2
        <5>2. QED
          BY <1>4, <2>3, <3>1, <4>2, <5>1
      <4>3. QED
        BY <1>8, <3>2, <4>1, <4>2
    <3>3. \A c \in Bulb : Took(c, k)' =>
            c < jobs'[i].at \/ (c = jobs'[i].at /\ Naps(i)')
      BY <1>9, <2>3, <3>1
    <3>4. Naps(k)' => \/ jobs'[k].at < jobs'[i].at
                      \/ jobs'[k].at = jobs'[i].at /\ Naps(i)'
      BY <1>10, <2>1, <2>3, <3>1
    <3>5. QED
      BY <3>2, <3>3, <3>4
  <2>6. QED
    BY <2>4, <2>5
<1>18. LastFiredWins'
  BY <1>2 DEF OrderInv, LastFiredWins
<1>19. QED
  BY <1>14, <1>15, <1>16, <1>17, <1>18 DEF OrderInv

\* Callers that exit, all at once where a bulb restarts, let the others be.
LEMMA OrderExits ==
  ASSUME OrderInv, NEW X, X \subseteq {j \in DOMAIN jobs : Calls(j)},
         jobs' = [j \in DOMAIN jobs |->
                    IF j \in X THEN [jobs[j] EXCEPT !.state = "dead"] ELSE jobs[j]],
         UNCHANGED <<naps, applied>>,
         mail' \in [Bulb -> Seq(DOMAIN jobs)],
         \A c \in Bulb : \/ mail'[c] = mail[c]
                         \/ mail'[c] = <<>> /\ \A j \in DOMAIN jobs : Calls(j) /\ jobs[j].at = c => j \in X
  PROVE  OrderInv'
<1>1. PICK J : J = DOMAIN jobs
  OBVIOUS
<1>2. /\ jobs' \in Seq(Job) /\ DOMAIN jobs' = J
      /\ \A i \in J : jobs'[i].at = jobs[i].at
      /\ \A i \in J : (Naps(i)' <=> Naps(i))
      /\ \A i \in J : (Calls(i)' <=> Calls(i) /\ i \notin X)
  <2>1. jobs \in Seq(Job) /\ \A i \in J : jobs[i] \in Job
    BY <1>1, QueueFacts DEF OrderInv, QueueTypes
  <2>2. ASSUME NEW i \in J
        PROVE  /\ jobs'[i] \in Job /\ jobs'[i].at = jobs[i].at
               /\ i \in X => jobs[i].state = "calls" /\ jobs'[i].state = "dead"
               /\ i \notin X => jobs'[i] = jobs[i]
    BY <1>1, <2>1 DEF Job, Calls
  <2>3. DOMAIN jobs' = J /\ J = 1 .. Len(jobs) /\ Len(jobs) \in Nat
    BY <1>1, <2>1
  <2>4. jobs' = [i \in 1 .. Len(jobs) |-> jobs'[i]]
    BY <1>1, <2>3
  <2>5. jobs' \in [1 .. Len(jobs) -> Job]
    BY <2>2, <2>3, <2>4
  <2>6. jobs' \in Seq(Job)
    BY <2>3, <2>5, SeqDef
  <2>7. QED
    BY <2>2, <2>3, <2>6 DEF Calls, Naps
<1>3. \A c \in Bulb : \A j : Entry(c, j)' => Entry(c, j)
  BY DEF Entry, Holds
<1>4. \A c, j : Took(c, j)' <=> Took(c, j)
  BY DEF Took
<1>5. QueueTypes'
  BY <1>1, <1>2 DEF QueueTypes, OrderInv
<1>6. Placed'
  <2>1. \A c \in Bulb, j \in DOMAIN jobs' : Entry(c, j)' => jobs'[j].at = c /\ ~Naps(j)'
    BY <1>1, <1>2, <1>3 DEF OrderInv, Placed
  <2>2. ASSUME NEW j \in DOMAIN jobs', Calls(j)'
        PROVE  \E c \in Bulb : c = jobs'[j].at /\ Entry(c, j)'
    <3>1. j \in J /\ Calls(j) /\ j \notin X /\ jobs[j].at \in Bulb
      BY <1>1, <1>2, <2>2, QueueFacts
    <3>2. Entry(jobs[j].at, j) /\ mail'[jobs[j].at] = mail[jobs[j].at]
      BY <1>1, <3>1 DEF OrderInv, Placed
    <3>3. QED
      BY <1>2, <3>1, <3>2 DEF Entry
  <2>3. (\A m \in DOMAIN naps : Naps(naps[m]))'
    <3>1. ASSUME NEW m \in DOMAIN naps PROVE jobs'[naps[m]].state = "naps"
      <4>1. PICK x : x = naps[m]
        OBVIOUS
      <4>2. x \in J /\ Naps(x)
        BY <1>1, <4>1, QueueFacts DEF OrderInv, Placed, Naps
      <4>3. Naps(x)'
        BY <1>2, <4>2
      <4>4. QED
        BY <4>1, <4>3 DEF Naps
    <3>2. QED
      BY <3>1 DEF Naps
  <2>4. \A j \in DOMAIN jobs' : Naps(j)' => jobs'[j].at < NBulbs /\ Holds(naps', j)
    BY <1>1, <1>2 DEF OrderInv, Placed
  <2>5. \A c \in Bulb, j \in DOMAIN jobs' : Took(c, j)' => c <= jobs'[j].at
    BY <1>1, <1>2, <1>4 DEF OrderInv, Placed
  <2>6. QED
    BY <2>1, <2>2, <2>3, <2>4, <2>5 DEF Placed
<1>7. Sorted'
  <2>1. \A c \in Bulb : Increasing(mail'[c])
    BY DEF OrderInv, Sorted, Increasing
  <2>2. \A k, m \in DOMAIN naps' :
          k < m /\ jobs'[naps'[k]].at = jobs'[naps'[m]].at => naps'[k] < naps'[m]
    BY <1>1, <1>2, QueueFacts DEF OrderInv, Sorted
  <2>3. \A c \in Bulb, i, j \in DOMAIN jobs' : Entry(c, i)' /\ Took(c, j)' => j < i
    BY <1>1, <1>2, <1>3, <1>4 DEF OrderInv, Sorted
  <2>4. QED
    BY <2>1, <2>2, <2>3 DEF Sorted
<1>8. Ahead'
  <2> SUFFICES ASSUME NEW i \in DOMAIN jobs', NEW k \in DOMAIN jobs', i < k, Alive(i)'
               PROVE  /\ \A c \in Bulb : Entry(c, k)' => c <= jobs'[i].at
                      /\ \A c \in Bulb : Took(c, k)' =>
                           c < jobs'[i].at \/ (c = jobs'[i].at /\ Naps(i)')
                      /\ Naps(k)' => \/ jobs'[k].at < jobs'[i].at
                                     \/ jobs'[k].at = jobs'[i].at /\ Naps(i)'
    BY DEF Ahead
  <2>1. i \in J /\ k \in J /\ Alive(i)
    BY <1>2 DEF Alive
  <2>2. /\ \A c \in Bulb : Entry(c, k) => c <= jobs[i].at
        /\ \A c \in Bulb : Took(c, k) => c < jobs[i].at \/ (c = jobs[i].at /\ Naps(i))
        /\ Naps(k) => \/ jobs[k].at < jobs[i].at
                      \/ jobs[k].at = jobs[i].at /\ Naps(i)
    BY <1>1, <2>1 DEF OrderInv, Ahead
  <2>3. QED
    BY <1>2, <1>3, <1>4, <2>1, <2>2
<1>9. LastFiredWins'
  BY DEF OrderInv, LastFiredWins
<1>10. QED
  BY <1>5, <1>6, <1>7, <1>8, <1>9 DEF OrderInv

LEMMA OrderNext == OrderInv /\ [Next]_vars => OrderInv'
<1> SUFFICES ASSUME OrderInv, [Next]_vars PROVE OrderInv'
  OBVIOUS
<1>1. ASSUME UNCHANGED actions PROVE OrderInv'
  BY <1>1, OrderSame DEF actions
<1>2. CASE TimePasses \/ SetClock \/ SensorPoll \/ SensorFails \/ TimerTicks \/ RulesRestart
  BY <1>1, <1>2 DEF TimePasses, SetClock, SensorPoll, SensorFails, Poll, TimerTicks, RulesRestart
<1>3. CASE \E p \in {"evening_comfort", "night_shutoff"} : SetPolicy(p)
  BY <1>1, <1>3 DEF SetPolicy
<1>4. CASE HandleBox
  <2>1. UNCHANGED <<naps, applied>>
    BY <1>4 DEF HandleBox
  <2>2. ASSUME NEW t, NEW l, Evaluate(t, l) PROVE OrderInv'
    <3>1. CASE UNCHANGED <<jobs, mail>>
      BY <2>1, <3>1, OrderSame
    <3>2. CASE ~UNCHANGED <<jobs, mail>>
      <4>1. PICK r \in Wanted(t, l) :
              /\ jobs' = Append(jobs, [command |-> Command[r], at |-> 1, state |-> "calls"])
              /\ mail' = [mail EXCEPT ![1] = Append(@, Len(jobs) + 1)]
        BY <2>2, <3>2 DEF Evaluate
      <4>2. Command[r] \in {"on", "off"}
        BY DEF Wanted, Command, Rule
      <4>3. Enters(1, Len(jobs) + 1)
        BY <4>1 DEF Enters
      <4>4. PICK c, n : c = Command[r] /\ n = Len(jobs) + 1
        OBVIOUS
      <4>5. QED
        BY <2>1, <4>1, <4>2, <4>3, <4>4, OrderFires
    <3>3. QED
      BY <3>1, <3>2
  <2>3. QED
    BY <1>4, <2>2 DEF HandleBox
<1>5. CASE NapEnds
  BY <1>5, OrderWakes
<1>6. ASSUME NEW b \in Bulb, BulbServes(b) PROVE OrderInv'
  BY <1>6, OrderServes
<1>7. ASSUME NEW b \in Bulb, BulbCrash(b) PROVE OrderInv'
  <2>1. PICK X : X = {j \in DOMAIN jobs : Calls(j) /\ jobs[j].at = b}
    OBVIOUS
  <2>2. jobs' = [j \in DOMAIN jobs |->
                   IF j \in X THEN [jobs[j] EXCEPT !.state = "dead"] ELSE jobs[j]]
    BY <1>7, <2>1 DEF BulbCrash
  <2>3. mail' \in [Bulb -> Seq(DOMAIN jobs)]
    BY <1>7 DEF BulbCrash, OrderInv, QueueTypes
  <2>4. \A c \in Bulb : \/ mail'[c] = mail[c]
                        \/ mail'[c] = <<>> /\ \A j \in DOMAIN jobs : Calls(j) /\ jobs[j].at = c => j \in X
    BY <1>7, <2>1 DEF BulbCrash, OrderInv, QueueTypes
  <2>5. X \subseteq {j \in DOMAIN jobs : Calls(j)} /\ UNCHANGED <<naps, applied>>
    BY <1>7, <2>1 DEF BulbCrash
  <2>6. QED
    BY <2>2, <2>3, <2>4, <2>5, OrderExits
<1>8. ASSUME NEW j \in DOMAIN jobs, ActionTimesOut(j) PROVE OrderInv'
  <2>1. jobs' = [i \in DOMAIN jobs |->
                   IF i \in {j} THEN [jobs[i] EXCEPT !.state = "dead"] ELSE jobs[i]]
    BY <1>8 DEF ActionTimesOut
  <2>2. /\ {j} \subseteq {i \in DOMAIN jobs : Calls(i)}
        /\ UNCHANGED <<naps, applied>> /\ mail' = mail
    BY <1>8 DEF ActionTimesOut
  <2>3. mail' \in [Bulb -> Seq(DOMAIN jobs)]
    BY <2>2 DEF OrderInv, QueueTypes
  <2>4. PICK X : X = {j}
    OBVIOUS
  <2>5. QED
    BY <2>1, <2>2, <2>3, <2>4, OrderExits
<1>9. CASE UNCHANGED vars
  BY <1>1, <1>9 DEF vars
<1>10. QED
  BY <1>2, <1>3, <1>4, <1>5, <1>6, <1>7, <1>8, <1>9 DEF Next

\* However many actions overlap on however many bulbs, the last that fired has the last
\* word at every bulb it reaches (set_bulbs_sequential of myhome_lights.erl).
THEOREM LastWordTheorem == Spec => []LastFiredWins
<1>1. OrderInv => LastFiredWins
  BY DEF OrderInv
<1>2. QED
  BY OrderInit, OrderNext, <1>1, PTL DEF Spec

(***************************************************************************)
(* Discovery: the numbers of the bulbs, for any limits and any failures    *)
(***************************************************************************)

\* What is assumed of the limits
LEMMA Limits ==
  /\ NoAddress \notin Address
  /\ Loaded \in Nat \ {0} /\ Numbered \in Nat \ {0} /\ MaxFound \in Nat \ {0}
  /\ Loaded <= Numbered
BY DiscoveryAssumption

\* What todo holds in each stage, and that its numbers cannot run out
Stages ==
  /\ phase = "pairing" => todo \in Seq(Address) /\ next + Len(todo) <= Numbered + MaxFound + 1
  /\ phase = "saving" => todo \in Seq(Registration)

Typed == TypeOK /\ Stages

LEMMA FoundFacts ==
  ASSUME NEW new \in Found
  PROVE  /\ new \in Seq(Address) /\ Len(new) <= MaxFound
         /\ \A i, j \in DOMAIN new : new[i] = new[j] => i = j
<1>1. PICK m \in 0 .. MaxFound : new \in [1 .. m -> Address]
  BY DEF Found, SeqOf
<1>2. new \in Seq(Address) /\ Len(new) = m
  BY <1>1
<1>3. IsInjective(new)
  BY DEF Found
<1>4. QED
  BY <1>1, <1>2, <1>3 DEF IsInjective

\* The entries of a sequence
LEMMA ElementOf ==
  ASSUME NEW S, NEW s \in Seq(S)
  PROVE  /\ ToSet(s) = {s[i] : i \in 1 .. Len(s)}
         /\ ToSet(s) \subseteq S
BY DEF ToSet

\* start_bulb_children leaves every child, and starts one for each number that has none.
LEMMA StartFacts ==
  ASSUME NEW c \in [Number -> Address \cup {NoAddress}], NEW es \in SUBSET Registration
  PROVE  /\ Start(c, es) \in [Number -> Address \cup {NoAddress}]
         /\ \A n \in Number :
              \/ Start(c, es)[n] = c[n] /\ (c[n] # NoAddress \/ \A e \in es : e[1] # n)
              \/ c[n] = NoAddress /\ <<n, Start(c, es)[n]>> \in es
<1> DEFINE s == Start(c, es)
<1>1. ASSUME NEW n \in Number
      PROVE  /\ s[n] \in Address \cup {NoAddress}
             /\ \/ s[n] = c[n] /\ (c[n] # NoAddress \/ \A e \in es : e[1] # n)
                \/ c[n] = NoAddress /\ <<n, s[n]>> \in es
  <2>1. CASE c[n] = NoAddress /\ \E e \in es : e[1] = n
    <3> DEFINE e == CHOOSE e \in es : e[1] = n
    <3>1. e \in es /\ e[1] = n
      BY <2>1
    <3>2. e = <<n, e[2]>> /\ e[2] \in Address
      BY <3>1 DEF Registration
    <3>3. s[n] = e[2]
      BY <2>1 DEF Start
    <3> HIDE DEF e
    <3>4. QED
      BY <2>1, <3>1, <3>2, <3>3
  <2>2. CASE ~(c[n] = NoAddress /\ \E e \in es : e[1] = n)
    BY <2>2 DEF Start
  <2>3. QED
    BY <2>1, <2>2
<1>2. s = [n \in Number |-> s[n]]
  BY DEF Start
<1> HIDE DEF s
<1>3. s \in [Number -> Address \cup {NoAddress}]
  BY <1>1, <1>2
<1>4. QED
  BY <1>1, <1>3 DEF s

LEMMA TypedInit == DiscoveryInit => Typed
<1> SUFFICES ASSUME DiscoveryInit PROVE Typed
  OBVIOUS
<1>1. nvs \in [Number -> Address \cup {NoAddress}] /\ child \in [Number -> Address \cup {NoAddress}]
  BY DEF DiscoveryInit, Nothing
<1>2. <<>> \in Seq(Registration) /\ <<>> \in Seq(Address \cup Registration)
  OBVIOUS
<1>3. down \subseteq Used(child) /\ config \subseteq Registration
  BY DEF DiscoveryInit
<1>4. 1 \in 1 .. Numbered + MaxFound + 1
  BY Limits
<1>5. QED
  BY <1>1, <1>2, <1>3, <1>4 DEF DiscoveryInit, Typed, TypeOK, Stages

-----------------------------------------------------------------------------
(* What each step does to the types                                         *)

LEMMA InitBulbsTyped == ASSUME Typed, InitBulbs PROVE Typed'
<1> DEFINE es == LoadBulbs
<1>1. es \subseteq Registration
  BY Limits DEF LoadBulbs, Registration, Typed, TypeOK, Number
<1> HIDE DEF es
<1>2. child' = Start(child, es) /\ config' = es
  BY DEF InitBulbs, es
<1>3. child' \in [Number -> Address \cup {NoAddress}]
  BY <1>1, <1>2, StartFacts DEF Typed, TypeOK
<1>4. down' \subseteq Used(child)'
  <2>1. \A n \in Number : child[n] # NoAddress => child'[n] = child[n]
    BY <1>1, <1>2, StartFacts DEF Typed, TypeOK
  <2>2. QED
    BY <2>1 DEF InitBulbs, Typed, TypeOK, Used
<1>5. holed' \in BOOLEAN
  BY DEF InitBulbs, Watch
<1>6. QED
  BY <1>1, <1>2, <1>3, <1>4, <1>5 DEF InitBulbs, Typed, TypeOK, Stages, bound

LEMMA RunDiscoveryTyped ==
  ASSUME Typed, NEW new \in Found, RunDiscovery(new)
  PROVE  Typed'
<1>1. new \in Seq(Address) /\ Len(new) <= MaxFound
  BY FoundFacts
<1>2. new \in Seq(Address \cup Registration)
  BY <1>1
<1>3. next' \in 1 .. Numbered + 1 /\ next' + Len(new) <= Numbered + MaxFound + 1
  BY <1>1, Limits DEF RunDiscovery
<1>4. holed' \in BOOLEAN /\ paired' \in Seq(Registration) /\ runs' \in Nat
  BY DEF RunDiscovery, Typed, TypeOK
<1>5. next' \in 1 .. Numbered + MaxFound + 1
  BY <1>3, Limits
<1>6. UNCHANGED <<nvs, child, down, config, failed, removals, failures, restarts>>
  BY DEF RunDiscovery, registry
<1>7. todo' = new /\ phase' = "pairing"
  BY DEF RunDiscovery
<1>8. QED
  BY <1>1, <1>2, <1>3, <1>4, <1>5, <1>6, <1>7 DEF Typed, TypeOK, Stages, Used

LEMMA PairTyped == ASSUME Typed, Pair PROVE Typed'
<1>1. todo \in Seq(Address) /\ todo # <<>> /\ next + Len(todo) <= Numbered + MaxFound + 1
  BY DEF Pair, Typed, Stages
<1>2. /\ Head(todo) \in Address /\ Tail(todo) \in Seq(Address)
      /\ Len(Tail(todo)) = Len(todo) - 1 /\ Len(todo) >= 1 /\ Len(todo) \in Nat
  BY <1>1
<1>3. next \in Nat /\ next \in Number /\ next + 1 \in 1 .. Numbered + MaxFound + 1
  BY <1>1, <1>2, Limits DEF Typed, TypeOK, Number
<1>4. next' + Len(todo') <= Numbered + MaxFound + 1
  BY <1>1, <1>2, <1>3 DEF Pair
<1>5. todo' \in Seq(Address \cup Registration)
  BY <1>2 DEF Pair
<1>6. paired' \in Seq(Registration)
  <2>1. paired \in Seq(Registration) /\ <<next, Head(todo)>> \in Registration
    BY <1>2, <1>3 DEF Typed, TypeOK, Registration
  <2>2. Append(paired, <<next, Head(todo)>>) \in Seq(Registration)
    BY <2>1
  <2>3. paired' \in {paired, Append(paired, <<next, Head(todo)>>)}
    BY DEF Pair
  <2>4. QED
    BY <2>1, <2>2, <2>3
<1>7. failures' \in Nat
  BY DEF Pair, Fails, Typed, TypeOK
<1>8. UNCHANGED <<nvs, child, down, config, phase, holed, failed, runs, removals, restarts>>
  BY DEF Pair, registry
<1>9. phase = "pairing" /\ todo' = Tail(todo) /\ next' = next + 1
  BY DEF Pair
<1>10. QED
  BY <1>2, <1>3, <1>4, <1>5, <1>6, <1>7, <1>8, <1>9 DEF Typed, TypeOK, Stages, Used

LEMMA PairingEndsTyped == ASSUME Typed, PairingEnds PROVE Typed'
<1>1. paired \in Seq(Registration) /\ paired \in Seq(Address \cup Registration)
  BY DEF Typed, TypeOK
<1>2. QED
  BY <1>1 DEF PairingEnds, Typed, TypeOK, Stages, registry, bound, Used

LEMMA SaveTyped == ASSUME Typed, Save PROVE Typed'
<1>1. todo \in Seq(Registration) /\ todo # <<>>
  BY DEF Save, Typed, Stages
<1>2. Head(todo) \in Registration /\ Tail(todo) \in Seq(Registration) /\ Tail(todo) \in Seq(Address \cup Registration)
  BY <1>1
<1>3. nvs' \in [Number -> Address \cup {NoAddress}]
  BY <1>2 DEF Save, Typed, TypeOK, Registration
<1>4. failures' \in Nat
  BY DEF Save, Fails, Typed, TypeOK
<1>5. failed' \in BOOLEAN /\ holed' \in BOOLEAN
  BY DEF Save, Watch, Typed, TypeOK
<1>6. UNCHANGED <<child, down, config, phase, next, paired, runs, removals, restarts>>
  BY DEF Save
<1>7. todo' = Tail(todo) /\ phase = "saving"
  BY DEF Save
<1>8. QED
  BY <1>2, <1>3, <1>4, <1>5, <1>6, <1>7 DEF Typed, TypeOK, Stages, Used

LEMMA RegisterTyped == ASSUME Typed, Register PROVE Typed'
<1> DEFINE es == ToSet(paired)
<1>1. es \subseteq Registration
  BY ElementOf DEF Typed, TypeOK
<1>2. child' = Start(child, es) /\ config' = config \cup es
  BY DEF Register
<1> HIDE DEF es
<1>3. child' \in [Number -> Address \cup {NoAddress}]
  BY <1>1, <1>2, StartFacts DEF Typed, TypeOK
<1>4. down' \subseteq Used(child)'
  <2>1. \A n \in Number : child[n] # NoAddress => child'[n] = child[n]
    BY <1>1, <1>2, StartFacts DEF Typed, TypeOK
  <2>2. QED
    BY <2>1 DEF Register, Typed, TypeOK, Used
<1>5. holed' \in BOOLEAN /\ paired' \in Seq(Registration) /\ config' \subseteq Registration
  BY <1>1, <1>2 DEF Register, Watch, Typed, TypeOK
<1>6. QED
  BY <1>3, <1>4, <1>5 DEF Register, Typed, TypeOK, Stages, bound

LEMMA RemoveBulbTyped ==
  ASSUME Typed, NEW n \in Number, RemoveBulb(n)
  PROVE  Typed'
<1>1. /\ nvs' \in [Number -> Address \cup {NoAddress}] /\ child' \in [Number -> Address \cup {NoAddress}]
      /\ failures' \in Nat
  BY DEF RemoveBulb, Erase, Terminated, Fails, Typed, TypeOK
<1>2. failed' \in BOOLEAN
  BY DEF RemoveBulb, Erase, Typed, TypeOK
<1>3. down' \subseteq Used(child)'
  BY DEF RemoveBulb, Terminated, Typed, TypeOK, Used
<1>4. config' \subseteq Registration /\ holed' \in BOOLEAN /\ removals' \in Nat
  BY DEF RemoveBulb, Watch, Typed, TypeOK
<1>5. UNCHANGED <<phase, todo, next, paired, runs, restarts>>
  BY DEF RemoveBulb, job
<1>6. QED
  BY <1>1, <1>2, <1>3, <1>4, <1>5 DEF Typed, TypeOK, Stages

LEMMA BulbTyped ==
  ASSUME Typed, NEW n \in Number, ChildCrash(n) \/ ChildBack(n)
  PROVE  Typed'
<1>1. down' \subseteq Used(child) /\ restarts' \in Nat
  BY DEF ChildCrash, ChildBack, Restarts, bound, Typed, TypeOK, Used
<1>2. UNCHANGED <<nvs, child, config, phase, todo, next, paired, holed, failed, runs, removals, failures>>
  BY DEF ChildCrash, ChildBack, job, bound
<1>3. QED
  BY <1>1, <1>2 DEF Typed, TypeOK, Stages, Used

LEMMA RestartTyped ==
  ASSUME Typed, DiscoveryRestart \/ SystemRestart
  PROVE  Typed'
<1>1. child' \in [Number -> Address \cup {NoAddress}] /\ down' \subseteq Used(child)'
  BY DEF DiscoveryRestart, SystemRestart, Nothing, Typed, TypeOK, Used
<1>2. /\ config' = {} /\ phase' = "boot" /\ todo' = <<>> /\ next' = 1 /\ paired' = <<>>
      /\ UNCHANGED <<nvs, holed, failed, runs, removals, failures>> /\ restarts' \in Nat
  BY DEF DiscoveryRestart, SystemRestart, Restarts, Typed, TypeOK
<1>3. 1 \in 1 .. Numbered + MaxFound + 1
  BY Limits
<1>4. QED
  BY <1>1, <1>2, <1>3 DEF Typed, TypeOK, Stages

LEMMA TypedNext == ASSUME Typed, [DiscoveryNext]_discovery PROVE Typed'
<1>1. CASE InitBulbs
  BY <1>1, InitBulbsTyped
<1>2. CASE \E new \in Found : RunDiscovery(new)
  BY <1>2, RunDiscoveryTyped
<1>3. CASE Pair
  BY <1>3, PairTyped
<1>4. CASE PairingEnds
  BY <1>4, PairingEndsTyped
<1>5. CASE Save
  BY <1>5, SaveTyped
<1>6. CASE Register
  BY <1>6, RegisterTyped
<1>7. CASE \E n \in Number : RemoveBulb(n)
  BY <1>7, RemoveBulbTyped
<1>8. CASE \E n \in Number : ChildCrash(n) \/ ChildBack(n)
  BY <1>8, BulbTyped
<1>9. CASE DiscoveryRestart \/ SystemRestart
  BY <1>9, RestartTyped
<1>10. CASE UNCHANGED discovery
  BY <1>10 DEF discovery, registry, job, bound, Typed, TypeOK, Stages, Used
<1>11. QED
  BY <1>1, <1>2, <1>3, <1>4, <1>5, <1>6, <1>7, <1>8, <1>9, <1>10 DEF DiscoveryNext

-----------------------------------------------------------------------------
(* The books                                                                *)

\* The numbers in use are 1 .. k in NVS and among the processes, no bulb has two, and
\* what runs is in NVS.  The list is what runs, but for the time before it is loaded;
\* NVS is what runs but for what was saved and is not started yet.
Books ==
  /\ ~Hole(nvs) /\ ~Hole(child) /\ ~Alike(nvs)
  /\ \A n \in Used(child) : nvs[n] = child[n]
  /\ config = IF phase = "boot" THEN {} ELSE Entries(child)
  /\ phase \in {"idle", "pairing"} => nvs = child

\* What was paired has numbers and bulbs of its own.
Fresh ==
  phase \in {"pairing", "saving"} =>
    /\ \A i \in DOMAIN paired : child[paired[i][1]] = NoAddress /\ paired[i][2] \notin Known
    /\ \A i, j \in DOMAIN paired :
         i # j => paired[i][1] # paired[j][1] /\ paired[i][2] # paired[j][2]

\* The numbers from the next one on are free, and the bulbs to come are new.
Pairing ==
  phase = "pairing" =>
    /\ \A n \in Number : n >= next => child[n] = NoAddress
    /\ \A i \in DOMAIN paired :
         paired[i][1] < next /\ \A j \in DOMAIN todo : paired[i][2] # todo[j]
    /\ \A j \in DOMAIN todo : todo[j] \notin Known
    /\ \A i, j \in DOMAIN todo : todo[i] = todo[j] => i = j

\* The entries saved, and those still to save, are the two parts of Paired.
Saved == Len(paired) - Len(todo)

Saving ==
  phase = "saving" =>
    /\ Saved \in Nat
    /\ \A j \in DOMAIN todo : todo[j] = paired[Saved + j] /\ nvs[todo[j][1]] = NoAddress
    /\ \A i \in 1 .. Saved : nvs[paired[i][1]] = paired[i][2]
    /\ \A n \in Number :
         nvs[n] # child[n] => \E i \in DOMAIN paired : paired[i][1] = n /\ paired[i][2] = nvs[n]

Kept == Books /\ Fresh /\ Pairing /\ Saving

LEMMA EntriesFacts ==
  ASSUME NEW f
  PROVE  /\ \A e \in Entries(f) : e[1] \in Number /\ f[e[1]] = e[2] /\ f[e[1]] # NoAddress
                                    /\ e = <<e[1], e[2]>>
         /\ \A n \in Number : f[n] # NoAddress => <<n, f[n]>> \in Entries(f)
         /\ \A n, b : <<n, b>> \in Entries(f) => n \in Number /\ f[n] = b /\ b # NoAddress
BY DEF Entries, Used

\* The bulbs of the list are those that run.
LEMMA KnownFacts ==
  ASSUME config = Entries(child)
  PROVE  /\ \A n \in Number : child[n] # NoAddress => child[n] \in Known
         /\ \A b \in Known : \E n \in Number : child[n] = b /\ child[n] # NoAddress
<1>1. ASSUME NEW n \in Number, child[n] # NoAddress PROVE child[n] \in Known
  <2>1. <<n, child[n]>> \in config
    BY <1>1, EntriesFacts
  <2>2. <<n, child[n]>>[2] = child[n]
    OBVIOUS
  <2>3. QED
    BY <2>1, <2>2 DEF Known
<1>2. ASSUME NEW b \in Known PROVE \E n \in Number : child[n] = b /\ child[n] # NoAddress
  <2>1. PICK e \in config : b = e[2]
    BY DEF Known
  <2>2. e[1] \in Number /\ child[e[1]] = e[2] /\ child[e[1]] # NoAddress
    BY <2>1, EntriesFacts
  <2>3. QED
    BY <2>1, <2>2
<1>3. QED
  BY <1>1, <1>2

LEMMA KeptInit == DiscoveryInit => Kept
<1> SUFFICES ASSUME DiscoveryInit PROVE Kept
  OBVIOUS
<1>1. \A n \in Number : nvs[n] = NoAddress /\ child[n] = NoAddress
  BY DEF DiscoveryInit, Nothing
<1>2. Used(nvs) = 1 .. 0 /\ Used(child) = 1 .. 0
  BY <1>1 DEF Used
<1>3. 0 \in 0 .. Loaded
  BY Limits
<1>4. ~Hole(nvs) /\ ~Hole(child)
  BY <1>2, <1>3 DEF Hole
<1>5. ~Alike(nvs) /\ \A n \in Used(child) : nvs[n] = child[n]
  BY <1>2 DEF Alike
<1>6. QED
  BY <1>4, <1>5 DEF DiscoveryInit, Kept, Books, Fresh, Pairing, Saving

\* What is loaded is all there is.
LEMMA AllLoaded ==
  ASSUME Typed, ~Hole(nvs)
  PROVE  LoadBulbs = Entries(nvs)
<1>1. PICK k \in 0 .. Loaded : Used(nvs) = 1 .. k
  BY DEF Hole
<1>2. \A n \in Number : nvs[n] # NoAddress <=> n \in 1 .. k
  BY <1>1 DEF Used
<1>3. \A n \in 1 .. Loaded : n \in Number
  BY Limits DEF Number
<1>4. {m \in 1 .. Loaded : \A i \in 1 .. m : nvs[i] # NoAddress} = 1 .. k
  <2>1. ASSUME NEW m \in 1 .. Loaded, \A i \in 1 .. m : nvs[i] # NoAddress PROVE m \in 1 .. k
    <3>1. nvs[m] # NoAddress
      BY <2>1, Limits
    <3>2. QED
      BY <3>1, <1>2, <1>3
  <2>2. ASSUME NEW m \in 1 .. k
        PROVE  m \in 1 .. Loaded /\ \A i \in 1 .. m : nvs[i] # NoAddress
    <3>1. m \in 1 .. Loaded
      BY Limits
    <3>2. \A i \in 1 .. m : i \in 1 .. k /\ i \in 1 .. Loaded
      BY <3>1, Limits
    <3>3. QED
      BY <3>1, <3>2, <1>2, <1>3
  <2>3. QED
    BY <2>1, <2>2
<1>5. QED
  BY <1>1, <1>4 DEF LoadBulbs, Entries

\* Started with entries that hold all that NVS has, the processes are those of NVS.
LEMMA StartedAll ==
  ASSUME Typed, NEW es \in SUBSET Registration,
         \A n \in Used(child) : nvs[n] = child[n],
         \A e \in es : nvs[e[1]] = e[2],
         \A n \in Number : nvs[n] # child[n] => \E e \in es : e[1] = n
  PROVE  Start(child, es) = nvs
<1> DEFINE s == Start(child, es)
<1>1. s \in [Number -> Address \cup {NoAddress}] /\ nvs \in [Number -> Address \cup {NoAddress}]
  BY StartFacts DEF Typed, TypeOK
<1>2. ASSUME NEW n \in Number PROVE s[n] = nvs[n]
  <2>1. CASE child[n] # NoAddress
    <3>1. s[n] = child[n]
      BY <2>1, StartFacts DEF Typed, TypeOK
    <3>2. nvs[n] = child[n]
      BY <2>1 DEF Used
    <3>3. QED
      BY <3>1, <3>2
  <2>2. CASE child[n] = NoAddress /\ <<n, s[n]>> \in es
    <3>1. nvs[<<n, s[n]>>[1]] = <<n, s[n]>>[2]
      BY <2>2
    <3>2. QED
      BY <3>1
  <2>3. CASE s[n] = child[n] /\ \A e \in es : e[1] # n
    BY <2>3
  <2>4. QED
    BY <2>1, <2>2, <2>3, StartFacts DEF Typed, TypeOK
<1> HIDE DEF s
<1>3. s = nvs
  BY <1>1, <1>2
<1>4. QED
  BY <1>3 DEF s

LEMMA InitBulbsKept ==
  ASSUME Typed, Kept, InitBulbs, ~holed'
  PROVE  Kept'
<1>1. ~Hole(nvs) /\ (\A n \in Used(child) : nvs[n] = child[n]) /\ ~Alike(nvs)
  BY DEF Kept, Books
<1>2. LoadBulbs = Entries(nvs) /\ Entries(nvs) \subseteq Registration
  BY <1>1, AllLoaded DEF Entries, Registration, Used, Typed, TypeOK
<1>3. Start(child, Entries(nvs)) = nvs
  <2>1. \A e \in Entries(nvs) : nvs[e[1]] = e[2]
    BY EntriesFacts
  <2>2. ASSUME NEW n \in Number, nvs[n] # child[n]
        PROVE  \E e \in Entries(nvs) : e[1] = n
    <3>1. nvs[n] # NoAddress
      BY <1>1, <2>2 DEF Used
    <3>2. <<n, nvs[n]>> \in Entries(nvs) /\ <<n, nvs[n]>>[1] = n
      BY <3>1, EntriesFacts
    <3>3. QED
      BY <3>2
  <2>3. QED
    BY <1>1, <1>2, <2>1, <2>2, StartedAll
<1>4. nvs' = nvs /\ child' = nvs /\ config' = Entries(nvs) /\ phase' = "idle"
  BY <1>2, <1>3 DEF InitBulbs
<1>5. ~Hole(nvs)' /\ ~Hole(child)' /\ ~Alike(nvs)'
  BY <1>1, <1>4 DEF Hole, Used, Alike
<1>6. config' = Entries(child)'
  BY <1>4 DEF Entries, Used
<1>7. QED
  BY <1>4, <1>5, <1>6 DEF Kept, Books, Fresh, Pairing, Saving

\* The number that a discovery starts with, unless it is that of a crashed process, is
\* above all that are in use.
LEMMA NextIsFree ==
  ASSUME Typed, ~Hole(child), NEW m \in 1 .. Numbered + 1,
         NextBulbNumber(m), m \notin down
  PROVE  \A n \in Number : n >= m => child[n] = NoAddress
<1>1. PICK k \in 0 .. Loaded : Used(child) = 1 .. k
  BY DEF Hole
<1>2. k \in Nat /\ k <= Numbered
  BY Limits
<1>3. k < m
  <2>1. CASE m = Numbered + 1
    BY <2>1, <1>2, Limits
  <2>2. CASE ~Registered(m)
    <3>1. child[m] = NoAddress
      BY <2>2 DEF Registered
    <3>2. m \notin 1 .. k
      BY <3>1, <1>1 DEF Used
    <3>3. QED
      BY <3>2, <1>2, Limits
  <2>3. QED
    BY <2>1, <2>2 DEF NextBulbNumber
<1>4. ASSUME NEW n \in Number, n >= m PROVE child[n] = NoAddress
  <2>1. n \notin 1 .. k
    BY <1>2, <1>3, <1>4, Limits DEF Number
  <2>2. QED
    BY <2>1, <1>1 DEF Used
<1>5. QED
  BY <1>4

LEMMA RunDiscoveryKept ==
  ASSUME Typed, Kept, NEW new \in Found, RunDiscovery(new), ~holed'
  PROVE  Kept'
<1>1. /\ UNCHANGED <<nvs, child, down, config>> /\ phase = "idle" /\ phase' = "pairing"
      /\ todo' = new /\ paired' = <<>>
  BY DEF RunDiscovery, registry
<1>2. next' \in 1 .. Numbered + 1 /\ NextBulbNumber(next') /\ next' \notin down
  BY DEF RunDiscovery
<1>3. Books'
  BY <1>1 DEF Kept, Books, Hole, Used, Alike, Entries
<1>4. \A n \in Number : n >= next' => child[n] = NoAddress
  <2>1. ~Hole(child)
    BY DEF Kept, Books
  <2>2. QED
    BY <1>2, <2>1, NextIsFree
<1>5. new \in Seq(Address) /\ \A i, j \in DOMAIN new : new[i] = new[j] => i = j
  BY FoundFacts
<1>6. \A j \in DOMAIN new : new[j] \notin Known
  <2>1. ToSet(new) \cap Known = {}
    BY DEF RunDiscovery, SkipKnown
  <2>2. \A j \in DOMAIN new : new[j] \in ToSet(new)
    BY <1>5, ElementOf
  <2>3. QED
    BY <2>1, <2>2
<1>7. Known' = Known
  BY <1>1 DEF Known
<1>8. Pairing'
  BY <1>1, <1>4, <1>5, <1>6, <1>7 DEF Pairing
<1>9. QED
  BY <1>1, <1>3, <1>8 DEF Kept, Fresh, Saving

LEMMA PairKept ==
  ASSUME Typed, Kept, Pair
  PROVE  Kept'
<1> DEFINE b == Head(todo)
<1>1. /\ UNCHANGED <<nvs, child, down, config, phase>> /\ phase = "pairing"
      /\ todo' = Tail(todo) /\ next' = next + 1
  BY DEF Pair, registry
<1>2. /\ todo \in Seq(Address) /\ todo # <<>> /\ next \in Number /\ paired \in Seq(Registration)
      /\ \A n \in Number : n \in Nat
  <2>1. todo \in Seq(Address) /\ todo # <<>> /\ next + Len(todo) <= Numbered + MaxFound + 1
    BY DEF Pair, Typed, Stages
  <2>2. Len(todo) \in Nat /\ Len(todo) >= 1
    BY <2>1
  <2>3. next \in Number
    BY <2>1, <2>2, Limits DEF Typed, TypeOK, Number
  <2>4. QED
    BY <2>1, <2>3 DEF Typed, TypeOK, Number
<1>3. /\ b = todo[1] /\ Len(todo') = Len(todo) - 1 /\ Len(todo) \in Nat /\ Len(todo) >= 1
      /\ DOMAIN todo = 1 .. Len(todo) /\ DOMAIN todo' = 1 .. Len(todo')
      /\ \A j \in 1 .. Len(todo') : todo'[j] = todo[j + 1]
  BY <1>1, <1>2
<1>4. Books'
  BY <1>1 DEF Kept, Books, Hole, Used, Alike, Entries
<1>5. Known' = Known
  BY <1>1 DEF Known
<1>6. /\ \A n \in Number : n >= next => child[n] = NoAddress
      /\ \A i \in DOMAIN paired :
           paired[i][1] < next /\ \A j \in DOMAIN todo : paired[i][2] # todo[j]
      /\ \A j \in DOMAIN todo : todo[j] \notin Known
      /\ \A i, j \in DOMAIN todo : todo[i] = todo[j] => i = j
  BY <1>1 DEF Kept, Pairing
<1>7. /\ \A i \in DOMAIN paired : child[paired[i][1]] = NoAddress /\ paired[i][2] \notin Known
      /\ \A i, j \in DOMAIN paired :
           i # j => paired[i][1] # paired[j][1] /\ paired[i][2] # paired[j][2]
  BY <1>1 DEF Kept, Fresh
<1>8. \A i \in DOMAIN paired : paired[i][1] \in Nat
  BY <1>2 DEF Registration
<1>9. /\ \A n \in Number : n >= next' => child[n] = NoAddress
      /\ \A j \in DOMAIN todo' : todo'[j] \notin Known /\ todo'[j] # b
      /\ \A i, j \in DOMAIN todo' : todo'[i] = todo'[j] => i = j
  <2>1. \A n \in Number : n >= next' => child[n] = NoAddress
    BY <1>1, <1>2, <1>6
  <2>2. \A j \in DOMAIN todo' : j \in 1 .. Len(todo') /\ j + 1 \in DOMAIN todo /\ j + 1 # 1 /\ 1 \in DOMAIN todo
    BY <1>3
  <2>3. \A j \in DOMAIN todo' : todo'[j] \notin Known /\ todo'[j] # b
    BY <1>3, <1>6, <2>2
  <2>4. ASSUME NEW i \in DOMAIN todo', NEW j \in DOMAIN todo', todo'[i] = todo'[j] PROVE i = j
    <3>1. todo[i + 1] = todo[j + 1] /\ i + 1 \in DOMAIN todo /\ j + 1 \in DOMAIN todo
      BY <1>3, <2>2, <2>4
    <3>2. i + 1 = j + 1 /\ i \in Nat /\ j \in Nat
      BY <1>3, <1>6, <3>1
    <3>3. QED
      BY <3>2
  <2>5. QED
    BY <2>1, <2>3, <2>4
<1>10. CASE paired' = paired
  <2>1. Fresh'
    BY <1>1, <1>5, <1>7, <1>10 DEF Fresh
  <2>2. \A i \in DOMAIN paired : paired[i][1] < next + 1
    BY <1>2, <1>6, <1>8
  <2>3. \A i \in DOMAIN paired : \A j \in DOMAIN todo' : paired[i][2] # todo'[j]
    <3>1. \A j \in DOMAIN todo' : j + 1 \in DOMAIN todo /\ todo'[j] = todo[j + 1]
      BY <1>3
    <3>2. QED
      BY <1>6, <3>1
  <2>4. Pairing'
    BY <1>1, <1>5, <1>9, <1>10, <2>2, <2>3 DEF Pairing
  <2>5. QED
    BY <1>1, <1>4, <2>1, <2>4 DEF Kept, Saving
<1>11. CASE paired' = Append(paired, <<next, b>>)
  <2> DEFINE l == Len(paired) + 1
  <2>1. /\ DOMAIN paired' = 1 .. l /\ Len(paired) \in Nat /\ DOMAIN paired = 1 .. Len(paired)
        /\ paired'[l] = <<next, b>>
        /\ \A i \in DOMAIN paired : paired'[i] = paired[i]
    BY <1>2, <1>11
  <2>2. \A i \in DOMAIN paired' : i # l => i \in DOMAIN paired
    BY <2>1
  <2>3. paired'[l][1] = next /\ paired'[l][2] = b
    BY <2>1
  <2> HIDE DEF l
  <2>4. child[next] = NoAddress /\ b \notin Known
    BY <1>2, <1>3, <1>6
  <2>5. \A i \in DOMAIN paired : paired[i][1] # next /\ paired[i][2] # b
    BY <1>2, <1>3, <1>6, <1>8
  <2>6. \A i \in DOMAIN paired' : child[paired'[i][1]] = NoAddress /\ paired'[i][2] \notin Known
    BY <1>7, <2>1, <2>2, <2>3, <2>4
  <2>7. \A i, j \in DOMAIN paired' :
          i # j => paired'[i][1] # paired'[j][1] /\ paired'[i][2] # paired'[j][2]
    BY <1>7, <2>1, <2>2, <2>3, <2>5
  <2>8. Fresh'
    BY <1>1, <1>5, <2>6, <2>7 DEF Fresh
  <2>9. \A i \in DOMAIN paired' : paired'[i][1] < next + 1
    BY <1>2, <1>6, <1>8, <2>1, <2>2, <2>3
  <2>10. \A i \in DOMAIN paired' : \A j \in DOMAIN todo' : paired'[i][2] # todo'[j]
    <3>1. \A j \in DOMAIN todo' : j + 1 \in DOMAIN todo /\ todo'[j] = todo[j + 1]
      BY <1>3
    <3>2. QED
      BY <1>6, <1>9, <2>1, <2>2, <2>3, <3>1
  <2>11. Pairing'
    BY <1>1, <1>5, <1>9, <2>9, <2>10 DEF Pairing
  <2>12. QED
    BY <1>1, <1>4, <2>8, <2>11 DEF Kept, Saving
<1>12. QED
  BY <1>10, <1>11 DEF Pair

LEMMA PairingEndsKept ==
  ASSUME Typed, Kept, PairingEnds
  PROVE  Kept'
<1>1. /\ UNCHANGED <<nvs, child, down, config, next, paired>> /\ phase = "pairing"
      /\ phase' \in {"idle", "saving"} /\ todo' = paired
  BY DEF PairingEnds, registry
<1>2. Books'
  BY <1>1 DEF Kept, Books, Hole, Used, Alike, Entries
<1>3. Known' = Known
  BY <1>1 DEF Known
<1>4. /\ \A i \in DOMAIN paired : child[paired[i][1]] = NoAddress /\ paired[i][2] \notin Known
      /\ \A i, j \in DOMAIN paired :
           i # j => paired[i][1] # paired[j][1] /\ paired[i][2] # paired[j][2]
  BY <1>1 DEF Kept, Fresh
<1>5. Fresh'
  BY <1>1, <1>3, <1>4 DEF Fresh
<1>6. paired \in Seq(Registration) /\ nvs = child
  BY <1>1 DEF Kept, Books, Typed, TypeOK
<1>7. Saved' = 0
  BY <1>1, <1>6 DEF Saved
<1>8. \A j \in DOMAIN paired : paired[0 + j] = paired[j]
  BY <1>6
<1>9. Saving'
  BY <1>1, <1>4, <1>6, <1>7, <1>8 DEF Saving
<1>10. QED
  BY <1>1, <1>2, <1>5, <1>9 DEF Kept, Pairing

LEMMA SaveKept ==
  ASSUME Typed, Kept, Save, ~holed', ~failed'
  PROVE  Kept'
<1> DEFINE m == Head(todo)[1]
           b == Head(todo)[2]
           s == Saved
<1>1. /\ UNCHANGED <<child, config, phase, paired>> /\ phase = "saving" /\ todo # <<>>
      /\ todo' = Tail(todo) /\ nvs' = [nvs EXCEPT ![m] = b]
      /\ ~Hole(nvs') /\ ~Hole(child')
  BY DEF Save, Watch
<1>2. /\ todo \in Seq(Registration) /\ paired \in Seq(Registration)
      /\ nvs \in [Number -> Address \cup {NoAddress}] /\ child \in [Number -> Address \cup {NoAddress}]
  BY <1>1 DEF Typed, TypeOK, Stages
<1>3. /\ Len(todo') = Len(todo) - 1 /\ Len(todo) \in Nat /\ Len(todo) >= 1 /\ Len(paired) \in Nat
      /\ DOMAIN todo = 1 .. Len(todo) /\ DOMAIN todo' = 1 .. Len(todo')
      /\ DOMAIN paired = 1 .. Len(paired)
      /\ \A j \in 1 .. Len(todo') : todo'[j] = todo[j + 1]
      /\ Head(todo) = todo[1]
  BY <1>1, <1>2
<1>4. /\ s \in Nat
      /\ \A j \in DOMAIN todo : todo[j] = paired[s + j] /\ nvs[todo[j][1]] = NoAddress
      /\ \A i \in 1 .. s : nvs[paired[i][1]] = paired[i][2]
      /\ \A n \in Number :
           nvs[n] # child[n] => \E i \in DOMAIN paired : paired[i][1] = n /\ paired[i][2] = nvs[n]
  BY <1>1 DEF Kept, Saving
<1>5. /\ \A i \in DOMAIN paired : child[paired[i][1]] = NoAddress /\ paired[i][2] \notin Known
      /\ \A i, j \in DOMAIN paired :
           i # j => paired[i][1] # paired[j][1] /\ paired[i][2] # paired[j][2]
  BY <1>1 DEF Kept, Fresh
<1>6. s = Len(paired) - Len(todo) /\ Saved' = s + 1 /\ s + 1 \in DOMAIN paired
  BY <1>1, <1>3, <1>4 DEF Saved
<1>7. /\ paired[s + 1] = Head(todo) /\ m = paired[s + 1][1] /\ b = paired[s + 1][2]
      /\ m \in Number /\ b \in Address
  <2>1. 1 \in DOMAIN todo
    BY <1>3
  <2>2. paired[s + 1] = Head(todo)
    BY <1>3, <1>4, <2>1
  <2>3. Head(todo) \in Registration
    BY <1>2, <1>6, <2>2
  <2>4. QED
    BY <2>2, <2>3 DEF Registration
<1>8. /\ nvs'[m] = b
      /\ \A n \in Number : n # m => nvs'[n] = nvs[n]
  BY <1>1, <1>2, <1>7
<1> HIDE DEF m, b, s
<1>9. nvs[m] = NoAddress /\ child[m] = NoAddress /\ b \notin Known /\ b # NoAddress
  <2>1. 1 \in DOMAIN todo
    BY <1>3
  <2>2. nvs[m] = NoAddress
    BY <1>3, <1>4, <2>1 DEF m
  <2>3. QED
    BY <1>5, <1>6, <1>7, <2>2, Limits
<1>10. Known' = Known /\ config = Entries(child)
  BY <1>1 DEF Known, Kept, Books
<1>11. Fresh'
  BY <1>1, <1>5, <1>10 DEF Fresh
<1>12. \A n \in Number : nvs[n] # NoAddress => nvs[n] # b
  <2>1. SUFFICES ASSUME NEW n \in Number, nvs[n] # NoAddress, nvs[n] = b
                 PROVE  FALSE
    OBVIOUS
  <2>2. CASE nvs[n] = child[n]
    <3>1. b \in Known
      BY <1>10, <2>1, <2>2, KnownFacts
    <3>2. QED
      BY <1>9, <3>1
  <2>3. CASE nvs[n] # child[n]
    <3>1. PICK i \in DOMAIN paired : paired[i][1] = n /\ paired[i][2] = nvs[n]
      BY <1>4, <2>3
    <3>2. i = s + 1
      BY <1>5, <1>6, <1>7, <2>1, <3>1
    <3>3. n = m
      BY <1>7, <3>1, <3>2
    <3>4. QED
      BY <1>9, <2>1, <3>3
  <2>4. QED
    BY <2>2, <2>3
<1>13. ~Alike(nvs)'
  <2>1. SUFFICES ASSUME NEW j \in Number, NEW k \in Number, j # k,
                        nvs'[j] # NoAddress, nvs'[k] # NoAddress, nvs'[j] = nvs'[k]
                 PROVE  FALSE
    BY DEF Alike, Used
  <2>2. CASE j = m
    BY <1>8, <1>12, <2>1, <2>2
  <2>3. CASE k = m
    BY <1>8, <1>12, <2>1, <2>3
  <2>4. CASE j # m /\ k # m
    <3>1. nvs[j] # NoAddress /\ nvs[k] # NoAddress /\ nvs[j] = nvs[k]
      BY <1>8, <2>1, <2>4
    <3>2. ~Alike(nvs)
      BY DEF Kept, Books
    <3>3. QED
      BY <2>1, <3>1, <3>2 DEF Alike, Used
  <2>5. QED
    BY <2>2, <2>3, <2>4
<1>14. \A n \in Used(child) : nvs'[n] = child[n]
  <2>1. \A n \in Used(child) : nvs[n] = child[n] /\ n \in Number /\ n # m
    BY <1>9 DEF Kept, Books, Used
  <2>2. QED
    BY <1>8, <2>1
<1>15. Books'
  <2>1. config' = Entries(child')
    BY <1>1, <1>10
  <2>2. \A n \in Used(child') : nvs'[n] = child'[n]
    BY <1>1, <1>14
  <2>3. QED
    BY <1>1, <1>13, <2>1, <2>2 DEF Books
<1>16. \A j \in DOMAIN todo' : todo'[j] = paired[s + 1 + j] /\ nvs'[todo'[j][1]] = NoAddress
  <2>1. SUFFICES ASSUME NEW j \in DOMAIN todo'
                 PROVE  todo'[j] = paired[s + 1 + j] /\ nvs'[todo'[j][1]] = NoAddress
    OBVIOUS
  <2>2. j \in Nat /\ j >= 1 /\ j + 1 \in DOMAIN todo /\ todo'[j] = todo[j + 1]
    BY <1>3
  <2>3. s + (j + 1) = s + 1 + j /\ s + 1 + j # s + 1 /\ s + 1 + j \in DOMAIN paired
    BY <1>3, <1>4, <1>6, <2>2
  <2>4. todo'[j] = paired[s + 1 + j] /\ nvs[todo'[j][1]] = NoAddress
    BY <1>4, <2>2, <2>3
  <2>5. todo'[j][1] # m
    BY <1>5, <1>6, <1>7, <2>3, <2>4
  <2>6. todo'[j][1] \in Number
    BY <1>2, <2>3, <2>4 DEF Registration
  <2>7. QED
    BY <1>8, <2>4, <2>5, <2>6
<1>17. \A i \in 1 .. s + 1 : nvs'[paired[i][1]] = paired[i][2]
  <2>1. SUFFICES ASSUME NEW i \in 1 .. s + 1 PROVE nvs'[paired[i][1]] = paired[i][2]
    OBVIOUS
  <2>2. CASE i = s + 1
    BY <1>7, <1>8, <2>2
  <2>3. CASE i # s + 1
    <3>1. i \in 1 .. s /\ i \in DOMAIN paired
      <4>1. s \in Nat /\ Len(paired) \in Nat /\ s + 1 <= Len(paired)
        BY <1>3, <1>4, <1>6
      <4>2. i \in Nat /\ 1 <= i /\ i <= s
        BY ONLY <2>1, <2>3, <4>1
      <4>3. i \in 1 .. s /\ i \in 1 .. Len(paired)
        BY ONLY <4>1, <4>2
      <4>4. QED
        BY <1>3, <4>3
    <3>2. nvs[paired[i][1]] = paired[i][2] /\ paired[i][1] # m
      BY <1>4, <1>5, <1>6, <1>7, <2>3, <3>1
    <3>3. paired[i][1] \in Number
      BY <1>2, <3>1 DEF Registration
    <3>4. QED
      BY <1>8, <3>2, <3>3
  <2>4. QED
    BY <2>2, <2>3
<1>18. \A n \in Number :
         nvs'[n] # child[n] => \E i \in DOMAIN paired : paired[i][1] = n /\ paired[i][2] = nvs'[n]
  <2>1. SUFFICES ASSUME NEW n \in Number, nvs'[n] # child[n]
                 PROVE  \E i \in DOMAIN paired : paired[i][1] = n /\ paired[i][2] = nvs'[n]
    OBVIOUS
  <2>2. CASE n = m
    BY <1>6, <1>7, <1>8, <2>2
  <2>3. CASE n # m
    BY <1>4, <1>8, <2>1, <2>3
  <2>4. QED
    BY <2>2, <2>3
<1>19. Saving'
  BY <1>1, <1>4, <1>6, <1>16, <1>17, <1>18 DEF Saving
<1>20. QED
  BY <1>1, <1>11, <1>15, <1>19 DEF Kept, Pairing

LEMMA RegisterKept ==
  ASSUME Typed, Kept, Register, ~holed'
  PROVE  Kept'
<1> DEFINE es == ToSet(paired)
<1>1. /\ phase = "saving" /\ todo = <<>> /\ phase' = "idle" /\ nvs' = nvs
      /\ child' = Start(child, es) /\ config' = config \cup es
      /\ ~Hole(nvs') /\ ~Hole(child')
  BY DEF Register, Watch
<1>2. paired \in Seq(Registration) /\ Len(paired) \in Nat /\ DOMAIN paired = 1 .. Len(paired)
  BY DEF Typed, TypeOK
<1>3. /\ \A i \in DOMAIN paired : paired[i] \in es
      /\ \A e \in es : \E i \in DOMAIN paired : e = paired[i]
      /\ es \subseteq Registration
  BY <1>2, ElementOf
<1>4. /\ \A i \in DOMAIN paired : nvs[paired[i][1]] = paired[i][2]
      /\ \A n \in Number :
           nvs[n] # child[n] => \E i \in DOMAIN paired : paired[i][1] = n /\ paired[i][2] = nvs[n]
  <2>1. Saved = Len(paired)
    BY <1>1, <1>2 DEF Saved
  <2>2. QED
    BY <1>1, <1>2, <2>1 DEF Kept, Saving
<1> HIDE DEF es
<1>5. \A n \in Used(child) : nvs[n] = child[n]
  BY DEF Kept, Books
<1>6. \A e \in es : nvs[e[1]] = e[2]
  BY <1>3, <1>4
<1>7. \A n \in Number : nvs[n] # child[n] => \E e \in es : e[1] = n
  BY <1>3, <1>4
<1>8. child' = nvs
  BY <1>1, <1>3, <1>5, <1>6, <1>7, StartedAll
<1>9. config = Entries(child)
  BY <1>1 DEF Kept, Books
<1>10. config' = Entries(nvs)
  <2>1. ASSUME NEW e \in config PROVE e \in Entries(nvs)
    <3>1. e[1] \in Number /\ child[e[1]] = e[2] /\ child[e[1]] # NoAddress /\ e = <<e[1], e[2]>>
      BY <1>9, EntriesFacts
    <3>2. nvs[e[1]] = e[2] /\ nvs[e[1]] # NoAddress
      BY <1>5, <3>1 DEF Used
    <3>3. QED
      BY <3>1, <3>2, EntriesFacts
  <2>2. ASSUME NEW e \in es PROVE e \in Entries(nvs)
    <3>1. e[1] \in Number /\ e[2] \in Address /\ e = <<e[1], e[2]>>
      BY <1>3 DEF Registration
    <3>2. nvs[e[1]] = e[2] /\ e[2] # NoAddress
      BY <1>6, <3>1, Limits
    <3>3. QED
      BY <3>1, <3>2, EntriesFacts
  <2>3. ASSUME NEW e \in Entries(nvs) PROVE e \in config \cup es
    <3>1. e[1] \in Number /\ nvs[e[1]] = e[2] /\ nvs[e[1]] # NoAddress /\ e = <<e[1], e[2]>>
      BY EntriesFacts
    <3>2. CASE nvs[e[1]] = child[e[1]]
      BY <1>9, <3>1, <3>2, EntriesFacts
    <3>3. CASE nvs[e[1]] # child[e[1]]
      <4>1. PICK i \in DOMAIN paired : paired[i][1] = e[1] /\ paired[i][2] = nvs[e[1]]
        BY <1>4, <3>1, <3>3
      <4>2. paired[i] = <<paired[i][1], paired[i][2]>>
        BY <1>2 DEF Registration
      <4>3. QED
        BY <1>3, <3>1, <4>1, <4>2
    <3>4. QED
      BY <3>2, <3>3
  <2>4. QED
    BY <1>1, <2>1, <2>2, <2>3
<1>11. ~Alike(nvs) /\ \A n \in Used(nvs) : nvs[n] = nvs[n]
  BY DEF Kept, Books
<1>12. Books'
  BY <1>1, <1>8, <1>10, <1>11 DEF Books
<1>13. QED
  BY <1>1, <1>12 DEF Kept, Fresh, Pairing, Saving

LEMMA RemoveBulbKept ==
  ASSUME Typed, Kept, NEW n \in Number, RemoveBulb(n), ~holed', ~failed'
  PROVE  Kept'
<1>1. /\ phase = "idle" /\ phase' = "idle"
      /\ nvs' = [nvs EXCEPT ![n] = NoAddress] /\ child' = [child EXCEPT ![n] = NoAddress]
      /\ config' = {e \in config : e[1] # n}
      /\ ~Hole(nvs') /\ ~Hole(child')
  BY DEF RemoveBulb, Erase, Terminated, Watch, job
<1>2. nvs = child /\ nvs' = child' /\ config = Entries(child) /\ ~Alike(nvs)
  BY <1>1 DEF Kept, Books
<1>3. nvs \in [Number -> Address \cup {NoAddress}]
  BY DEF Typed, TypeOK
<1>4. nvs'[n] = NoAddress /\ \A m \in Number : m # n => nvs'[m] = nvs[m]
  BY <1>1, <1>3
<1>5. ~Alike(nvs')
  <2>1. SUFFICES ASSUME NEW j \in Number, NEW k \in Number, j # k,
                        nvs'[j] # NoAddress, nvs'[k] # NoAddress, nvs'[j] = nvs'[k]
                 PROVE  FALSE
    BY DEF Alike, Used
  <2>2. nvs[j] # NoAddress /\ nvs[k] # NoAddress /\ nvs[j] = nvs[k]
    BY <1>4, <2>1
  <2>3. QED
    BY <1>2, <2>1, <2>2 DEF Alike, Used
<1>6. config' = Entries(child')
  <2>1. ASSUME NEW e \in config, e[1] # n PROVE e \in Entries(child')
    <3>1. e[1] \in Number /\ child[e[1]] = e[2] /\ child[e[1]] # NoAddress /\ e = <<e[1], e[2]>>
      BY <1>2, EntriesFacts
    <3>2. child'[e[1]] = e[2] /\ child'[e[1]] # NoAddress
      BY <1>2, <1>4, <2>1, <3>1
    <3>3. QED
      BY <3>1, <3>2, EntriesFacts
  <2>2. ASSUME NEW e \in Entries(child') PROVE e \in config /\ e[1] # n
    <3>1. e[1] \in Number /\ child'[e[1]] = e[2] /\ child'[e[1]] # NoAddress /\ e = <<e[1], e[2]>>
      BY EntriesFacts
    <3>2. e[1] # n /\ child[e[1]] = e[2] /\ child[e[1]] # NoAddress
      BY <1>2, <1>4, <3>1
    <3>3. QED
      BY <1>2, <3>1, <3>2, EntriesFacts
  <2>3. QED
    BY <1>1, <2>1, <2>2
<1>7. Books'
  BY <1>1, <1>2, <1>5, <1>6 DEF Books
<1>8. QED
  BY <1>1, <1>7 DEF Kept, Fresh, Pairing, Saving

LEMMA RestartKept ==
  ASSUME Typed, Kept, DiscoveryRestart \/ SystemRestart
  PROVE  Kept'
<1>1. /\ nvs' = nvs /\ config' = {} /\ phase' = "boot" /\ child' \in {child, Nothing}
  BY DEF DiscoveryRestart, SystemRestart
<1>2. \A n \in Used(child) : nvs[n] = child[n]
  BY DEF Kept, Books
<1>3. Used(Nothing) = 1 .. 0 /\ 0 \in 0 .. Loaded
  BY Limits DEF Used, Nothing
<1>4. ~Hole(child') /\ \A n \in Used(child') : nvs[n] = child'[n]
  <2>1. ~Hole(Nothing) /\ \A n \in Used(Nothing) : nvs[n] = Nothing[n]
    BY <1>3 DEF Hole
  <2>2. ~Hole(child)
    BY DEF Kept, Books
  <2>3. QED
    BY <1>1, <1>2, <2>1, <2>2
<1>5. ~Hole(nvs) /\ ~Alike(nvs)
  BY DEF Kept, Books
<1>6. Books'
  BY <1>1, <1>4, <1>5 DEF Books
<1>7. QED
  BY <1>1, <1>6 DEF Kept, Fresh, Pairing, Saving

LEMMA KeptNext ==
  ASSUME Typed, ~holed /\ ~failed => Kept, [DiscoveryNext]_discovery, ~holed', ~failed'
  PROVE  Kept'
<1>1. CASE InitBulbs
  <2>1. ~holed /\ ~failed
    BY <1>1 DEF InitBulbs, Watch
  <2>2. QED
    BY <1>1, <2>1, InitBulbsKept
<1>2. CASE \E new \in Found : RunDiscovery(new)
  <2>1. PICK new \in Found : RunDiscovery(new)
    BY <1>2
  <2>2. ~holed
    BY <2>1 DEF RunDiscovery
  <2>3. ~failed
    BY <2>1 DEF RunDiscovery
  <2>4. QED
    BY <2>1, <2>2, <2>3, RunDiscoveryKept
<1>3. CASE Pair
  <2>1. ~holed /\ ~failed
    BY <1>3 DEF Pair
  <2>2. QED
    BY <1>3, <2>1, PairKept
<1>4. CASE PairingEnds
  <2>1. ~holed /\ ~failed
    BY <1>4 DEF PairingEnds
  <2>2. QED
    BY <1>4, <2>1, PairingEndsKept
<1>5. CASE Save
  <2>1. ~holed
    BY <1>5 DEF Save, Watch
  <2>2. failed' = TRUE \/ failed' = failed
    BY <1>5 DEF Save
  <2>3. ~failed
    BY <2>2
  <2>4. QED
    BY <1>5, <2>1, <2>3, SaveKept
<1>6. CASE Register
  <2>1. ~holed /\ ~failed
    BY <1>6 DEF Register, Watch
  <2>2. QED
    BY <1>6, <2>1, RegisterKept
<1>7. CASE \E n \in Number : RemoveBulb(n)
  <2>1. PICK n \in Number : RemoveBulb(n)
    BY <1>7
  <2>2. ~holed
    BY <2>1 DEF RemoveBulb, Watch
  <2>3. failed' = TRUE \/ failed' = failed
    BY <2>1 DEF RemoveBulb, Erase
  <2>4. ~failed
    BY <2>3
  <2>5. QED
    BY <2>1, <2>2, <2>4, RemoveBulbKept
<1>8. CASE \/ \E n \in Number : ChildCrash(n) \/ ChildBack(n)
           \/ UNCHANGED discovery
  <2>1. UNCHANGED <<nvs, child, config, phase, todo, next, paired, holed, failed>>
    BY <1>8 DEF ChildCrash, ChildBack, discovery, registry, job
  <2>2. Kept
    BY <2>1
  <2>3. QED
    BY <2>1, <2>2 DEF Kept, Books, Fresh, Pairing, Saving, Saved,
                      Hole, Used, Alike, Entries, Known
<1>9. CASE DiscoveryRestart \/ SystemRestart
  <2>1. ~holed /\ ~failed
    BY <1>9 DEF DiscoveryRestart, SystemRestart
  <2>2. QED
    BY <1>9, <2>1, RestartKept
<1>10. QED
  BY <1>1, <1>2, <1>3, <1>4, <1>5, <1>6, <1>7, <1>8, <1>9 DEF DiscoveryNext

-----------------------------------------------------------------------------
(* The theorems                                                             *)

DiscoveryInv == Typed /\ (~holed /\ ~failed => Kept)

LEMMA KeptIsSound == ASSUME Typed, Kept PROVE NumbersSound /\ Remembered
<1>1. ~Alike(nvs) /\ (\A n \in Used(child) : nvs[n] = child[n])
      /\ config = IF phase = "boot" THEN {} ELSE Entries(child)
  BY DEF Kept, Books
<1>2. ~Alike(child)
  BY <1>1 DEF Alike, Used
<1>3. \A d, e \in config : d[1] = e[1] => d = e
  <2>1. CASE phase = "boot"
    BY <1>1, <2>1
  <2>2. CASE phase # "boot"
    <3>1. \A e \in config : e = <<e[1], child[e[1]]>>
      BY <1>1, <2>2, EntriesFacts
    <3>2. QED
      BY <3>1
  <2>3. QED
    BY <2>1, <2>2
<1>4. NumbersSound
  BY <1>1, <1>2, <1>3 DEF NumbersSound
<1>5. Remembered
  BY DEF Remembered, Kept, Books
<1>6. QED
  BY <1>4, <1>5

LEMMA DiscoveryInductive == DiscoverySpec => []DiscoveryInv
<1>1. DiscoveryInit => DiscoveryInv
  BY TypedInit, KeptInit DEF DiscoveryInv
<1>2. DiscoveryInv /\ [DiscoveryNext]_discovery => DiscoveryInv'
  BY TypedNext, KeptNext DEF DiscoveryInv
<1>3. QED
  BY <1>1, <1>2, PTL DEF DiscoverySpec

\* Discovery keeps its types: no discovery runs out of numbers, and whatever is down is
\* still a child of the supervisor.
THEOREM DiscoveryTypes == DiscoverySpec => []TypeOK
<1>1. DiscoveryInv => TypeOK
  BY DEF DiscoveryInv, Typed
<1>2. QED
  BY <1>1, DiscoveryInductive, PTL

\* As long as the numbers in use are 1 .. k, none of a process that is down was given away
\* and no NVS access has failed, no number is given to two bulbs and no bulb has two: in
\* NVS, among the processes, in the list, and between them, at every step of a discovery
\* and wherever it is restarted.
THEOREM NumbersTheorem == DiscoverySpec => []NumbersSound
<1>1. DiscoveryInv => NumbersSound
  BY KeptIsSound DEF DiscoveryInv, NumbersSound
<1>2. QED
  BY <1>1, DiscoveryInductive, PTL

\* Under the same conditions the list, the processes and NVS agree whenever no discovery
\* is under way: a restart finds every bulb.
THEOREM RememberedTheorem == DiscoverySpec => []Remembered
<1>1. DiscoveryInv => Remembered
  BY KeptIsSound DEF DiscoveryInv, Remembered
<1>2. QED
  BY <1>1, DiscoveryInductive, PTL
=============================================================================
