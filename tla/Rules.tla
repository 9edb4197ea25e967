--------------------------------- MODULE Rules ---------------------------------
(***************************************************************************)
(* From a sensor reading to the bulbs.                                     *)
(*                                                                         *)
(* myhome_sensors.erl polls and publishes what has changed.  When that, or *)
(* the minute's tick, arrives, myhome_rules.erl looks at every rule of     *)
(* every enabled policy: its trigger, its cooldown, measured on the wall   *)
(* clock that SNTP sets, and its condition.  A rule that fires spawns a    *)
(* process that walks the bulbs (myhome_lights:set_all), one gen_server    *)
(* call after the other with a gap of 2 s.  So several actions, also       *)
(* opposite ones, can be on their way through the bulbs' mailboxes.        *)
(*                                                                         *)
(* The policies are those of myhome_config.erl.template.  Evaluations are  *)
(* seconds apart, and an action is in its first bulb's mailbox before the  *)
(* next evaluation.  The WiZ lamps, which come after the bulbs, are in     *)
(* Wiz; what a bulb does with a command is in HueBulb and GattCalls.       *)
(***************************************************************************)
EXTENDS Integers, Sequences, SequencesExt

CONSTANTS
  None,
  NBulbs,       \* bulbs, in the order of bulb_names()
  Offset,       \* what SNTP may set the clock to, 0 being what it starts with
  Day,          \* length of a day; the units of time are those of the cooldowns
  EveningCd, NightCd,   \* cooldown of the rules, 5 and 10 minutes
  MaxBox,       \* bounds: messages that wait for the rules process,
  MaxTime,      \*   time that passes,
  MaxJobs,      \*   actions that fire,
  MaxTroubles   \*   and clocks set, time-outs, crashes, failures, policy changes

ASSUME RulesAssumption ==
  /\ None \notin Int /\ None \notin Int \X Int /\ Offset \subseteq Int
  /\ NBulbs \in Nat \ {0} /\ Day \in Nat \ {0}
  /\ EveningCd \in Nat \ {0} /\ NightCd \in Nat \ {0}
  /\ MaxBox \in Nat /\ MaxTime \in Nat /\ MaxJobs \in Nat /\ MaxTroubles \in Nat

Bulb  == 1 .. NBulbs
Level == {"dark", "dim", "bright"}   \* lux < 50, 50 .. 99, > 200

VARIABLES
  time,      \* time that has passed
  offset,    \* wall clock minus time
  reading,   \* #state.readings of the sensors process, None if there is none
  box,       \* the mailbox of the rules process, through the bus
  readings,  \* #state.readings of the rules process
  enabled,   \* policies
  last,      \* last_fired, on the wall clock
  jobs,      \* actions in the order they fired
  mail,      \* mailbox of each bulb process: the actions that call it
  naps,      \* actions in a gap, in the order the gaps began
  \* history
  applied,   \* <<action, bulb>> in the order the bulbs took them
  refused,   \* <<action, bulb>> that a bulb answered with an error
  fired,     \* when, and at what offset, each rule fired last
  forgotten, \* rules of which the rules process lost that in a restart
  early, late,  \* rules that fired before, or did not fire after, their cooldown
  troubles

clock   == <<time, offset>>
rules   == <<box, readings, enabled, last>>
actions == <<jobs, mail, naps, applied, refused>>
history == <<fired, forgotten, early, late>>
vars    == <<clock, reading, rules, actions, history, troubles>>

Wall    == time + offset
Hour(w) == ((w % Day) * 24) \div Day

\* The rules of myhome_config:policies().  Without a reading no condition holds.
Evening(w) == Hour(w) >= 14 /\ Hour(w) < 23
Rule == {"lights_on_dark", "lights_off_bright", "lights_off_night"}
Policy  == [lights_on_dark    |-> "evening_comfort", lights_off_bright |-> "evening_comfort",
            lights_off_night  |-> "night_shutoff"]
Trigger == [lights_on_dark    |-> "sensor", lights_off_bright |-> "sensor",
            lights_off_night  |-> "timer"]
Command == [lights_on_dark    |-> "on", lights_off_bright |-> "off",
            lights_off_night  |-> "off"]
Cooldown == [lights_on_dark   |-> EveningCd, lights_off_bright |-> EveningCd,
             lights_off_night |-> NightCd]
Condition(r, l, w) ==
  \/ r = "lights_on_dark"    /\ Evening(w)  /\ l = "dark"
  \/ r = "lights_off_bright" /\ Evening(w)  /\ l = "bright"
  \/ r = "lights_off_night"  /\ Hour(w) < 6 /\ l \in {"dark", "dim"}

Init ==
  /\ time = 0 /\ offset \in Offset \cup {0}
  /\ reading = None
  /\ box = <<>> /\ readings = None
  /\ enabled = {"evening_comfort", "night_shutoff"}
  /\ last = [r \in Rule |-> None]
  /\ jobs = <<>> /\ mail = [b \in Bulb |-> <<>>] /\ naps = <<>>
  /\ applied = <<>> /\ refused = {}
  /\ fired = [r \in Rule |-> None] /\ forgotten = {} /\ early = {} /\ late = {}
  /\ troubles = 0

Trouble == troubles < MaxTroubles /\ troubles' = troubles + 1

-----------------------------------------------------------------------------
(* Time, light and sensors                                                  *)

TimePasses ==
  /\ time < MaxTime
  /\ time' = time + 1
  /\ UNCHANGED <<offset, reading, rules, actions, history, troubles>>

\* SNTP sets the wall clock, which starts at 0 with the ESP32.
SetClock ==
  /\ Trouble
  /\ offset' \in Offset \ {offset}
  /\ UNCHANGED <<time, reading, rules, actions, history>>

\* handle_info(poll, ...) publishes what has changed.  A sensor that cannot be read
\* is missing from the readings.
Poll(r) ==
  /\ r # reading /\ Len(box) < MaxBox
  /\ reading' = r
  /\ box' = Append(box, r)
  /\ UNCHANGED <<clock, readings, enabled, last, actions, history>>

SensorPoll  == (\E l \in Level : Poll(l)) /\ UNCHANGED troubles
SensorFails == Poll("missing") /\ Trouble

-----------------------------------------------------------------------------
(* The rules process                                                        *)

\* The timer of a minute: one at a time is under way.
TimerTicks ==
  /\ "tick" \notin ToSet(box) /\ Len(box) < MaxBox
  /\ box' = Append(box, "tick")
  /\ UNCHANGED <<clock, reading, readings, enabled, last, actions, history, troubles>>

\* flatten_readings: no light sensor is lux 0.0.
Flatten(r) == IF r = "missing" THEN "dark" ELSE r

\* Mutant of CooldownExpired: a rule that fires in the last moment is held back.
CooldownExpired_Late(r) == last[r] = None \/ Wall - last[r] > Cooldown[r]

CooldownExpired(r) == last[r] = None \/ Wall - last[r] >= Cooldown[r]

\* evaluate_one, but for the cooldown
Wanted(t, l) ==
  {r \in Rule : Policy[r] \in enabled /\ Trigger[r] = t /\ Condition(r, l, Wall)}

\* The cooldown of rule r in true time; and the clock was not set in a way that
\* makes it seem shorter, or longer.
Elapsed(r)     == fired[r] = None \/ time - fired[r][1] >= Cooldown[r]
NotForward(r)  == fired[r] # None /\ offset <= fired[r][2]
NotBackward(r) == fired[r] = None \/ offset >= fired[r][2]

\* evaluate_policies for trigger t with readings l.  No two rules of one trigger
\* hold together, so at most one fires; its action calls the first bulb.
Evaluate(t, l) ==
  LET due == Wanted(t, l)
      now == {r \in due : CooldownExpired(r)}
  IN  /\ last'  = [r \in Rule |-> IF r \in now THEN Wall ELSE last[r]]
      /\ fired' = [r \in Rule |-> IF r \in now THEN <<time, offset>> ELSE fired[r]]
      /\ forgotten' = forgotten \ now
      /\ early' = early \cup {r \in now \ forgotten : ~Elapsed(r) /\ NotForward(r)}
      /\ late'  = late \cup {r \in due \ now : Elapsed(r) /\ NotBackward(r)}
      /\ IF now = {}
           THEN UNCHANGED <<jobs, mail>>
           ELSE \E r \in now :
                  /\ Len(jobs) < MaxJobs
                  /\ jobs' = Append(jobs, [command |-> Command[r], at |-> 1, state |-> "calls"])
                  /\ mail' = [mail EXCEPT ![1] = Append(@, Len(jobs) + 1)]

\* handle_info of the rules process
HandleBox ==
  /\ box # <<>>
  /\ box' = Tail(box)
  /\ IF Head(box) = "tick"
       THEN Evaluate("timer", readings) /\ UNCHANGED readings
       ELSE /\ readings' = Flatten(Head(box))
            /\ Evaluate("sensor", readings')
  /\ UNCHANGED <<clock, reading, enabled, naps, applied, refused, troubles>>

\* enable_policy, disable_policy
SetPolicy(p) ==
  /\ Trouble
  /\ enabled' = IF p \in enabled THEN enabled \ {p} ELSE enabled \cup {p}
  /\ UNCHANGED <<clock, reading, box, readings, last, actions, history>>

\* The rules process crashes and is restarted: cooldowns, readings and what was in
\* the mailbox are gone.  Actions are processes of their own.
RulesRestart ==
  /\ Trouble
  /\ box' = <<>> /\ readings' = None
  /\ enabled' = {"evening_comfort", "night_shutoff"}
  /\ last' = [r \in Rule |-> None]
  /\ forgotten' = {r \in Rule : fired[r] # None}
  /\ UNCHANGED <<clock, reading, actions, fired, early, late>>

-----------------------------------------------------------------------------
(* Actions: set_bulbs_sequential                                            *)

Calls(j) == jobs[j].state = "calls"

\* Bulb b takes the next call from its mailbox: it does as told or, not connected,
\* answers an error, which set_bulbs_sequential ignores.  After the last bulb the
\* action is over, after any other it sleeps.  A caller may be gone by now.
BulbServes(b) ==
  /\ mail[b] # <<>>
  /\ LET j == Head(mail[b])
     IN  /\ mail' = [mail EXCEPT ![b] = Tail(@)]
         /\ \/ applied' = Append(applied, <<j, b>>) /\ UNCHANGED <<refused, troubles>>
            \/ refused' = refused \cup {<<j, b>>} /\ Trouble /\ UNCHANGED applied
         /\ IF Calls(j)
              THEN /\ jobs' = [jobs EXCEPT ![j].state = IF b = NBulbs THEN "done" ELSE "naps"]
                   /\ naps' = IF b = NBulbs THEN naps ELSE Append(naps, j)
              ELSE UNCHANGED <<jobs, naps>>
  /\ UNCHANGED <<clock, reading, rules, history>>

CallNext(j) ==
  /\ jobs' = [jobs EXCEPT ![j].state = "calls", ![j].at = @ + 1]
  /\ mail' = [mail EXCEPT ![jobs[j].at + 1] = Append(@, j)]
  /\ UNCHANGED <<clock, reading, rules, applied, refused, history, troubles>>

\* Mutant of NapEnds: gaps of different lengths, say with jitter.
NapEnds_Any ==
  \E j \in ToSet(naps) : CallNext(j) /\ naps' = SelectSeq(naps, LAMBDA k : k # j)

\* timer:sleep(2000): all gaps are alike, so they are taken to end in the
\* order they began, also two that began within one millisecond.
NapEnds == naps # <<>> /\ CallNext(Head(naps)) /\ naps' = Tail(naps)

\* gen_server:call exits, and the action's process with it; what it asked for stays
\* in the mailbox.
ActionTimesOut(j) ==
  /\ Calls(j) /\ Trouble
  /\ jobs' = [jobs EXCEPT ![j].state = "dead"]
  /\ UNCHANGED <<clock, reading, rules, mail, naps, applied, refused, history>>

\* A bulb process is restarted: who waits for it, exits.
BulbCrash(b) ==
  /\ mail[b] # <<>> /\ Trouble
  /\ mail' = [mail EXCEPT ![b] = <<>>]
  /\ jobs' = [j \in DOMAIN jobs |->
                IF Calls(j) /\ jobs[j].at = b THEN [jobs[j] EXCEPT !.state = "dead"]
                                             ELSE jobs[j]]
  /\ UNCHANGED <<clock, reading, rules, naps, applied, refused, history>>

-----------------------------------------------------------------------------

Next ==
  \/ TimePasses \/ SetClock \/ SensorPoll \/ SensorFails
  \/ TimerTicks \/ HandleBox \/ RulesRestart \/ NapEnds
  \/ \E p \in {"evening_comfort", "night_shutoff"} : SetPolicy(p)
  \/ \E b \in Bulb : BulbServes(b) \/ BulbCrash(b)
  \/ \E j \in DOMAIN jobs : ActionTimesOut(j)

Spec == Init /\ [][Next]_vars

-----------------------------------------------------------------------------
(* Properties                                                               *)

\* Between two consecutive firings of a rule lies its cooldown, in true time, and after
\* it the rule fires again when it is asked to, whatever is enabled and disabled
\* meanwhile.  There are two exceptions: the clock was set forward, or back, in
\* between; or the rules process was restarted in between, which keeps no last_fired,
\* so that each restart lets each rule fire once before its time.
CooldownHolds == early = {} /\ late = {}

\* However many actions overlap, and whoever times out, crashes or refuses, no bulb
\* takes an older action after a newer one: the last that fired has the last
\* word at every bulb it reaches.
LastFiredWins ==
  \A m, n \in DOMAIN applied :
    m < n /\ applied[m][2] = applied[n][2] => applied[m][1] < applied[n][1]
=============================================================================
