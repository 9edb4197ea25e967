--------------------------------- MODULE Wiz ---------------------------------
(***************************************************************************)
(* The WiZ manager (myhome_wiz.erl): one process that commands every lamp  *)
(* over UDP.  A lamp configured by its MAC address is reachable once a     *)
(* discovery has heard it.  Discoveries run in a spawned worker, one at a  *)
(* time; a request for a lamp that is not in the cache parks until the     *)
(* worker's result is handled, which serves all parked requests at once.   *)
(*                                                                         *)
(* Meanwhile DHCP moves lamps, replies are lost, callers give up after 12  *)
(* seconds although their request stays parked, and the process restarts.  *)
(* Requests are handled in the order in which they arrive, so a request is *)
(* handled here when it is sent.  Payloads, the sockets and the parsing of *)
(* replies are left out.                                                   *)
(***************************************************************************)
EXTENDS Naturals, Sequences, SequencesExt, FiniteSetsExt

CONSTANTS
  Name,         \* names that callers use
  Static, Mac,  \* those configured by address, and by MAC
  Address,      \* addresses of the subnet: numbers, an address as its integer
  Near,         \* those of the controller's own /24
  HomeOf,       \* the addresses of the lamps at first, the configured one if static
  None,
  MaxCalls,     \* bound: requests
  MaxMoves,     \* bound: address changes
  MaxRefresh,   \* bound: periodic discoveries are among the first so many
  MaxRestarts   \* bound: restarts of the process

Lamp  == Static \cup Mac
Scope == {"full", "local24"}

\* What a discovery hears: a lamp by its address.
Replies == UNION {[S -> Mac] : S \in SUBSET Address}
Worker  == [scope : Scope, found : Replies]
Result  == [found : Replies] \cup [error : {TRUE}]

ASSUME WizAssumption ==
  /\ Lamp \subseteq Name /\ Static \cap Mac = {}
  /\ Address \subseteq Nat /\ Near \subseteq Address /\ None \notin Address
  /\ None \notin Worker \cup Result
  /\ HomeOf \in [Lamp -> Address]
  /\ MaxCalls \in Nat /\ MaxMoves \in Nat /\ MaxRefresh \in Nat /\ MaxRestarts \in Nat

VARIABLES
  addr,      \* where each lamp is
  cache,     \* #state.cache
  scanning,  \* #state.scanning
  waiters,   \* #state.waiters: discover calls
  pending,   \* #state.pending, newest first
  worker,    \* the discovery under way: its scope and what it has heard, or None
  result,    \* {discovery_result, _} in the mailbox, or None
  \* history
  calls,     \* every request: what it asks, what its caller knows, the discovery it parked behind
  sent,      \* setPilot messages, oldest first
  scans,     \* discoveries started
  movedNow,  \* lamps that moved since the last discovery started
  moved,     \* lamps that moved since the start of the discovery that told the cache their address
  moves, restarts

state == <<cache, scanning, waiters, pending, worker, result>>
bound == <<moves, restarts>>
vars  == <<addr, state, calls, sent, scans, movedNow, moved, bound>>

Init ==
  /\ addr = HomeOf
  /\ cache = [n \in Mac |-> None]
  /\ scanning = FALSE /\ waiters = {} /\ pending = <<>>
  /\ worker = None /\ result = None
  /\ calls = <<>> /\ sent = <<>> /\ scans = 0
  /\ movedNow = {} /\ moved = {}
  /\ moves = 0 /\ restarts = 0

-----------------------------------------------------------------------------
(* Discovery                                                                *)

\* start_scan: a no-op while a discovery, of whatever scope, is under way
StartScan(scope) ==
  IF scanning THEN UNCHANGED <<scanning, worker, scans, movedNow>>
  ELSE /\ scanning' = TRUE
       /\ worker' = [scope |-> scope, found |-> [a \in {} |-> None]]
       /\ scans' = scans + 1
       /\ movedNow' = {}

\* collect: a reply to getPilot from address a; any reply can be lost
Hear(a) ==
  /\ worker # None
  /\ worker.scope = "full" \/ a \in Near
  /\ \E n \in Mac :
       /\ addr[n] = a
       /\ worker' = [worker EXCEPT !.found = [b \in DOMAIN @ \cup {a} |->
                                                IF b = a THEN n ELSE @[b]]]
  /\ UNCHANGED <<addr, cache, scanning, waiters, pending, result, calls, sent, scans,
                 movedNow, moved, bound>>

\* Mutant of WorkerEnds: an exception of the worker is not caught.
WorkerEnds_Uncaught ==
  /\ worker # None
  /\ worker' = None
  /\ result' \in {[found |-> worker.found], None}
  /\ UNCHANGED <<addr, cache, scanning, waiters, pending, calls, sent, scans,
                 movedNow, moved, bound>>

\* do_discover returns, fails (no address, no socket) or raises: a result in any case
WorkerEnds ==
  /\ worker # None
  /\ worker' = None
  /\ \/ result' = [found |-> worker.found]
     \/ result' = [error |-> TRUE]
  /\ UNCHANGED <<addr, cache, scanning, waiters, pending, calls, sent, scans,
                 movedNow, moved, bound>>

-----------------------------------------------------------------------------
(* Requests                                                                 *)

\* classify and lookup_ip, of a lamp in the configuration
IpOf(n, c) == IF n \in Static THEN HomeOf[n] ELSE c[n]

\* gen_server:reply; a caller that has given up does not see it
Told(r, status) ==
  IF calls[r].status = "parked" THEN [calls[r] EXCEPT !.status = status] ELSE calls[r]

NewCall(n, action, status, batch) ==
  /\ Len(calls) < MaxCalls
  /\ calls' = Append(calls, [name |-> n, action |-> action, status |-> status,
                             batch |-> batch])

\* handle_call({pilot, Name, _}) and handle_call({get_state, Name}).  do_pilot fails
\* when no socket opens or the send fails.
Call(n, action) ==
  /\ \/ /\ n \notin Lamp
        /\ NewCall(n, action, "error", 0)
        /\ UNCHANGED <<scanning, pending, worker, sent, scans, movedNow>>
     \/ /\ n \in Lamp /\ IpOf(n, cache) # None
        /\ \/ /\ NewCall(n, action, "ok", 0)
              /\ sent' = IF action = "pilot"
                         THEN Append(sent, [call |-> Len(calls) + 1, to |-> IpOf(n, cache)])
                         ELSE sent
           \/ /\ NewCall(n, action, "error", 0)
              /\ UNCHANGED sent
        /\ UNCHANGED <<scanning, pending, worker, scans, movedNow>>
     \/ /\ n \in Lamp /\ IpOf(n, cache) = None
        /\ StartScan("local24")
        /\ NewCall(n, action, "parked", scans')
        /\ pending' = <<Len(calls) + 1>> \o pending
        /\ UNCHANGED sent
  /\ UNCHANGED <<addr, cache, waiters, result, moved, bound>>

\* handle_call(discover)
Discover ==
  /\ StartScan("full")
  /\ NewCall(None, "discover", "parked", scans')
  /\ waiters' = waiters \cup {Len(calls) + 1}
  /\ UNCHANGED <<addr, cache, pending, result, sent, moved, bound>>

\* handle_info(refresh_discovery)
Refresh ==
  /\ scans < MaxRefresh
  /\ StartScan("full")
  /\ UNCHANGED <<addr, cache, waiters, pending, result, calls, sent, moved, bound>>

\* A caller's gen_server:call times out.
GivesUp(r) ==
  /\ calls[r].status = "parked"
  /\ calls' = [calls EXCEPT ![r].status = "timeout"]
  /\ UNCHANGED <<addr, state, sent, scans, movedNow, moved, bound>>

\* Mutant of BuildCache: a known address is not replaced.
BuildCache_KeepsOld(found) ==
  [n \in Mac |-> LET heard == {a \in DOMAIN found : found[a] = n}
                 IN  IF heard = {} \/ cache[n] # None THEN cache[n] ELSE Max(heard)]

\* build_cache: the replies are folded in the order of their addresses, so of two
\* addresses of one lamp the higher one stays, whichever is older.
BuildCache(found) ==
  [n \in Mac |-> LET heard == {a \in DOMAIN found : found[a] = n}
                 IN  IF heard = {} THEN cache[n] ELSE Max(heard)]

\* lookup_ip finds an address for the parked request r.
Resolved(r, c) == IpOf(calls[r].name, c) # None

\* Mutant of Drained: what is parked stays so for the next discovery.
Drained_Kept == pending' = pending

Drained == pending' = <<>>

\* Mutant of Parked: served oldest first.
Parked_Oldest == Reverse(pending)

\* drain_pending folds over the list as it is, newest first.
Parked == pending

\* The requests rs in the order in which they are served
Served(rs) ==
  {done \in SetToSeqs(rs) :
     \A i, j \in DOMAIN done : i < j =>
       \E k, l \in DOMAIN Parked : k < l /\ Parked[k] = done[i] /\ Parked[l] = done[j]}

\* handle_info({discovery_result, {ok, Found}}): the cache, the waiters, drain_pending
DiscoveryOk ==
  /\ result # None /\ "found" \in DOMAIN result
  /\ result' = None
  /\ LET found == result.found
         new   == BuildCache(found)
         known == {r \in ToSet(pending) : Resolved(r, new)}
     IN  /\ cache' = new
         /\ moved' = {n \in Mac : IF n \in {found[a] : a \in DOMAIN found}
                                  THEN n \in movedNow ELSE n \in moved}
         /\ \E failed \in SUBSET known :
              /\ \E done \in Served({r \in known \ failed : calls[r].action = "pilot"}) :
                   sent' = sent \o [i \in 1 .. Len(done) |->
                             [call |-> done[i], to |-> IpOf(calls[done[i]].name, new)]]
              /\ calls' = [r \in DOMAIN calls |->
                             IF r \in waiters \cup (known \ failed) THEN Told(r, "ok")
                             ELSE IF r \in ToSet(pending) THEN Told(r, "error")
                             ELSE calls[r]]
  /\ scanning' = FALSE /\ waiters' = {} /\ Drained
  /\ UNCHANGED <<addr, worker, scans, movedNow, bound>>

\* Mutant of DiscoveryError: the flag stays up.
DiscoveryError_StillScanning ==
  /\ result # None /\ "error" \in DOMAIN result
  /\ result' = None
  /\ calls' = [r \in DOMAIN calls |->
                 IF r \in waiters \cup ToSet(pending) THEN Told(r, "error") ELSE calls[r]]
  /\ waiters' = {} /\ pending' = <<>>
  /\ UNCHANGED <<addr, cache, scanning, worker, sent, scans, movedNow, moved, bound>>

\* handle_info({discovery_result, {error, Reason}})
DiscoveryError ==
  /\ result # None /\ "error" \in DOMAIN result
  /\ result' = None
  /\ calls' = [r \in DOMAIN calls |->
                 IF r \in waiters \cup ToSet(pending) THEN Told(r, "error") ELSE calls[r]]
  /\ scanning' = FALSE /\ waiters' = {} /\ pending' = <<>>
  /\ UNCHANGED <<addr, cache, worker, sent, scans, movedNow, moved, bound>>

-----------------------------------------------------------------------------
(* Environment                                                              *)

\* DHCP gives a lamp another address, perhaps one that another lamp has just left.
Move(n, a) ==
  /\ moves < MaxMoves /\ moves' = moves + 1
  /\ \A l \in Lamp : addr[l] # a
  /\ addr' = [addr EXCEPT ![n] = a]
  /\ movedNow' = movedNow \cup {n} /\ moved' = moved \cup {n}
  /\ UNCHANGED <<state, calls, sent, scans, restarts>>

\* The process dies, with its callers' calls, and is restarted; a worker of before
\* reports to nobody.
Restart ==
  /\ restarts < MaxRestarts /\ restarts' = restarts + 1
  /\ cache' = [n \in Mac |-> None]
  /\ scanning' = FALSE /\ waiters' = {} /\ pending' = <<>>
  /\ worker' = None /\ result' = None
  /\ calls' = [r \in DOMAIN calls |-> Told(r, "exit")]
  /\ UNCHANGED <<addr, sent, scans, movedNow, moved, moves>>

Next ==
  \/ \E n \in Name, action \in {"pilot", "get_state"} : Call(n, action)
  \/ Discover \/ Refresh
  \/ \E r \in DOMAIN calls : GivesUp(r)
  \/ \E a \in Address : Hear(a)
  \/ WorkerEnds \/ DiscoveryOk \/ DiscoveryError
  \/ \E n \in Mac, a \in Address : Move(n, a)
  \/ Restart

Spec == Init /\ [][Next]_vars

\* A discovery ends at its deadline, and the process handles its mailbox.
Fairness == WF_vars(WorkerEnds) /\ WF_vars(DiscoveryOk \/ DiscoveryError)
FairSpec == Spec /\ Fairness

-----------------------------------------------------------------------------
(* Properties                                                               *)

\* Whoever is parked waits for a discovery that is under way: the flag is up exactly
\* while one worker runs or its result waits, whatever fails, times out or restarts.
ScanBacked ==
  /\ scanning <=> (worker # None \/ result # None)
  /\ worker = None \/ result = None
  /\ pending # <<>> \/ waiters # {} => scanning
  /\ \A r \in DOMAIN calls :
       calls[r].status = "parked" => r \in waiters \cup ToSet(pending)

Sender(i) == calls[sent[i].call]

\* Commands to one lamp reach the network in the order in which they were given, except
\* those that were parked behind the same discovery: these come out exactly reversed,
\* so the oldest of them has the last word.
OrderKept ==
  \A i, j \in DOMAIN sent :
    i < j /\ Sender(i).name = Sender(j).name =>
      (sent[i].call < sent[j].call)
        <=> (Sender(i).batch = 0 \/ Sender(i).batch # Sender(j).batch)

\* What a caller of set_power and the like is told is true: ok of a command that was
\* sent, once; an error of one that was not.  Only a caller that gave up, or
\* whose call died with the process, does not know; a handler is one step, so the
\* process does not die between its send and its reply.
HonestAnswers ==
  \A r \in DOMAIN calls :
    LET times == Cardinality({i \in DOMAIN sent : sent[i].call = r})
    IN  /\ times <= 1
        /\ calls[r].action = "pilot" /\ calls[r].status = "ok" => times = 1
        /\ calls[r].status \in {"error", "exit", "parked"} => times = 0

\* The cache has the address of a lamp, unless the lamp moved after the discovery that
\* told it had started; in particular a discovery that hears a lamp heals its entry.
CacheFresh ==
  \A n \in Mac : cache[n] \in {None, addr[n]} \/ n \in moved

\* Nobody waits forever: whatever a discovery meets, a moment comes when every parked
\* caller has been answered (or has given up, or the process was restarted).
EventuallyAnswered ==
  scanning ~> (pending = <<>> /\ waiters = {})
=============================================================================
