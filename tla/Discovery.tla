------------------------------ MODULE Discovery ------------------------------
(***************************************************************************)
(* Discovery and pairing (myhome_discovery.erl): which Hue bulbs the       *)
(* system has.  A bulb is registered in three places that nothing keeps    *)
(* in step but this process: NVS, as the numbered keys bulb_1_addr,        *)
(* bulb_2_addr, ...; the children of myhome_sup, named bulb_1, bulb_2,     *)
(* ..., one process per bulb; and the list #state.config.                  *)
(*                                                                         *)
(* Numbers are chosen by looking at the registered processes, NVS is read  *)
(* up to the first key that is missing, and known bulbs are recognised by  *)
(* the list.  Discovery pairs for minutes; it, a bulb process or the whole *)
(* ESP32 can restart at any moment, and the NVS can fail.  The connect and *)
(* bond calls of one pairing and the display names are left out.           *)
(***************************************************************************)
EXTENDS Naturals, Sequences, SequencesExt

CONSTANTS
  Address,         \* addresses
  NoAddress,
  Loaded,       \* load_bulbs reads the keys of the numbers up to here, 4
  Numbered,     \* next_bulb_number tries the numbers up to here, 8
  MaxFound,     \* bound: bulbs that one scan finds
  MaxRuns,      \* bound: discoveries that find new bulbs
  MaxRemovals,  \* bound: remove_bulb
  MaxFailures,  \* bound: failed pairings and NVS accesses
  MaxRestarts   \* bound: restarts and crashes

ASSUME DiscoveryAssumption ==
  /\ NoAddress \notin Address
  /\ {Loaded, Numbered, MaxFound} \subseteq Nat \ {0}
  /\ Loaded <= Numbered
  /\ {MaxRuns, MaxRemovals, MaxFailures, MaxRestarts} \subseteq Nat

\* The numbers that pair_all can reach
Number == 1 .. Numbered + MaxFound

VARIABLES
  nvs,     \* bulb_<N>_addr, by number
  child,   \* children of myhome_sup, by number: the address the process was started with
  down,    \* crashed processes that the supervisor has not restarted yet
  config,  \* #state.config, whose order nobody reads: a set of entries <<number, bulb>>
  phase,   \* "boot" (init_bulbs waits), "idle", or the stage of a discovery
  todo,    \* bulbs still to pair
  next,    \* the number for the next of them (when all are paired: the one after the last)
  paired,  \* Paired
  holed,   \* history: the numbers in use were not 1 .. k once, k <= Loaded
  failed,  \* history: an NVS access failed
  runs, removals, failures, restarts

registry  == <<nvs, child, down, config>>
job       == <<phase, todo, next, paired>>
bound     == <<runs, removals, failures, restarts>>
discovery == <<registry, job, holed, failed, bound>>

Nothing == [n \in Number |-> NoAddress]
Used(f) == {n \in Number : f[n] # NoAddress}

\* The numbers in use are not 1 .. k with k <= Loaded.
Hole(f) == \A k \in 0 .. Loaded : Used(f) # 1 .. k

DiscoveryInit ==
  /\ nvs = Nothing /\ child = Nothing /\ down = {} /\ config = {}
  /\ phase = "boot" /\ todo = <<>> /\ next = 1 /\ paired = <<>>
  /\ holed = FALSE /\ failed = FALSE
  /\ runs = 0 /\ removals = 0 /\ failures = 0 /\ restarts = 0

Fails    == failures < MaxFailures /\ failures' = failures + 1
Restarts == restarts < MaxRestarts /\ restarts' = restarts + 1
Watch    == holed' = (holed \/ Hole(nvs') \/ Hole(child'))

-----------------------------------------------------------------------------
(* NVS and children                                                         *)

\* load_bulbs: up to the first missing key, and Loaded.  Reads do not fail here; one
\* that did would be another of the failures (failed).
LoadBulbs ==
  {<<n, nvs[n]>> : n \in {m \in 1 .. Loaded : \A i \in 1 .. m : nvs[i] # NoAddress}}

\* start_bulb_children: a child that is already there stays what it is.
Start(c, entries) ==
  [n \in Number |->
     IF c[n] = NoAddress /\ \E e \in entries : e[1] = n
     THEN (CHOOSE e \in entries : e[1] = n)[2]
     ELSE c[n]]

\* handle_info(init_bulbs)
InitBulbs ==
  /\ phase = "boot"
  /\ phase' = "idle"
  /\ config' = LoadBulbs
  /\ child' = Start(child, LoadBulbs)
  /\ UNCHANGED <<nvs, down, todo, next, paired, failed, bound>>
  /\ Watch

-----------------------------------------------------------------------------
(* handle_call(run_discovery)                                               *)

Known == {e[2] : e \in config}

\* Mutant of SkipKnown: known bulbs pass.
SkipKnown_None(new) == TRUE

\* skip_known: what it leaves of the scan's result
SkipKnown(new) == ToSet(new) \cap Known = {}

\* whereis knows the name bulb_<n>.
Registered(n) == child[n] # NoAddress /\ n \notin down

\* next_bulb_number: the first that is not registered, or the one after the last
NextBulbNumber(n) ==
  /\ \A m \in 1 .. n - 1 : Registered(m)
  /\ n = Numbered + 1 \/ ~Registered(n)

\* do_discovery up to pair_all.  The number of a crashed process counts as a hole.
RunDiscovery(new) ==
  /\ phase = "idle"
  /\ runs < MaxRuns /\ runs' = runs + 1
  /\ SkipKnown(new) /\ new # <<>>
  /\ phase' = "pairing"
  /\ todo' = new
  /\ next' \in 1 .. Numbered + 1 /\ NextBulbNumber(next')
  /\ paired' = <<>>
  /\ holed' = (holed \/ next' \in down)
  /\ UNCHANGED <<registry, failed, removals, failures, restarts>>

\* pair_all: the number of a bulb that could not be paired is not used.
Pair ==
  /\ phase = "pairing" /\ todo # <<>>
  /\ \/ /\ paired' = Append(paired, <<next, Head(todo)>>)
        /\ UNCHANGED failures
     \/ Fails /\ UNCHANGED paired
  /\ todo' = Tail(todo) /\ next' = next + 1
  /\ UNCHANGED <<registry, phase, holed, failed, runs, removals, restarts>>

\* save_config, entry by entry (todo holds those still to save)
PairingEnds ==
  /\ phase = "pairing" /\ todo = <<>>
  /\ phase' = IF paired = <<>> THEN "idle" ELSE "saving"
  /\ todo' = paired
  /\ UNCHANGED <<registry, next, paired, holed, failed, bound>>

Save ==
  /\ phase = "saving" /\ todo # <<>>
  /\ \/ /\ nvs' = [nvs EXCEPT ![Head(todo)[1]] = Head(todo)[2]]
        /\ UNCHANGED <<failed, failures>>
     \/ /\ Fails
        /\ failed' = TRUE
        /\ UNCHANGED nvs
  /\ todo' = Tail(todo)
  /\ UNCHANGED child
  /\ Watch
  /\ UNCHANGED <<down, config, phase, next, paired, runs, removals, restarts>>

\* start_bulb_children and the reply
Register ==
  /\ phase = "saving" /\ todo = <<>>
  /\ phase' = "idle"
  /\ child' = Start(child, ToSet(paired))
  /\ config' = config \cup ToSet(paired)
  /\ paired' = <<>>
  /\ UNCHANGED nvs
  /\ Watch
  /\ UNCHANGED <<down, todo, next, failed, bound>>

-----------------------------------------------------------------------------
(* handle_call({remove_bulb, Name})                                         *)

\* Mutant of Erase: the key stays.
Erase_Not(n) == UNCHANGED <<nvs, failed, failures>>

\* A failed erase is not noticed.
Erase(n) ==
  \/ nvs' = [nvs EXCEPT ![n] = NoAddress] /\ UNCHANGED <<failed, failures>>
  \/ Fails /\ failed' = TRUE /\ UNCHANGED nvs

\* Mutant of Terminated: the child is deleted, but the supervisor restarts it still.
Terminated_Restarts(n) == child' = [child EXCEPT ![n] = NoAddress] /\ UNCHANGED down

\* terminate_child, delete_child
Terminated(n) == child' = [child EXCEPT ![n] = NoAddress] /\ down' = down \ {n}

RemoveBulb(n) ==
  /\ phase = "idle"
  /\ removals < MaxRemovals /\ removals' = removals + 1
  /\ Erase(n)
  /\ Terminated(n)
  /\ config' = {e \in config : e[1] # n}
  /\ Watch
  /\ UNCHANGED <<job, runs, restarts>>

-----------------------------------------------------------------------------
(* Crashes and restarts                                                     *)

ChildCrash(n) ==
  /\ Restarts
  /\ child[n] # NoAddress /\ n \notin down
  /\ down' = down \cup {n}
  /\ UNCHANGED <<nvs, child, config, job, holed, failed, runs, removals, failures>>

\* The supervisor restarts it with the arguments of its child specification.
ChildBack(n) ==
  /\ n \in down
  /\ down' = down \ {n}
  /\ UNCHANGED <<nvs, child, config, job, holed, failed, bound>>

\* init of a new discovery process; the children are the supervisor's and stay.
DiscoveryRestart ==
  /\ Restarts
  /\ config' = {}
  /\ phase' = "boot" /\ todo' = <<>> /\ next' = 1 /\ paired' = <<>>
  /\ UNCHANGED <<nvs, child, down, holed, failed, runs, removals, failures>>

\* The ESP32, or myhome_sup with its children, restarts.
SystemRestart ==
  /\ Restarts
  /\ child' = Nothing /\ down' = {} /\ config' = {}
  /\ phase' = "boot" /\ todo' = <<>> /\ next' = 1 /\ paired' = <<>>
  /\ UNCHANGED <<nvs, holed, failed, runs, removals, failures>>

Found == {f \in SeqOf(Address, MaxFound) : IsInjective(f)}

DiscoveryNext ==
  \/ InitBulbs
  \/ \E new \in Found : RunDiscovery(new)
  \/ Pair \/ PairingEnds \/ Save \/ Register
  \/ \E n \in Number : RemoveBulb(n) \/ ChildCrash(n) \/ ChildBack(n)
  \/ DiscoveryRestart \/ SystemRestart

DiscoverySpec == DiscoveryInit /\ [][DiscoveryNext]_discovery

-----------------------------------------------------------------------------
(* Properties                                                               *)

Registration == Number \X Address

\* Types of all variables.
TypeOK ==
  /\ nvs \in [Number -> Address \cup {NoAddress}] /\ child \in [Number -> Address \cup {NoAddress}]
  /\ down \subseteq Used(child)
  /\ config \subseteq Registration /\ paired \in Seq(Registration)
  /\ phase \in {"boot", "idle", "pairing", "saving"}
  /\ todo \in Seq(Address \cup Registration)
  /\ next \in 1 .. Numbered + MaxFound + 1
  /\ holed \in BOOLEAN /\ failed \in BOOLEAN
  /\ runs \in Nat /\ removals \in Nat /\ failures \in Nat /\ restarts \in Nat

Alike(f) == \E m, n \in Used(f) : m # n /\ f[m] = f[n]

\* As long as the numbers in use are 1 .. k, k <= 4, no bulb process is down while a
\* discovery picks its number, and no NVS access fails, the bookkeeping is sound at every
\* moment: a number means one bulb, in NVS and among the processes, no bulb has two, and no
\* two entries of the list share a number.  Otherwise a second bulb can
\* overwrite the key of a running one.
NumbersSound ==
  ~holed /\ ~failed =>
    /\ \A n \in Used(nvs) \cap Used(child) : nvs[n] = child[n]
    /\ ~Alike(nvs) /\ ~Alike(child)
    /\ \A d, e \in config : d[1] = e[1] => d = e

Entries(f) == {<<n, f[n]>> : n \in Used(f)}

\* Between discoveries, what the system says it has (the list), what runs, and what it
\* will have after the next restart (NVS) are the same bulbs, whenever and
\* wherever it was restarted before; unless a hole or a failed NVS access came first.
Remembered ==
  phase = "idle" /\ ~holed /\ ~failed =>
    config = Entries(child) /\ Entries(child) = Entries(nvs)
=============================================================================
