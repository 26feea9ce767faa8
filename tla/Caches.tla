------------------------------- MODULE Caches -------------------------------
(* The time-limited caches of the desktop for what docker reports: the docker *)
(* page's information and the device list.  A reader looks, probes when there *)
(* is nothing recent and stores what it found; a command that changes a       *)
(* container empties both slots when docker has answered.  Each look, store   *)
(* and invalidation holds the slot's lock, and nothing is held in between.    *)
EXTENDS Integers

CONSTANTS
  Readers,         \* get_docker_info, refresh_docker_info and list_devices calls
  Changers,        \* start, stop, restart, remove and rename calls
  MaxVersion,      \* bound: changes to the containers
  MaxClock         \* bound: ticks of the clock

ASSUME CacheAssumption == {MaxVersion, MaxClock} \subseteq Nat

VARIABLES
  reported,        \* the version of what docker would report now
  clock,
  slot,            \* per cache: the version stored, when, and whether cleanly
  reader,          \* per reader: its place, its cache, what it probed
  changer,         \* per command: its place and the version it made
  settled          \* per cache: the version the last emptying of it answers for

cacheVars == <<reported, clock, slot, reader, changer, settled>>

-----------------------------------------------------------------------------
Slots    == {"docker", "devices"}
Ttl(s)   == IF s = "docker" THEN 3 ELSE 2
Empty    == [full |-> FALSE, version |-> 0, at |-> 0, clean |-> TRUE]
Reading  == [pc |-> "idle", slot |-> "docker", version |-> 0, clean |-> TRUE]
Versions == 0..MaxVersion

CacheTypeOK ==
  /\ reported \in Versions /\ clock \in 0..MaxClock
  /\ slot \in [Slots -> [full : BOOLEAN, version : Versions, at : 0..MaxClock, clean : BOOLEAN]]
  /\ reader \in [Readers -> [pc : {"idle", "probing", "storing"}, slot : Slots, version : Versions, clean : BOOLEAN]]
  /\ changer \in [Changers -> [pc : {"idle", "docker", "devices"}, version : Versions]]
  /\ settled \in [Slots -> Versions]

CacheInit ==
  /\ reported = 0 /\ clock = 0
  /\ slot = [s \in Slots |-> Empty]
  /\ reader = [r \in Readers |-> Reading]
  /\ changer = [c \in Changers |-> [pc |-> "idle", version |-> 0]]
  /\ settled = [s \in Slots |-> 0]

Later(a, b) == IF a > b THEN a ELSE b

\* Empty one slot, on behalf of a change: a fill under way will store an older value.
Invalidate(s, version) ==
  /\ slot' = [slot EXCEPT ![s] = Empty]
  /\ settled' = [settled EXCEPT ![s] = Later(@, version)]
  /\ reader' = [r \in Readers |->
       IF reader[r].pc = "storing" /\ reader[r].slot = s THEN [reader[r] EXCEPT !.clean = FALSE] ELSE reader[r]]

-----------------------------------------------------------------------------
Recent(s) == slot[s].full /\ clock - slot[s].at < Ttl(s)

\* A recent value is the answer, except for a forced look.
Look(r, s) ==
  /\ reader[r].pc = "idle" /\ ~Recent(s)
  /\ reader' = [reader EXCEPT ![r] = [Reading EXCEPT !.pc = "probing", !.slot = s]]
  /\ UNCHANGED <<reported, clock, slot, changer, settled>>
LookFresh(r) ==
  /\ reader[r].pc = "idle"
  /\ slot' = [slot EXCEPT !["docker"] = Empty]
  /\ reader' = [q \in Readers |->
       IF q = r THEN [Reading EXCEPT !.pc = "probing"]
       ELSE IF reader[q].pc = "storing" /\ reader[q].slot = "docker" THEN [reader[q] EXCEPT !.clean = FALSE]
       ELSE reader[q]]
  /\ UNCHANGED <<reported, clock, changer, settled>>

Probe(r) ==
  /\ reader[r].pc = "probing"
  /\ reader' = [reader EXCEPT ![r].pc = "storing", ![r].version = reported]
  /\ UNCHANGED <<reported, clock, slot, changer, settled>>

Store(r) ==
  /\ reader[r].pc = "storing"
  /\ slot' = [slot EXCEPT ![reader[r].slot] =
       [full |-> TRUE, version |-> reader[r].version, at |-> clock, clean |-> reader[r].clean]]
  /\ reader' = [reader EXCEPT ![r] = Reading]
  /\ UNCHANGED <<reported, clock, changer, settled>>

-----------------------------------------------------------------------------
\* docker carries the change out; then one slot is emptied after the other.
Change(c) ==
  /\ changer[c].pc = "idle" /\ reported < MaxVersion
  /\ reported' = reported + 1
  /\ changer' = [changer EXCEPT ![c] = [pc |-> "docker", version |-> reported + 1]]
  /\ UNCHANGED <<clock, slot, reader, settled>>

InvalidateDocker(c) ==
  /\ changer[c].pc = "docker"
  /\ Invalidate("docker", changer[c].version)
  /\ changer' = [changer EXCEPT ![c].pc = "devices"]
  /\ UNCHANGED <<reported, clock>>

InvalidateDevices_Keeps(c) ==
  /\ changer[c].pc = "devices"
  /\ settled' = [settled EXCEPT !["devices"] = Later(@, changer[c].version)]
  /\ changer' = [changer EXCEPT ![c] = [pc |-> "idle", version |-> 0]]
  /\ UNCHANGED <<reported, clock, slot, reader>>
InvalidateDevices(c) ==
  /\ changer[c].pc = "devices"
  /\ Invalidate("devices", changer[c].version)
  /\ changer' = [changer EXCEPT ![c] = [pc |-> "idle", version |-> 0]]
  /\ UNCHANGED <<reported, clock>>

Tick ==
  /\ clock < MaxClock
  /\ clock' = clock + 1
  /\ UNCHANGED <<reported, slot, reader, changer, settled>>

CacheNext ==
  \/ \E r \in Readers : (\E s \in Slots : Look(r, s)) \/ LookFresh(r) \/ Probe(r) \/ Store(r)
  \/ \E c \in Changers : Change(c) \/ InvalidateDocker(c) \/ InvalidateDevices(c)
  \/ Tick

CacheSpec == CacheInit /\ [][CacheNext]_cacheVars

-----------------------------------------------------------------------------
(* Properties.                                                             *)

\* What a command changed is seen by every later look at either cache, for as long as
\* its answer is taken from the cache at all, unless a probe that began before the slot
\* was emptied stored its answer after it.
ChangesAreSeen ==
  \A s \in Slots : Recent(s) /\ slot[s].version < settled[s] => ~slot[s].clean
=============================================================================
