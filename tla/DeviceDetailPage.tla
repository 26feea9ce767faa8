-------------------------- MODULE DeviceDetailPage --------------------------
(* The page of one device: a single component that stays mounted when the     *)
(* route moves to another device.  Its loads are numbered by a request        *)
(* sequence, of which only the newest counts; its first load may be followed  *)
(* by an attempt to connect the device, and that by another load.             *)
EXTENDS Integers, FiniteSets

CONSTANTS
  Devices,         \* devices the route may move between
  Loads,           \* load calls that may be waiting for an answer
  Connects,        \* connection attempts that may be waiting
  NoDevice

ASSUME PageAssumption == NoDevice \notin Devices

VARIABLES
  route,           \* deviceId
  shown,           \* the device whose data the page shows
  refreshInFlight,
  autoTried,       \* the device the page has tried to connect
  load,            \* per load call: its device, whether its token is current, what follows
  connect          \* per attempt: its device

pageVars == <<route, shown, refreshInFlight, autoTried, load, connect>>

-----------------------------------------------------------------------------
NoLoad  == [device |-> NoDevice, isCurrent |-> FALSE, first |-> FALSE, retried |-> FALSE]
MaybeDevice == Devices \cup {NoDevice}
Waiting(l)  == load[l].device # NoDevice

PageTypeOK ==
  /\ {route, shown, autoTried} \subseteq MaybeDevice
  /\ refreshInFlight \in BOOLEAN
  /\ load \in [Loads -> [device : MaybeDevice, isCurrent : BOOLEAN, first : BOOLEAN, retried : BOOLEAN]]
  /\ connect \in [Connects -> MaybeDevice]

PageInit ==
  /\ route = NoDevice /\ shown = NoDevice /\ autoTried = NoDevice
  /\ refreshInFlight = FALSE
  /\ load = [l \in Loads |-> NoLoad]
  /\ connect = [c \in Connects |-> NoDevice]

\* loadSequence.invalidate: no token handed out so far is current any more.
Invalidated == [l \in Loads |-> [load[l] EXCEPT !.isCurrent = FALSE]]

\* load(), past its guard: begin() makes this the one that counts.
Begin(device, first, retried) ==
  /\ \E l \in Loads : ~Waiting(l)
  /\ load' = [Invalidated EXCEPT ![CHOOSE l \in Loads : ~Waiting(l)] =
                [device |-> device, isCurrent |-> TRUE, first |-> first, retried |-> retried]]
  /\ refreshInFlight' = TRUE

-----------------------------------------------------------------------------
\* The route moves: the effect of the old device is cleaned up and that of the new
\* one run, which loads it.
Navigate(device) ==
  /\ device # route
  /\ route' = device /\ shown' = NoDevice /\ autoTried' = NoDevice
  /\ Begin(device, TRUE, FALSE)
  /\ UNCHANGED connect

\* The interval, or the button, once something is shown.
Refresh(device) ==
  /\ device = route /\ shown # NoDevice /\ ~refreshInFlight
  /\ Begin(device, FALSE, FALSE)
  /\ UNCHANGED <<route, shown, autoTried, connect>>

\* An answer whose token is not current is dropped.
LoadDropped(l) ==
  /\ Waiting(l) /\ ~load[l].isCurrent
  /\ load' = [load EXCEPT ![l] = NoLoad]
  /\ UNCHANGED <<route, shown, refreshInFlight, autoTried, connect>>

\* The device was found, or not, or the call failed (what is shown stays).  After
\* the first load of a visit an offline device is connected, once.
LoadAnswered_AlwaysShown(l) ==
  /\ Waiting(l)
  /\ shown' = load[l].device
  /\ load' = [load EXCEPT ![l] = NoLoad]
  /\ refreshInFlight' = (refreshInFlight /\ ~load[l].isCurrent)
  /\ UNCHANGED <<route, autoTried, connect>>
LoadAnswered(l) ==
  LET device == load[l].device IN
  /\ Waiting(l) /\ load[l].isCurrent
  /\ shown' \in {device, NoDevice, shown}
  /\ load' = [load EXCEPT ![l] = NoLoad]
  /\ refreshInFlight' = FALSE
  /\ \/ UNCHANGED <<autoTried, connect>>
     \/ /\ load[l].first /\ autoTried # device
        /\ autoTried' = device
        /\ \E c \in Connects : connect[c] = NoDevice /\ connect' = [connect EXCEPT ![c] = device]
  /\ UNCHANGED route

\* The attempt is over: load() again, for the device the attempt was made for.
ConnectReturns(c) ==
  /\ connect[c] # NoDevice
  /\ IF refreshInFlight THEN UNCHANGED <<load, refreshInFlight>>
     ELSE Begin(connect[c], FALSE, TRUE)
  /\ connect' = [connect EXCEPT ![c] = NoDevice]
  /\ UNCHANGED <<route, shown, autoTried>>

PageNext ==
  \/ \E device \in Devices : Navigate(device) \/ Refresh(device)
  \/ \E l \in Loads : LoadDropped(l) \/ LoadAnswered(l)
  \/ \E c \in Connects : ConnectReturns(c)

PageSpec == PageInit /\ [][PageNext]_pageVars

-----------------------------------------------------------------------------
(* Properties.                                                             *)

\* Only the load that follows a connection attempt can bring another device than the
\* route's onto the page: answers that arrive late, in any order, are dropped.
LateAnswersAreDropped ==
  [][shown' # shown /\ shown' \notin {route', NoDevice} =>
       \E l \in Loads : load[l].isCurrent /\ load[l].retried /\ load[l].device = shown']_pageVars
=============================================================================
