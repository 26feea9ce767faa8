---------------------------- MODULE IdleRelease -----------------------------
(* Memory reclamation beside the start gate: runtime_release_idle, the        *)
(* automatic release that a critically blocked start makes, and the activity  *)
(* records both decide by, composed with the containers and nodes they act on *)
(* and with the starts, seen as a StartGate (which RuntimeScheduler           *)
(* implements).  A qemu-center call is one action: it may fail, and a stop or *)
(* a start that the caller sees fail (its time limit ran out) may have taken  *)
(* effect.                                                                    *)
EXTENDS Naturals, FiniteSets, TLC

CONSTANTS
  Vms, Instances,
  Protected,       \* instances in runtime_protected_instance_ids
  Releases,        \* concurrent runtime_release_idle calls
  AutoReleases,    \* concurrent try_auto_release_idle_instance calls
  None             \* no request

ASSUME IdleReleaseAssumption ==
  /\ Protected \subseteq Instances
  /\ None \notin [vm : Vms, instance : Instances]

VARIABLES
  running, waiting,  \* the start gate
  launched,          \* starts in flight whose redroid_start has succeeded
  up,                \* containers that run, as <<node, instance>> records
  nodesUp,           \* QEMU nodes that run
  activity,          \* per instance: the age of its newest activity record
  autoSlot,          \* reclaim_in_flight
  auto,              \* per automatic release: its place and what it holds
  release            \* per release call: its place and what it holds

gateVars  == <<running, waiting>>
worldVars == <<up, nodesUp>>
vars == <<gateVars, launched, worldVars, activity, autoSlot, auto, release>>

-----------------------------------------------------------------------------
Request == [vm : Vms, instance : Instances]
Age     == {"none", "fresh", "stale"}      \* stale: older than the idle timeout
Status  == {"running", "stopped", "unknown"}

AutoIdle    == [pc |-> "idle", target |-> None, candidates |-> {}, victim |-> None]
ReleaseIdle == [pc |-> "idle", target |-> None, keepWarm |-> FALSE, seen |-> {}]

Gate == INSTANCE StartGate

TypeOK ==
  /\ running \subseteq Request /\ waiting \subseteq Request /\ launched \subseteq running
  /\ up \subseteq Request /\ nodesUp \subseteq Vms
  /\ activity \in [Instances -> Age]
  /\ autoSlot \in BOOLEAN
  /\ auto \in [AutoReleases -> [pc : {"idle", "listing", "stopping", "finishing"},
                                target : Request \cup {None},
                                candidates : SUBSET Instances, victim : Request \cup {None}]]
  /\ release \in [Releases -> [pc : {"idle", "stopping", "listing", "nodeStopping", "clearing"},
                               target : Request \cup {None},
                               keepWarm : BOOLEAN, seen : SUBSET Request]]

\* SchedulerState::is_reclaimable: unprotected, known, and idle for long enough.
IsReclaimable(i) == i \notin Protected /\ activity[i] = "stale"

Containers(vm) == {c \in up : c.vm = vm}

\* A redroid_list_basic answer for a node: a row per instance, with what docker
\* says of it, or "unknown" where docker or the node gave no answer.
Listings(vm) ==
  {l \in [Instances -> Status] :
     \A i \in Instances : l[i] # "unknown" =>
       /\ vm \in nodesUp
       /\ l[i] = "running" <=> [vm |-> vm, instance |-> i] \in up}

\* should_stop_vm_after_idle_release, for a listing that was read.
ShouldStopNode_TrustsUnknown(listing, i) == \A j \in Instances \ {i} : listing[j] # "running"
ShouldStopNode(listing, i) == \A j \in Instances \ {i} : listing[j] = "stopped"

-----------------------------------------------------------------------------
(* Starts and activity.                                                    *)

\* A start is admitted, queued, or gives up its place in the queue.
GateMoves ==
  /\ \E r \in Request : Gate!Enter(r) \/ Gate!Wait(r) \/ Gate!Leave(r)
  /\ UNCHANGED <<launched, worldVars, activity, autoSlot, auto, release>>

LaunchSucceeds_WhileQueued(r) ==
  /\ r \in (running \cup waiting) \ launched
  /\ r.vm \in nodesUp
  /\ launched' = launched \cup {r}
  /\ up' = up \cup {r}
  /\ UNCHANGED <<gateVars, nodesUp, activity, autoSlot, auto, release>>

\* qemu::redroid_start succeeds.
LaunchSucceeds(r) ==
  /\ r \in running \ launched
  /\ r.vm \in nodesUp
  /\ launched' = launched \cup {r}
  /\ up' = up \cup {r}
  /\ UNCHANGED <<gateVars, nodesUp, activity, autoSlot, auto, release>>

\* The start that succeeded is marked as activity and finished.
FinishSuccess(r) ==
  /\ r \in launched
  /\ Gate!Finish(r)
  /\ launched' = launched \ {r}
  /\ activity' = [activity EXCEPT ![r.instance] = "fresh"]
  /\ UNCHANGED <<worldVars, autoSlot, auto, release>>

\* The start was aborted, or failed, perhaps after the container came up.
FinishFailure(r) ==
  /\ r \in running \ launched
  /\ Gate!Finish(r)
  /\ up' \in IF r.vm \in nodesUp THEN {up, up \cup {r}} ELSE {up}
  /\ UNCHANGED <<launched, nodesUp, activity, autoSlot, auto, release>>

\* runtime_mark_activity.
MarkActivity(i) ==
  /\ activity' = [activity EXCEPT ![i] = "fresh"]
  /\ UNCHANGED <<gateVars, launched, worldVars, autoSlot, auto, release>>

\* The idle timeout passes without a new mark.
BecomeIdle(i) ==
  /\ activity[i] = "fresh"
  /\ activity' = [activity EXCEPT ![i] = "stale"]
  /\ UNCHANGED <<gateVars, launched, worldVars, autoSlot, auto, release>>

\* clear_instance.
Forget(i) == activity' = [activity EXCEPT ![i] = "none"]

\* The user starts a node again.
StartNode(vm) ==
  /\ vm \notin nodesUp
  /\ nodesUp' = nodesUp \cup {vm}
  /\ UNCHANGED <<gateVars, launched, up, activity, autoSlot, auto, release>>

-----------------------------------------------------------------------------
(* try_auto_release_idle_instance.                                         *)


\* Under the lock: take the slot and a snapshot of the idle instances.
AutoBegin(a, r) ==
  /\ auto[a].pc = "idle"
  /\ ~autoSlot
  /\ autoSlot' = TRUE
  /\ auto' = [auto EXCEPT ![a] = [pc |-> "listing", target |-> r, victim |-> None,
                                  candidates |-> {i \in Instances : IsReclaimable(i)}]]
  /\ UNCHANGED <<gateVars, launched, worldVars, activity, release>>

\* Without it: list the node, pick a candidate that runs there, never the target.
AutoList(a) ==
  LET vm == auto[a].target.vm IN
  /\ auto[a].pc = "listing"
  /\ \E listing \in Listings(vm), answered \in BOOLEAN :
       LET eligible == {i \in auto[a].candidates \ {auto[a].target.instance} :
                          answered /\ listing[i] = "running"}
       IN \/ /\ eligible = {}
             /\ auto' = [auto EXCEPT ![a].pc = "finishing"]
          \/ \E i \in eligible :
               auto' = [auto EXCEPT ![a].pc = "stopping",
                                    ![a].victim = [vm |-> vm, instance |-> i]]
  /\ UNCHANGED <<gateVars, launched, worldVars, activity, autoSlot, release>>

\* qemu::redroid_stop; `success` is what the caller sees.
AutoStop(a, success) ==
  /\ auto[a].pc = "stopping"
  /\ success => auto[a].victim.vm \in nodesUp
  /\ up' \in IF success THEN {up \ {auto[a].victim}} ELSE {up, up \ {auto[a].victim}}
  /\ auto' = [auto EXCEPT ![a].pc = "finishing",
                          ![a].victim = IF success THEN @ ELSE None]
  /\ UNCHANGED <<gateVars, launched, nodesUp, activity, autoSlot, release>>

\* Under the lock again: give the slot back, forget the instance that was stopped.
AutoFinish(a) ==
  /\ auto[a].pc = "finishing"
  /\ autoSlot' = FALSE
  /\ IF auto[a].victim = None THEN UNCHANGED activity ELSE Forget(auto[a].victim.instance)
  /\ auto' = [auto EXCEPT ![a] = AutoIdle]
  /\ UNCHANGED <<gateVars, launched, worldVars, release>>

-----------------------------------------------------------------------------
(* runtime_release_idle.                                                   *)

\* Under the lock: refuse, or note whether the node is to be kept warm (the
\* setting, overridden when the host is critical) and go on without the lock.
ReleaseDecide(x, r, warm) ==
  /\ release[x].pc = "idle"
  /\ IsReclaimable(r.instance)
  /\ release' = [release EXCEPT ![x] = [pc |-> "stopping", target |-> r, keepWarm |-> warm,
                                        seen |-> {}]]
  /\ UNCHANGED <<gateVars, launched, worldVars, activity, autoSlot, auto>>

\* qemu::redroid_stop; a failure ends the call with the record kept.
ReleaseStop(x, success) ==
  LET r == release[x].target IN
  /\ release[x].pc = "stopping"
  /\ success => r.vm \in nodesUp
  /\ up' \in IF success THEN {up \ {r}} ELSE {up, up \ {r}}
  /\ release' = IF success
                THEN [release EXCEPT ![x].pc =
                        IF release[x].keepWarm THEN "clearing" ELSE "listing"]
                ELSE [release EXCEPT ![x] = ReleaseIdle]
  /\ UNCHANGED <<gateVars, launched, nodesUp, activity, autoSlot, auto>>

\* The fresh listing that decides whether the node is stopped too.  What really
\* ran there is remembered in `seen`, for the properties only.
ReleaseList(x) ==
  LET r == release[x].target IN
  /\ release[x].pc = "listing"
  /\ \E listing \in Listings(r.vm), answered \in BOOLEAN :
       release' = [release EXCEPT
         ![x].pc = IF answered /\ ShouldStopNode(listing, r.instance)
                   THEN "nodeStopping" ELSE "clearing",
         ![x].seen = Containers(r.vm)]
  /\ UNCHANGED <<gateVars, launched, worldVars, activity, autoSlot, auto>>

ReleaseNodeStop_ClearsAnyway(x, success) ==
  LET r == release[x].target IN
  /\ release[x].pc = "nodeStopping"
  /\ nodesUp' = nodesUp \ {r.vm} /\ up' = up \ Containers(r.vm)
  /\ Forget(r.instance)
  /\ release' = [release EXCEPT ![x] = ReleaseIdle]
  /\ UNCHANGED <<gateVars, launched, autoSlot, auto>>

\* qemu::vm_stop takes the node and every container on it down; a failure ends
\* the call with the record kept.
ReleaseNodeStop(x, success) ==
  LET r == release[x].target IN
  /\ release[x].pc = "nodeStopping"
  /\ \/ nodesUp' = nodesUp \ {r.vm} /\ up' = up \ Containers(r.vm)
     \/ ~success /\ UNCHANGED worldVars
  /\ release' = IF success THEN [release EXCEPT ![x].pc = "clearing"]
                           ELSE [release EXCEPT ![x] = ReleaseIdle]
  /\ UNCHANGED <<gateVars, launched, activity, autoSlot, auto>>

\* clear_instance, and the answer "released".
ReleaseClear(x) ==
  /\ release[x].pc = "clearing"
  /\ Forget(release[x].target.instance)
  /\ release' = [release EXCEPT ![x] = ReleaseIdle]
  /\ UNCHANGED <<gateVars, launched, worldVars, autoSlot, auto>>

-----------------------------------------------------------------------------
\* The desktop program starts with an empty scheduler, beside whatever runs.
Init ==
  /\ Gate!Init
  /\ launched = {}
  /\ nodesUp \in SUBSET Vms
  /\ up \in SUBSET {c \in Request : c.vm \in nodesUp}
  /\ activity = [i \in Instances |-> "none"]
  /\ autoSlot = FALSE
  /\ auto = [a \in AutoReleases |-> AutoIdle]
  /\ release = [x \in Releases |-> ReleaseIdle]

StartStep ==
  \/ GateMoves
  \/ \E r \in Request : LaunchSucceeds(r) \/ FinishSuccess(r) \/ FinishFailure(r)

AutoStep(a) ==
  \/ \E r \in Request : AutoBegin(a, r)
  \/ AutoList(a)
  \/ \E success \in BOOLEAN : AutoStop(a, success)
  \/ AutoFinish(a)

ReleaseStep(x) ==
  \/ \E r \in Request, warm \in BOOLEAN : ReleaseDecide(x, r, warm)
  \/ \E success \in BOOLEAN : ReleaseStop(x, success) \/ ReleaseNodeStop(x, success)
  \/ ReleaseList(x)
  \/ ReleaseClear(x)

Next ==
  \/ StartStep
  \/ \E i \in Instances : MarkActivity(i) \/ BecomeIdle(i)
  \/ \E vm \in Vms : StartNode(vm)
  \/ \E a \in AutoReleases : AutoStep(a)
  \/ \E x \in Releases : ReleaseStep(x)

Spec == Init /\ [][Next]_vars

-----------------------------------------------------------------------------
(* Properties.                                                             *)

\* A release goes on to stop the node only if, when its listing was taken, nothing
\* but the released instance ran there, whatever docker failed to report: an
\* unknown status, or no listing at all, keeps the node.
NodeStopFailsClosed ==
  \A x \in Releases : release[x].pc = "nodeStopping" =>
    \A c \in release[x].seen : c.instance = release[x].target.instance

\* A call is at its end, and has stopped the instance.
HasStopped(i) ==
  \/ \E x \in Releases : release[x].pc = "clearing" /\ release[x].target.instance = i
  \/ \E a \in AutoReleases : /\ auto[a].pc = "finishing" /\ auto[a].victim # None
                             /\ auto[a].victim.instance = i

\* An instance loses its activity records only at the end of a call that stopped
\* it; a stop that fails at any stage leaves them, so that it can be retried.
Forgets(i) == activity[i] # "none" /\ activity'[i] = "none"
ForgottenOnlyWhenStopped == [][\A i \in Instances : Forgets(i) => HasStopped(i)]_vars

\* "Active, unknown, and protected instances stay running", as the user is told
\* before a release: no container that a release takes down, with its node or by
\* itself, is protected or has been used within the idle timeout.
SparedStayRunning ==
  [][\A c \in up \ up' : c.instance \notin Protected /\ activity[c.instance] # "fresh"]_vars

\* A release neither takes a node down that others may use nor forgets an instance it
\* did not stop, at whichever stage of it docker or the node fails.
ReleasesAreCareful == ForgottenOnlyWhenStopped /\ [](/\ NodeStopFailsClosed)
=============================================================================
