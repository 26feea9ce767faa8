-------------------------- MODULE RuntimeScheduler --------------------------
(***************************************************************************)
(* The start side of the desktop backend's runtime scheduler: the          *)
(* SchedulerState of services/runtime_scheduler.rs (start budget, starting *)
(* set, FIFO queue, reclaim slot), and the threads that run the            *)
(* runtime_request_start command of commands/mod.rs against it.            *)
(*                                                                         *)
(* Every command call is a blocking thread.  A thread holds the scheduler  *)
(* mutex only inside one action below; host probes and qemu-center calls   *)
(* happen between actions, with the mutex released, so any other thread    *)
(* may run there.  The host memory pressure is read by a probe whose       *)
(* answer nothing in the program constrains: each probe returns any value. *)
(***************************************************************************)
EXTENDS Naturals, FiniteSets, SequencesExt

CONSTANTS
  Threads,           \* concurrent runtime_request_start calls
  Vms,               \* QEMU nodes
  Instances,         \* redroid instance names; a name may exist on two nodes
  ParallelSettings,  \* values the user may give runtime_max_parallel_starts
  NoRequest          \* the request of a thread that runs no call

ASSUME RuntimeSchedulerAssumption ==
  /\ ParallelSettings \in SUBSET Nat
  /\ ParallelSettings # {}
  /\ NoRequest \notin [vm : Vms, instance : Instances]

VARIABLES
  settings,          \* the user's settings, read again at every update_policy
  policy,            \* SchedulerState.policy, the copy the scheduler decides by
  startsInFlight,    \* SchedulerState.starts_in_flight
  starting,          \* SchedulerState.starting
  queued,            \* SchedulerState.queued_starts
  reclaimInFlight,   \* SchedulerState.reclaim_in_flight
  pc,                \* where each thread is between two of its actions
  request,           \* the (vm, instance) of the thread's call
  pressure,          \* the thread's last memory-pressure reading
  outcome            \* the StartDecision the thread's last call returned

schedVars  == <<startsInFlight, starting, queued>>
threadVars == <<pc, request, pressure, outcome>>
vars == <<settings, policy, schedVars, reclaimInFlight, threadVars>>

-----------------------------------------------------------------------------
StartRequest   == [vm : Vms, instance : Instances]
MemoryPressure == {"Normal", "Caution", "Critical", "Unknown"}
StartDecision  == {"none", "Ready", "Blocked", "StartFailed",
                   "AlreadyTracked", "NotTracked", "TimedOut", "Cancelled"}
Policy         == [maxParallel : Nat \ {0}, autoRelease : BOOLEAN]

\* Where a thread can be while its call owns a tracked request.
InStarting == {"recheck", "launching", "launched", "launchFailed"}
Labels == {"idle", "admit", "guestReclaim", "autoRelease", "reclaiming",
           "readmit", "waiting"} \cup InStarting

TypeOK ==
  /\ settings \in [maxParallel : ParallelSettings, autoRelease : BOOLEAN]
  /\ policy \in Policy
  /\ startsInFlight \in Nat
  /\ starting \in SUBSET StartRequest
  /\ queued \in Seq(StartRequest)
  /\ reclaimInFlight \in BOOLEAN
  /\ pc \in [Threads -> Labels]
  /\ request \in [Threads -> StartRequest \cup {NoRequest}]
  /\ \A t \in Threads : pc[t] # "idle" => request[t] \in StartRequest
  /\ pressure \in [Threads -> MemoryPressure]
  /\ outcome \in [Threads -> StartDecision]

-----------------------------------------------------------------------------
(* Helpers of SchedulerState.  A definition named X_... is a plausible wrong *)
(* version of X, used only to see that a property notices it.                *)

AtLeastOne_Unclamped(n) == n
AtLeastOne(n) == IF n = 0 THEN 1 ELSE n

\* runtime_policy followed by update_policy, at the start of a locked section.
CurrentPolicy == [settings EXCEPT !.maxParallel = AtLeastOne(@)]

Tracked == starting \cup ToSet(queued)

IsBooting(vm) == \E r \in starting : r.vm = vm

HasOtherStart(r) == \E other \in Tracked : other # r

ShouldBlock_CriticalOnly(p, otherStart) == p = "Critical"
ShouldBlock(p, otherStart) == p = "Critical" \/ (p = "Unknown" /\ otherStart)

Goto(t, label) == pc' = [pc EXCEPT ![t] = label]

Return(t, decision) ==
  /\ Goto(t, "idle")
  /\ outcome' = [outcome EXCEPT ![t] = decision]
  /\ request' = [request EXCEPT ![t] = NoRequest]
  /\ pressure' = [pressure EXCEPT ![t] = "Normal"]

RequestStart_AnyNode(t, max) ==
  LET r == request[t] IN
  \/ /\ r \in Tracked
     /\ Return(t, "AlreadyTracked")
     /\ UNCHANGED schedVars
  \/ /\ r \notin Tracked
     /\ startsInFlight < max
     /\ startsInFlight' = startsInFlight + 1
     /\ starting' = starting \cup {r}
     /\ Goto(t, "recheck")
     /\ UNCHANGED <<queued, request, outcome, pressure>>

\* SchedulerState::request_start and the arm of the command that follows it.  The
\* reading that admitted the call is not used again: it is forgotten.
RequestStart(t, max) ==
  LET r == request[t] IN
  \/ /\ r \in Tracked
     /\ Return(t, "AlreadyTracked")
     /\ UNCHANGED schedVars
  \/ /\ r \notin Tracked
     /\ startsInFlight >= max \/ IsBooting(r.vm)
     /\ queued' = Append(queued, r)
     /\ Goto(t, "waiting")
     /\ pressure' = [pressure EXCEPT ![t] = "Normal"]
     /\ UNCHANGED <<startsInFlight, starting, request, outcome>>
  \/ /\ r \notin Tracked
     /\ startsInFlight < max
     /\ ~IsBooting(r.vm)
     /\ startsInFlight' = startsInFlight + 1
     /\ starting' = starting \cup {r}
     /\ Goto(t, "recheck")
     /\ pressure' = [pressure EXCEPT ![t] = "Normal"]
     /\ UNCHANGED <<queued, request, outcome>>

SlotsLeft_NoDecrement(r) == startsInFlight

\* finish_start's decrement: only a tracked start gives its slot back.
SlotsLeft(r) == IF r \in starting /\ startsInFlight > 0
                THEN startsInFlight - 1 ELSE startsInFlight

CanPromote_AnyNode(rest, left) == left < policy.maxParallel /\ queued # <<>>

CanPromote_OneTooMany(rest, left) ==
  /\ left <= policy.maxParallel
  /\ queued # <<>>
  /\ \A other \in rest : other.vm # Head(queued).vm

\* promote_next_start's test, with `rest` starting and `left` slots taken.
CanPromote(rest, left) ==
  /\ left < policy.maxParallel
  /\ queued # <<>>
  /\ \A other \in rest : other.vm # Head(queued).vm

FinishAndPromote_NoPromotion(r) ==
  /\ startsInFlight' = SlotsLeft(r)
  /\ starting' = starting \ {r}
  /\ UNCHANGED queued


\* SchedulerState::finish_start, then promote_next_start, under one lock.
FinishAndPromote(r) ==
  LET rest == starting \ {r} IN
  \/ /\ CanPromote(rest, SlotsLeft(r))
     /\ startsInFlight' = SlotsLeft(r) + 1
     /\ starting' = rest \cup {Head(queued)}
     /\ queued' = Tail(queued)
  \/ /\ ~CanPromote(rest, SlotsLeft(r))
     /\ startsInFlight' = SlotsLeft(r)
     /\ starting' = rest
     /\ UNCHANGED queued

-----------------------------------------------------------------------------
(* The environment.                                                        *)

\* The user saves new settings; the scheduler sees them at its next update_policy.
ChangeSettings ==
  /\ settings' \in [maxParallel : ParallelSettings, autoRelease : BOOLEAN]
  /\ UNCHANGED <<policy, schedVars, reclaimInFlight, threadVars>>

\* runtime_request_start is invoked: the first host probe runs before the lock.
Call(t) ==
  /\ pc[t] = "idle"
  /\ Goto(t, "admit")
  /\ request' \in {[request EXCEPT ![t] = r] : r \in StartRequest}
  /\ pressure' \in {[pressure EXCEPT ![t] = p] : p \in MemoryPressure}
  /\ outcome' = [outcome EXCEPT ![t] = "none"]
  /\ UNCHANGED <<settings, policy, schedVars, reclaimInFlight>>

-----------------------------------------------------------------------------
(* The command, one action per locked section or outside call.             *)

\* First locked section.  A blocked call drops the lock to try to free memory.
Admit(t) ==
  LET other == HasOtherStart(request[t])
      blocked == ShouldBlock(pressure[t], other)
  IN
  /\ pc[t] = "admit"
  /\ policy' = CurrentPolicy
  /\ \/ /\ ~blocked
        /\ RequestStart(t, policy'.maxParallel)
     \/ /\ blocked
        /\ pressure[t] = "Critical" /\ ~other /\ policy'.autoRelease
        /\ Goto(t, "guestReclaim")
        /\ UNCHANGED <<schedVars, request, pressure, outcome>>
     \/ /\ blocked
        /\ ~(pressure[t] = "Critical" /\ ~other /\ policy'.autoRelease)
        /\ Goto(t, "readmit")
        /\ UNCHANGED <<schedVars, request, pressure, outcome>>
  /\ UNCHANGED <<settings, reclaimInFlight>>

\* try_auto_reclaim_guest_memory: only a success is followed by a new probe.
GuestReclaim(t) ==
  /\ pc[t] = "guestReclaim"
  /\ pressure' \in {[pressure EXCEPT ![t] = p] : p \in MemoryPressure}
  /\ Goto(t, IF pressure'[t] = "Critical" THEN "autoRelease" ELSE "readmit")
  /\ UNCHANGED <<settings, policy, schedVars, reclaimInFlight, request, outcome>>

\* try_auto_release_idle_instance, up to the release of the lock.
BeginReclaim(t) ==
  /\ pc[t] = "autoRelease"
  /\ policy' = CurrentPolicy
  /\ \/ /\ policy'.autoRelease /\ ~reclaimInFlight
        /\ reclaimInFlight' = TRUE
        /\ Goto(t, "reclaiming")
     \/ /\ ~(policy'.autoRelease /\ ~reclaimInFlight)
        /\ Goto(t, "readmit")
        /\ UNCHANGED reclaimInFlight
  /\ UNCHANGED <<settings, schedVars, request, pressure, outcome>>


\* The rest of try_auto_release_idle_instance; `released` is whether a container
\* was stopped, and only then is the host probed again.
FinishReclaim(t, released) ==
  /\ pc[t] = "reclaiming"
  /\ reclaimInFlight' = FALSE
  /\ \/ released /\ pressure' \in {[pressure EXCEPT ![t] = p] : p \in MemoryPressure}
     \/ ~released /\ UNCHANGED pressure
  /\ Goto(t, "readmit")
  /\ UNCHANGED <<settings, policy, schedVars, request, outcome>>

\* Second locked section of a call that was blocked at first.
Readmit(t) ==
  LET blocked == ShouldBlock(pressure[t], HasOtherStart(request[t])) IN
  /\ pc[t] = "readmit"
  /\ \/ /\ blocked
        /\ Return(t, "Blocked")
        /\ UNCHANGED schedVars
     \/ /\ ~blocked
        /\ RequestStart(t, policy.maxParallel)
  /\ UNCHANGED <<settings, policy, reclaimInFlight>>

\* A queued call finds that another thread has promoted it.
Promoted(t) ==
  /\ pc[t] = "waiting"
  /\ request[t] \in starting
  /\ Goto(t, "recheck")
  /\ UNCHANGED <<settings, policy, schedVars, reclaimInFlight, request, pressure, outcome>>

GiveUp_LeavesEntry(t) ==
  /\ pc[t] = "waiting"
  /\ request[t] \notin starting
  /\ Return(t, "TimedOut")
  /\ UNCHANGED <<settings, policy, schedVars, reclaimInFlight>>

\* A queued call gives up: its entry is gone ("cancelled"), or the deadline has
\* passed and cancel_queued_start removes the first matching entry.
GiveUp(t) ==
  LET r == request[t] IN
  /\ pc[t] = "waiting"
  /\ r \notin starting
  /\ \/ /\ r \notin ToSet(queued)
        /\ Return(t, "Cancelled")
        /\ UNCHANGED queued
     \/ /\ \E i \in 1..Len(queued) :
             /\ queued[i] = r
             /\ \A j \in 1..(i - 1) : queued[j] # r
             /\ queued' = RemoveAt(queued, i)
        /\ Return(t, "TimedOut")
  /\ UNCHANGED <<settings, policy, startsInFlight, starting, reclaimInFlight>>

\* The probe just before the launch says Critical: the turn is given back.
AbortLaunch(t) ==
  /\ pc[t] = "recheck"
  /\ FinishAndPromote(request[t])
  /\ Return(t, "Blocked")
  /\ UNCHANGED <<settings, policy, reclaimInFlight>>

\* Any other reading: qemu::redroid_start begins.
Launch(t) ==
  /\ pc[t] = "recheck"
  /\ Goto(t, "launching")
  /\ UNCHANGED <<settings, policy, schedVars, reclaimInFlight, request, pressure, outcome>>

\* qemu::redroid_start returns, or its 90 second limit expires.
LaunchReturns(t, success) ==
  /\ pc[t] = "launching"
  /\ Goto(t, IF success THEN "launched" ELSE "launchFailed")
  /\ UNCHANGED <<settings, policy, schedVars, reclaimInFlight, request, pressure, outcome>>

\* The last locked section of the call.
FinishStart(t) ==
  /\ pc[t] \in {"launched", "launchFailed"}
  /\ FinishAndPromote(request[t])
  /\ Return(t, IF pc[t] = "launchFailed" THEN "StartFailed"
               ELSE IF request[t] \in starting THEN "Ready" ELSE "NotTracked")
  /\ UNCHANGED <<settings, policy, reclaimInFlight>>

-----------------------------------------------------------------------------
Init ==
  /\ settings \in [maxParallel : ParallelSettings, autoRelease : BOOLEAN]
  /\ policy = [maxParallel |-> 1, autoRelease |-> TRUE]
  /\ startsInFlight = 0
  /\ starting = {}
  /\ queued = <<>>
  /\ reclaimInFlight = FALSE
  /\ pc = [t \in Threads |-> "idle"]
  /\ request = [t \in Threads |-> NoRequest]
  /\ pressure = [t \in Threads |-> "Normal"]
  /\ outcome = [t \in Threads |-> "none"]

Step(t) ==
  \/ Admit(t) \/ GuestReclaim(t) \/ BeginReclaim(t)
  \/ \E released \in BOOLEAN : FinishReclaim(t, released)
  \/ Readmit(t) \/ Promoted(t)
  \/ AbortLaunch(t) \/ Launch(t)
  \/ \E success \in BOOLEAN : LaunchReturns(t, success)
  \/ FinishStart(t)

Next ==
  \/ ChangeSettings
  \/ \E t \in Threads : Call(t) \/ Step(t) \/ GiveUp(t)

Spec == Init /\ [][Next]_vars

\* A thread that is not waiting for another call is always run on: the mutex is
\* fair, probes and qemu-center calls have time limits, and a waiter wakes every
\* second.  Nobody has to call, to change settings, or to reach the deadline.
FairSpec == Spec /\ \A t \in Threads : WF_vars(Step(t))
-----------------------------------------------------------------------------
(* Safety.                                                                 *)

\* The number the budget is compared with is the number of starts really in
\* flight: starts_in_flight is kept beside the vector and saturates at zero, so
\* one missed or doubled decrement would shift the budget for good.
BudgetCountsStarts == startsInFlight = Cardinality(starting)

\* A node boots at most one instance at a time: no two tracked starts share a VM.
OneStartPerVm ==
  \A r1, r2 \in starting : r1.vm = r2.vm => r1 = r2

\* Every tracked request has exactly one call that will settle it, and every call
\* past admission still has its request tracked ("a Queued request has an owner
\* and cannot be lost"): no slot leaks when promotion meets a deadline, and no
\* request is tracked twice.
Owners == {t \in Threads : pc[t] \in InStarting \cup {"waiting"}}

StartsHaveOwners == \A r \in starting : \E t \in Owners : request[t] = r
QueuedHaveOwners == \A r \in ToSet(queued) : \E t \in Owners : request[t] = r /\ pc[t] = "waiting"
OwnersAreUnique  == \A t, u \in Owners : request[t] = request[u] => t = u
OwnersAreTracked == \A t \in Owners :
                      /\ request[t] \in Tracked
                      /\ pc[t] # "waiting" => request[t] \in starting
TrackedOnce      == IsInjective(queued) /\ ToSet(queued) \cap starting = {}

TrackedRequestsAreOwned ==
  /\ StartsHaveOwners
  /\ QueuedHaveOwners
  /\ OwnersAreUnique
  /\ OwnersAreTracked
  /\ TrackedOnce

\* Only a finishing start promotes, so a queue with no start in flight would wait
\* for its deadlines: while something is queued, some start is in flight.
QueueNeverStranded == queued # <<>> => starting # {}

\* A call never learns that its queue entry was cancelled, nor that its start was
\* not tracked: those two answers of the command are unreachable.
NoPhantomAnswer == \A t \in Threads : outcome[t] \notin {"Cancelled", "NotTracked"}

\* The single automatic-reclaim slot is taken exactly while one call reclaims.
ReclaimSlotOwned ==
  /\ reclaimInFlight <=> \E t \in Threads : pc[t] = "reclaiming"
  /\ \A t, u \in Threads : pc[t] = "reclaiming" /\ pc[u] = "reclaiming" => t = u

-----------------------------------------------------------------------------
(* Action properties.                                                      *)

\* Whatever adds a start, an admission or a promotion handing over a slot, leaves
\* no more starts than the policy in force allows; only lowering the policy can.
NewStartsWithinBudget ==
  [][~(starting' \subseteq starting) => Cardinality(starting') <= policy'.maxParallel]_vars

\* A call whose last probe gave no answer is admitted only when nothing else is
\* starting or queued at that very moment, however long ago it first looked.
AdmittedBlind(t) ==
  pressure[t] = "Unknown" /\ pc[t] \in {"admit", "readmit"} /\ pc'[t] \in {"recheck", "waiting"}
UnknownPressureStartsAlone ==
  [][\A t \in Threads : AdmittedBlind(t) => Tracked = {} /\ pc'[t] = "recheck"]_vars

-----------------------------------------------------------------------------
(* Liveness.                                                               *)

\* A queued call is promoted or leaves; no deadline is needed for that, only that
\* the starts in flight return.
QueuedCallsProceed == \A t \in Threads : pc[t] = "waiting" ~> pc[t] # "waiting"

-----------------------------------------------------------------------------
(* Refinement.                                                             *)

Gate == INSTANCE StartGate WITH running <- starting, waiting <- ToSet(queued)

\* Seen from its callers the scheduler is a StartGate: whatever the budget, the
\* policy and the order of the threads do, every step lets one request in, makes
\* one wait, drops one that gave up, or hands a turn over without closing the gate.
ImplementsStartGate == Gate!Spec
=============================================================================
