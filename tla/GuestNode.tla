------------------------------- MODULE GuestNode -------------------------------
(***************************************************************************)
(* A node from inside: the first boot that makes its guest ready (cloud-   *)
(* init), `guest wait` and `guest provision`, the redroid containers that  *)
(* share its memory, `redroid create`'s budget, `vm memory-reclaim` and    *)
(* `verify` with its snapshot and clone probe.  The node goes down and     *)
(* comes up at any time, packages cannot be fetched, commands in the guest *)
(* time out, containers come up, grow and end while they are measured.     *)
(***************************************************************************)
EXTENDS Naturals, Sequences, FiniteSets, FiniteSetsExt

CONSTANTS
  Redroids,        \* redroid instances
  NodeMemory,   \* memory of the node, in halves of BALLOON_QUANTUM_MIB
  Uses,        \* how much memory a container uses, likewise
  BoxMemory,    \* the --memory of a new container, likewise
  MaxPolls,     \* bound: how often guest wait asks before its deadline
  MaxRuns       \* bound: commands of a behaviour
ASSUME NodeAssumption ==
  /\ {NodeMemory, BoxMemory, MaxPolls, MaxRuns} \subseteq Nat /\ Uses \subseteq Nat
  /\ IsFiniteSet(Redroids)

VARIABLES guest,    \* the node and its guest
          init,     \* how far cloud-init is; it runs once
          box,      \* [box -> its container: status and memory in use]
          assigned, \* adb_assignments: the boxes of the registry
          balloon,  \* memory the guest has been left
          damaged,  \* history: qemu-img wrote to the disk while QEMU had it
          cmd,      \* the command in progress
          runs,     \* how many there were
          said      \* what the last one said, and (history) whether it was so
nodeVars == <<guest, init, box, assigned, balloon, damaged, cmd, runs, said>>
guestVars == <<guest, init>>
boxVars == <<box, assigned>>

Quantum == 2          \* BALLOON_QUANTUM_MIB
Floor == 12           \* MIN_BALLOON_TARGET_MIB
BaseReserve == 6      \* BALLOON_BASE_RESERVE_MIB
PerBoxReserve == 4    \* BALLOON_PER_INSTANCE_RESERVE_MIB

Statuses == {"absent", "running", "restarting", "exited"}
NoCommand == [name |-> "none", pc |-> "none", left |-> 0, steady |-> TRUE, seen |-> "none"]
Nothing == [name |-> "none", ok |-> FALSE, true |-> TRUE]
Gone == [status |-> "absent", uses |-> 0]

NodeTypeOK ==
  /\ guest \in [on : BOOLEAN, keyed : BOOLEAN, extra : BOOLEAN, autoload : BOOLEAN, binder : BOOLEAN,
                docker : {"none", "off", "on"}]
  /\ init \in 1..5 /\ box \in [Redroids -> [status : Statuses, uses : {0} \cup Uses]]
  /\ assigned \subseteq Redroids /\ balloon \in 0..NodeMemory
  /\ damaged \in BOOLEAN
  /\ cmd.name \in {"none", "wait", "provision", "create", "reclaim", "verify"}
  /\ runs \in 0..MaxRuns /\ said.ok \in BOOLEAN /\ said.true \in BOOLEAN

-----------------------------------------------------------------------------
(* The guest.                                                              *)

BinderReady(g) == g.on /\ g.binder
DockerReady(g) == g.on /\ g.docker = "on"
Ready(g) == BinderReady(g) /\ DockerReady(g)

\* Every step tolerates that it fails: packages may not be had.
ApplyStep(step, g, fetched) ==
  CASE step = "extra"    -> [g EXCEPT !.extra = @ \/ fetched]
    [] step = "autoload" -> [g EXCEPT !.autoload = TRUE]
    [] step = "modprobe" -> [g EXCEPT !.binder = @ \/ g.extra]
    [] step = "docker"   -> [g EXCEPT !.docker = IF @ = "none" /\ ~fetched THEN "none" ELSE "on"]

BinderPrep_ThisBootOnly == <<"extra", "modprobe">>
BinderPrep == <<"extra", "autoload", "modprobe">>
Runcmd == BinderPrep \o <<"docker">>

NodeInit ==
  /\ \E keyed \in BOOLEAN :
       guest = [on |-> TRUE, keyed |-> keyed, extra |-> FALSE, autoload |-> FALSE, binder |-> FALSE, docker |-> "none"]
  /\ init = 1 /\ box = [b \in Redroids |-> Gone] /\ assigned = {} /\ balloon = NodeMemory
  /\ damaged = FALSE /\ cmd = NoCommand /\ runs = 0 /\ said = Nothing

\* A seed without a key holds a placeholder nobody can log in with.
Ssh == guest.on /\ guest.keyed
Disturbed == [cmd EXCEPT !.steady = FALSE]

CloudInit ==
  /\ guest.on /\ init <= Len(Runcmd)
  /\ \E fetched \in BOOLEAN : guest' = ApplyStep(Runcmd[init], guest, fetched)
  /\ init' = init + 1 /\ cmd' = Disturbed
  /\ UNCHANGED <<boxVars, balloon, damaged, runs, said>>

\* The first boot is over with the power: what was not run is not run again.
PowerOff ==
  /\ guest.on
  /\ guest' = [guest EXCEPT !.on = FALSE, !.binder = FALSE, !.docker = IF @ = "on" THEN "off" ELSE @]
  /\ init' = Len(Runcmd) + 1 /\ cmd' = Disturbed
  /\ balloon' = NodeMemory
  /\ UNCHANGED <<boxVars, damaged, runs, said>>

\* Docker starts again what was not stopped by hand.
PowerOn ==
  /\ ~guest.on
  /\ guest' = [guest EXCEPT !.on = TRUE, !.binder = guest.autoload /\ guest.extra,
                            !.docker = IF @ = "off" THEN "on" ELSE @]
  /\ cmd' = Disturbed
  /\ UNCHANGED <<init, boxVars, balloon, damaged, runs, said>>

\* A container ends, comes up, uses more or less; redroid start and stop, too.
BoxChanges(b) ==
  /\ DockerReady(guest) /\ box[b].status # "absent"
  /\ \E status \in {"running", "restarting", "exited"}, uses \in Uses :
       box' = [box EXCEPT ![b] = [status |-> status, uses |-> IF status = "running" THEN uses ELSE 0]]
  /\ box' # box /\ cmd' = Disturbed
  /\ UNCHANGED <<guestVars, assigned, balloon, damaged, runs, said>>

-----------------------------------------------------------------------------
(* Commands.                                                               *)

Within(name, pc) == cmd.name = name /\ cmd.pc = pc
Sees(pc, seen) == cmd' = [cmd EXCEPT !.pc = pc, !.seen = seen]
Finish(ok, true) == cmd' = NoCommand /\ said' = [name |-> cmd.name, ok |-> ok, true |-> true]

BeginCommand(name, pc, polls) ==
  /\ cmd.name = "none" /\ runs < MaxRuns
  /\ cmd' = [NoCommand EXCEPT !.name = name, !.pc = pc, !.left = polls]
  /\ runs' = runs + 1 /\ said' = Nothing
  /\ UNCHANGED <<guestVars, boxVars, balloon, damaged>>

\* The window is closed.
CloseTerminal ==
  /\ cmd.name # "none" /\ cmd' = NoCommand
  /\ UNCHANGED <<guestVars, boxVars, balloon, damaged, runs, said>>

\* guest wait: first until SSH answers, then until binder and docker are there, both
\* against one deadline, which is looked at after an attempt that failed.
Poll(pc, holds, next) ==
  /\ Within("wait", pc)
  /\ \/ holds /\ next
     \/ IF cmd.left = 0 THEN Finish(FALSE, TRUE)
        ELSE cmd' = [cmd EXCEPT !.left = @ - 1] /\ UNCHANGED said
  /\ UNCHANGED <<guestVars, boxVars, balloon, damaged, runs>>
WaitForSsh == Poll("ssh", Ssh, cmd' = [cmd EXCEPT !.pc = "ready"] /\ UNCHANGED said)
WaitUntilReady == Poll("ready", Ssh /\ Ready(guest), Finish(TRUE, Ready(guest)))

\* guest provision runs cloud-init's steps as root, and takes its own marker for the end.
Provision ==
  /\ Within("provision", "run")
  /\ \/ Finish(FALSE, TRUE) /\ UNCHANGED guest
     \/ /\ Ssh
        /\ LET step == Runcmd[Len(Runcmd) + 1 - cmd.left] IN
             \E fetched \in BOOLEAN : guest' = ApplyStep(step, guest, fetched)
        /\ cmd' = [cmd EXCEPT !.left = @ - 1, !.pc = IF cmd.left = 1 THEN "report" ELSE "run"]
        /\ UNCHANGED said
  /\ UNCHANGED <<init, boxVars, balloon, damaged, runs>>

\* One line for each; a line that is missing is not ok.
Readiness ==
  /\ Within("provision", "report")
  /\ \E answered \in BOOLEAN :
       LET ok == answered /\ Ssh /\ Ready(guest) IN Finish(ok, Ready(guest))
  /\ UNCHANGED <<guestVars, boxVars, balloon, damaged, runs>>

-----------------------------------------------------------------------------
(* Containers in the node's memory.                                        *)

Up(b) == guest.on /\ box[b].status = "running"

\* validate_resource_budget: a quarter of the node, and 512 MiB at least, is kept free;
\* every container is taken to be as large as the new one.
Headroom == IF NodeMemory \div 4 > 4 THEN NodeMemory \div 4 ELSE 4
FitsNode(count) == BoxMemory * count <= NodeMemory - Headroom

\* Without an answer from the guest all that are registered count.
CountRunning == Cardinality({b \in Redroids : Up(b)})
CreateChecked(b) ==
  /\ Within("create", "count") /\ b \notin assigned
  /\ \E count \in {Cardinality(assigned)} \cup (IF Ssh /\ DockerReady(guest) THEN {CountRunning} ELSE {}) :
       IF FitsNode(count + 1) THEN Sees("run", b) /\ UNCHANGED said ELSE Finish(FALSE, TRUE)
  /\ UNCHANGED <<guestVars, boxVars, balloon, damaged, runs>>

\* The registry is written after docker run; one that fails leaves what it made.
CreateRun ==
  /\ Within("create", "run")
  /\ LET b == cmd.seen IN
       \/ /\ Ssh /\ DockerReady(guest) /\ box[b].status = "absent"
          /\ \E uses \in Uses : box' = [box EXCEPT ![b] = [status |-> "running", uses |-> uses]]
          /\ Sees("save", b) /\ UNCHANGED said
       \/ UNCHANGED box /\ Finish(FALSE, TRUE)
  /\ UNCHANGED <<guestVars, assigned, balloon, damaged, runs>>
CreateSave ==
  /\ Within("create", "save")
  /\ assigned' = assigned \cup {cmd.seen} /\ Finish(TRUE, TRUE)
  /\ UNCHANGED <<guestVars, box, balloon, damaged, runs>>

\* redroid stats: docker inspect first, and the figures only of those that run; a container
\* may be omitted, and its figures may be missing by then.
StatRow(b, listed, measured) ==
  CASE ~listed -> << >>
    [] listed /\ Up(b) -> <<[box |-> b, status |-> "running", current |-> IF measured THEN <<box[b].uses>> ELSE << >>]>>
    [] OTHER -> <<[box |-> b, status |-> box[b].status, current |-> << >>]>>
GuestStats(listed, measured) ==
  UNION {LET row == StatRow(b, b \in listed, b \in measured) IN {row[i] : i \in DOMAIN row} :
         b \in {c \in Redroids : box[c].status # "absent"}}

\* What the registry has and the guest does not report is unknown.
StatRows_Reported(rows) == rows
StatRows(rows) ==
  rows \cup {[box |-> b, status |-> "unknown", current |-> << >>] : b \in {c \in assigned : \A r \in rows : r.box # c}}

Active(row) == row.status = "running"
Inactive(row) == row.status \in {"exited", "created", "dead", "paused"}

\* plan_memory_reclaim: the target, or nothing where it cannot tell or it does not pay.
PlanReclaim(rows) ==
  LET active == {r \in rows : Active(r)}
      used == MapThenSumSet(LAMBDA r : r.current[1], active)
      reserve == Max({BaseReserve, PerBoxReserve * Cardinality(active)})
      raw == Max({Floor, used + reserve})
      aligned == ((raw + Quantum - 1) \div Quantum) * Quantum
      target == Min({aligned, NodeMemory})
  IN IF NodeMemory <= Floor \/ (\E r \in rows : ~Inactive(r) /\ (Active(r) => r.current = << >>))
        \/ target + Quantum > NodeMemory
     THEN << >> ELSE <<target>>

\* memory_reclaim_liveness_error: only a node that answers.
ReclaimPlanned ==
  /\ Within("reclaim", "stats")
  /\ \/ Finish(FALSE, TRUE)
     \/ /\ Ssh /\ DockerReady(guest)
        /\ \E listed, measured \in SUBSET Redroids :
             LET plan == PlanReclaim(StatRows(GuestStats(listed, measured)))
             IN IF plan = << >> THEN Finish(FALSE, TRUE)
                ELSE cmd' = [cmd EXCEPT !.pc = "balloon", !.left = plan[1], !.steady = TRUE] /\ UNCHANGED said
  /\ UNCHANGED <<guestVars, boxVars, balloon, damaged, runs>>
SetBalloon ==
  /\ Within("reclaim", "balloon")
  /\ \/ guest.on /\ balloon' = cmd.left /\ Finish(TRUE, TRUE)
     \/ balloon' \in (IF guest.on THEN {balloon, cmd.left} ELSE {balloon}) /\ Finish(FALSE, TRUE)
  /\ UNCHANGED <<guestVars, boxVars, damaged, runs>>

-----------------------------------------------------------------------------
(* verify.                                                                 *)

VerifyChecks == <<"whpx", "ssh", "binderfs", "docker", "boot-completed", "adb-connect">>

\* A check may be lost on its way; whpx is the host's.
Passes(check) ==
  CASE check = "whpx"     -> TRUE
    [] check = "ssh"      -> Ssh
    [] check = "binderfs" -> Ssh /\ BinderReady(guest)
    [] check = "docker"   -> Ssh /\ DockerReady(guest)
    [] check = "boot-completed" -> Ssh /\ DockerReady(guest) /\ \E b \in assigned : Up(b)
    [] check = "adb-connect" -> \E b \in assigned : Up(b)

VerifyCheck ==
  /\ Within("verify", "check")
  /\ \E passed \in IF Passes(VerifyChecks[cmd.left]) THEN BOOLEAN ELSE {FALSE} :
       cmd' = [cmd EXCEPT !.left = @ + 1, !.pc = IF cmd.left = Len(VerifyChecks) THEN "probe" ELSE "check",
                          !.seen = IF passed THEN @ ELSE "failure"]
  /\ UNCHANGED <<guestVars, boxVars, balloon, damaged, runs, said>>

\* snapshot_plan: refused is stopped, an answer is running, all else is not known.
SnapshotPlan_Optimist(probe) == IF probe = "answered" THEN "qmp" ELSE "qemu-img"
SnapshotPlan(probe) == CASE probe = "refused" -> "qemu-img" [] probe = "answered" -> "qmp" [] OTHER -> "skip"

Verdict(passed) ==
  Finish(passed /\ cmd.seen # "failure",
         cmd.steady /\ cmd.seen # "moved" => Ssh /\ Ready(guest) /\ \E b \in assigned : Up(b))

ProbeLiveness ==
  /\ Within("verify", "probe")
  /\ \E probe \in {IF guest.on THEN "answered" ELSE "refused", "timeout"} :
       IF SnapshotPlan(probe) = "skip" THEN Verdict(FALSE)
       ELSE /\ cmd' = [cmd EXCEPT !.pc = SnapshotPlan(probe), !.steady = TRUE,
                                 !.seen = IF ~cmd.steady /\ @ = "none" THEN "moved" ELSE @]
            /\ UNCHANGED said
  /\ UNCHANGED <<guestVars, boxVars, balloon, damaged, runs>>

\* The snapshot is taken by who owns the disk, and dropped again; the verdict does not ask
\* whether that worked, the note does.
TakeSnapshot(by) ==
  /\ Within("verify", by)
  /\ \E taken \in BOOLEAN :
       /\ by = "qmp" /\ taken => guest.on
       /\ cmd' = [cmd EXCEPT !.pc = "clone", !.seen = IF taken THEN @ ELSE "failure"]
  /\ damaged' = (damaged \/ (by = "qemu-img" /\ guest.on))
  /\ UNCHANGED <<guestVars, boxVars, balloon, runs, said>>

\* An overlay over the disk, which is only read, made and removed at once.
TimeClone ==
  /\ Within("verify", "clone")
  /\ \E made \in BOOLEAN : Verdict(made)
  /\ UNCHANGED <<guestVars, boxVars, balloon, damaged, runs>>

NodeNext ==
  \/ CloudInit \/ PowerOff \/ PowerOn \/ \E b \in Redroids : BoxChanges(b) \/ CreateChecked(b)
  \/ BeginCommand("wait", "ssh", MaxPolls) \/ BeginCommand("provision", "run", Len(Runcmd)) \/ BeginCommand("create", "count", 0)
  \/ BeginCommand("reclaim", "stats", 0) \/ BeginCommand("verify", "check", 1)
  \/ CloseTerminal \/ WaitForSsh \/ WaitUntilReady \/ Provision \/ Readiness \/ CreateRun \/ CreateSave
  \/ ReclaimPlanned \/ SetBalloon
  \/ VerifyCheck \/ ProbeLiveness \/ \E by \in {"qmp", "qemu-img"} : TakeSnapshot(by)
  \/ TimeClone

NodeSpec == NodeInit /\ [][NodeNext]_nodeVars

-----------------------------------------------------------------------------
(* Property.                                                               *)

\* What qemu-center says or does about the inside of a node stands up to what the node
\* does meanwhile.  A guest that wait or provision called ready is ready after every
\* restart, also one in the middle of cloud-init; a verify that passed on a node nothing
\* happened to has one that works.  A balloon leaves what the registered containers used
\* when they were measured, and the reserve; a container is created only where it fits
\* beside the registered ones that run.  qemu-img writes to no disk that QEMU has, unless
\* the node was started behind its back.
NodeIsAsTold ==
  /\ [](/\ said.ok => said.true
        /\ said.ok /\ said.name \in {"wait", "provision"} /\ guest.on => Ready(guest))
  /\ [][/\ damaged' /\ ~damaged => ~cmd.steady
        /\ Within("reclaim", "balloon") /\ cmd.steady /\ cmd'.name = "none" /\ balloon' # balloon =>
             LET used == {b \in assigned : Up(b)} IN
             /\ balloon' >= Max({Floor, MapThenSumSet(LAMBDA b : box[b].uses, used) + BaseReserve})
             /\ balloon' <= NodeMemory - Quantum
        /\ Within("create", "run") /\ cmd.steady /\ cmd'.pc = "save" =>
             LET beside == {b \in assigned : Up(b)} IN
             BoxMemory * (Cardinality(beside) + 1) <= NodeMemory - Headroom]_nodeVars
=============================================================================
