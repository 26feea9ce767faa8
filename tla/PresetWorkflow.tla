--------------------------- MODULE PresetWorkflow ---------------------------
(* Preset operations on one instance of a QEMU node: create, upgrade and       *)
(* restore, from the execution grants issued beforehand to the last docker     *)
(* command in the guest.  The desktop drives a runner in the guest over ssh,   *)
(* stage by stage, and gives a stage up when its time is over; the runner goes *)
(* on.  Runners of one instance exclude each other with a file lock.  The      *)
(* operator starts and stops the instance meanwhile.                           *)
EXTENDS Naturals, Sequences, TLC

CONSTANTS
  MaxJobs,      \* operations ever begun
  MaxBoxes,     \* containers ever made
  Nobody        \* no container, and no job

ASSUME PresetAssumption ==
  /\ MaxJobs \in Nat /\ MaxBoxes \in Nat \ {0}
  /\ Nobody \notin Nat \cup [policy : BOOLEAN, power : BOOLEAN]

VARIABLES
  shop,         \* the guest's docker: who is called qc-<name>, and -preupgrade
  registered,   \* the instance is among its node's adb_assignments
  ledger,       \* execution-receipts/: jobs whose receipt made a container
  operating,    \* OPERATIONS
  job,          \* the operations, as the desktop sees them
  runner,       \* the runner's program of each job, in the guest
  flock,        \* /var/lock/rdc-qemu-<name>.lock
  honest        \* for the properties: nothing has gone wrong that was not put right

presetVars == <<shop, registered, ledger, operating, job, runner, flock, honest>>

Jobs  == 1..MaxJobs
Boxes == 1..MaxBoxes
Plans == {"create", "upgrade", "restore"}

\* What the desktop does in turn; the named stages of the runner take a grant each.
CreateStages  == <<"prepare", "upload", "build", "seed", "authorize", "stage",
                   "create", "activate", "ready", "cleanup">>
UpgradeStages == <<"prepare", "upload", "build", "upgrade", "cleanup">>
RestoreStages == <<"upload", "restore", "cleanup">>
Stages(kind) ==
  CASE kind = "create"  -> CreateStages
    [] kind = "upgrade" -> UpgradeStages
    [] kind = "restore" -> RestoreStages
RunnerStages == {"build", "seed", "authorize", "activate", "upgrade", "restore"}

\* The docker commands of the runner's two long programs, and how each is undone.
RunnerCommands(kind) ==
  IF kind = "upgrade" THEN <<"stop", "clone", "hold", "rename", "create", "start", "activate">>
  ELSE <<"stop", "hold", "rename", "return", "policy", "start">>
Undoing_LeftStopped(kind) ==
  IF kind = "upgrade" THEN <<"remove", "unrename", "policy">>
  ELSE <<"giveBack", "unrename", "policy", "start">>
Undoing(kind) ==
  IF kind = "upgrade" THEN <<"remove", "unrename", "policy", "start">>
  ELSE <<"giveBack", "unrename", "policy", "start">>

NoRunner == [pc |-> "idle", at |-> 1, was |-> Nobody, renamed |-> FALSE, made |-> FALSE,
             policy |-> FALSE, power |-> FALSE]
NoJob    == [kind |-> "restore", at |-> 0, stale |-> FALSE, marker |-> FALSE]

Box == [running : BOOLEAN, restarts : BOOLEAN,
        rollback : [policy : BOOLEAN, power : BOOLEAN] \cup {Nobody}]

PresetTypeOK ==
  /\ {shop.named, shop.backup} \subseteq Boxes \cup {Nobody}
  /\ DOMAIN shop.box \subseteq Boxes
  /\ \A b \in DOMAIN shop.box : shop.box[b] \in Box
  /\ registered \in BOOLEAN /\ honest \in BOOLEAN
  /\ ledger \subseteq Jobs
  /\ {operating, flock} \subseteq Jobs \cup {Nobody}
  /\ job \in [Jobs -> [kind : Plans, at : 0..11, stale : BOOLEAN, marker : BOOLEAN]]
  /\ runner \in [Jobs -> [pc : {"idle", "short", "do", "undo", "ok", "failed", "restored", "broken"},
                          at : 1..7, was : Boxes \cup {Nobody}, renamed : BOOLEAN,
                          made : BOOLEAN, policy : BOOLEAN, power : BOOLEAN]]

\* A container that qemu-center made: it restarts with its node.
Original == [running |-> TRUE, restarts |-> TRUE, rollback |-> Nobody]

\* A node without the instance, or with one made earlier.
PresetInit ==
  /\ \/ shop = [named |-> Nobody, backup |-> Nobody, box |-> <<>>] /\ registered = FALSE
     \/ shop = [named |-> 1, backup |-> Nobody, box |-> <<Original>>] /\ registered = TRUE
  /\ ledger = {}
  /\ operating = Nobody /\ flock = Nobody
  /\ job = [j \in Jobs |-> NoJob]
  /\ runner = [j \in Jobs |-> NoRunner]
  /\ honest = TRUE

-----------------------------------------------------------------------------
(* The desktop.                                                            *)

StageOf(j) ==
  CASE job[j].at = 0 -> "none"
    [] job[j].at > Len(Stages(job[j].kind)) -> "over"
    [] OTHER -> Stages(job[j].kind)[job[j].at]
Advance(j) == [job EXCEPT ![j].at = @ + 1]
Abandon(j) == [job EXCEPT ![j].at = Len(Stages(job[j].kind))]

\* What is asked for is valid, and its name is new, or that of an instance.
Admissible(kind) ==
  /\ kind = "create" => ~registered
  /\ kind = "upgrade" => registered

\* With its grants issued, the operation asks for OPERATIONS.
BeginJob(j, kind) ==
  /\ StageOf(j) = "none" /\ \A i \in 1..(j - 1) : job[i].at # 0
  /\ operating = Nobody /\ Admissible(kind)
  /\ operating' = j
  /\ job' = [job EXCEPT ![j] = [NoJob EXCEPT !.kind = kind, !.at = 1]]
  /\ UNCHANGED <<shop, registered, ledger, runner, flock, honest>>

\* A grant lives two minutes; all of an operation's are issued before its build.
GrantsExpire(j) ==
  /\ StageOf(j) \notin {"none", "ready", "cleanup", "over"} /\ ~job[j].stale
  /\ job' = [job EXCEPT ![j].stale = TRUE]
  /\ UNCHANGED <<shop, registered, ledger, operating, runner, flock, honest>>

\* A stage that leaves only files, on the desktop or in the guest.
FilesOnly(j, stage) ==
  /\ StageOf(j) = stage
  /\ job' \in {Advance(j), Abandon(j)}
  /\ UNCHANGED <<shop, registered, ledger, operating, runner, flock, honest>>

Prepare(j)    == FilesOnly(j, "prepare")
Upload(j)     == FilesOnly(j, "upload")
StageGrant(j) == FilesOnly(j, "stage")
WaitReady(j)  == FilesOnly(j, "ready")

\* ssh's time is over, or the connection breaks.
GiveUp(j) ==
  /\ StageOf(j) \in RunnerStages /\ runner[j].pc # "idle"
  /\ job' = Abandon(j)
  /\ UNCHANGED <<shop, registered, ledger, operating, runner, flock, honest>>

TakeAnswer(j) ==
  /\ StageOf(j) \in RunnerStages /\ runner[j].pc \in {"ok", "failed", "restored", "broken"}
  /\ job' = IF runner[j].pc = "ok" THEN Advance(j) ELSE Abandon(j)
  /\ runner' = [runner EXCEPT ![j] = NoRunner]
  /\ UNCHANGED <<shop, registered, ledger, operating, flock, honest>>

\* A clean-up that fails makes the result a failure and leaves the marker, in a
\* directory that no other operation uses; either way the operation is over.
CleanUp(j) ==
  /\ StageOf(j) = "cleanup"
  /\ job' = [job EXCEPT ![j] = [NoJob EXCEPT !.kind = job[j].kind, !.at = job[j].at + 1]]
  /\ operating' = Nobody
  /\ UNCHANGED <<shop, registered, ledger, runner, flock, honest>>

-----------------------------------------------------------------------------
(* qemu-center redroid create.                                             *)

NewBox(restarts, rollback) == [running |-> FALSE, restarts |-> restarts, rollback |-> rollback]
FreshBox == 1 + Len(shop.box)
WithNew(b) == [shop EXCEPT !.named = FreshBox, !.box = Append(@, b)]

GrantHolds(j)   == ~job[j].stale
ReceiptHolds(j) == job[j].marker
Unspent(j)      == j \notin ledger

\* Grant, marker and receipt; the receipt is spent before the other checks.  docker run
\* may fail with its container made, and the save of the registry may fail after it.
CreateBox(j) ==
  /\ StageOf(j) = "create"
  /\ \/ ~(GrantHolds(j) /\ ReceiptHolds(j) /\ Unspent(j))
        /\ job' = Abandon(j) /\ UNCHANGED <<shop, registered, ledger>>
     \/ /\ GrantHolds(j) /\ ReceiptHolds(j) /\ Unspent(j)
        /\ ledger' = ledger \cup {j}
        /\ \/ job' = Abandon(j) /\ UNCHANGED <<shop, registered>>
           \/ /\ ~registered /\ shop.named = Nobody /\ FreshBox \in Boxes
              /\ \/ job' = Abandon(j) /\ shop' = WithNew(NewBox(TRUE, Nobody)) /\ UNCHANGED registered
                 \/ /\ shop' = WithNew([NewBox(TRUE, Nobody) EXCEPT !.running = TRUE])
                    /\ \/ job' = Advance(j) /\ registered' = TRUE
                       \/ job' = Abandon(j) /\ UNCHANGED registered
  /\ UNCHANGED <<operating, runner, flock, honest>>

\* qemu-center redroid start and stop, which ask for no lock.
Lifecycle(on) ==
  /\ shop.named # Nobody /\ shop.box[shop.named].running # on
  /\ shop' = [shop EXCEPT !.box[shop.named].running = on]
  /\ UNCHANGED <<registered, ledger, operating, job, runner, flock, honest>>

-----------------------------------------------------------------------------
(* The runner: grant, lock, and the short programs.                        *)

Answers(j, answer) == runner' = [runner EXCEPT ![j].pc = answer]
Unlock(j) == flock' = IF flock = j THEN Nobody ELSE flock

\* main: the grant is verified and consumed (or, to activate, its marker is), then the
\* lock is tried.  A program that cannot begin fails and has done nothing else.
Launch(j) ==
  LET stage == StageOf(j)
      current == shop.box[shop.named]
      begins == [NoRunner EXCEPT !.pc = "do", !.was = shop.named]
  IN
  /\ stage \in RunnerStages /\ runner[j].pc = "idle"
  /\ job' = IF stage = "activate" THEN [job EXCEPT ![j].marker = FALSE] ELSE job
  /\ \/ Answers(j, "failed") /\ UNCHANGED flock
     \/ /\ ~job[j].stale /\ (stage = "activate" => job[j].marker)
        /\ \/ stage = "authorize" /\ Answers(j, "short") /\ UNCHANGED flock
           \/ /\ flock = Nobody /\ flock' = j
              /\ \/ stage \in {"build", "seed", "activate"} /\ Answers(j, "short")
                 \/ /\ stage = "upgrade" /\ shop.backup = Nobody /\ shop.named # Nobody
                    /\ runner' = [runner EXCEPT ![j] = [begins EXCEPT
                         !.policy = current.restarts, !.power = current.running]]
                 \/ /\ stage = "restore" /\ shop.backup # Nobody /\ shop.named # Nobody
                    /\ runner' = [runner EXCEPT ![j] = [begins EXCEPT
                         !.policy = current.restarts, !.power = current.running]]
  /\ UNCHANGED <<shop, registered, ledger, operating, honest>>

\* Building the image, seeding the volume, writing the marker, the checks after boot.
ShortProgram(j) ==
  /\ runner[j].pc = "short"
  /\ \E answer \in {"ok", "failed"} :
       /\ Answers(j, answer)
       /\ job' = IF StageOf(j) = "authorize" /\ answer = "ok"
                 THEN [job EXCEPT ![j].marker = TRUE] ELSE job
  /\ Unlock(j)
  /\ UNCHANGED <<shop, registered, ledger, operating, honest>>

-----------------------------------------------------------------------------
(* The long programs, command by command.                                  *)

Goal_AsItStands(j) ==
  IF job[j].kind = "restore" /\ runner[j].pc = "do"
  THEN [policy |-> shop.box[shop.named].restarts, power |-> TRUE]
  ELSE [policy |-> runner[j].policy, power |-> runner[j].power]

\* What a restore puts the original back to: as the upgrade noted it on the new
\* container, or as it is itself and running.
Goal(j) ==
  LET noted == shop.box[runner[j].was].rollback IN
  IF job[j].kind = "restore" /\ runner[j].pc = "do"
  THEN IF noted # Nobody THEN noted
       ELSE [policy |-> shop.box[shop.named].restarts, power |-> TRUE]
  ELSE [policy |-> runner[j].policy, power |-> runner[j].power]

\* A command is left out where the program knows that it is not needed.
Needed(j, cmd) ==
  CASE cmd = "start" /\ (job[j].kind = "restore" \/ runner[j].pc = "undo") -> Goal(j).power
    [] cmd = "remove" -> runner[j].made
    [] cmd = "unrename" /\ job[j].kind = "upgrade" -> runner[j].renamed
    [] cmd = "giveBack" -> shop.named # Nobody
    [] OTHER -> TRUE

\* docker refuses a name that is taken, and a container that is not there.
Possible(j, cmd) ==
  CASE cmd \in {"stop", "hold", "policy", "start", "remove", "activate"} -> shop.named # Nobody
    [] cmd = "rename"   -> shop.named # Nobody /\ (job[j].kind = "upgrade" => shop.backup = Nobody)
    [] cmd = "create"   -> shop.named = Nobody /\ FreshBox \in Boxes
    [] cmd = "return"   -> shop.named = Nobody /\ shop.backup # Nobody
    [] cmd = "unrename" -> shop.named = Nobody /\ (job[j].kind = "upgrade" => shop.backup # Nobody)
    [] cmd = "giveBack" -> shop.backup = Nobody
    [] OTHER -> TRUE

\* The name of what a restore replaces is never taken; such a container has no name here.
Effect(j, cmd) ==
  LET n == shop.named IN
  CASE cmd = "stop"   -> [shop EXCEPT !.box[n].running = FALSE]
    [] cmd = "hold"   -> [shop EXCEPT !.box[n].restarts = FALSE]
    [] cmd = "policy" -> [shop EXCEPT !.box[n].restarts = Goal(j).policy]
    [] cmd = "start"  -> [shop EXCEPT !.box[n].running = TRUE]
    [] cmd = "remove" -> [shop EXCEPT !.named = Nobody]
    [] cmd = "create" -> WithNew(NewBox(runner[j].policy,
                           [policy |-> runner[j].policy, power |-> runner[j].power]))
    [] cmd = "rename" -> [shop EXCEPT !.named = Nobody,
                                      !.backup = IF job[j].kind = "upgrade" THEN n ELSE @]
    [] cmd \in {"return", "giveBack"} ->
         [shop EXCEPT !.named = shop.backup, !.backup = n]
    [] cmd = "unrename" ->
         [shop EXCEPT !.named = runner[j].was,
                      !.backup = IF job[j].kind = "upgrade" THEN Nobody ELSE @]
    [] OTHER -> shop

Program(j) == IF runner[j].pc = "do" THEN RunnerCommands(job[j].kind) ELSE Undoing(job[j].kind)

\* The program goes on, or ends with its answer.
Proceed(j, noted) ==
  IF noted.at < Len(Program(j))
  THEN runner' = [runner EXCEPT ![j] = [noted EXCEPT !.at = @ + 1]] /\ UNCHANGED flock
  ELSE /\ runner' = [runner EXCEPT ![j] = [noted EXCEPT !.at = 1, !.pc =
                       IF @ = "do" THEN "ok" ELSE IF job[j].kind = "upgrade" THEN "restored" ELSE "failed"]]
       /\ Unlock(j)

\* An exception: what was done is undone.  A restore that has renamed nothing yet has
\* no roll-back; one that fails leaves things as they are.
Fails(j) ==
  IF runner[j].pc = "do" /\ (job[j].kind = "upgrade" \/ runner[j].renamed)
  THEN /\ runner' = [runner EXCEPT ![j].pc = "undo", ![j].at = 1]
       /\ UNCHANGED <<flock, honest>>
  ELSE Answers(j, "broken") /\ Unlock(j) /\ honest' = FALSE

\* One docker command.  It may have had its effect and fail all the same, when its time
\* is over.
DockerCommand(j) ==
  LET cmd   == Program(j)[runner[j].at]
      noted == [runner[j] EXCEPT !.renamed = @ \/ cmd = "rename", !.made = @ \/ cmd = "create"]
  IN
  /\ runner[j].pc \in {"do", "undo"}
  /\ IF ~Needed(j, cmd)
     THEN Proceed(j, runner[j]) /\ UNCHANGED <<shop, honest>>
     ELSE \/ /\ Possible(j, cmd)
             /\ shop' = Effect(j, cmd)
             /\ \/ Proceed(j, noted) /\ UNCHANGED honest
                \/ Fails(j)
          \/ Fails(j) /\ UNCHANGED shop
  /\ UNCHANGED <<registered, ledger, operating, job>>

\* The runner is killed, or its node powers off; the lock goes with it.
RunnerDies(j) ==
  /\ runner[j].pc \in {"short", "do", "undo"}
  /\ Answers(j, "broken") /\ Unlock(j)
  /\ honest' = FALSE
  /\ UNCHANGED <<shop, registered, ledger, operating, job>>

-----------------------------------------------------------------------------
PresetNext ==
  \/ \E on \in BOOLEAN : Lifecycle(on)
  \/ \E j \in Jobs :
       \/ \E kind \in Plans : BeginJob(j, kind)
       \/ GrantsExpire(j) \/ GiveUp(j) \/ TakeAnswer(j) \/ CleanUp(j)
       \/ Prepare(j) \/ Upload(j) \/ StageGrant(j) \/ WaitReady(j)
       \/ CreateBox(j) \/ Launch(j) \/ ShortProgram(j) \/ DockerCommand(j) \/ RunnerDies(j)

PresetSpec == PresetInit /\ [][PresetNext]_presetVars

-----------------------------------------------------------------------------
(* Properties.                                                             *)

\* An upgrade that fails says "original instance restored" only when it is: under its
\* name, with its restart policy, running if it ran, and with no backup left over that
\* would refuse the next upgrade, whichever command failed, and also when one failed
\* that had its effect.
FailedUpgradeIsUndone ==
  [][\A j \in Jobs : runner[j].pc = "undo" /\ runner'[j].pc = "restored" =>
       LET b == runner[j].was IN
       /\ shop'.named = b /\ shop'.backup = Nobody
       /\ shop'.box[b].restarts = runner[j].policy
       /\ runner[j].power => shop'.box[b].running]_presetVars

\* As long as every program ends by itself and every roll-back succeeds, upgrades and
\* restores in any order, given up by the desktop or not, hand the instance on with the
\* restart policy it was created with: no upgrade takes the "no" it sets for its own
\* work for the instance's policy, and a restore finds the policy from before.
PolicyFollowsTheInstance ==
  honest /\ shop.named # Nobody /\ (\A j \in Jobs : runner[j].pc \notin {"do", "undo"})
    => shop.box[shop.named].restarts

\* The instance a preset operation hands on is the one it was given, in what the
\* operation changes for its own work: by a failed upgrade at once, by all of them
\* together in its restart policy.
UpgradesAreReversible == FailedUpgradeIsUndone /\ [](/\ PolicyFollowsTheInstance)
=============================================================================
