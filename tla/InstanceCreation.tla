-------------------------- MODULE InstanceCreation --------------------------
(* Creating a Docker instance, and cancelling that: the submit and cancel     *)
(* handlers of the Docker panel, create_redroid and cancel_create.  Both      *)
(* commands run on threads of their own and share three process-wide flags:   *)
(* cancelled, container created, volume created.  Whoever cleans up goes by    *)
(* the last two.                                                              *)
EXTENDS FiniteSets

CONSTANTS
  Names,            \* instance names: rdc-<name> and rdc-<name>-data
  NoName

ASSUME CreationAssumption == NoName \notin Names

VARIABLES
  containers, volumes,      \* what docker has
  flags,                    \* the statics: CREATE_CANCEL_REQUESTED and the two others
  panel,                    \* the submit handler and the name it creates
  cancelRef,                \* createCancelRequestedRef
  asking,                   \* the name in the "cancel and delete?" dialog
  job,                      \* the backend calls in progress
  attempt                   \* the last submission (for the properties)

docker == <<containers, volumes>>
creationVars   == <<docker, flags, panel, cancelRef, asking, job, attempt>>

-----------------------------------------------------------------------------
\* A create call, the cancel call of the user and the one the submit handler makes
\* when a cancellation came too late for the create call to see.
Jobs      == {"create", "cancel", "repeat"}
Creating  == {"enter", "reset", "list", "prepare", "probe", "volume", "run", "started", "boot"}
Cleaning  == {"ifContainer", "rmContainer", "ifVolume", "rmVolume"}
NoJob     == [pc |-> "idle", name |-> NoName]
Attempt   == [name : Names \cup {NoName}, hadVolume : BOOLEAN, overlapped : BOOLEAN,
              failedLate : BOOLEAN]

CreationTypeOK ==
  /\ containers \subseteq Names /\ volumes \subseteq Names
  /\ flags \in [cancel : BOOLEAN, container : BOOLEAN, volume : BOOLEAN]
  /\ panel \in [pc : {"idle", "probing", "creating", "repeating"}, name : Names \cup {NoName}]
  /\ cancelRef \in BOOLEAN
  /\ asking \in Names \cup {NoName}
  /\ \A j \in Jobs :
       /\ job[j].name \in Names \cup {NoName}
       /\ job[j].pc \in {"idle", "store"} \cup Cleaning \cup
            (IF j = "create" THEN Creating \cup {"returned", "cancelled"} ELSE {})
  /\ attempt \in Attempt

\* Volumes outlive their containers.
CreationInit ==
  /\ volumes \in SUBSET Names /\ containers \in SUBSET volumes
  /\ flags = [cancel |-> FALSE, container |-> FALSE, volume |-> FALSE]
  /\ panel = [pc |-> "idle", name |-> NoName]
  /\ cancelRef = FALSE
  /\ asking = NoName
  /\ job = [j \in Jobs |-> NoJob]
  /\ attempt = [name |-> NoName, hadVolume |-> FALSE, overlapped |-> FALSE, failedLate |-> FALSE]

Goto(j, pc) == job' = [job EXCEPT ![j].pc = pc]

-----------------------------------------------------------------------------
(* The Docker panel.  One creation at a time; the dialog is modal.         *)

\* The submit handler, once the name has been found free.
Submit(n) ==
  /\ panel.pc = "idle" /\ asking = NoName
  /\ n \notin containers
  /\ panel' = [pc |-> "probing", name |-> n]
  /\ cancelRef' = FALSE
  /\ attempt' = [name |-> n, hadVolume |-> n \in volumes, overlapped |-> job["cancel"].pc # "idle",
                failedLate |-> FALSE]
  /\ UNCHANGED <<docker, flags, asking, job>>

\* The tools were probed: not available, cancelled meanwhile, or on to the backend.
GiveUpProbing ==
  /\ panel.pc = "probing"
  /\ panel' = [pc |-> "idle", name |-> NoName]
  /\ UNCHANGED <<docker, flags, cancelRef, asking, job, attempt>>

CallCreate ==
  /\ panel.pc = "probing" /\ ~cancelRef
  /\ panel' = [panel EXCEPT !.pc = "creating"]
  /\ job' = [job EXCEPT !["create"] = [pc |-> "enter", name |-> panel.name]]
  /\ UNCHANGED <<docker, flags, cancelRef, asking, attempt>>

CreateAnswered_NoRepeat ==
  /\ panel.pc = "creating" /\ job["create"].pc \in {"returned", "cancelled"}
  /\ panel' = [pc |-> "idle", name |-> NoName]
  /\ job' = [job EXCEPT !["create"] = NoJob]
  /\ UNCHANGED <<docker, flags, cancelRef, asking, attempt>>

\* The create call has answered.  A cancellation it did not see is repeated.
CreateAnswered ==
  /\ panel.pc = "creating" /\ job["create"].pc \in {"returned", "cancelled"}
  /\ IF cancelRef /\ job["create"].pc = "returned"
     THEN /\ panel' = [panel EXCEPT !.pc = "repeating"]
          /\ job' = [job EXCEPT !["create"] = NoJob,
                                !["repeat"] = [pc |-> "store", name |-> panel.name]]
     ELSE /\ panel' = [pc |-> "idle", name |-> NoName]
          /\ job' = [job EXCEPT !["create"] = NoJob]
  /\ UNCHANGED <<docker, flags, cancelRef, asking, attempt>>

RepeatAnswered ==
  /\ panel.pc = "repeating" /\ job["repeat"].pc = "idle"
  /\ panel' = [pc |-> "idle", name |-> NoName]
  /\ UNCHANGED <<docker, flags, cancelRef, asking, job, attempt>>

\* cancelCreatingInstance: ask, and cancel on a yes, whatever has happened since.
AskCancel ==
  /\ panel.pc # "idle" /\ ~cancelRef /\ job["cancel"].pc = "idle" /\ asking = NoName
  /\ asking' = panel.name
  /\ UNCHANGED <<docker, flags, panel, cancelRef, job, attempt>>

ConfirmCancel ==
  /\ asking # NoName
  /\ cancelRef' = TRUE
  /\ job' = [job EXCEPT !["cancel"] = [pc |-> "store", name |-> asking]]
  /\ asking' = NoName
  /\ UNCHANGED <<docker, flags, panel, attempt>>

DismissCancel ==
  /\ asking # NoName
  /\ asking' = NoName
  /\ UNCHANGED <<docker, flags, panel, cancelRef, job, attempt>>

\* remove_container on an instance that is not being created; the volume stays.
DeleteInstance(n) ==
  /\ n \in containers /\ panel.name # n
  /\ containers' = containers \ {n}
  /\ UNCHANGED <<volumes, flags, panel, cancelRef, asking, job, attempt>>

-----------------------------------------------------------------------------
(* cleanup_create_artifacts, in whichever call.                            *)

EndCleanup(j) ==
  job' = [job EXCEPT ![j] = IF j = "create" THEN [@ EXCEPT !.pc = "cancelled"] ELSE NoJob]

IfContainer(j) ==
  /\ job[j].pc = "ifContainer"
  /\ Goto(j, IF flags.container THEN "rmContainer" ELSE "ifVolume")
  /\ UNCHANGED <<docker, flags, panel, cancelRef, asking, attempt>>

RmContainer(j) ==
  /\ job[j].pc = "rmContainer"
  /\ containers' = containers \ {job[j].name}
  /\ Goto(j, "ifVolume")
  /\ UNCHANGED <<volumes, flags, panel, cancelRef, asking, attempt>>

IfVolume(j) ==
  /\ job[j].pc = "ifVolume"
  /\ IF flags.volume THEN Goto(j, "rmVolume") ELSE EndCleanup(j)
  /\ UNCHANGED <<docker, flags, panel, cancelRef, asking, attempt>>

\* Docker keeps a volume that a container uses, forced or not.
RmVolume(j) ==
  /\ job[j].pc = "rmVolume"
  /\ volumes' = volumes \ ({job[j].name} \ containers)
  /\ EndCleanup(j)
  /\ UNCHANGED <<containers, flags, panel, cancelRef, asking, attempt>>

\* cancel_create sets the flag, then cleans up.
StoreCancel(j) ==
  /\ job[j].pc = "store"
  /\ flags' = [flags EXCEPT !.cancel = TRUE]
  /\ Goto(j, "ifContainer")
  /\ UNCHANGED <<docker, panel, cancelRef, asking, attempt>>

-----------------------------------------------------------------------------
(* create_redroid.                                                         *)

\* A checkpoint: go on to pc, or clean up if a cancellation is in.
Checkpoint(pc) == Goto("create", IF flags.cancel THEN "ifContainer" ELSE pc)

Enter ==
  /\ job["create"].pc = "enter"
  /\ flags' = [flags EXCEPT !.cancel = FALSE, !.container = FALSE]
  /\ Goto("create", "reset")
  /\ UNCHANGED <<docker, panel, cancelRef, asking, attempt>>

ResetVolumeFlag ==
  /\ job["create"].pc = "reset"
  /\ flags' = [flags EXCEPT !.volume = FALSE]
  /\ Goto("create", "list")
  /\ UNCHANGED <<docker, panel, cancelRef, asking, attempt>>

\* The name and the port must be free.
ListContainers ==
  /\ job["create"].pc = "list"
  /\ IF flags.cancel THEN Goto("create", "ifContainer")
     ELSE IF job["create"].name \in containers THEN Goto("create", "returned")
     ELSE Goto("create", "prepare") \/ Goto("create", "returned")
  /\ UNCHANGED <<docker, flags, panel, cancelRef, asking, attempt>>

\* Pull and build the image, which may fail.
PrepareImage ==
  /\ job["create"].pc = "prepare"
  /\ Checkpoint("probe") \/ Goto("create", "returned")
  /\ UNCHANGED <<docker, flags, panel, cancelRef, asking, attempt>>

ProbeVolume ==
  /\ job["create"].pc = "probe"
  /\ flags' = [flags EXCEPT !.volume = job["create"].name \notin volumes]
  /\ Goto("create", "volume")
  /\ UNCHANGED <<docker, panel, cancelRef, asking, attempt>>

\* A failure is left to docker run, which makes the volume too.
CreateVolume ==
  /\ job["create"].pc = "volume"
  /\ volumes' = volumes \cup {job["create"].name} \/ UNCHANGED volumes
  /\ Goto("create", "run")
  /\ UNCHANGED <<containers, flags, panel, cancelRef, asking, attempt>>

\* docker run succeeds, fails or times out with its container made (`failedLate`,
\* for the properties), or fails before that.
RunContainer ==
  LET n == job["create"].name IN
  /\ job["create"].pc = "run"
  /\ \/ /\ n \notin containers
        /\ containers' = containers \cup {n} /\ volumes' = volumes \cup {n}
        /\ \/ Goto("create", "started") /\ UNCHANGED attempt
           \/ Goto("create", "returned") /\ attempt' = [attempt EXCEPT !.failedLate = TRUE]
     \/ UNCHANGED <<docker, attempt>> /\ Goto("create", "returned")
  /\ UNCHANGED <<flags, panel, cancelRef, asking>>

ContainerStarted ==
  /\ job["create"].pc = "started"
  /\ flags' = [flags EXCEPT !.container = TRUE]
  /\ Goto("create", "boot")
  /\ UNCHANGED <<docker, panel, cancelRef, asking, attempt>>

\* Wait for ADB and set the device up, with checkpoints, the last one at the end.
Boot ==
  /\ job["create"].pc = "boot"
  /\ Checkpoint("returned")
  /\ UNCHANGED <<docker, flags, panel, cancelRef, asking, attempt>>

-----------------------------------------------------------------------------
Cleanup(j) == IfContainer(j) \/ RmContainer(j) \/ IfVolume(j) \/ RmVolume(j)

CreateCall ==
  \/ Enter \/ ResetVolumeFlag \/ ListContainers \/ PrepareImage \/ ProbeVolume
  \/ CreateVolume \/ RunContainer \/ ContainerStarted \/ Boot

PanelStep ==
  \/ (\E n \in Names : Submit(n) \/ DeleteInstance(n))
  \/ GiveUpProbing \/ CallCreate \/ CreateAnswered \/ RepeatAnswered
  \/ AskCancel \/ ConfirmCancel \/ DismissCancel

CreationNext == PanelStep \/ CreateCall \/ \E j \in Jobs : StoreCancel(j) \/ Cleanup(j)

CreationSpec == CreationInit /\ [][CreationNext]_creationVars

-----------------------------------------------------------------------------
(* Properties.                                                             *)

Quiet == panel.pc = "idle" /\ asking = NoName /\ \A j \in Jobs : job[j].pc = "idle"

LeftNothing == attempt.name \notin containers /\ (attempt.name \in volumes => attempt.hadVolume)

\* An attempt that was cancelled, at whatever point, leaves no container and no
\* volume of its own, unless docker run failed with its container made, or a
\* cancellation of an earlier attempt was still at work.
CancelledLeavesNothing ==
  Quiet /\ cancelRef /\ ~attempt.overlapped /\ ~attempt.failedLate => LeftNothing

\* An existing volume is kept: only one that this attempt made is removed.
ExistingVolumesAreKept ==
  [][~attempt.overlapped =>
       \A n \in volumes \ volumes' : n = attempt.name /\ ~attempt.hadVolume]_creationVars
=============================================================================
