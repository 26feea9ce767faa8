----------------------------- MODULE MCDesktop ------------------------------
(* Small instances, for TLC, of the parts of the desktop that something is    *)
(* bound to come of: the terminals, the batch runner, the scheduled tasks and *)
(* the commands run on the host; and of the creation of Docker instances.     *)
(* They share no state; a behaviour exercises one of them, chosen at the      *)
(* start, while the others rest in their initial states, in which nothing     *)
(* they are fair about is enabled.                                            *)
EXTENDS InstanceCreation, TerminalSessions, TaskQueue, ScheduledTasks, HostCommands

VARIABLE part

desktopVars == <<part, creationVars, terminalVars, queueVars, scheduleVars, commandVars>>

DesktopTypeOK == CreationTypeOK /\ TerminalTypeOK /\ QueueTypeOK /\ ScheduleTypeOK /\ CommandTypeOK

\* Who holds a terminal's slot, or works on an item of a batch, is counted right.
DesktopBooks == DesktopTypeOK /\ SlotsAreCounted /\ ActiveIsHeldSlots

DesktopInit ==
  /\ part \in {"creation", "terminals", "batch", "schedule", "commands"}
  /\ CreationInit /\ TerminalInit /\ QueueInit /\ ScheduleInit /\ CommandInit
  /\ part # "creation" => volumes = {}

DesktopNext ==
  \/ part = "creation" /\ CreationNext /\ UNCHANGED <<part, terminalVars, queueVars, scheduleVars, commandVars>>
  \/ part = "terminals" /\ TerminalNext /\ UNCHANGED <<part, creationVars, queueVars, scheduleVars, commandVars>>
  \/ part = "batch" /\ QueueNext /\ UNCHANGED <<part, creationVars, terminalVars, scheduleVars, commandVars>>
  \/ part = "schedule" /\ ScheduleNext /\ UNCHANGED <<part, creationVars, terminalVars, queueVars, commandVars>>
  \/ part = "commands" /\ CommandNext /\ UNCHANGED <<part, creationVars, terminalVars, queueVars, scheduleVars>>

DesktopSpec ==
  /\ DesktopInit /\ [][DesktopNext]_desktopVars
  /\ TerminalFairness /\ QueueFairness /\ ScheduleFairness /\ CommandFairness
=============================================================================
