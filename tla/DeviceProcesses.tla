-------------------------- MODULE DeviceProcesses ---------------------------
(* The processes the desktop runs for one device: a recording or input        *)
(* session, a scrcpy window, an embedded stream (scrcpy feeding ffmpeg) and a *)
(* gnirehtet tunnel.  Each of the four services keeps a registry of handles   *)
(* behind a lock of its own; a start holds that lock while it stops the       *)
(* previous process and again when it lists the new one, and not in between,  *)
(* while it waits for the device and for the new process to settle.  The four *)
(* registries share nothing, so a behaviour follows one of them.              *)
EXTENDS Integers, FiniteSets

CONSTANTS
  Children,        \* the processes a behaviour may spawn
  Starts           \* start calls that may be under way at once

VARIABLES
  service,         \* which of the four services
  handles,         \* the device's entry in its registry, {} for none
  procs,           \* what each process does
  starts,          \* per start call: its place, and the processes it spawned
  raced,           \* (for the properties) a start began while another was under way
  dropped          \* (for the properties) a start gave up a process it could not query or kill

deviceVars == <<service, handles, procs, starts, raced, dropped>>

-----------------------------------------------------------------------------
Services   == {"recording", "scrcpy", "stream", "gnirehtet"}
NoStart    == [pc |-> "idle", own |-> {}]
Running    == {p \in Children : procs[p] = "alive"}
Underway   == {x \in Starts : starts[x].pc # "idle"}
Halves     == IF service = "stream" THEN 2 ELSE 1

\* These two answer a stop with the exit status of a process that had ended by itself.
ReportsStatus == service \in {"recording", "gnirehtet"}

DeviceTypeOK ==
  /\ service \in Services
  /\ handles \subseteq Children /\ Cardinality(handles) \in {0, Halves}
  /\ procs \in [Children -> {"unused", "alive", "ended", "failed"}]
  /\ starts \in [Starts -> [pc : {"idle", "asked", "ready", "launched"}, own : SUBSET Children]]
  /\ raced \in BOOLEAN /\ dropped \in BOOLEAN

DeviceInit ==
  /\ service \in Services
  /\ handles = {}
  /\ procs = [p \in Children |-> "unused"]
  /\ starts = [x \in Starts |-> NoStart]
  /\ raced = FALSE /\ dropped = FALSE

StartAt(x, pc, own) == starts' = [starts EXCEPT ![x] = [pc |-> pc, own |-> own]]

\* The system may refuse to tell the state of a process, to kill it or to wait for
\* it: some of those may survive.
Ended(ps, survivors) ==
  [p \in Children |-> IF p \in ps \ survivors /\ procs[p] = "alive" THEN "ended" ELSE procs[p]]

\* The locked part of a stop: the entry goes when all of it is gone, and is put
\* back otherwise.
TakeDown(ok) ==
  \E refused \in SUBSET handles : \E survivors \in SUBSET refused :
    /\ procs' = Ended(handles, survivors)
    /\ handles' = IF refused = {} THEN {} ELSE handles
    /\ ok = (refused = {} /\ (ReportsStatus => \A p \in handles : procs[p] # "failed"))

-----------------------------------------------------------------------------
(* start.                                                                  *)

\* gnirehtet looks first, and gives the lock back before it stops anything.
AskStart(x) ==
  /\ starts[x].pc = "idle"
  /\ StartAt(x, IF service = "gnirehtet" /\ handles = {} THEN "ready" ELSE "asked", {})
  /\ raced' = (raced \/ Underway # {})
  /\ UNCHANGED <<service, handles, procs, dropped>>

\* gnirehtet's stop also runs the device's own `stop`, which may fail.
StopPrevious_IgnoresFailure(x) ==
  /\ starts[x].pc = "asked"
  /\ \E ok \in BOOLEAN : TakeDown(ok) /\ StartAt(x, "ready", {})
  /\ UNCHANGED <<service, raced, dropped>>
StopPrevious(x) ==
  /\ starts[x].pc = "asked"
  /\ \E ok \in BOOLEAN, remote \in BOOLEAN :
       /\ TakeDown(ok)
       /\ StartAt(x, IF ok /\ (service = "gnirehtet" => remote) THEN "ready" ELSE "idle", {})
  /\ UNCHANGED <<service, raced, dropped>>

\* No output file, no device, bad options or no program: nothing was spawned.
StartRefused(x) ==
  /\ starts[x].pc = "ready"
  /\ StartAt(x, "idle", {})
  /\ UNCHANGED <<service, handles, procs, raced, dropped>>

\* Nothing tells the processes apart.
Fresh(n)    == {ps \in SUBSET {p \in Children : procs[p] = "unused"} : Cardinality(ps) = n}
Spawned(n)  == CHOOSE ps \in Fresh(n) : TRUE
CanSpawn(n) == Fresh(n) # {}

Launch(x) ==
  /\ starts[x].pc = "ready" /\ CanSpawn(Halves)
  /\ procs' = [p \in Children |-> IF p \in Spawned(Halves) THEN "alive" ELSE procs[p]]
  /\ StartAt(x, "launched", Spawned(Halves))
  /\ UNCHANGED <<service, handles, raced, dropped>>

\* A stream's ffmpeg does not start: its scrcpy is killed, as far as that goes.
LaunchHalf(x) ==
  /\ starts[x].pc = "ready" /\ service = "stream" /\ CanSpawn(1)
  /\ \E state \in {"ended", "alive"} :
       /\ procs' = [p \in Children |-> IF p \in Spawned(1) THEN state ELSE procs[p]]
       /\ dropped' = (dropped \/ state = "alive")
  /\ StartAt(x, "idle", {})
  /\ UNCHANGED <<service, handles, raced>>

\* The new process has had its moment: one that still runs is listed, over
\* whatever is listed by then.
Enroll(x) ==
  LET own == starts[x].own IN
  /\ starts[x].pc = "launched"
  /\ \A p \in own : procs[p] = "alive"
  /\ handles' = own
  /\ StartAt(x, "idle", {})
  /\ UNCHANGED <<service, procs, raced, dropped>>

\* It has exited, or its state cannot be read, or a stream gets no port.  gnirehtet
\* and stream kill what they spawned; recording and scrcpy give it up as it is.
StartFailsLate(x) ==
  LET own == starts[x].own
      kills == service \in {"stream", "gnirehtet"}
  IN
  /\ starts[x].pc = "launched"
  /\ IF kills THEN \E survivors \in SUBSET own : procs' = Ended(own, survivors)
     ELSE UNCHANGED procs
  /\ dropped' = (dropped \/ \E p \in own : procs'[p] = "alive")
  /\ StartAt(x, "idle", {})
  /\ UNCHANGED <<service, handles, raced>>

-----------------------------------------------------------------------------
StopDevice ==
  /\ \E ok \in BOOLEAN : TakeDown(ok)
  /\ UNCHANGED <<service, starts, raced, dropped>>

\* status: an entry whose process has ended is taken out; a stream of which either
\* half has ended, or cannot be read, is brought down first.
DeviceStatus ==
  /\ handles # {}
  /\ IF service = "stream"
     THEN TakeDown(TRUE) \/ TakeDown(FALSE)
     ELSE /\ \A p \in handles : procs[p] # "alive"
          /\ handles' = {} /\ UNCHANGED procs
  /\ UNCHANGED <<service, starts, raced, dropped>>

ProcessEnds(p) ==
  /\ procs[p] = "alive"
  /\ \E how \in {"ended", "failed"} : procs' = [procs EXCEPT ![p] = how]
  /\ UNCHANGED <<service, handles, starts, raced, dropped>>

DeviceNext ==
  \/ \E x \in Starts : \/ AskStart(x) \/ StopPrevious(x) \/ StartRefused(x) \/ Launch(x)
                       \/ LaunchHalf(x) \/ Enroll(x) \/ StartFailsLate(x)
  \/ StopDevice \/ DeviceStatus
  \/ \E p \in Children : ProcessEnds(p)

DeviceSpec == DeviceInit /\ [][DeviceNext]_deviceVars

-----------------------------------------------------------------------------
(* Properties.                                                             *)

\* Unless two starts overlapped, or a start gave a process up, everything that runs
\* for the device is listed or in the hands of its start, and never both: a second
\* recording, window or tunnel never runs beside the first.
OneProcessUnlessRaced ==
  ~raced /\ ~dropped =>
    LET held == UNION {starts[x].own : x \in Starts}
    IN Running \subseteq handles \cup held /\ (handles = {} \/ held = {})
=============================================================================
