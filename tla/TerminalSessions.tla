-------------------------- MODULE TerminalSessions --------------------------
(* The registry of interactive terminals: the start command, the reader       *)
(* thread that outlives it, and the stop commands a user, or a closing        *)
(* window, sends.  The slot counter, the entries, the tombstones of stopped   *)
(* sessions and each session's stopped flag have a lock or an atomic each; no *)
(* step spans two of them.                                                    *)
EXTENDS Integers, Sequences, FiniteSets, SequencesExt

CONSTANTS
  Sessions,        \* the uuids of start calls to come
  Stops,           \* concurrent stop calls
  None,
  MaxSessions,     \* MAX_TERMINAL_SESSIONS
  MaxStopped       \* MAX_STOPPED_IDS

ASSUME TerminalAssumption ==
  /\ {MaxSessions, MaxStopped} \subseteq Nat
  /\ None \notin Sessions

VARIABLES
  activeSessions,  \* the slots taken
  entries,         \* the sessions that can be written to, listed and stopped
  tombstones,      \* the last sessions whose stop succeeded
  flag,            \* sessions whose stopped flag is set
  phase,           \* per session: how far its start call, then its reader, are
  child,           \* its process: "killed" if a stop brought it down
  readError,       \* sessions whose reader broke off with an error
  status,          \* what the exit event said
  confirmed,       \* sessions some stop call has confirmed (for the properties)
  stop             \* per stop call: its place and its session

terminalVars == <<activeSessions, entries, tombstones, flag, phase, child, readError, status, confirmed, stop>>

-----------------------------------------------------------------------------
StartPhases  == {"reserved", "spawned", "listed"}
ReaderPhases == {"reading", "waiting", "removing", "releasing"}
HoldsSlot(s) == phase[s] \in StartPhases \cup ReaderPhases
NotStopping  == [pc |-> "idle", session |-> None, late |-> FALSE]

TerminalTypeOK ==
  /\ activeSessions \in 0..MaxSessions
  /\ entries \subseteq Sessions
  /\ tombstones \in Seq(Sessions) /\ Len(tombstones) <= MaxStopped
  /\ flag \subseteq Sessions /\ readError \subseteq Sessions /\ confirmed \subseteq Sessions
  /\ phase \in [Sessions -> {"unused", "refused", "done"} \cup StartPhases \cup ReaderPhases]
  /\ child \in [Sessions -> {"none", "alive", "dead", "killed"}]
  /\ status \in [Sessions -> {"none", "stopped", "failed", "exited"}]
  /\ stop \in [Stops -> [pc : {"idle", "missing", "flagging", "killing", "remembering", "refused"},
                         session : Sessions \cup {None}, late : BOOLEAN]]

TerminalInit ==
  /\ activeSessions = 0
  /\ entries = {}
  /\ tombstones = <<>>
  /\ flag = {} /\ readError = {} /\ confirmed = {}
  /\ phase = [s \in Sessions |-> "unused"]
  /\ child = [s \in Sessions |-> "none"]
  /\ status = [s \in Sessions |-> "none"]
  /\ stop = [x \in Stops |-> NotStopping]

\* remember_stopped: move the id, which is there once at most, to the back, and drop the
\* oldest.
Without(s) ==
  IF s \in ToSet(tombstones)
  THEN RemoveAt(tombstones, CHOOSE i \in DOMAIN tombstones : tombstones[i] = s) ELSE tombstones
Remember(s) ==
  LET all == Append(Without(s), s)
  IN SubSeq(all, 1 + (IF Len(all) > MaxStopped THEN Len(all) - MaxStopped ELSE 0), Len(all))

Becomes(s, p) == phase' = [phase EXCEPT ![s] = p]
StopGoto(x, pc) == stop' = [stop EXCEPT ![x].pc = pc]
StopReturns(x) == stop' = [stop EXCEPT ![x] = NotStopping]

-----------------------------------------------------------------------------
(* terminal_session::start.                                                *)

\* try_reserve_session.
Reserve(s) ==
  /\ phase[s] = "unused"
  /\ activeSessions < MaxSessions
  /\ activeSessions' = activeSessions + 1
  /\ Becomes(s, "reserved")
  /\ UNCHANGED <<entries, tombstones, flag, child, readError, status, confirmed, stop>>

Spawn(s) ==
  /\ phase[s] = "reserved"
  /\ child' = [child EXCEPT ![s] = "alive"]
  /\ Becomes(s, "spawned")
  /\ UNCHANGED <<activeSessions, entries, tombstones, flag, readError, status, confirmed, stop>>

\* No terminal, no process, no reader or no writer: a process that was spawned is
\* killed, as far as that goes, and the slot given back.
StartFails(s) ==
  /\ phase[s] \in {"reserved", "spawned"}
  /\ IF phase[s] = "reserved" THEN UNCHANGED child
     ELSE \E c \in {"alive", "dead"} : child' = [child EXCEPT ![s] = c]
  /\ activeSessions' = activeSessions - 1
  /\ Becomes(s, "refused")
  /\ UNCHANGED <<entries, tombstones, flag, readError, status, confirmed, stop>>

\* The entry goes in before its reader starts.
Enlist(s) ==
  /\ phase[s] = "spawned"
  /\ entries' = entries \cup {s}
  /\ Becomes(s, "listed")
  /\ UNCHANGED <<activeSessions, tombstones, flag, child, readError, status, confirmed, stop>>

SpawnReader(s) ==
  /\ phase[s] = "listed"
  /\ Becomes(s, "reading")
  /\ UNCHANGED <<activeSessions, entries, tombstones, flag, child, readError, status, confirmed, stop>>

-----------------------------------------------------------------------------
(* The process and its reader thread.                                      *)

ChildExits(s) ==
  /\ child[s] = "alive"
  /\ child' = [child EXCEPT ![s] = "dead"]
  /\ UNCHANGED <<activeSessions, entries, tombstones, flag, phase, readError, status, confirmed, stop>>

\* The loop ends at the end of the output, or with an error; an output over the
\* limit is one, and kills the process.
ReadingEnds(s) ==
  /\ phase[s] = "reading"
  /\ \/ child[s] # "alive" /\ UNCHANGED <<child, readError>>
     \/ /\ readError' = readError \cup {s}
        /\ child' = child \/ child' = [child EXCEPT ![s] = IF @ = "alive" THEN "dead" ELSE @]
  /\ Becomes(s, "waiting")
  /\ UNCHANGED <<activeSessions, entries, tombstones, flag, status, confirmed, stop>>

\* child.wait() returns, or fails; then the flag decides what the event says, and the
\* reader's error is spent on it.
ReportExit_StillWaiting(s) ==
  /\ phase[s] = "waiting" /\ s \notin readError
  /\ child[s] \in {"dead", "killed"}
  /\ status' = [status EXCEPT ![s] = IF s \in flag THEN "stopped" ELSE "exited"]
  /\ Becomes(s, "removing")
  /\ UNCHANGED <<activeSessions, entries, tombstones, flag, child, readError, confirmed, stop>>
ReportExit(s) ==
  /\ phase[s] = "waiting"
  /\ \E waited \in BOOLEAN :
       /\ waited => child[s] # "alive"
       /\ status' = [status EXCEPT ![s] =
            IF s \in flag THEN "stopped"
            ELSE IF s \in readError \/ ~waited THEN "failed" ELSE "exited"]
  /\ readError' = readError \ {s}
  /\ Becomes(s, "removing")
  /\ UNCHANGED <<activeSessions, entries, tombstones, flag, child, confirmed, stop>>

Delist(s) ==
  /\ phase[s] = "removing"
  /\ entries' = entries \ {s}
  /\ Becomes(s, "releasing")
  /\ UNCHANGED <<activeSessions, tombstones, flag, child, readError, status, confirmed, stop>>

Release(s) ==
  /\ phase[s] = "releasing"
  /\ activeSessions' = activeSessions - 1
  /\ Becomes(s, "done")
  /\ UNCHANGED <<entries, tombstones, flag, child, readError, status, confirmed, stop>>

-----------------------------------------------------------------------------
(* terminal_session::stop.                                                 *)

\* Whoever takes the entry out stops the session.  `late`, for the properties:
\* another call had confirmed the stop before this one came in.
StopTakes(x, s) ==
  /\ stop[x].pc = "idle" /\ phase[s] \notin {"unused", "refused", "reserved", "spawned"}
  /\ entries' = entries \ {s}
  /\ stop' = [stop EXCEPT ![x] = [pc |-> IF s \in entries THEN "flagging" ELSE "missing",
                                  session |-> s, late |-> s \in confirmed]]
  /\ UNCHANGED <<activeSessions, tombstones, flag, phase, child, readError, status, confirmed>>

\* No entry: fine if it is known to be stopped.
StopMissing(x) ==
  /\ stop[x].pc = "missing"
  /\ IF stop[x].session \in ToSet(tombstones) THEN StopReturns(x) ELSE StopGoto(x, "refused")
  /\ UNCHANGED <<activeSessions, entries, tombstones, flag, phase, child, readError, status, confirmed>>

StopFlags_Forgotten(x) ==
  /\ stop[x].pc = "flagging"
  /\ StopGoto(x, "killing")
  /\ UNCHANGED <<activeSessions, entries, tombstones, flag, phase, child, readError, status, confirmed>>
StopFlags(x) ==
  /\ stop[x].pc = "flagging"
  /\ flag' = flag \cup {stop[x].session}
  /\ StopGoto(x, "killing")
  /\ UNCHANGED <<activeSessions, entries, tombstones, phase, child, readError, status, confirmed>>

\* The kill may fail, on a process that is gone too; the call then ends with an
\* error, its entry already taken out.
StopKills(x) ==
  LET s == stop[x].session IN
  /\ stop[x].pc = "killing"
  /\ \/ /\ child' = [child EXCEPT ![s] = IF @ = "alive" THEN "killed" ELSE @]
        /\ StopGoto(x, "remembering")
     \/ UNCHANGED child /\ StopGoto(x, "refused")
  /\ UNCHANGED <<activeSessions, entries, tombstones, flag, phase, readError, status, confirmed>>

StopRemembers_Forgets(x) ==
  /\ stop[x].pc = "remembering"
  /\ confirmed' = confirmed \cup {stop[x].session}
  /\ StopReturns(x)
  /\ UNCHANGED <<activeSessions, entries, tombstones, flag, phase, child, readError, status>>
StopRemembers(x) ==
  /\ stop[x].pc = "remembering"
  /\ tombstones' = Remember(stop[x].session)
  /\ confirmed' = confirmed \cup {stop[x].session}
  /\ StopReturns(x)
  /\ UNCHANGED <<activeSessions, entries, flag, phase, child, readError, status>>

\* The call answers with an error.
StopRefused(x) ==
  /\ stop[x].pc = "refused"
  /\ StopReturns(x)
  /\ UNCHANGED <<activeSessions, entries, tombstones, flag, phase, child, readError, status, confirmed>>

-----------------------------------------------------------------------------
Start(s)  == Reserve(s) \/ Spawn(s) \/ StartFails(s) \/ Enlist(s) \/ SpawnReader(s)
Reader(s) == ReadingEnds(s) \/ ReportExit(s) \/ Delist(s) \/ Release(s)
StopCall(x) ==
  \/ \E s \in Sessions : StopTakes(x, s)
  \/ StopMissing(x) \/ StopFlags(x) \/ StopKills(x) \/ StopRemembers(x) \/ StopRefused(x)

TerminalNext ==
  \/ \E s \in Sessions : Start(s) \/ Reader(s) \/ ChildExits(s)
  \/ \E x \in Stops : StopCall(x)

TerminalSpec == TerminalInit /\ [][TerminalNext]_terminalVars

\* Threads that nothing holds up go on; the reader is sure to see the end of the
\* output, and of the process, once the process is gone.  Nothing makes a process
\* exit, a read fail or a stop call come.
TerminalFairness ==
  \A s \in Sessions :
    /\ WF_terminalVars(Spawn(s) \/ Enlist(s) \/ SpawnReader(s) \/ Delist(s) \/ Release(s))
    /\ WF_terminalVars(child[s] # "alive" /\ (ReadingEnds(s) \/ ReportExit(s)))

-----------------------------------------------------------------------------
(* Properties.                                                             *)

\* The counter that start is refused by is the number of sessions that hold a slot,
\* on every way out of start and of the reader.
SlotsAreCounted == activeSessions = Cardinality({s \in Sessions : HoldsSlot(s)})

\* The exit event of a process that a stop brought down says "stopped", however the
\* reader found out and whatever else went wrong: it never says exited or failed.
StoppedIsReportedStopped ==
  [][\A s \in Sessions :
       status[s] = "none" /\ status'[s] # "none" /\ child[s] = "killed" => status'[s] = "stopped"]_terminalVars

\* Stopping twice (the button, then the window that closes) succeeds twice: a stop
\* that comes in after a confirmed one fails only if the bounded memory of stopped
\* sessions has been filled by others since.
ConfirmedStopIsRepeatable ==
  \A x \in Stops : stop[x].pc = "refused" /\ stop[x].late =>
    Len(tombstones) = MaxStopped /\ stop[x].session \notin ToSet(tombstones)

\* When the process is gone the slot is given back.
SlotIsReturned ==
  \A s \in Sessions : child[s] \in {"dead", "killed"} ~> ~HoldsSlot(s)

\* What a stop told its caller stays true: the exit event of the process it brought down
\* agrees with it, and stopping again agrees with the first time.
StopsAreTruthful == StoppedIsReportedStopped /\ [](/\ ConfirmedStopIsRepeatable)
=============================================================================
