---------------------------- MODULE HostCommands ----------------------------
(***************************************************************************)
(* The commands the desktop program runs on the host (services/util.rs):   *)
(* tracked file transfers, which poll their child, the user's cancel flag  *)
(* and a deadline (services/transfer.rs), and plain queries, whose child a *)
(* thread of its own waits for while the caller waits for that thread.     *)
(* A process is its id in the system's table.  An id is free again once    *)
(* the process is dead and its parent has waited for it; then the system   *)
(* may give it to a stranger.  A child may leave a helper behind that      *)
(* keeps the ends of its pipes open.                                       *)
(***************************************************************************)
EXTENDS FiniteSets

CONSTANTS Transfers,    \* tracked transfers; the front end gives each an id of its own
          Queries,      \* commands run with a time limit
          Pids,         \* process ids
          NoOne         \* the owner of an id that is free
Calls == Transfers \cup Queries
Stranger == "stranger"

ASSUME CallsAssumption ==
  /\ Transfers \cap Queries = {} /\ NoOne # Stranger
  /\ \A c \in Calls : c # NoOne /\ c # Stranger

VARIABLES step,        \* [Calls -> where the call is]
          outcome,     \* [Calls -> what it will return]
          childId,     \* [Calls -> the id it remembers of its child]
          table,       \* [Pids -> [owner, state]]
          pipes,       \* [Calls -> who holds the writing ends of its pipes]
          cancelFlag,  \* cancel flags that are set
          registry,    \* TRANSFER_CANCELLATIONS: the transfers that can be found
          cancelling,  \* the flag a cancel command has found and not set yet
          waiter       \* [Queries -> what the waiting thread has sent]
commandVars == <<step, outcome, childId, table, pipes, cancelFlag, registry, cancelling, waiter>>

Free == [owner |-> NoOne, state |-> "free"]
Ended == {"idle", "ended"}

CommandTypeOK ==
  /\ step \in [Calls -> {"idle", "spawning", "polling", "checking", "killing", "waiting",
                         "draining", "receiving", "ended"}]
  /\ outcome \in [Calls -> {"none", "completed", "failed", "cancelled", "timed out"}]
  /\ childId \in [Calls -> Pids \cup {NoOne}]
  /\ table \in [Pids -> [owner : Calls \cup {NoOne, Stranger}, state : {"free", "running", "dead"}]]
  /\ pipes \in [Calls -> SUBSET {"child", "helper", "self"}]
  /\ cancelFlag \subseteq Transfers /\ registry \subseteq Transfers
  /\ cancelling \in Transfers \cup {NoOne}
  /\ waiter \in [Queries -> {"none", "waiting", "sent"}]

CommandInit ==
  /\ step = [c \in Calls |-> "idle"]
  /\ outcome = [c \in Calls |-> "none"]
  /\ childId = [c \in Calls |-> NoOne]
  /\ table = [p \in Pids |-> Free]
  /\ pipes = [c \in Calls |-> {}]
  /\ cancelFlag = {} /\ registry = {}
  /\ cancelling = NoOne
  /\ waiter = [q \in Queries |-> "none"]

GoesTo(c, s) == step' = [step EXCEPT ![c] = s]
Answers(c, o) == outcome' = [outcome EXCEPT ![c] = o]

\* Where a call goes once its child runs: a transfer polls, a query waits for its thread.
AfterSpawn(c) == IF c \in Transfers THEN "polling" ELSE "receiving"

-----------------------------------------------------------------------------
(* Beginning.                                                              *)

\* The flag can be found from before the child exists.
BeginTransfer(c) ==
  /\ c \in Transfers /\ step[c] = "idle"
  /\ registry' = registry \cup {c}
  /\ GoesTo(c, "spawning")
  /\ UNCHANGED <<outcome, childId, table, pipes, cancelFlag, cancelling, waiter>>

BeginQuery(c) ==
  /\ c \in Queries /\ step[c] = "idle"
  /\ GoesTo(c, "spawning")
  /\ UNCHANGED <<outcome, childId, table, pipes, cancelFlag, registry, cancelling, waiter>>

\* Who holds the writing ends once the child runs; the parent drops its own sender.
Holders_KeepsSender(helper) == {"child", "self"} \cup helper
Holders(helper) == {"child"} \cup helper

SpawnChild(c) ==
  /\ step[c] = "spawning"
  /\ \E p \in Pids, helper \in SUBSET {"helper"} :
       /\ table[p] = Free
       /\ table' = [table EXCEPT ![p] = [owner |-> c, state |-> "running"]]
       /\ childId' = [childId EXCEPT ![c] = p]
       /\ pipes' = [pipes EXCEPT ![c] = Holders(helper)]
  /\ waiter' = IF c \in Queries THEN [waiter EXCEPT ![c] = "waiting"] ELSE waiter
  /\ GoesTo(c, AfterSpawn(c))
  /\ UNCHANGED <<outcome, cancelFlag, registry, cancelling>>

SpawnFails(c) ==
  /\ step[c] = "spawning"
  /\ Answers(c, "failed")
  /\ GoesTo(c, IF c \in Transfers THEN "draining" ELSE "ended")
  /\ UNCHANGED <<childId, table, pipes, cancelFlag, registry, cancelling, waiter>>

-----------------------------------------------------------------------------
(* The loop of run_command_cancellable.                                    *)

Poll(c) ==
  /\ step[c] = "polling"
  /\ IF c \in cancelFlag
     THEN Answers(c, "cancelled") /\ GoesTo(c, "killing")
     ELSE GoesTo(c, "checking") /\ UNCHANGED outcome
  /\ UNCHANGED <<childId, table, pipes, cancelFlag, registry, cancelling, waiter>>

\* Once the child has been waited for, the loop is left: its id is not looked at again.
AfterReaping_PollsOn == "polling"
AfterReaping == "draining"

\* try_wait gives the id back to the system; the deadline is looked at only while
\* the child runs.
Check(c) ==
  LET p == childId[c] IN
  /\ step[c] = "checking"
  /\ \/ /\ table[p].state = "dead"
        /\ table' = [table EXCEPT ![p] = Free]
        /\ \E o \in {"completed", "failed"} : Answers(c, o)
        /\ GoesTo(c, AfterReaping)
     \/ /\ table[p].state = "running"
        /\ GoesTo(c, "polling") /\ UNCHANGED <<outcome, table>>
     \/ /\ table[p].state = "running"
        /\ \E o \in {"timed out", "failed"} : Answers(c, o)     \* the deadline, or an error
        /\ GoesTo(c, "killing") /\ UNCHANGED table
  /\ UNCHANGED <<childId, pipes, cancelFlag, registry, cancelling, waiter>>

\* kill_process goes by the id.  taskkill /T takes a helper along, kill -9 does not.
Killed(p) == IF table[p].state = "running" THEN [table EXCEPT ![p].state = "dead"] ELSE table
KillPipes(p) ==
  LET owner == table[p].owner
  IN IF owner \in Calls /\ table[p].state = "running"
     THEN \E rest \in {pipes[owner] \ {"child"}, pipes[owner] \ {"child", "helper"}} :
            pipes' = [pipes EXCEPT ![owner] = rest]
     ELSE UNCHANGED pipes

AfterKill(c) == IF c \in Transfers THEN "waiting" ELSE "ended"

Kill(c) ==
  /\ step[c] = "killing"
  /\ table' = Killed(childId[c])
  /\ KillPipes(childId[c])
  /\ GoesTo(c, AfterKill(c))
  /\ UNCHANGED <<outcome, childId, cancelFlag, registry, cancelling, waiter>>

\* child.wait() after the kill.
WaitForChild(c) ==
  /\ step[c] = "waiting"
  /\ table[childId[c]].state = "dead"
  /\ table' = [table EXCEPT ![childId[c]] = Free]
  /\ GoesTo(c, "draining")
  /\ UNCHANGED <<outcome, childId, pipes, cancelFlag, registry, cancelling, waiter>>

\* record_remaining_output returns when every writing end is closed; then the
\* transfer is taken out of the registry and its last event goes out.
Drain(c) ==
  /\ step[c] = "draining" /\ pipes[c] = {}
  /\ registry' = registry \ {c}
  /\ GoesTo(c, "ended")
  /\ UNCHANGED <<outcome, childId, table, pipes, cancelFlag, cancelling, waiter>>

-----------------------------------------------------------------------------
(* A query: the thread reads to the end of the pipes, then waits.          *)

WaiterSends(q) ==
  /\ q \in Queries /\ waiter[q] = "waiting" /\ pipes[q] = {}
  /\ table[childId[q]] = [owner |-> q, state |-> "dead"]
  /\ table' = [table EXCEPT ![childId[q]] = Free]
  /\ waiter' = [waiter EXCEPT ![q] = "sent"]
  /\ UNCHANGED <<step, outcome, childId, pipes, cancelFlag, registry, cancelling>>

Receive(q) ==
  /\ q \in Queries /\ step[q] = "receiving" /\ waiter[q] = "sent"
  /\ \E o \in {"completed", "failed"} : Answers(q, o)
  /\ GoesTo(q, "ended")
  /\ UNCHANGED <<childId, table, pipes, cancelFlag, registry, cancelling, waiter>>

\* recv_timeout gives up; the kill that follows is a step of its own.
GiveUpWaiting(q) ==
  /\ q \in Queries /\ step[q] = "receiving" /\ waiter[q] # "sent"
  /\ Answers(q, "timed out") /\ GoesTo(q, "killing")
  /\ UNCHANGED <<childId, table, pipes, cancelFlag, registry, cancelling, waiter>>

-----------------------------------------------------------------------------
(* cancel_transfer: the flag is found under the lock and set after it.     *)

FindFlag(c) ==
  /\ cancelling = NoOne /\ c \in registry
  /\ cancelling' = c
  /\ UNCHANGED <<step, outcome, childId, table, pipes, cancelFlag, registry, waiter>>

SetFlag ==
  /\ cancelling # NoOne
  /\ cancelFlag' = cancelFlag \cup {cancelling}
  /\ cancelling' = NoOne
  /\ UNCHANGED <<step, outcome, childId, table, pipes, registry, waiter>>

-----------------------------------------------------------------------------
(* The system.                                                             *)

ProcessExits(p) ==
  /\ table[p].owner \in Calls /\ table[p].state = "running"
  /\ table' = [table EXCEPT ![p].state = "dead"]
  /\ pipes' = [pipes EXCEPT ![table[p].owner] = @ \ {"child"}]
  /\ UNCHANGED <<step, outcome, childId, cancelFlag, registry, cancelling, waiter>>

HelperCloses(c) ==
  /\ "helper" \in pipes[c]
  /\ pipes' = [pipes EXCEPT ![c] = @ \ {"helper"}]
  /\ UNCHANGED <<step, outcome, childId, table, cancelFlag, registry, cancelling, waiter>>

StrangerStarts(p) ==
  /\ table[p] = Free
  /\ table' = [table EXCEPT ![p] = [owner |-> Stranger, state |-> "running"]]
  /\ UNCHANGED <<step, outcome, childId, pipes, cancelFlag, registry, cancelling, waiter>>

TransferStep(c) == BeginTransfer(c) \/ SpawnChild(c) \/ SpawnFails(c) \/ Poll(c) \/ Check(c)
                     \/ Kill(c) \/ WaitForChild(c) \/ Drain(c)
QueryStep(q) == BeginQuery(q) \/ WaiterSends(q) \/ Receive(q) \/ GiveUpWaiting(q)

CommandNext ==
  \/ \E c \in Calls : TransferStep(c) \/ QueryStep(c) \/ FindFlag(c) \/ HelperCloses(c)
  \/ SetFlag
  \/ \E p \in Pids : ProcessExits(p) \/ StrangerStarts(p)

\* The threads run on and a cancel that found its flag sets it; a helper closes its
\* pipes in the end (an adb server that was started on the way takes its output to a
\* log file).  A child need never exit by itself, nor its deadline pass.
CommandFairness ==
  /\ \A c \in Transfers :
       /\ WF_commandVars(SpawnChild(c) \/ SpawnFails(c) \/ Poll(c) \/ Check(c) \/ Kill(c)
                           \/ WaitForChild(c) \/ Drain(c))
       /\ WF_commandVars(HelperCloses(c))
  /\ WF_commandVars(SetFlag)

CommandSpec == CommandInit /\ [][CommandNext]_commandVars /\ CommandFairness

-----------------------------------------------------------------------------
(* Properties.                                                             *)

\* The kill of a transfer never reaches a process that is not its own: it remembers an
\* id only, and whatever ends the child meanwhile, the id is not given away before.
TransfersKillTheirOwn ==
  [][\A p \in Pids : table[p].owner = Stranger /\ table[p].state = "running" /\ table'[p].state = "dead"
       => \E q \in Queries : step[q] = "killing" /\ childId[q] = p]_commandVars

\* A transfer the user cancels while it runs is over in the end, whatever its child
\* does: the loop sees the flag, and draining the pipes does not wait for itself.
CancelledTransfersEnd == \A c \in Transfers : c \in cancelFlag ~> step[c] = "ended"

\* Cancelling a transfer ends it, and ends nothing else.
CancelsAreExact == TransfersKillTheirOwn /\ CancelledTransfersEnd
=============================================================================
