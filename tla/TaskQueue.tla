----------------------------- MODULE TaskQueue ------------------------------
(* runTaskQueue: the front-end's batch runner, behind every multi-file copy,  *)
(* upload and delete.  JavaScript runs one callback at a time; what comes     *)
(* between them is the order in which workers settle, the two callbacks of a  *)
(* settled worker (its result, then the slot it frees), and the user's cancel.*)
EXTENDS Integers, FiniteSets

CONSTANTS
  N,              \* items in the batch
  Concurrency     \* options.concurrency, as the caller gave it

ASSUME TaskQueueAssumption == N \in Nat /\ Concurrency \in Int

VARIABLES
  submitted,      \* runTaskQueue has been called
  nextIndex,      \* the first item not handed out yet
  active,         \* workers counted as running
  cancelled,
  results,        \* per item: "none" until it has one
  running,        \* items whose worker has not settled
  leaving,        \* items whose result is in, and whose slot is not free yet
  answer          \* what `done` resolved with

queueVars == <<submitted, nextIndex, active, cancelled, results, running, leaving, answer>>

-----------------------------------------------------------------------------
Items == 1..N
Outcome == {"fulfilled", "rejected", "cancelled"}
QueueLimit == IF Concurrency < 1 THEN 1 ELSE Concurrency

Unresolved == [given |-> FALSE, cancelled |-> FALSE, results |-> [i \in Items |-> "none"]]

QueueTypeOK ==
  /\ submitted \in BOOLEAN
  /\ nextIndex \in 1..(N + 1)
  /\ active \in 0..QueueLimit
  /\ cancelled \in BOOLEAN
  /\ results \in [Items -> Outcome \cup {"none"}]
  /\ running \subseteq Items /\ leaving \subseteq Items
  /\ answer \in [given : BOOLEAN, cancelled : BOOLEAN,
                 results : [Items -> Outcome \cup {"none"}]]

\* finishIfReady, after a callback that leaves these values.
FinishIfReady(now, res, stop) ==
  answer' = IF answer.given \/ now # 0 \/ \E i \in Items : res[i] = "none"
            THEN answer ELSE [given |-> TRUE, cancelled |-> stop, results |-> res]

\* markPendingCancelled: every item that was not handed out yet.
MarkCancelled(from, res) == [i \in Items |-> IF i >= from THEN "cancelled" ELSE res[i]]

\* The items pump hands out when `busy` workers are counted.
HandedOut_OneTooMany(from, busy) == {i \in Items : i >= from /\ i - from <= QueueLimit - busy}
HandedOut(from, busy) == {i \in Items : i >= from /\ i - from < QueueLimit - busy}

QueueInit ==
  /\ submitted = FALSE /\ cancelled = FALSE
  /\ nextIndex = 1 /\ active = 0
  /\ results = [i \in Items |-> "none"]
  /\ running = {} /\ leaving = {}
  /\ answer = Unresolved

\* runTaskQueue pumps before it returns.
SubmitBatch ==
  /\ ~submitted
  /\ submitted' = TRUE
  /\ running' = HandedOut(1, 0)
  /\ active' = Cardinality(HandedOut(1, 0))
  /\ nextIndex' = Cardinality(HandedOut(1, 0)) + 1
  /\ answer' = [answer EXCEPT !.given = (N = 0)]
  /\ UNCHANGED <<cancelled, results, leaving>>

\* The worker's promise settles: `then` or `catch` records the result.
SettleItem(i, outcome) ==
  /\ i \in running
  /\ results' = [results EXCEPT ![i] = outcome]
  /\ running' = running \ {i}
  /\ leaving' = leaving \cup {i}
  /\ UNCHANGED <<submitted, nextIndex, active, cancelled, answer>>

LeaveSlot_CountsLate(i) ==
  LET next == IF cancelled THEN {} ELSE HandedOut(nextIndex, active - 1) IN
  /\ i \in leaving
  /\ leaving' = leaving \ {i}
  /\ running' = running \cup next
  /\ nextIndex' = nextIndex + Cardinality(next)
  /\ active' = active - 1 + Cardinality(next)
  /\ FinishIfReady(active, results, cancelled)
  /\ UNCHANGED <<submitted, cancelled, results>>

\* `finally`: give the slot back, pump, and see whether that was all.
LeaveSlot(i) ==
  LET next == IF cancelled THEN {} ELSE HandedOut(nextIndex, active - 1) IN
  /\ i \in leaving
  /\ leaving' = leaving \ {i}
  /\ running' = running \cup next
  /\ nextIndex' = nextIndex + Cardinality(next)
  /\ active' = active - 1 + Cardinality(next)
  /\ FinishIfReady(active', results, cancelled)
  /\ UNCHANGED <<submitted, cancelled, results>>

\* handle.cancel().
CancelBatch ==
  /\ submitted /\ ~cancelled
  /\ cancelled' = TRUE
  /\ nextIndex' = N + 1
  /\ results' = MarkCancelled(nextIndex, results)
  /\ FinishIfReady(active, results', TRUE)
  /\ UNCHANGED <<submitted, active, running, leaving>>

QueueWork(i) == (\E outcome \in {"fulfilled", "rejected"} : SettleItem(i, outcome)) \/ LeaveSlot(i)

QueueNext == SubmitBatch \/ CancelBatch \/ \E i \in Items : QueueWork(i)

QueueSpec == QueueInit /\ [][QueueNext]_queueVars

\* Assumes that every worker settles sooner or later (an awaited device command
\* that ends or fails); the event loop runs the callbacks of a settled promise.
QueueFairness == \A i \in Items : WF_queueVars(QueueWork(i))

-----------------------------------------------------------------------------
(* Properties.                                                             *)

\* The count the concurrency limit is held against is the number of items that
\* hold a slot: those whose worker runs and those that have yet to leave.
ActiveIsHeldSlots ==
  /\ running \cap leaving = {}
  /\ active = Cardinality(running \cup leaving)
  /\ active <= QueueLimit

\* The caller that awaits `done` gets its answer.
BatchIsAnswered == submitted ~> answer.given
=============================================================================
