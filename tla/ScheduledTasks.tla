--------------------------- MODULE ScheduledTasks ---------------------------
(* The scheduled tasks of the front end: a tick every 30 seconds, which runs  *)
(* what is due in the list kept in localStorage, and the settings panel, which*)
(* edits a copy of that list it loaded when it was opened.  A tick awaits the *)
(* commands of its tasks, one after the other, so later ticks and the panel   *)
(* come between them.  Time is kept as whether a task's nextRun has come.     *)
EXTENDS Integers, FiniteSets, FiniteSetsExt

CONSTANTS
  Tasks,           \* task ids, in the order of the list
  OnceTasks,       \* those of kind "once"
  Ticks,           \* ticks that may be under way at once
  MaxEdits         \* bound: edits of the list by the user

ASSUME TasksAssumption == MaxEdits \in Nat /\ Tasks \subseteq Nat /\ IsFiniteSet(Tasks) /\ OnceTasks \subseteq Tasks

VARIABLES
  storedTasks,     \* localStorage
  ticks,           \* per tick: the list it read, and what it has left to run
  runningTaskIds,
  editor,          \* the settings panel: whether it is open, and its list
  edits,           \* edits made, for the bound
  runs             \* (for the properties) executions of a one-time task since the user armed it, up to 2

scheduleVars == <<storedTasks, ticks, runningTaskIds, editor, edits, runs>>

-----------------------------------------------------------------------------
Absent  == [there |-> FALSE, enabled |-> FALSE, nextRun |-> "none", failed |-> FALSE]
Nothing == [t \in Tasks |-> Absent]
TaskList == [Tasks -> [there : BOOLEAN, enabled : BOOLEAN, nextRun : {"none", "later", "due"}, failed : BOOLEAN]]
Current(k)  == Min(ticks[k].left)
Executing(t) == \E k \in Ticks : ticks[k].left # {} /\ Current(k) = t
Due(t)      == storedTasks[t].enabled /\ storedTasks[t].nextRun = "due"

ScheduleTypeOK ==
  /\ storedTasks \in TaskList
  /\ ticks \in [Ticks -> [list : TaskList, left : SUBSET Tasks]]
  /\ runningTaskIds \subseteq Tasks
  /\ editor \in [open : BOOLEAN, list : TaskList]
  /\ edits \in 0..MaxEdits /\ runs \in [Tasks -> 0..2]

ScheduleInit ==
  /\ storedTasks = Nothing
  /\ ticks = [k \in Ticks |-> [list |-> Nothing, left |-> {}]]
  /\ runningTaskIds = {}
  /\ editor = [open |-> FALSE, list |-> Nothing]
  /\ edits = 0 /\ runs = [t \in Tasks |-> 0]

\* nextRunAfter, for a task without a cursor: a date that has passed, or the next
\* time of a repeating one.
NextRunAfter(t) == IF t \in OnceTasks THEN "due" ELSE "later"

\* prepareScheduledTask.
Prepared(list) ==
  [t \in Tasks |-> IF list[t].enabled /\ list[t].nextRun = "none"
                   THEN [list[t] EXCEPT !.nextRun = NextRunAfter(t)] ELSE list[t]]

\* markTaskRun, for the tasks a tick takes.
Marked(list, due) ==
  [t \in Tasks |->
     IF t \notin due THEN list[t]
     ELSE IF t \in OnceTasks THEN [list[t] EXCEPT !.enabled = FALSE, !.nextRun = "none"]
     ELSE [list[t] EXCEPT !.nextRun = "later"]]

CountRun(ts) == runs' = [t \in Tasks |-> IF t \in ts \cap OnceTasks /\ runs[t] < 2 THEN runs[t] + 1 ELSE runs[t]]
FirstOf(ts)  == IF ts = {} THEN {} ELSE {Min(ts)}

-----------------------------------------------------------------------------
\* The time of the task's next run comes, for every copy of the list that waits for it.
ComeDue(list, t) == IF list[t].nextRun = "later" THEN [list EXCEPT ![t].nextRun = "due"] ELSE list
ComesDue(t) ==
  /\ storedTasks[t].nextRun = "later"
  /\ storedTasks' = ComeDue(storedTasks, t)
  /\ ticks' = [k \in Ticks |-> [ticks[k] EXCEPT !.list = ComeDue(@, t)]]
  /\ editor' = [editor EXCEPT !.list = ComeDue(@, t)]
  /\ UNCHANGED <<runningTaskIds, edits, runs>>

\* A tick marks what is due and begins the first of it.
TickBegins_NotAfterFailure(k) ==
  LET list == Prepared(storedTasks)
      due  == {t \in Tasks \ runningTaskIds : list[t].enabled /\ list[t].nextRun = "due" /\ ~list[t].failed}
  IN
  /\ ticks[k].left = {} /\ due # {}
  /\ storedTasks' = Marked(list, due)
  /\ ticks' = [ticks EXCEPT ![k] = [list |-> list, left |-> due]]
  /\ runningTaskIds' = runningTaskIds \cup FirstOf(due)
  /\ CountRun(FirstOf(due))
  /\ UNCHANGED <<editor, edits>>
TickBegins(k) ==
  LET list == Prepared(storedTasks)
      due  == {t \in Tasks \ runningTaskIds : list[t].enabled /\ list[t].nextRun = "due"}
  IN
  /\ ticks[k].left = {} /\ due # {}
  /\ storedTasks' = Marked(list, due)
  /\ ticks' = [ticks EXCEPT ![k] = [list |-> list, left |-> due]]
  /\ runningTaskIds' = runningTaskIds \cup FirstOf(due)
  /\ CountRun(FirstOf(due))
  /\ UNCHANGED <<editor, edits>>

\* The awaited command of a tick's task returns, or throws; its result goes into the
\* list the tick read, which is saved.  The next task follows at once.
TaskEnds(k) ==
  LET t == Current(k)  rest == ticks[k].left \ {t} IN
  /\ ticks[k].left # {}
  /\ \E ok \in BOOLEAN :
       LET list == [ticks[k].list EXCEPT ![t].failed = ~ok] IN
       /\ storedTasks' = list
       /\ ticks' = [ticks EXCEPT ![k] = [list |-> IF rest = {} THEN Nothing ELSE list, left |-> rest]]
  /\ runningTaskIds' = (runningTaskIds \ {t}) \cup FirstOf(rest)
  /\ CountRun(FirstOf(rest))
  /\ UNCHANGED <<editor, edits>>

-----------------------------------------------------------------------------
(* The panel: every edit is made in its own list, which is saved whole.    *)

OpenPanel ==
  /\ ~editor.open
  /\ editor' = [open |-> TRUE, list |-> Prepared(storedTasks)]
  /\ UNCHANGED <<storedTasks, ticks, runningTaskIds, edits, runs>>
ClosePanel ==
  /\ editor.open
  /\ editor' = [open |-> FALSE, list |-> Nothing]
  /\ UNCHANGED <<storedTasks, ticks, runningTaskIds, edits, runs>>

SavePanel(t, task) ==
  /\ edits < MaxEdits /\ edits' = edits + 1
  /\ editor' = [editor EXCEPT !.list = [@ EXCEPT ![t] = task]]
  /\ storedTasks' = editor'.list
  /\ UNCHANGED <<ticks, runningTaskIds>>

Arm(t) == runs' = [runs EXCEPT ![t] = 0]

\* An id is used once.
AddTask(t) ==
  /\ editor.open /\ ~editor.list[t].there /\ ~storedTasks[t].there /\ ~Executing(t)
  /\ \E next \in {"later"} \cup (IF t \in OnceTasks THEN {"due"} ELSE {}) :
       SavePanel(t, [there |-> TRUE, enabled |-> TRUE, nextRun |-> next, failed |-> FALSE])
  /\ Arm(t)

ToggleTask(t) ==
  /\ editor.open /\ editor.list[t].there
  /\ SavePanel(t, [editor.list[t] EXCEPT !.enabled = ~@])
  /\ Arm(t)

RetryTask(t) ==
  /\ editor.open /\ editor.list[t].there /\ editor.list[t].failed
  /\ SavePanel(t, [editor.list[t] EXCEPT !.enabled = TRUE, !.nextRun = "due"])
  /\ Arm(t)

DeleteTask(t) ==
  /\ editor.open /\ editor.list[t].there
  /\ SavePanel(t, Absent)
  /\ UNCHANGED runs

ScheduleNext ==
  \/ \E t \in Tasks : ComesDue(t) \/ AddTask(t) \/ ToggleTask(t) \/ RetryTask(t) \/ DeleteTask(t)
  \/ \E k \in Ticks : TickBegins(k) \/ TaskEnds(k)
  \/ OpenPanel \/ ClosePanel

ScheduleSpec == ScheduleInit /\ [][ScheduleNext]_scheduleVars

\* The interval timer keeps firing while the application is open, and the commands
\* a task sends return or fail: each has a time limit in the back end.
ScheduleFairness ==
  /\ WF_scheduleVars(\E k \in Ticks : TickBegins(k))
  /\ \A k \in Ticks : WF_scheduleVars(TaskEnds(k))

-----------------------------------------------------------------------------
(* Properties.                                                             *)

\* A task that is enabled and due is executed, however long the tasks before it take
\* and whatever becomes of them, if nobody edits the list meanwhile and the ticks
\* under way have read it as it is (they save what they read when a run ends).
AsRead(t) == \A k \in Ticks : ticks[k].left # {} =>
  ticks[k].list[t].enabled /\ ticks[k].list[t].nextRun = "due"
DueTasksAreRun ==
  \A t \in Tasks : [](Due(t) /\ AsRead(t) /\ [](~editor.open) => <>Executing(t))

\* A one-time task runs once each time the user adds it, enables it or asks for a
\* retry: the tick disables it before it runs it.
OnceTasksRunOnce == \A t \in OnceTasks : runs[t] <= 1
=============================================================================
