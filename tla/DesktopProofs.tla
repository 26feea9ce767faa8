---------------------------- MODULE DesktopProofs ----------------------------
(* Theorems about the parts of the desktop that MCDesktop checks on small     *)
(* instances, each for every value of its constants: the terminals, for every *)
(* number of sessions, stops and slots; the batch runner, for every batch and *)
(* every concurrency; and the creation of Docker instances.                   *)
EXTENDS MCDesktop, OrderFacts, FiniteSetTheorems, SequenceTheorems, TLAPS

-----------------------------------------------------------------------------
(* The terminals: the counter that start is refused by, and what the exit     *)
(* event says.                                                                *)

\* The types that the first theorems need: everything but the tombstones, which follow
\* in TerminalRest.
SessionTypes ==
  /\ activeSessions \in Int
  /\ phase \in [Sessions -> {"unused", "refused", "done"} \cup StartPhases \cup ReaderPhases]
  /\ child \in [Sessions -> {"none", "alive", "dead", "killed"}]
  /\ status \in [Sessions -> {"none", "stopped", "failed", "exited"}]
  /\ stop \in [Stops -> [pc : {"idle", "missing", "flagging", "killing", "remembering", "refused"},
                         session : Sessions \cup {None}, late : BOOLEAN]]

SlotHolders == {s \in Sessions : HoldsSlot(s)}

\* The counter, and the finiteness without which counting the holders means nothing.
SlotsInv == SessionTypes /\ IsFiniteSet(SlotHolders) /\ SlotsAreCounted

\* A stop that is past setting the flag has set it, and only such a stop kills.
FlagInv ==
  /\ \A x \in Stops : stop[x].pc # "idle" => stop[x].session \in Sessions
  /\ \A x \in Stops : stop[x].pc = "killing" => stop[x].session \in flag
  /\ \A s \in Sessions : child[s] = "killed" => s \in flag

-----------------------------------------------------------------------------
(* The slot counter.                                                       *)

\* A session that takes a slot adds one holder.
LEMMA HoldersGrow ==
  ASSUME SlotsInv, NEW s \in Sessions, ~HoldsSlot(s), SlotHolders' = SlotHolders \cup {s}
  PROVE  IsFiniteSet(SlotHolders') /\ Cardinality(SlotHolders') = Cardinality(SlotHolders) + 1
BY FS_AddElement DEF SlotsInv, SlotHolders

\* A session that gives its slot back takes one holder away.
LEMMA HoldersShrink ==
  ASSUME SlotsInv, NEW s \in Sessions, HoldsSlot(s), SlotHolders' = SlotHolders \ {s}
  PROVE  IsFiniteSet(SlotHolders') /\ Cardinality(SlotHolders') = Cardinality(SlotHolders) - 1
BY FS_RemoveElement DEF SlotsInv, SlotHolders

\* A phase change moves one session only, and so at most one holder.
LEMMA BecomesHolders ==
  ASSUME SessionTypes, NEW s \in Sessions, NEW p, Becomes(s, p)
  PROVE  /\ p \in StartPhases \cup ReaderPhases => SlotHolders' = SlotHolders \cup {s}
         /\ p \notin StartPhases \cup ReaderPhases => SlotHolders' = SlotHolders \ {s}
BY DEF SessionTypes, Becomes, SlotHolders, HoldsSlot

\* A stop call that goes on, or returns, stays well typed.
LEMMA StopTypes ==
  ASSUME SessionTypes, NEW x \in Stops, StopReturns(x) \/ StopGoto(x, "refused")
  PROVE  stop' \in [Stops -> [pc : {"idle", "missing", "flagging", "killing", "remembering", "refused"},
                              session : Sessions \cup {None}, late : BOOLEAN]]
<1>1. NotStopping \in [pc : {"idle", "missing", "flagging", "killing", "remembering", "refused"},
                       session : Sessions \cup {None}, late : BOOLEAN]
  BY DEF NotStopping
<1>2. CASE StopReturns(x)
  BY <1>1, <1>2 DEF SessionTypes, StopReturns
<1>3. CASE StopGoto(x, "refused")
  BY <1>3 DEF SessionTypes, StopGoto
<1> QED  BY <1>2, <1>3

\* The types are inductive.
LEMMA SessionTypesStep == SessionTypes /\ [TerminalNext]_terminalVars => SessionTypes'
<1> SUFFICES ASSUME SessionTypes, [TerminalNext]_terminalVars PROVE SessionTypes'
  OBVIOUS
<1> USE DEF SessionTypes, StartPhases, ReaderPhases, Becomes, StopGoto, StopReturns, NotStopping
<1>1. ASSUME NEW s \in Sessions, Start(s) PROVE SessionTypes'
  BY <1>1 DEF Start, Reserve, Spawn, StartFails, Enlist, SpawnReader
<1>2. ASSUME NEW s \in Sessions, Reader(s) PROVE SessionTypes'
  <2>1. CASE ReadingEnds(s)
    BY <2>1 DEF ReadingEnds
  <2>2. CASE ReportExit(s)
    BY <2>2 DEF ReportExit
  <2>3. CASE Delist(s)
    BY <2>3 DEF Delist
  <2>4. CASE Release(s)
    BY <2>4 DEF Release
  <2> QED  BY <1>2, <2>1, <2>2, <2>3, <2>4 DEF Reader
<1>3. ASSUME NEW s \in Sessions, ChildExits(s) PROVE SessionTypes'
  BY <1>3 DEF ChildExits
<1>4. ASSUME NEW x \in Stops, StopCall(x) PROVE SessionTypes'
  <2>1. ASSUME NEW s \in Sessions, StopTakes(x, s) PROVE SessionTypes'
    BY <2>1 DEF StopTakes
  <2>2. CASE StopMissing(x)
    <3>1. StopReturns(x) \/ StopGoto(x, "refused")
      BY <2>2 DEF StopMissing
    <3> HIDE DEF StopReturns, StopGoto, SessionTypes
    <3> QED  BY <2>2, <3>1, StopTypes DEF StopMissing, SessionTypes
  <2>3. CASE StopFlags(x)
    BY <2>3 DEF StopFlags
  <2>4. CASE StopKills(x)
    BY <2>4 DEF StopKills
  <2>5. CASE StopRemembers(x) \/ StopRefused(x)
    <3> HIDE DEF StopReturns, StopGoto, SessionTypes
    <3> QED  BY <2>5, StopTypes DEF StopRemembers, StopRefused, SessionTypes
  <2> QED  BY <1>4, <2>1, <2>2, <2>3, <2>4, <2>5 DEF StopCall
<1>5. CASE UNCHANGED terminalVars
  BY <1>5 DEF terminalVars
<1> QED  BY <1>1, <1>2, <1>3, <1>4, <1>5 DEF TerminalNext

\* Every way into a slot and out of it moves the counter with the holders.
LEMMA SlotsStep == SlotsInv /\ [TerminalNext]_terminalVars => SlotsInv'
<1> SUFFICES ASSUME SlotsInv, [TerminalNext]_terminalVars PROVE SlotsInv'
  OBVIOUS
<1>t. SessionTypes /\ SessionTypes'
  BY SessionTypesStep DEF SlotsInv
<1>c. Cardinality(SlotHolders) \in Nat /\ activeSessions = Cardinality(SlotHolders) /\ IsFiniteSet(SlotHolders)
  BY FS_CardinalityType DEF SlotsInv, SlotsAreCounted, SlotHolders
<1>0. ASSUME IsFiniteSet(SlotHolders'), activeSessions' = Cardinality(SlotHolders') PROVE SlotsInv'
  BY <1>0, <1>t DEF SlotsInv, SlotsAreCounted, SlotHolders
<1>same. ASSUME SlotHolders' = SlotHolders, activeSessions' = activeSessions PROVE SlotsInv'
  BY <1>same, <1>0, <1>c
<1>1. ASSUME NEW s \in Sessions, Reserve(s) PROVE SlotsInv'
  <2>1. ~HoldsSlot(s) /\ "reserved" \in StartPhases
    BY <1>1 DEF Reserve, HoldsSlot, StartPhases, ReaderPhases
  <2>2. SlotHolders' = SlotHolders \cup {s}
    BY <1>1, <1>t, <2>1, BecomesHolders DEF Reserve
  <2> QED  BY <1>0, <1>1, <1>c, <2>1, <2>2, HoldersGrow DEF Reserve
<1>2. ASSUME NEW s \in Sessions, StartFails(s) \/ Release(s) PROVE SlotsInv'
  <2>1. HoldsSlot(s) /\ {"refused", "done"} \cap (StartPhases \cup ReaderPhases) = {}
    BY <1>2 DEF StartFails, Release, HoldsSlot, StartPhases, ReaderPhases
  <2>2. SlotHolders' = SlotHolders \ {s}
    BY <1>2, <1>t, <2>1, BecomesHolders DEF StartFails, Release
  <2> QED  BY <1>0, <1>2, <1>c, <2>1, <2>2, HoldersShrink DEF StartFails, Release
<1>3. ASSUME NEW s \in Sessions,
             Spawn(s) \/ Enlist(s) \/ SpawnReader(s) \/ ReadingEnds(s) \/ ReportExit(s) \/ Delist(s)
      PROVE  SlotsInv'
  <2>1. s \in SlotHolders
    BY <1>3 DEF SlotHolders, HoldsSlot, StartPhases, ReaderPhases, Spawn, Enlist, SpawnReader,
                ReadingEnds, ReportExit, Delist
  <2>2. \E p \in StartPhases \cup ReaderPhases : Becomes(s, p)
    BY <1>3 DEF StartPhases, ReaderPhases, Spawn, Enlist, SpawnReader, ReadingEnds, ReportExit, Delist
  <2>3. SlotHolders' = SlotHolders
    BY <1>t, <2>1, <2>2, BecomesHolders
  <2> QED  BY <1>3, <1>same, <2>3 DEF Spawn, Enlist, SpawnReader, ReadingEnds, ReportExit, Delist
<1>4. ASSUME UNCHANGED <<activeSessions, phase>> PROVE SlotsInv'
  BY <1>4, <1>same DEF SlotHolders, HoldsSlot
<1>5. ASSUME NEW s \in Sessions, ChildExits(s) PROVE SlotsInv'
  BY <1>4, <1>5 DEF ChildExits
<1>6. ASSUME NEW x \in Stops, StopCall(x) PROVE SlotsInv'
  BY <1>4, <1>6 DEF StopCall, StopTakes, StopMissing, StopFlags, StopKills, StopRemembers, StopRefused
<1>7. CASE UNCHANGED terminalVars
  BY <1>4, <1>7 DEF terminalVars
<1> QED  BY <1>1, <1>2, <1>3, <1>5, <1>6, <1>7 DEF TerminalNext, Start, Reader

\* Nobody holds a slot at the start.
LEMMA SlotsInit == TerminalInit => SlotsInv
<1> SUFFICES ASSUME TerminalInit PROVE SlotsInv
  OBVIOUS
<1>1. SessionTypes
  BY DEF TerminalInit, SessionTypes, NotStopping
<1>2. SlotHolders = {}
  BY DEF TerminalInit, SlotHolders, HoldsSlot, StartPhases, ReaderPhases
<1> QED  BY <1>1, <1>2, FS_EmptySet DEF TerminalInit, SlotsInv, SlotsAreCounted, SlotHolders

\* On every way out of start and of the reader thread the slot is given back, once:
\* the counter is the number of sessions between their reservation and the end.
THEOREM SlotsCorrect == TerminalSpec => []SlotsAreCounted
<1>1. SlotsInv => SlotsAreCounted
  BY DEF SlotsInv
<1> QED  BY <1>1, SlotsInit, SlotsStep, PTL DEF TerminalSpec

-----------------------------------------------------------------------------
(* The exit event.                                                         *)

\* Flags are never withdrawn, so a kill finds its flag set, and leaves it.
LEMMA FlagStep == SessionTypes /\ FlagInv /\ [TerminalNext]_terminalVars => FlagInv'
<1> SUFFICES ASSUME SessionTypes, FlagInv, [TerminalNext]_terminalVars PROVE FlagInv'
  OBVIOUS
<1> USE DEF SessionTypes, FlagInv, StopGoto, StopReturns, NotStopping
<1>1. ASSUME NEW s \in Sessions, Start(s) PROVE FlagInv'
  BY <1>1 DEF Start, Reserve, Spawn, StartFails, Enlist, SpawnReader
<1>2. ASSUME NEW s \in Sessions, Reader(s) PROVE FlagInv'
  BY <1>2 DEF Reader, ReadingEnds, ReportExit, Delist, Release
<1>3. ASSUME NEW s \in Sessions, ChildExits(s) PROVE FlagInv'
  BY <1>3 DEF ChildExits
<1>4. ASSUME NEW x \in Stops, StopCall(x) PROVE FlagInv'
  <2>1. ASSUME NEW s \in Sessions, StopTakes(x, s) PROVE FlagInv'
    BY <2>1 DEF StopTakes
  <2>2. CASE StopMissing(x)
    BY <2>2 DEF StopMissing
  <2>3. CASE StopFlags(x)
    BY <2>3 DEF StopFlags
  <2>4. CASE StopKills(x)
    BY <2>4 DEF StopKills
  <2>5. CASE StopRemembers(x) \/ StopRefused(x)
    BY <2>5 DEF StopRemembers, StopRefused
  <2> QED  BY <1>4, <2>1, <2>2, <2>3, <2>4, <2>5 DEF StopCall
<1>5. CASE UNCHANGED terminalVars
  BY <1>5 DEF terminalVars
<1> QED  BY <1>1, <1>2, <1>3, <1>4, <1>5 DEF TerminalNext

\* Only ReportExit writes the exit event, and it looks at the flag first.
LEMMA ReportStep ==
  ASSUME SessionTypes, FlagInv, [TerminalNext]_terminalVars, NEW s \in Sessions,
         status[s] = "none", status'[s] # "none", child[s] = "killed"
  PROVE  status'[s] = "stopped"
<1>1. s \in flag
  BY DEF FlagInv
<1>2. \E t \in Sessions : ReportExit(t)
  BY DEF terminalVars, TerminalNext, Start, Reserve, Spawn, StartFails, Enlist, SpawnReader, Reader,
         ReadingEnds, Delist, Release, ChildExits, StopCall, StopTakes, StopMissing, StopFlags,
         StopKills, StopRemembers, StopRefused
<1> QED  BY <1>1, <1>2 DEF SessionTypes, ReportExit

\* The exit event of a process that a stop killed says "stopped": whichever of the
\* reader's failures and the process's own exit the kill meets.
THEOREM StoppedIsReported == TerminalSpec => StoppedIsReportedStopped
<1>1. TerminalInit => SessionTypes /\ FlagInv
  BY SlotsInit DEF SlotsInv, TerminalInit, FlagInv, NotStopping
<1>2. SessionTypes /\ FlagInv /\ [TerminalNext]_terminalVars =>
        [\A s \in Sessions : status[s] = "none" /\ status'[s] # "none" /\ child[s] = "killed" =>
           status'[s] = "stopped"]_terminalVars
  BY ReportStep
<1> QED  BY <1>1, <1>2, SessionTypesStep, FlagStep, PTL DEF TerminalSpec, StoppedIsReportedStopped

-----------------------------------------------------------------------------
(* The batch runner: the count that the limit is held against counts the      *)
(* items that hold a slot.                                                    *)

\* Items that hold a slot were handed out, so that what is handed out next is new.
QueueInv ==
  /\ nextIndex \in 1..(N + 1)
  /\ active \in Int
  /\ running \cup leaving \subseteq 1..(nextIndex - 1)
  /\ ~submitted => active = 0 /\ nextIndex = 1
  /\ ActiveIsHeldSlots

-----------------------------------------------------------------------------
\* At least one worker runs at a time, whatever the caller asks for.
LEMMA LimitType == QueueLimit \in Nat \ {0}
BY TaskQueueAssumption DEF QueueLimit

\* What pump hands out is a run of items from the first not handed out, as long as
\* there is room and there are items.
LEMMA HandedOutFacts ==
  ASSUME NEW from \in 1..(N + 1), NEW busy \in 0..QueueLimit
  PROVE  /\ IsFiniteSet(HandedOut(from, busy))
         /\ Cardinality(HandedOut(from, busy)) \in Nat
         /\ Cardinality(HandedOut(from, busy)) <= QueueLimit - busy
         /\ from + Cardinality(HandedOut(from, busy)) \in 1..(N + 1)
         /\ HandedOut(from, busy) = from..(from + Cardinality(HandedOut(from, busy)) - 1)
<1> DEFINE past == IF from + QueueLimit - busy <= N + 1 THEN from + QueueLimit - busy ELSE N + 1
<1>1. N \in Nat /\ QueueLimit \in Nat
  BY LimitType, TaskQueueAssumption
<1>2. past \in Nat /\ from <= past /\ past <= N + 1 /\ past - from <= QueueLimit - busy
  BY <1>1
<1>3. HandedOut(from, busy) = from..(past - 1)
  BY <1>1 DEF HandedOut, Items
<1> HIDE DEF past
<1>4. IsFiniteSet(from..(past - 1))
  BY <1>1, <1>2, FS_Interval
<1>5. Cardinality(from..(past - 1)) = past - from
  <2>1. CASE from > past - 1
    BY <1>1, <1>2, <2>1, FS_Interval
  <2>2. CASE from <= past - 1
    BY <1>1, <1>2, <2>2, FS_Interval
  <2> QED  BY <1>1, <1>2, <2>1, <2>2
<1> QED  BY <1>1, <1>2, <1>3, <1>4, <1>5

\* Nothing is handed out, nothing runs, and nothing is counted, at the start.
LEMMA QueueInvInit == QueueInit => QueueInv
BY LimitType, TaskQueueAssumption, FS_EmptySet DEF QueueInit, QueueInv, ActiveIsHeldSlots

\* A slot that is given back is counted down before pump fills it again; a cancelled
\* queue hands nothing out.
LEMMA LeaveSlotStep ==
  ASSUME QueueInv, NEW i \in Items, LeaveSlot(i)
  PROVE  QueueInv'
<1> DEFINE held == running \cup leaving
           next == IF cancelled THEN {} ELSE HandedOut(nextIndex, active - 1)
<1>1. /\ N \in Nat /\ QueueLimit \in Nat /\ nextIndex \in 1..(N + 1)
      /\ held \subseteq 1..(nextIndex - 1) /\ running \cap leaving = {} /\ i \in leaving
      /\ active = Cardinality(held) /\ active <= QueueLimit
  BY LimitType, TaskQueueAssumption DEF QueueInv, ActiveIsHeldSlots, LeaveSlot
<1>2. i \in held /\ IsFiniteSet(held)
  <2>1. IsFiniteSet(1..(nextIndex - 1))
    BY <1>1, FS_Interval
  <2> HIDE DEF held
  <2>2. IsFiniteSet(held)
    BY <1>1, <2>1, FS_Subset
  <2> QED  BY <1>1, <2>2 DEF held
<1>3. IsFiniteSet(held \ {i}) /\ Cardinality(held \ {i}) = active - 1 /\ active - 1 \in Nat
  <2> HIDE DEF held
  <2>1. IsFiniteSet(held \ {i}) /\ Cardinality(held \ {i}) = Cardinality(held) - 1
    BY <1>2, FS_RemoveElement
  <2>2. Cardinality(held) \in Nat /\ Cardinality(held \ {i}) \in Nat
    BY <1>2, <2>1, FS_CardinalityType
  <2> QED  BY <1>1, <2>1, <2>2
<1>4. /\ IsFiniteSet(next) /\ Cardinality(next) \in Nat
      /\ Cardinality(next) <= QueueLimit - (active - 1)
      /\ nextIndex + Cardinality(next) \in 1..(N + 1)
      /\ next = nextIndex..(nextIndex + Cardinality(next) - 1)
  <2>0. active - 1 \in 0..QueueLimit /\ QueueLimit - (active - 1) >= 0
    <3> HIDE DEF held, next
    <3>1. active \in Int
      BY DEF QueueInv
    <3> QED  BY <1>1, <1>3, <3>1
  <2>1. CASE cancelled
    <3>1. next = {} /\ Cardinality(next) = 0 /\ IsFiniteSet(next)
      BY <2>1, FS_EmptySet
    <3>2. nextIndex..(nextIndex + 0 - 1) = {}
      BY <1>1
    <3> HIDE DEF next
    <3> QED  BY <1>1, <2>0, <3>1, <3>2
  <2>2. CASE ~cancelled
    <3>1. next = HandedOut(nextIndex, active - 1)
      BY <2>2
    <3> HIDE DEF next
    <3> QED  BY <1>1, <2>0, <3>1, HandedOutFacts
  <2> QED  BY <2>1, <2>2
<1>5. /\ leaving' = leaving \ {i} /\ running' = running \cup next
      /\ nextIndex' = nextIndex + Cardinality(next) /\ active' = active - 1 + Cardinality(next)
      /\ submitted' = submitted
  BY DEF LeaveSlot
<1> HIDE DEF next
<1>6. running' \cup leaving' = (held \ {i}) \cup next /\ (held \ {i}) \cap next = {}
  BY <1>1, <1>4, <1>5
<1>7. Cardinality(running' \cup leaving') = active'
  <2> HIDE DEF held
  <2>1. Cardinality((held \ {i}) \cup next)
          = Cardinality(held \ {i}) + Cardinality(next) - Cardinality((held \ {i}) \cap next)
    BY <1>3, <1>4, FS_Union
  <2>2. Cardinality((held \ {i}) \cap next) = 0
    BY <1>6, FS_EmptySet
  <2>3. Cardinality(running' \cup leaving') = active - 1 + Cardinality(next) - 0
    BY <1>3, <1>6, <2>1, <2>2
  <2> QED  BY <1>3, <1>4, <1>5, <2>3
<1>8. running' \cap leaving' = {}
  BY <1>1, <1>4, <1>5
<1>9. running' \cup leaving' \subseteq 1..(nextIndex' - 1)
  BY <1>1, <1>4, <1>5
<1>10. submitted
  BY <1>1, <1>3 DEF QueueInv
<1>11. active' \in Int /\ active' <= QueueLimit /\ nextIndex' \in 1..(N + 1)
  BY <1>1, <1>3, <1>4, <1>5
<1> QED  BY <1>5, <1>7, <1>8, <1>9, <1>10, <1>11 DEF QueueInv, ActiveIsHeldSlots, QueueLimit

\* The first pump fills an empty queue.
LEMMA SubmitStep ==
  ASSUME QueueInv, SubmitBatch
  PROVE  QueueInv'
<1> DEFINE first == HandedOut(1, 0)
<1>1. N \in Nat /\ QueueLimit \in Nat
  BY LimitType, TaskQueueAssumption
<1>2. /\ IsFiniteSet(first) /\ Cardinality(first) \in Nat
      /\ Cardinality(first) <= QueueLimit
      /\ 1 + Cardinality(first) \in 1..(N + 1)
      /\ first = 1..Cardinality(first)
  BY <1>1, HandedOutFacts
<1>3. leaving = {} /\ running = {}
  <2>1. active = 0 /\ nextIndex = 1
    BY DEF QueueInv, SubmitBatch
  <2> QED  BY <2>1 DEF QueueInv
<1>4. /\ running' = first /\ leaving' = {} /\ active' = Cardinality(first)
      /\ nextIndex' = Cardinality(first) + 1 /\ submitted'
  BY <1>3 DEF SubmitBatch
<1> HIDE DEF first
<1>5. running' \cup leaving' \subseteq 1..(nextIndex' - 1)
  BY <1>2, <1>4
<1> QED  BY <1>1, <1>2, <1>4, <1>5 DEF QueueInv, ActiveIsHeldSlots

\* A result leaves the item its slot; a cancel marks the items that have none.
LEMMA QueueInvStep == QueueInv /\ [QueueNext]_queueVars => QueueInv'
<1> SUFFICES ASSUME QueueInv, [QueueNext]_queueVars PROVE QueueInv'
  OBVIOUS
<1>0. N \in Nat
  BY TaskQueueAssumption
<1>1. CASE SubmitBatch
  BY <1>1, SubmitStep
<1>2. CASE CancelBatch
  BY <1>0, <1>2 DEF CancelBatch, QueueInv, ActiveIsHeldSlots
<1>3. ASSUME NEW i \in Items, NEW result, SettleItem(i, result) PROVE QueueInv'
  <2>1. running' \cup leaving' = running \cup leaving
    BY <1>3 DEF SettleItem
  <2>2. running' \cap leaving' = {}
    BY <1>3 DEF SettleItem, QueueInv, ActiveIsHeldSlots
  <2> QED  BY <1>3, <2>1, <2>2 DEF SettleItem, QueueInv, ActiveIsHeldSlots
<1>4. ASSUME NEW i \in Items, LeaveSlot(i) PROVE QueueInv'
  BY <1>4, LeaveSlotStep
<1>5. CASE UNCHANGED queueVars
  BY <1>5 DEF queueVars, QueueInv, ActiveIsHeldSlots
<1> QED  BY <1>1, <1>2, <1>3, <1>4, <1>5 DEF QueueNext, QueueWork

\* However workers settle, and whenever the user cancels, the count is exact and no
\* more items hold a slot than the caller allowed.
THEOREM QueueCountsSlots == QueueSpec => []ActiveIsHeldSlots
<1>1. QueueInv => ActiveIsHeldSlots
  BY DEF QueueInv
<1> QED  BY <1>1, QueueInvInit, QueueInvStep, PTL DEF QueueSpec

-----------------------------------------------------------------------------
(* The creation of Docker instances: a cancelled attempt leaves nothing.   *)

Submitted == attempt.name
Spotless  == Submitted \notin containers /\ (Submitted \in volumes => attempt.hadVolume)

\* The attempts that CancelledLeavesNothing speaks of.
Promised == ~attempt.overlapped /\ ~attempt.failedLate

\* The records of the calls, besides what CreationTypeOK says of each call's places.
Places == {"idle", "store", "returned", "cancelled"} \cup Cleaning \cup Creating
CreationTypes ==
  /\ CreationTypeOK
  /\ job \in [Jobs -> [pc : Places, name : Names \cup {NoName}]]

\* Every call is about the last submission, and which call may be there shows in
\* where the panel's handler is.
TurnsInv ==
  /\ panel.pc # "idle" => panel.name = Submitted /\ Submitted \in Names
  /\ panel.pc = "repeating" => cancelRef
  /\ job["create"].pc # "idle" <=> panel.pc = "creating"
  /\ job["create"].pc # "idle" => job["create"].name = Submitted
  /\ job["repeat"].pc # "idle" => panel.pc = "repeating" /\ job["repeat"].name = Submitted
  /\ asking # NoName => asking = Submitted /\ ~cancelRef
  /\ job["cancel"].pc # "idle" /\ ~attempt.overlapped => job["cancel"].name = Submitted

\* What is there of the attempt is flagged, from the moment that it may be there, so
\* that whoever cleans up by the flags removes it.
FlagsInv ==
  LET c == job["create"].pc IN
  /\ panel.pc = "probing" \/ c \in {"enter", "reset", "list", "prepare", "probe", "cancelled"} => Spotless
  /\ c \in {"reset", "list", "prepare", "probe"} => ~flags.container
  /\ c \in {"volume", "run"} => Submitted \notin containers
  /\ c = "boot" => flags.container
  /\ Submitted \in containers => flags.container \/ c = "started"
  /\ c \in {"volume", "run", "started", "boot"} => flags.volume \/ attempt.hadVolume
  /\ Submitted \in volumes => flags.volume \/ attempt.hadVolume
  /\ \A j \in {"create", "repeat"} :
       job[j].pc \in {"ifVolume", "rmVolume"} => Submitted \notin containers

\* Once the user has confirmed, nothing is left or somebody is bound to clean up: the
\* create call or its handler, the repeated cancellation, or the cancellation itself
\* when it came after the create call's answer.
DutyInv ==
  cancelRef =>
    \/ Spotless
    \/ panel.pc = "creating"
    \/ panel.pc = "repeating" /\ job["repeat"].pc # "idle"
    \/ /\ panel.pc = "idle" /\ job["cancel"].pc # "idle"
       /\ job["cancel"].pc \in {"ifVolume", "rmVolume"} => Submitted \notin containers

CreationInv == CreationTypes /\ TurnsInv /\ (Promised => FlagsInv /\ DutyInv)

LEMMA CreationInvInit == CreationInit => CreationInv
<1> SUFFICES ASSUME CreationInit PROVE CreationInv
  OBVIOUS
<1> USE CreationAssumption DEF CreationInit, CreationInv, CreationTypes, CreationTypeOK, Jobs, NoJob,
      Attempt, Places, Creating, Cleaning, Submitted
<1>1. attempt \in Attempt
  OBVIOUS
<1>2. CreationTypes
  BY <1>1
<1>3. TurnsInv
  BY DEF TurnsInv
<1>4. FlagsInv /\ DutyInv
  BY DEF FlagsInv, DutyInv, Spotless
<1> QED
  BY <1>2, <1>3, <1>4

\* The steps of the panel's handlers.
LEMMA PanelInvStep == CreationInv /\ PanelStep => CreationInv'
<1> SUFFICES ASSUME CreationInv, PanelStep PROVE CreationInv'
  OBVIOUS
<1> USE CreationAssumption DEF CreationInv, CreationTypes, CreationTypeOK, TurnsInv, FlagsInv, DutyInv,
      Spotless, Submitted, Promised, Jobs, NoJob, Attempt, Places, Creating, Cleaning, docker
<1>1. ASSUME NEW n \in Names, Submit(n) PROVE CreationInv'
  <2>1. CreationTypes'
    <3>1. attempt' \in Attempt
      BY <1>1 DEF Submit
    <3>2. panel' \in [pc : {"idle", "probing", "creating", "repeating"}, name : Names \cup {NoName}]
      BY <1>1 DEF Submit
    <3> QED
      BY <1>1, <3>1, <3>2 DEF Submit
  <2>2. TurnsInv'
    BY <1>1 DEF Submit
  <2>3. FlagsInv' /\ DutyInv'
    BY <1>1 DEF Submit
  <2> QED
    BY <2>1, <2>2, <2>3
<1>2. CASE \E n \in Names : DeleteInstance(n)
  BY <1>2 DEF DeleteInstance
<1>3. CASE GiveUpProbing
  BY <1>3 DEF GiveUpProbing
<1>4. CASE CallCreate
  BY <1>4 DEF CallCreate
<1>5. CASE CreateAnswered
  BY <1>5 DEF CreateAnswered
<1>6. CASE RepeatAnswered
  BY <1>6 DEF RepeatAnswered
<1>7. CASE AskCancel
  BY <1>7 DEF AskCancel
<1>8. CASE ConfirmCancel
  <2>1. CreationTypes'
    BY <1>8 DEF ConfirmCancel
  <2>2. TurnsInv'
    BY <1>8 DEF ConfirmCancel
  <2>3. Promised' => FlagsInv'
    BY <1>8 DEF ConfirmCancel
  <2>4. Promised' => DutyInv'
    BY <1>8 DEF ConfirmCancel
  <2> QED
    BY <2>1, <2>2, <2>3, <2>4
<1>9. CASE DismissCancel
  BY <1>9 DEF DismissCancel
<1> QED
  BY <1>1, <1>2, <1>3, <1>4, <1>5, <1>6, <1>7, <1>8, <1>9 DEF PanelStep

\* The steps of create_redroid.
LEMMA CreateCallInvStep == CreationInv /\ CreateCall => CreationInv'
<1> SUFFICES ASSUME CreationInv, CreateCall PROVE CreationInv'
  OBVIOUS
<1> USE CreationAssumption DEF CreationInv, CreationTypes, CreationTypeOK, TurnsInv, FlagsInv, DutyInv,
      Spotless, Submitted, Promised, Jobs, NoJob, Attempt, Places, Creating, Cleaning, docker, Goto
<1>1. CASE Enter
  BY <1>1 DEF Enter
<1>2. CASE ResetVolumeFlag
  BY <1>2 DEF ResetVolumeFlag
<1>3. CASE ListContainers
  BY <1>3 DEF ListContainers
<1>4. CASE PrepareImage
  BY <1>4 DEF PrepareImage, Checkpoint
<1>5. CASE ProbeVolume
  BY <1>5 DEF ProbeVolume
<1>6. CASE CreateVolume
  <2>1. CreationTypes'
    BY <1>6 DEF CreateVolume
  <2>2. TurnsInv'
    BY <1>6 DEF CreateVolume
  <2>3. Promised' => FlagsInv'
    BY <1>6 DEF CreateVolume
  <2>4. Promised' => DutyInv'
    BY <1>6 DEF CreateVolume
  <2> QED
    BY <2>1, <2>2, <2>3, <2>4
<1>7. CASE RunContainer
  <2>1. CreationTypes'
    <3>1. attempt' \in Attempt
      BY <1>7 DEF RunContainer
    <3>2. job' \in [Jobs -> [pc : Places, name : Names \cup {NoName}]]
      BY <1>7 DEF RunContainer
    <3>3. containers' \subseteq Names /\ volumes' \subseteq Names
      BY <1>7 DEF RunContainer
    <3> QED
      BY <1>7, <3>1, <3>2, <3>3 DEF RunContainer
  <2>2. TurnsInv'
    BY <1>7 DEF RunContainer
  <2>3. Promised' => FlagsInv'
    BY <1>7 DEF RunContainer
  <2>4. Promised' => DutyInv'
    BY <1>7 DEF RunContainer
  <2> QED
    BY <2>1, <2>2, <2>3, <2>4
<1>8. CASE ContainerStarted
  BY <1>8 DEF ContainerStarted
<1>9. CASE Boot
  BY <1>9 DEF Boot, Checkpoint
<1> QED
  BY <1>1, <1>2, <1>3, <1>4, <1>5, <1>6, <1>7, <1>8, <1>9 DEF CreateCall

\* The steps of a cleanup, in whichever call.
LEMMA CleanupInvStep ==
  ASSUME CreationInv, NEW j \in Jobs, StoreCancel(j) \/ Cleanup(j)
  PROVE  CreationInv'
<1> USE CreationAssumption DEF CreationInv, CreationTypes, CreationTypeOK, TurnsInv, FlagsInv, DutyInv,
      Spotless, Submitted, Promised, Jobs, NoJob, Attempt, Places, Creating, Cleaning, docker, Goto
<1>1. CASE StoreCancel(j)
  <2>1. CreationTypes'
    <3>1. flags' \in [cancel : BOOLEAN, container : BOOLEAN, volume : BOOLEAN]
      BY <1>1 DEF StoreCancel
    <3>2. job' \in [Jobs -> [pc : Places, name : Names \cup {NoName}]]
      BY <1>1 DEF StoreCancel
    <3> QED
      BY <1>1, <3>1, <3>2 DEF StoreCancel
  <2>2. TurnsInv'
    BY <1>1 DEF StoreCancel
  <2>3. Promised' => FlagsInv'
    BY <1>1 DEF StoreCancel
  <2>4. Promised' => DutyInv'
    BY <1>1 DEF StoreCancel
  <2> QED
    BY <2>1, <2>2, <2>3, <2>4
<1>2. CASE IfContainer(j)
  BY <1>2 DEF IfContainer
<1>3. CASE RmContainer(j)
  BY <1>3 DEF RmContainer
<1>4. CASE IfVolume(j)
  BY <1>4 DEF IfVolume, EndCleanup
<1>5. CASE RmVolume(j)
  BY <1>5 DEF RmVolume, EndCleanup
<1> QED
  BY <1>1, <1>2, <1>3, <1>4, <1>5 DEF Cleanup


\* Whatever the calls do, what holds of them at first holds after each step.
LEMMA CreationInvStep == CreationInv /\ [CreationNext]_creationVars => CreationInv'
<1>1. CreationInv /\ UNCHANGED creationVars => CreationInv'
  BY DEF CreationInv, CreationTypes, CreationTypeOK, TurnsInv, FlagsInv, DutyInv, Spotless, Submitted,
    Promised, creationVars, docker
<1> QED
  BY <1>1, PanelInvStep, CreateCallInvStep, CleanupInvStep DEF CreationNext

\* The state that create_redroid, cancel_create and the panel share stays well typed.
THEOREM CreationTypeCorrect == CreationSpec => []CreationTypeOK
<1>1. CreationInv => CreationTypeOK
  BY DEF CreationInv, CreationTypes
<1> QED
  BY <1>1, CreationInvInit, CreationInvStep, PTL DEF CreationSpec

\* A cancelled attempt leaves neither a container nor a volume of its own, wherever
\* the cancellation met create_redroid: the flags account for what there is.
THEOREM CancellationCleansUp == CreationSpec => []CancelledLeavesNothing
<1>1. CreationInv => CancelledLeavesNothing
  BY DEF CreationInv, DutyInv, CancelledLeavesNothing, Quiet, Jobs, LeftNothing, Spotless, Submitted, Promised
<1> QED
  BY <1>1, CreationInvInit, CreationInvStep, PTL DEF CreationSpec

-----------------------------------------------------------------------------
(* The commands on the host: a kill goes by an id, and ids are given away.   *)

Entry == [owner : Calls \cup {NoOne, Stranger}, state : {"free", "running", "dead"}]
Pipes == SUBSET {"child", "helper", "self"}

\* A transfer whose child has not been waited for: what it remembers is its child's id,
\* which the system keeps for it, dead or alive, until then.
Unreaped(c) == step[c] \in {"polling", "checking", "killing", "waiting"}
OwnsChild(c) == childId[c] \in Pids /\ table[childId[c]].owner = c
CommandInv ==
  /\ CommandTypeOK
  /\ \A c \in Transfers : Unreaped(c) => OwnsChild(c)
  /\ \A q \in Queries : step[q] \notin {"polling", "checking", "waiting"}

\* What the kills of a step may do.
StrangersLive ==
  \A p \in Pids : table[p].owner = Stranger /\ table[p].state = "running" /\ table'[p].state = "dead"
    => \E q \in Queries : step[q] = "killing" /\ childId[q] = p

LEMMA FreeFacts == Free \in Entry /\ Free.owner = NoOne /\ Free.state = "free"
BY DEF Free, Entry

LEMMA CommandInvInit == CommandInit => CommandInv
<1> SUFFICES ASSUME CommandInit PROVE CommandInv
  OBVIOUS
<1>1. table \in [Pids -> Entry] /\ \A c \in Calls : step[c] = "idle"
  BY FreeFacts DEF CommandInit
<1>2. CommandTypeOK
  BY <1>1 DEF CommandInit, CommandTypeOK, Entry
<1> QED
  BY <1>1, <1>2 DEF CommandInv, Unreaped, Calls

\* A call that moves, and what it has to answer, stay well typed.
LEMMA PlacesTypes ==
  ASSUME CommandTypeOK, NEW c \in Calls,
         NEW s \in {"idle", "spawning", "polling", "checking", "killing", "waiting", "draining", "receiving", "ended"},
         GoesTo(c, s),
         UNCHANGED outcome \/ \E o \in {"completed", "failed", "cancelled", "timed out"} : Answers(c, o)
  PROVE  /\ step' \in [Calls -> {"idle", "spawning", "polling", "checking", "killing", "waiting",
                                 "draining", "receiving", "ended"}]
         /\ outcome' \in [Calls -> {"none", "completed", "failed", "cancelled", "timed out"}]
         /\ step'[c] = s /\ \A d \in Calls : d # c => step'[d] = step[d]
<1>1. step' = [step EXCEPT ![c] = s] /\ step \in [Calls -> {"idle", "spawning", "polling", "checking", "killing",
        "waiting", "draining", "receiving", "ended"}]
  BY DEF CommandTypeOK, GoesTo
<1>2. outcome \in [Calls -> {"none", "completed", "failed", "cancelled", "timed out"}]
  BY DEF CommandTypeOK
<1>3. outcome' \in [Calls -> {"none", "completed", "failed", "cancelled", "timed out"}]
  BY <1>2 DEF Answers
<1> QED
  BY <1>1, <1>3

\* A step in which no entry is taken from an unreaped child of another transfer, and the
\* transfer that moves has its own.
LEMMA ChildrenKept ==
  ASSUME CommandInv, CommandTypeOK', NEW c,
         \A d \in Calls : d # c => step'[d] = step[d] /\ childId'[d] = childId[d],
         \A p \in Pids : table'[p].owner = table[p].owner \/ table[p].owner \notin Transfers \ {c},
         c \in Transfers /\ Unreaped(c)' => OwnsChild(c)',
         c \in Queries => step'[c] \notin {"polling", "checking", "waiting"}
  PROVE  CommandInv'
<1>1. ASSUME NEW d \in Transfers, Unreaped(d)' PROVE OwnsChild(d)'
  <2>1. CASE d = c
    BY <1>1, <2>1
  <2>2. CASE d # c
    BY <1>1, <2>2 DEF CommandInv, Unreaped, OwnsChild, Calls
  <2> QED
    BY <2>1, <2>2
<1> QED
  BY <1>1 DEF CommandInv, Calls

\* The ways from one place to another, while the table stays.
LEMMA PlacesStep ==
  ASSUME CommandInv, NEW c \in Calls,
         BeginTransfer(c) \/ BeginQuery(c) \/ SpawnFails(c) \/ Poll(c) \/ Drain(c) \/ Receive(c) \/ GiveUpWaiting(c)
  PROVE  CommandInv' /\ StrangersLive
<1>1. \E s \in {"spawning", "polling", "checking", "killing", "draining", "ended"} :
        /\ GoesTo(c, s)
        /\ UNCHANGED outcome \/ \E o \in {"completed", "failed", "cancelled", "timed out"} : Answers(c, o)
        /\ s \in {"polling", "checking", "killing"} /\ c \in Transfers => Unreaped(c)
        /\ c \in Queries => s \notin {"polling", "checking"}
  BY CallsAssumption DEF CommandInv, BeginTransfer, BeginQuery, SpawnFails, Poll, Drain, Receive, GiveUpWaiting, Unreaped
<1>2. /\ UNCHANGED <<childId, table, pipes, cancelFlag, cancelling, waiter>>
      /\ registry' \subseteq Transfers
  BY DEF CommandInv, CommandTypeOK, BeginTransfer, BeginQuery, SpawnFails, Poll, Drain, Receive, GiveUpWaiting
<1>3. PICK s \in {"spawning", "polling", "checking", "killing", "draining", "ended"} :
        /\ step' \in [Calls -> {"idle", "spawning", "polling", "checking", "killing", "waiting",
                                "draining", "receiving", "ended"}]
        /\ outcome' \in [Calls -> {"none", "completed", "failed", "cancelled", "timed out"}]
        /\ step'[c] = s /\ \A d \in Calls : d # c => step'[d] = step[d]
        /\ s \in {"polling", "checking", "killing"} /\ c \in Transfers => Unreaped(c)
        /\ c \in Queries => s \notin {"polling", "checking"}
  BY <1>1, PlacesTypes DEF CommandInv
<1>4. CommandTypeOK'
  BY <1>2, <1>3 DEF CommandInv, CommandTypeOK
<1>5. c \in Transfers /\ Unreaped(c)' => OwnsChild(c)'
  BY <1>2, <1>3 DEF CommandInv, Unreaped, OwnsChild
<1> QED
  BY <1>2, <1>3, <1>4, <1>5, ChildrenKept DEF StrangersLive

LEMMA SpawnStep ==
  ASSUME CommandInv, NEW c \in Calls, SpawnChild(c)
  PROVE  CommandInv' /\ StrangersLive
<1>1. PICK p \in Pids, helper \in SUBSET {"helper"} :
        /\ table[p] = Free
        /\ table' = [table EXCEPT ![p] = [owner |-> c, state |-> "running"]]
        /\ childId' = [childId EXCEPT ![c] = p]
        /\ pipes' = [pipes EXCEPT ![c] = Holders(helper)]
  BY DEF SpawnChild
<1>2. /\ waiter' = IF c \in Queries THEN [waiter EXCEPT ![c] = "waiting"] ELSE waiter
      /\ step' = [step EXCEPT ![c] = AfterSpawn(c)]
      /\ UNCHANGED <<outcome, cancelFlag, registry, cancelling>>
  BY DEF SpawnChild, GoesTo
<1>3. [owner |-> c, state |-> "running"] \in Entry /\ Holders(helper) \in Pipes
      /\ AfterSpawn(c) \in {"polling", "receiving"}
  BY DEF Entry, Holders, Pipes, AfterSpawn
<1>4. CommandTypeOK'
  BY <1>1, <1>2, <1>3 DEF CommandInv, CommandTypeOK, Entry, Pipes
<1>5. /\ \A d \in Calls : d # c => step'[d] = step[d] /\ childId'[d] = childId[d]
      /\ childId'[c] = p /\ table'[p] = [owner |-> c, state |-> "running"]
      /\ \A r \in Pids : r # p => table'[r] = table[r]
  BY <1>1, <1>2 DEF CommandInv, CommandTypeOK
<1>6. \A r \in Pids : table'[r].owner = table[r].owner \/ table[r].owner \notin Transfers \ {c}
  BY <1>1, <1>5, FreeFacts, CallsAssumption DEF Calls
<1>7. OwnsChild(c)' /\ (c \in Queries => step'[c] = "receiving")
  <2>1. c \in Queries => AfterSpawn(c) = "receiving"
    BY CallsAssumption DEF AfterSpawn
  <2>2. step'[c] = AfterSpawn(c)
    BY <1>2 DEF CommandInv, CommandTypeOK
  <2>3. childId'[c] \in Pids /\ table'[childId'[c]].owner = c
    BY <1>5
  <2> QED
    BY <2>1, <2>2, <2>3 DEF OwnsChild
<1>8. CommandInv'
  BY <1>4, <1>5, <1>6, <1>7, ChildrenKept
<1> QED
  BY <1>1, <1>5, <1>8, FreeFacts, CallsAssumption DEF StrangersLive

\* An id goes back to the system from the hands of the call that has waited for its child.
LEMMA ReapStep ==
  ASSUME CommandInv, NEW c \in Calls, WaitForChild(c) \/ WaiterSends(c) \/ Check(c)
  PROVE  CommandInv' /\ StrangersLive
<1> DEFINE p == childId[c]
<1>1. UNCHANGED <<childId, pipes, cancelFlag, registry, cancelling>> /\ \A d \in Calls : d # c => step'[d] = step[d]
  BY DEF WaitForChild, WaiterSends, Check, GoesTo, CommandInv, CommandTypeOK
<1>2. CommandTypeOK'
  <2>1. table' \in [Pids -> Entry]
    <3>1. UNCHANGED table \/ table' = [table EXCEPT ![p] = Free]
      BY DEF WaitForChild, WaiterSends, Check
    <3>2. table \in [Pids -> Entry]
      BY DEF CommandInv, CommandTypeOK, Entry
    <3> QED
      BY <3>1, <3>2, FreeFacts
  <2>2. waiter' \in [Queries -> {"none", "waiting", "sent"}]
    BY DEF WaitForChild, WaiterSends, Check, CommandInv, CommandTypeOK
  <2>3. \/ UNCHANGED <<step, outcome>>
        \/ \E s \in {"polling", "killing", "draining"} :
             /\ GoesTo(c, s)
             /\ UNCHANGED outcome \/ \E o \in {"completed", "failed", "cancelled", "timed out"} : Answers(c, o)
    BY DEF WaitForChild, WaiterSends, Check, AfterReaping
  <2>4. /\ step' \in [Calls -> {"idle", "spawning", "polling", "checking", "killing", "waiting",
                                "draining", "receiving", "ended"}]
        /\ outcome' \in [Calls -> {"none", "completed", "failed", "cancelled", "timed out"}]
    BY <2>3, PlacesTypes DEF CommandInv, CommandTypeOK
  <2> QED
    BY <1>1, <2>1, <2>2, <2>4 DEF CommandInv, CommandTypeOK, Entry
<1>3. ASSUME table' = [table EXCEPT ![p] = Free], p \in Pids => table[p].owner = c,
             c \in Transfers => step'[c] = "draining", c \in Queries => step'[c] = step[c]
      PROVE  CommandInv' /\ StrangersLive
  <2>1. \A r \in Pids : (r = p /\ table'[r] = Free /\ table[r].owner = c) \/ table'[r] = table[r]
    BY <1>3 DEF CommandInv, CommandTypeOK
  <2>2. c \in Transfers => ~Unreaped(c)'
    BY <1>3 DEF Unreaped
  <2>3. CommandInv'
    BY <1>1, <1>2, <1>3, <2>1, <2>2, ChildrenKept DEF CommandInv
  <2> QED
    BY <2>1, <2>3, FreeFacts, CallsAssumption DEF StrangersLive
<1>4. CASE WaitForChild(c)
  <2>1. step[c] = "waiting" /\ c \in Transfers
    BY <1>4 DEF WaitForChild, CommandInv, Calls
  <2>2. table[p].owner = c /\ step'[c] = "draining"
    BY <1>4, <2>1 DEF WaitForChild, GoesTo, CommandInv, CommandTypeOK, Unreaped, OwnsChild
  <2> QED
    BY <1>3, <1>4, <2>1, <2>2, CallsAssumption DEF WaitForChild
<1>5. CASE WaiterSends(c)
  <2>1. table[p].owner = c /\ c \in Queries /\ UNCHANGED step
    BY <1>5 DEF WaiterSends
  <2> QED
    BY <1>3, <1>5, <2>1, CallsAssumption DEF WaiterSends
<1>6. CASE Check(c)
  <2>1. step[c] = "checking" /\ c \in Transfers
    BY <1>6 DEF Check, CommandInv, Calls
  <2>2. table[p].owner = c /\ Unreaped(c)
    BY <2>1 DEF CommandInv, Unreaped, OwnsChild
  <2>3. CASE UNCHANGED table
    <3>1. OwnsChild(c)'
      BY <1>1, <2>1, <2>2, <2>3 DEF CommandInv, OwnsChild
    <3> QED
      BY <1>1, <1>2, <2>1, <2>3, <3>1, ChildrenKept, CallsAssumption DEF StrangersLive
  <2>4. CASE table' = [table EXCEPT ![p] = Free] /\ GoesTo(c, "draining")
    <3>1. step'[c] = "draining"
      BY <2>4 DEF GoesTo, CommandInv, CommandTypeOK
    <3> QED
      BY <1>3, <2>1, <2>2, <2>4, <3>1, CallsAssumption
  <2> QED
    BY <1>6, <2>3, <2>4 DEF Check, AfterReaping
<1> QED
  BY <1>4, <1>5, <1>6

\* A kill changes no owner, and a transfer's goes to its own child.
LEMMA KillStep ==
  ASSUME CommandInv, NEW c \in Calls, Kill(c)
  PROVE  CommandInv' /\ StrangersLive
<1> DEFINE p == childId[c]
<1>1. /\ step[c] = "killing" /\ table' = Killed(p) /\ KillPipes(p) /\ step' = [step EXCEPT ![c] = AfterKill(c)]
      /\ UNCHANGED <<outcome, childId, cancelFlag, registry, cancelling, waiter>>
  BY DEF Kill, GoesTo
<1>2. table' \in [Pids -> Entry] /\ \A r \in Pids : table'[r].owner = table[r].owner /\ (r # p => table'[r] = table[r])
  <2>1. CASE p \in Pids /\ table[p].state = "running"
    <3> DEFINE e == [table[p] EXCEPT !.state = "dead"]
    <3>1. e \in Entry /\ e.owner = table[p].owner
      BY <2>1 DEF CommandInv, CommandTypeOK, Entry
    <3>2. table' = [table EXCEPT ![p] = e]
      BY <1>1, <2>1 DEF Killed
    <3> HIDE DEF e
    <3> QED
      BY <2>1, <3>1, <3>2 DEF CommandInv, CommandTypeOK, Entry
  <2>2. CASE ~(p \in Pids /\ table[p].state = "running")
    BY <1>1, <2>2 DEF Killed, CommandInv, CommandTypeOK, Entry
  <2> QED
    BY <2>1, <2>2
<1>3. pipes' \in [Calls -> Pipes]
  <2>1. pipes \in [Calls -> Pipes]
    BY DEF CommandInv, CommandTypeOK, Pipes
  <2>2. CASE UNCHANGED pipes
    BY <2>1, <2>2
  <2>3. ASSUME NEW d \in Calls, NEW rest \in {pipes[d] \ {"child"}, pipes[d] \ {"child", "helper"}},
               pipes' = [pipes EXCEPT ![d] = rest]
        PROVE  pipes' \in [Calls -> Pipes]
    <3>1. rest \in Pipes
      BY <2>1 DEF Pipes
    <3> QED
      BY <2>1, <2>3, <3>1
  <2> QED
    BY <1>1, <2>2, <2>3 DEF KillPipes
<1>4. AfterKill(c) \in {"waiting", "ended"} /\ (c \in Queries => AfterKill(c) = "ended")
  BY CallsAssumption DEF AfterKill
<1>5. CommandTypeOK' /\ \A d \in Calls : d # c => step'[d] = step[d]
  BY <1>1, <1>2, <1>3, <1>4 DEF CommandInv, CommandTypeOK, Pipes, Entry
<1>6. c \in Transfers => OwnsChild(c) /\ OwnsChild(c)'
  BY <1>1, <1>2 DEF CommandInv, Unreaped, OwnsChild
<1>7. c \in Queries => step'[c] = "ended"
  BY <1>1, <1>4 DEF CommandInv, CommandTypeOK
<1>8. CommandInv'
  BY <1>1, <1>2, <1>5, <1>6, <1>7, ChildrenKept
<1> QED
  BY <1>1, <1>2, <1>6, <1>8, CallsAssumption DEF StrangersLive, OwnsChild, Calls

\* What the system and the user do.
LEMMA SurroundingsStep ==
  ASSUME CommandInv,
         \/ SetFlag
         \/ \E c \in Calls : FindFlag(c) \/ HelperCloses(c)
         \/ \E p \in Pids : ProcessExits(p) \/ StrangerStarts(p)
  PROVE  CommandInv' /\ StrangersLive
<1>1. ASSUME SetFlag \/ \E c \in Calls : FindFlag(c) \/ HelperCloses(c)
      PROVE  CommandInv' /\ StrangersLive
  <2>1. UNCHANGED <<step, childId, table>>
    BY <1>1 DEF SetFlag, FindFlag, HelperCloses
  <2>2. UNCHANGED <<outcome, registry, waiter>> /\ cancelFlag' \subseteq Transfers
        /\ cancelling' \in Transfers \cup {NoOne}
    BY <1>1 DEF SetFlag, FindFlag, HelperCloses, CommandInv, CommandTypeOK
  <2>3. pipes' \in [Calls -> Pipes]
    <3>1. CASE UNCHANGED pipes
      BY <3>1 DEF CommandInv, CommandTypeOK, Pipes
    <3>2. ASSUME NEW c \in Calls, pipes' = [pipes EXCEPT ![c] = pipes[c] \ {"helper"}]
          PROVE  pipes' \in [Calls -> Pipes]
      <4>1. pipes[c] \ {"helper"} \in Pipes /\ pipes \in [Calls -> Pipes]
        BY DEF CommandInv, CommandTypeOK, Pipes
      <4> QED
        BY <3>2, <4>1
    <3> QED
      BY <1>1, <3>1, <3>2 DEF SetFlag, FindFlag, HelperCloses
  <2>4. CommandTypeOK'
    BY <2>1, <2>2, <2>3 DEF CommandInv, CommandTypeOK, Pipes
  <2> QED
    BY <2>1, <2>4 DEF CommandInv, Unreaped, OwnsChild, StrangersLive
<1>2. ASSUME NEW p \in Pids, ProcessExits(p) PROVE CommandInv' /\ StrangersLive
  <2> DEFINE e == [table[p] EXCEPT !.state = "dead"]
           rest == pipes[table[p].owner] \ {"child"}
  <2>1. e \in Entry /\ e.owner = table[p].owner
    <3>1. table[p] \in [owner : Calls \cup {NoOne, Stranger}, state : {"free", "running", "dead"}]
      BY DEF CommandInv, CommandTypeOK
    <3> QED
      BY <3>1 DEF Entry
  <2>2. table[p].owner \in Calls /\ table' = [table EXCEPT ![p] = e] /\ pipes' = [pipes EXCEPT ![table[p].owner] = rest]
        /\ UNCHANGED <<step, outcome, childId, cancelFlag, registry, cancelling, waiter>>
    BY <1>2 DEF ProcessExits
  <2>3. CommandTypeOK'
    <3>1. rest \in Pipes /\ pipes \in [Calls -> Pipes] /\ table \in [Pids -> Entry]
      BY <2>2 DEF CommandInv, CommandTypeOK, Pipes, Entry
    <3> HIDE DEF e, rest
    <3>2. pipes' \in [Calls -> Pipes] /\ table' \in [Pids -> Entry]
      BY <2>1, <2>2, <3>1
    <3> QED
      BY <2>2, <3>2 DEF CommandInv, CommandTypeOK, Entry, Pipes
  <2> HIDE DEF e
  <2>4. \A r \in Pids : table'[r].owner = table[r].owner /\ (r # p => table'[r] = table[r])
    BY <2>1, <2>2 DEF CommandInv, CommandTypeOK
  <2>5. CommandInv'
    BY <2>2, <2>3, <2>4 DEF CommandInv, Unreaped, OwnsChild
  <2> QED
    BY <2>2, <2>4, <2>5, CallsAssumption DEF StrangersLive
<1>3. ASSUME NEW p \in Pids, StrangerStarts(p) PROVE CommandInv' /\ StrangersLive
  <2> DEFINE e == [owner |-> Stranger, state |-> "running"]
  <2>1. e \in Entry /\ e.state = "running"
    BY DEF Entry
  <2>2. table[p] = Free /\ table' = [table EXCEPT ![p] = e]
        /\ UNCHANGED <<step, outcome, childId, pipes, cancelFlag, registry, cancelling, waiter>>
    BY <1>3 DEF StrangerStarts
  <2> HIDE DEF e
  <2>3. CommandTypeOK'
    BY <2>1, <2>2 DEF CommandInv, CommandTypeOK, Entry
  <2>4. \A r \in Pids : table'[r] = table[r] \/ (table[r].owner = NoOne /\ table'[r].state = "running")
    BY <2>1, <2>2, FreeFacts DEF CommandInv, CommandTypeOK
  <2>5. CommandInv'
    BY <2>2, <2>3, <2>4, CallsAssumption DEF CommandInv, Unreaped, OwnsChild, Calls
  <2> QED
    BY <2>4, <2>5 DEF StrangersLive
<1> QED
  BY <1>1, <1>2, <1>3

LEMMA CommandNextStep == CommandInv /\ CommandNext => CommandInv' /\ StrangersLive
BY PlacesStep, SpawnStep, ReapStep, KillStep, SurroundingsStep DEF CommandNext, TransferStep, QueryStep

LEMMA CommandInvStep == CommandInv /\ [CommandNext]_commandVars => CommandInv'
<1>1. ASSUME CommandInv, UNCHANGED commandVars PROVE CommandInv'
  BY <1>1 DEF commandVars, CommandInv, CommandTypeOK, Unreaped, OwnsChild
<1> QED
  BY <1>1, CommandNextStep

\* kill_process, from the loop of run_command_cancellable: it goes by an id, and whatever
\* ends the child meanwhile, the id is still the child's; only a query's kill may miss.
THEOREM KillsGoHome == CommandSpec => TransfersKillTheirOwn
<1> DEFINE Lives == \A p \in Pids : table[p].owner = Stranger /\ table[p].state = "running" /\ table'[p].state = "dead"
                      => \E q \in Queries : step[q] = "killing" /\ childId[q] = p
<1>1. CommandInv /\ [CommandNext]_commandVars => [Lives]_commandVars
  BY CommandNextStep DEF StrangersLive
<1> QED
  BY <1>1, CommandInvInit, CommandInvStep, PTL DEF CommandSpec, TransfersKillTheirOwn

-----------------------------------------------------------------------------
(* The scheduled tasks stay well typed.                                    *)

Task == [there : BOOLEAN, enabled : BOOLEAN, nextRun : {"none", "later", "due"}, failed : BOOLEAN]

LEMMA TaskListIs == TaskList = [Tasks -> Task] /\ Absent \in Task /\ Nothing \in TaskList
BY DEF TaskList, Task, Absent, Nothing

\* What is read of a list, and what is saved, is a list.
LEMMA ListFacts ==
  ASSUME NEW list \in TaskList
  PROVE  /\ Prepared(list) \in TaskList
         /\ \A due \in SUBSET Tasks : Marked(list, due) \in TaskList
         /\ \A t \in Tasks : ComeDue(list, t) \in TaskList
         /\ \A t, ok : ok \in BOOLEAN => [list EXCEPT ![t].failed = ok] \in TaskList
         /\ \A t : \A task \in Task : [list EXCEPT ![t] = task] \in TaskList
<1>1. list \in [Tasks -> Task]
  BY TaskListIs
<1>2. \A task \in Task : \A next \in {"none", "later", "due"}, b \in BOOLEAN :
        /\ [task EXCEPT !.nextRun = next] \in Task /\ [task EXCEPT !.failed = b] \in Task
        /\ [task EXCEPT !.enabled = b, !.nextRun = next] \in Task
  BY DEF Task
<1>3. Prepared(list) \in TaskList
  BY <1>1, <1>2, TaskListIs DEF Prepared, NextRunAfter
<1>4. ASSUME NEW due \in SUBSET Tasks PROVE Marked(list, due) \in TaskList
  BY <1>1, <1>2, TaskListIs DEF Marked
<1>5. ASSUME NEW t \in Tasks PROVE ComeDue(list, t) \in TaskList
  <2>1. [list[t] EXCEPT !.nextRun = "due"] \in Task
    BY <1>1, <1>2
  <2> QED
    BY <1>1, <2>1, TaskListIs DEF ComeDue
<1>6. ASSUME NEW t, NEW ok \in BOOLEAN PROVE [list EXCEPT ![t].failed = ok] \in TaskList
  <2>1. CASE t \in Tasks
    <3>1. [list[t] EXCEPT !.failed = ok] \in Task
      BY <1>1, <1>2, <2>1
    <3> QED
      BY <1>1, <3>1, TaskListIs
  <2>2. CASE t \notin Tasks
    BY <1>1, <2>2, TaskListIs
  <2> QED
    BY <2>1, <2>2
<1> QED
  BY <1>1, <1>3, <1>4, <1>5, <1>6, TaskListIs

LEMMA FirstOfFacts == \A ts \in SUBSET Tasks : FirstOf(ts) \subseteq ts
BY TasksAssumption, MinFacts DEF FirstOf

LEMMA ScheduleTypeInit == ScheduleInit => ScheduleTypeOK
BY TaskListIs, TasksAssumption DEF ScheduleInit, ScheduleTypeOK

LEMMA CountRunFacts ==
  ASSUME ScheduleTypeOK, NEW ts, CountRun(ts) PROVE runs' \in [Tasks -> 0..2]
BY DEF ScheduleTypeOK, CountRun

\* The panel saves its list.
LEMMA SavePanelFacts ==
  ASSUME ScheduleTypeOK, NEW t \in Tasks, NEW task \in Task, SavePanel(t, task), runs' \in [Tasks -> 0..2]
  PROVE  ScheduleTypeOK'
<1>1. editor.list \in TaskList /\ editor.open \in BOOLEAN
  BY DEF ScheduleTypeOK
<1> DEFINE list == [editor.list EXCEPT ![t] = task]
<1>2. list \in TaskList
  BY <1>1, ListFacts
<1>3. editor' = [editor EXCEPT !.list = list] /\ storedTasks' = editor'.list
  BY DEF SavePanel
<1> HIDE DEF list
<1>4. editor' \in [open : BOOLEAN, list : TaskList] /\ storedTasks' = list
  BY <1>1, <1>2, <1>3 DEF ScheduleTypeOK
<1> QED
  BY <1>2, <1>4, TasksAssumption DEF ScheduleTypeOK, SavePanel

LEMMA ScheduleTypeStep == ScheduleTypeOK /\ [ScheduleNext]_scheduleVars => ScheduleTypeOK'
<1> SUFFICES ASSUME ScheduleTypeOK, [ScheduleNext]_scheduleVars PROVE ScheduleTypeOK'
  OBVIOUS
<1>0. storedTasks \in TaskList /\ editor.list \in TaskList /\ editor.open \in BOOLEAN /\ runs \in [Tasks -> 0..2]
      /\ \A k \in Ticks : ticks[k].list \in TaskList /\ ticks[k].left \subseteq Tasks
  BY DEF ScheduleTypeOK
<1>1. ASSUME NEW t \in Tasks, ComesDue(t) PROVE ScheduleTypeOK'
  <2>1. ComeDue(storedTasks, t) \in TaskList /\ ComeDue(editor.list, t) \in TaskList
        /\ \A k \in Ticks : ComeDue(ticks[k].list, t) \in TaskList
    BY <1>0, ListFacts
  <2>2. /\ storedTasks' = ComeDue(storedTasks, t)
        /\ ticks' = [k \in Ticks |-> [ticks[k] EXCEPT !.list = ComeDue(ticks[k].list, t)]]
        /\ editor' = [editor EXCEPT !.list = ComeDue(editor.list, t)]
        /\ UNCHANGED <<runningTaskIds, edits, runs>>
    BY <1>1 DEF ComesDue
  <2>3. ticks' \in [Ticks -> [list : TaskList, left : SUBSET Tasks]]
    BY <2>1, <2>2 DEF ScheduleTypeOK
  <2>4. editor' \in [open : BOOLEAN, list : TaskList]
    BY <2>1, <2>2 DEF ScheduleTypeOK
  <2> QED
    BY <2>1, <2>2, <2>3, <2>4 DEF ScheduleTypeOK
<1>2. ASSUME NEW t \in Tasks, AddTask(t) PROVE ScheduleTypeOK'
  <2>1. PICK next \in {"later", "due"} :
          SavePanel(t, [there |-> TRUE, enabled |-> TRUE, nextRun |-> next, failed |-> FALSE])
    BY <1>2 DEF AddTask
  <2>2. [there |-> TRUE, enabled |-> TRUE, nextRun |-> next, failed |-> FALSE] \in Task
    BY DEF Task
  <2>3. runs' \in [Tasks -> 0..2]
    BY <1>0, <1>2 DEF AddTask, Arm
  <2> QED
    BY <2>1, <2>2, <2>3, SavePanelFacts
<1>3. ASSUME NEW t \in Tasks, ToggleTask(t) \/ RetryTask(t) PROVE ScheduleTypeOK'
  <2>1. editor.list[t] \in Task
    BY <1>0, TaskListIs
  <2>2. PICK task \in Task : SavePanel(t, task)
    BY <1>3, <2>1 DEF ToggleTask, RetryTask, Task
  <2>3. runs' \in [Tasks -> 0..2]
    BY <1>0, <1>3 DEF ToggleTask, RetryTask, Arm
  <2> QED
    BY <2>2, <2>3, SavePanelFacts
<1>4. ASSUME NEW t \in Tasks, DeleteTask(t) PROVE ScheduleTypeOK'
  BY <1>0, <1>4, TaskListIs, SavePanelFacts DEF DeleteTask
<1>5. ASSUME NEW k \in Ticks, TickBegins(k) PROVE ScheduleTypeOK'
  <2> DEFINE list == Prepared(storedTasks)
             due == {t \in Tasks \ runningTaskIds : list[t].enabled /\ list[t].nextRun = "due"}
  <2>1. list \in TaskList /\ due \in SUBSET Tasks
    BY <1>0, ListFacts
  <2>2. /\ storedTasks' = Marked(list, due) /\ ticks' = [ticks EXCEPT ![k] = [list |-> list, left |-> due]]
        /\ runningTaskIds' = runningTaskIds \cup FirstOf(due) /\ CountRun(FirstOf(due))
        /\ UNCHANGED <<editor, edits>>
    BY <1>5 DEF TickBegins
  <2> HIDE DEF list, due
  <2>3. Marked(list, due) \in TaskList /\ FirstOf(due) \subseteq Tasks
    BY <2>1, ListFacts, FirstOfFacts
  <2>4. runs' \in [Tasks -> 0..2]
    BY <2>2, CountRunFacts
  <2> QED
    BY <2>1, <2>2, <2>3, <2>4 DEF ScheduleTypeOK
<1>6. ASSUME NEW k \in Ticks, TaskEnds(k) PROVE ScheduleTypeOK'
  <2> DEFINE t == Current(k)
             rest == ticks[k].left \ {t}
  <2>1. PICK ok \in BOOLEAN :
          LET list == [ticks[k].list EXCEPT ![t].failed = ~ok] IN
          /\ storedTasks' = list
          /\ ticks' = [ticks EXCEPT ![k] = [list |-> IF rest = {} THEN Nothing ELSE list, left |-> rest]]
    BY <1>6 DEF TaskEnds
  <2>2. /\ runningTaskIds' = (runningTaskIds \ {t}) \cup FirstOf(rest) /\ CountRun(FirstOf(rest))
        /\ UNCHANGED <<editor, edits>>
    BY <1>6 DEF TaskEnds
  <2>3. rest \in SUBSET Tasks /\ FirstOf(rest) \subseteq Tasks
    BY <1>0, FirstOfFacts
  <2>4. PICK list \in TaskList :
          storedTasks' = list /\ ticks' = [ticks EXCEPT ![k] = [list |-> IF rest = {} THEN Nothing ELSE list, left |-> rest]]
    <3>1. [ticks[k].list EXCEPT ![t].failed = ~ok] \in TaskList
      BY <1>0, ListFacts
    <3> QED
      BY <2>1, <3>1
  <2> HIDE DEF t, rest
  <2>5. runs' \in [Tasks -> 0..2]
    BY <2>2, CountRunFacts
  <2>6. ticks' \in [Ticks -> [list : TaskList, left : SUBSET Tasks]]
    BY <2>3, <2>4, TaskListIs DEF ScheduleTypeOK
  <2> QED
    BY <2>2, <2>3, <2>4, <2>5, <2>6 DEF ScheduleTypeOK
<1>7. CASE OpenPanel \/ ClosePanel
  <2>1. PICK list \in TaskList, open \in BOOLEAN : editor' = [open |-> open, list |-> list]
    BY <1>0, <1>7, TaskListIs, ListFacts DEF OpenPanel, ClosePanel
  <2>2. UNCHANGED <<storedTasks, ticks, runningTaskIds, edits, runs>>
    BY <1>7 DEF OpenPanel, ClosePanel
  <2> QED
    BY <2>1, <2>2 DEF ScheduleTypeOK
<1>8. CASE UNCHANGED scheduleVars
  BY <1>8 DEF scheduleVars, ScheduleTypeOK
<1> QED
  BY <1>1, <1>2, <1>3, <1>4, <1>5, <1>6, <1>7, <1>8 DEF ScheduleNext

-----------------------------------------------------------------------------
(* What the books of the terminals and of the batch hold besides.          *)

\* The entries, the flags and the tombstones are of sessions, and there are no more
\* tombstones and no more taken slots than allowed.
TerminalRest ==
  /\ activeSessions <= MaxSessions
  /\ entries \subseteq Sessions /\ flag \subseteq Sessions
  /\ readError \subseteq Sessions /\ confirmed \subseteq Sessions
  /\ tombstones \in Seq(Sessions) /\ Len(tombstones) <= MaxStopped

\* remember_stopped keeps as many ids as it may, the last ones.
LEMMA RememberFacts ==
  ASSUME tombstones \in Seq(Sessions), NEW s \in Sessions
  PROVE  Remember(s) \in Seq(Sessions) /\ Len(Remember(s)) <= MaxStopped
<1>1. Without(s) \in Seq(Sessions)
  <2>1. CASE s \notin ToSet(tombstones)
    BY <2>1 DEF Without
  <2>2. CASE s \in ToSet(tombstones)
    <3> DEFINE i == CHOOSE i \in DOMAIN tombstones : tombstones[i] = s
    <3>1. i \in DOMAIN tombstones
      BY <2>2 DEF ToSet
    <3>2. Without(s) = SubSeq(tombstones, 1, i - 1) \o SubSeq(tombstones, i + 1, Len(tombstones))
      BY <2>2 DEF Without, RemoveAt
    <3> HIDE DEF i
    <3>3. i \in 1..Len(tombstones) /\ \A j \in 1..Len(tombstones) : tombstones[j] \in Sessions
      BY <3>1
    <3>4. SubSeq(tombstones, 1, i - 1) \in Seq(Sessions) /\ SubSeq(tombstones, i + 1, Len(tombstones)) \in Seq(Sessions)
      <4>1. /\ i - 1 \in Int /\ i + 1 \in Int /\ Len(tombstones) \in Int
            /\ \A j \in 1..(i - 1) : tombstones[j] \in Sessions
            /\ \A j \in (i + 1)..Len(tombstones) : tombstones[j] \in Sessions
        BY <3>3
      <4> QED
        BY <4>1, SubSeqProperties
    <3> QED
      BY <3>2, <3>4
  <2> QED
    BY <2>1, <2>2
<1> DEFINE all == Append(Without(s), s)
           first == 1 + (IF Len(all) > MaxStopped THEN Len(all) - MaxStopped ELSE 0)
<1>2. all \in Seq(Sessions) /\ Len(all) \in Nat
  BY <1>1
<1>3. Remember(s) = SubSeq(all, first, Len(all))
  BY DEF Remember
<1> HIDE DEF all
<1>4. /\ first \in Int /\ Len(all) \in Int /\ \A j \in first..Len(all) : all[j] \in Sessions
      /\ (IF first <= Len(all) THEN Len(all) - first + 1 ELSE 0) <= MaxStopped
  BY <1>2, TerminalAssumption
<1> HIDE DEF first
<1> QED
  BY <1>3, <1>4, SubSeqProperties

LEMMA TerminalRestStep ==
  SlotsInv /\ FlagInv /\ TerminalRest /\ [TerminalNext]_terminalVars => TerminalRest'
<1> SUFFICES ASSUME SlotsInv, FlagInv, TerminalRest, [TerminalNext]_terminalVars PROVE TerminalRest'
  OBVIOUS
<1>0. activeSessions \in Int /\ MaxSessions \in Nat
  BY TerminalAssumption DEF SlotsInv, SessionTypes
<1>1. ASSUME NEW s \in Sessions, Start(s) \/ Reader(s) \/ ChildExits(s) PROVE TerminalRest'
  BY <1>0, <1>1 DEF TerminalRest, Start, Reserve, Spawn, StartFails, Enlist, SpawnReader, Reader, ReadingEnds,
                  ReportExit, Delist, Release, ChildExits
<1>2. ASSUME NEW x \in Stops, StopCall(x) PROVE TerminalRest'
  <2>1. stop[x].pc # "idle" => stop[x].session \in Sessions
    BY DEF FlagInv
  <2>2. CASE StopRemembers(x)
    BY <2>1, <2>2, RememberFacts DEF StopRemembers, TerminalRest
  <2>3. CASE \E s \in Sessions : StopTakes(x, s)
    BY <2>3 DEF StopTakes, TerminalRest
  <2>4. CASE StopMissing(x) \/ StopFlags(x) \/ StopKills(x) \/ StopRefused(x)
    BY <2>1, <2>4 DEF StopMissing, StopFlags, StopKills, StopRefused, TerminalRest
  <2> QED
    BY <1>2, <2>2, <2>3, <2>4 DEF StopCall
<1>3. CASE UNCHANGED terminalVars
  BY <1>3 DEF terminalVars, TerminalRest
<1> QED
  BY <1>1, <1>2, <1>3 DEF TerminalNext

-----------------------------------------------------------------------------
(* Stopping twice: what a confirmed stop leaves behind.                    *)

\* A session is stopped by one call, which has taken its entry out; no entry comes back.
Acting(x) == stop[x].pc \in {"flagging", "killing", "remembering"}
NotListedYet == {"unused", "refused", "reserved", "spawned"}

\* What is remembered was confirmed, and what was confirmed is remembered as long as there
\* is room.  The stop of a session that was confirmed is the only one that did anything, so
\* that later ones find no entry and nothing adds the session to the memory again.
StopsInv ==
  /\ ToSet(tombstones) \subseteq confirmed
  /\ \A s \in confirmed : s \in ToSet(tombstones) \/ Len(tombstones) = MaxStopped
  /\ \A s \in confirmed : s \notin entries /\ phase[s] \notin NotListedYet
  /\ \A x \in Stops : Acting(x) => /\ stop[x].session \notin entries \cup confirmed
                                   /\ phase[stop[x].session] \notin NotListedYet
  /\ \A x, y \in Stops : Acting(x) /\ Acting(y) /\ stop[x].session = stop[y].session => x = y
  /\ \A x \in Stops : stop[x].late => stop[x].session \in confirmed
  /\ ConfirmedStopIsRepeatable

\* remember_stopped of an id that is not there adds it at the back, and forgets only where
\* it is full.
LEMMA RememberAdds ==
  ASSUME tombstones \in Seq(Sessions), Len(tombstones) <= MaxStopped, NEW s \in Sessions, s \notin ToSet(tombstones)
  PROVE  /\ ToSet(Remember(s)) \subseteq ToSet(tombstones) \cup {s}
         /\ \/ Len(Remember(s)) = MaxStopped
            \/ ToSet(Remember(s)) = ToSet(tombstones) \cup {s}
         /\ Len(tombstones) = MaxStopped => Len(Remember(s)) = MaxStopped
<1> DEFINE all == Append(tombstones, s)
           first == 1 + (IF Len(all) > MaxStopped THEN Len(all) - MaxStopped ELSE 0)
<1>1. Remember(s) = SubSeq(all, first, Len(all))
  BY DEF Remember, Without
<1>2. /\ all \in Seq(Sessions) /\ Len(all) = Len(tombstones) + 1 /\ Len(tombstones) \in Nat /\ MaxStopped \in Nat
      /\ \A j \in 1..Len(all) : all[j] \in ToSet(tombstones) \cup {s}
      /\ \A t \in ToSet(tombstones) \cup {s} : \E j \in 1..Len(all) : all[j] = t
  <2>1. Len(all) = Len(tombstones) + 1 /\ Len(tombstones) \in Nat /\ all \in Seq(Sessions) /\ MaxStopped \in Nat
    BY TerminalAssumption
  <2>2. \A j \in 1..Len(tombstones) : all[j] = tombstones[j] /\ tombstones[j] \in ToSet(tombstones)
    BY DEF ToSet
  <2>3. all[Len(tombstones) + 1] = s
    OBVIOUS
  <2>4. \A t \in ToSet(tombstones) : \E j \in 1..Len(tombstones) : tombstones[j] = t
    BY DEF ToSet
  <2> HIDE DEF all
  <2>5. \A j \in 1..Len(all) : j \in 1..Len(tombstones) \/ j = Len(tombstones) + 1
    BY <2>1
  <2>6. 1..Len(tombstones) \subseteq 1..Len(all) /\ Len(tombstones) + 1 \in 1..Len(all)
    BY <2>1
  <2> QED
    BY <2>1, <2>2, <2>3, <2>4, <2>5, <2>6
<1> HIDE DEF all
<1>3. CASE Len(tombstones) = MaxStopped
  <2>1. first = 2 /\ Len(all) = MaxStopped + 1
    BY <1>2, <1>3
  <2>2. \A j \in 2..Len(all) : all[j] \in Sessions
    BY <1>2
  <2>3. /\ Remember(s) \in Seq(Sessions) /\ Len(Remember(s)) = MaxStopped
        /\ \A j \in 1..MaxStopped : Remember(s)[j] = all[j + 1]
    <3>1. SubSeq(all, 2, Len(all)) \in Seq(Sessions)
          /\ Len(SubSeq(all, 2, Len(all))) = (IF 2 <= Len(all) THEN Len(all) - 2 + 1 ELSE 0)
          /\ \A j \in 1..(Len(all) - 2 + 1) : SubSeq(all, 2, Len(all))[j] = all[2 + j - 1]
      BY <1>2, <2>2, SubSeqProperties
    <3>2. Remember(s) = SubSeq(all, 2, Len(all))
      BY <1>1, <2>1
    <3> QED
      BY <1>2, <2>1, <3>1, <3>2
  <2>4. \A j \in 1..MaxStopped : j + 1 \in 1..Len(all)
    BY <1>2, <2>1
  <2>5. ToSet(Remember(s)) \subseteq ToSet(tombstones) \cup {s}
    <3>1. DOMAIN Remember(s) = 1..MaxStopped
      BY <2>3
    <3> QED
      BY <1>2, <2>3, <2>4, <3>1 DEF ToSet
  <2> QED
    BY <2>3, <2>5
<1>4. CASE Len(tombstones) # MaxStopped
  <2>1. first = 1
    BY <1>2, <1>4
  <2>2. SubSeq(all, 1, Len(all)) = all
    BY <1>2
  <2>3. Remember(s) = all
    BY <1>1, <2>1, <2>2
  <2>4. DOMAIN all = 1..Len(all)
    BY <1>2
  <2>5. ToSet(all) = ToSet(tombstones) \cup {s}
    BY <1>2, <2>4 DEF ToSet
  <2> QED
    BY <1>4, <2>3, <2>5
<1> QED
  BY <1>3, <1>4

\* What starting, reading and exiting touch: entries of sessions that were never stopped.
LEMMA StopsUntouched ==
  ASSUME SessionTypes, StopsInv, UNCHANGED <<tombstones, confirmed, stop>>,
         \A s \in Sessions : phase'[s] \in NotListedYet => phase[s] \in NotListedYet,
         \A s \in Sessions : s \in entries' => s \in entries \/ phase[s] \in NotListedYet,
         confirmed \subseteq Sessions, \A x \in Stops : Acting(x) => stop[x].session \in Sessions
  PROVE  StopsInv'
<1>1. \A s \in confirmed : s \notin entries' /\ phase'[s] \notin NotListedYet
  BY DEF StopsInv
<1>2. \A x \in Stops : Acting(x) => /\ stop[x].session \notin entries' \cup confirmed
                                    /\ phase'[stop[x].session] \notin NotListedYet
  BY DEF StopsInv
<1> QED
  BY <1>1, <1>2 DEF StopsInv, Acting, ConfirmedStopIsRepeatable

LEMMA StopsSessionStep ==
  ASSUME SessionTypes, FlagInv, TerminalRest, StopsInv,
         NEW s \in Sessions, Start(s) \/ Reader(s) \/ ChildExits(s)
  PROVE  StopsInv'
<1>1. UNCHANGED <<tombstones, confirmed, stop>>
  BY DEF Start, Reserve, Spawn, StartFails, Enlist, SpawnReader, Reader, ReadingEnds, ReportExit, Delist, Release, ChildExits
<1>2. confirmed \subseteq Sessions /\ \A x \in Stops : Acting(x) => stop[x].session \in Sessions
  BY DEF TerminalRest, FlagInv, Acting
<1>3. CASE UNCHANGED entries /\ \E p : Becomes(s, p) /\ (p \in NotListedYet => phase[s] \in NotListedYet)
  <2>1. \A t \in Sessions : phase'[t] \in NotListedYet => phase[t] \in NotListedYet
    BY <1>3 DEF Becomes, SessionTypes
  <2> QED
    BY <1>1, <1>2, <1>3, <2>1, StopsUntouched
<1>4. CASE ChildExits(s)
  BY <1>1, <1>2, <1>4, StopsUntouched DEF ChildExits
<1>5. CASE Enlist(s)
  <2>1. \A t \in Sessions : phase'[t] \in NotListedYet => phase[t] \in NotListedYet
    BY <1>5 DEF Enlist, Becomes, SessionTypes, NotListedYet
  <2>2. phase[s] \in NotListedYet /\ entries' = entries \cup {s}
    BY <1>5 DEF Enlist, NotListedYet
  <2> QED
    BY <1>1, <1>2, <2>1, <2>2, StopsUntouched
<1>6. CASE Delist(s)
  <2>1. \A t \in Sessions : phase'[t] \in NotListedYet => phase[t] \in NotListedYet
    BY <1>6 DEF Delist, Becomes, SessionTypes, NotListedYet
  <2>2. entries' \subseteq entries
    BY <1>6 DEF Delist
  <2> QED
    BY <1>1, <1>2, <2>1, <2>2, StopsUntouched
<1>7. CASE Reserve(s) \/ Spawn(s) \/ StartFails(s)
  BY <1>3, <1>7 DEF Reserve, Spawn, StartFails, NotListedYet
<1>8. CASE SpawnReader(s) \/ ReadingEnds(s) \/ ReportExit(s) \/ Release(s)
  <2>1. "reading" \notin NotListedYet /\ "waiting" \notin NotListedYet /\ "removing" \notin NotListedYet /\ "done" \notin NotListedYet
    BY DEF NotListedYet
  <2> QED
    BY <1>3, <1>8, <2>1 DEF SpawnReader, ReadingEnds, ReportExit, Release
<1> QED
  BY <1>4, <1>5, <1>6, <1>7, <1>8 DEF Start, Reader

\* One stop call goes on, or returns, and says nothing new.
LEMMA OneStop ==
  ASSUME SessionTypes, NEW x \in Stops, NEW pc, StopGoto(x, pc) \/ StopReturns(x)
  PROVE  /\ \A y \in Stops : y # x => stop'[y] = stop[y]
         /\ StopGoto(x, pc) => stop'[x].pc = pc /\ stop'[x].session = stop[x].session /\ stop'[x].late = stop[x].late
         /\ StopReturns(x) => stop'[x].pc = "idle" /\ ~stop'[x].late
<1>1. \A y \in Stops : y # x => stop'[y] = stop[y]
  BY DEF SessionTypes, StopGoto, StopReturns
<1>2. StopGoto(x, pc) => stop'[x].pc = pc /\ stop'[x].session = stop[x].session /\ stop'[x].late = stop[x].late
  BY DEF SessionTypes, StopGoto
<1>3. StopReturns(x) => stop'[x] = NotStopping
  BY DEF SessionTypes, StopReturns
<1> QED
  BY <1>1, <1>2, <1>3 DEF NotStopping

LEMMA StopsStopStep ==
  ASSUME SessionTypes, FlagInv, TerminalRest, StopsInv, NEW x \in Stops, StopCall(x)
  PROVE  StopsInv'
<1>0. MaxStopped \in Nat /\ tombstones \in Seq(Sessions) /\ Len(tombstones) <= MaxStopped
  BY TerminalAssumption DEF TerminalRest
<1>1. ASSUME NEW s \in Sessions, StopTakes(x, s) PROVE StopsInv'
  <2>1. /\ entries' = entries \ {s} /\ phase[s] \notin NotListedYet
        /\ UNCHANGED <<tombstones, confirmed, phase>>
        /\ \A y \in Stops : y # x => stop'[y] = stop[y]
        /\ stop'[x] = [pc |-> IF s \in entries THEN "flagging" ELSE "missing", session |-> s, late |-> s \in confirmed]
    BY <1>1 DEF StopTakes, NotListedYet, SessionTypes
  <2>0. PICK pc : pc = IF s \in entries THEN "flagging" ELSE "missing"
    OBVIOUS
  <2>2. stop'[x].session = s /\ (stop'[x].late => s \in confirmed) /\ stop'[x].pc = pc
    <3>1. /\ [pc |-> pc, session |-> s, late |-> s \in confirmed].session = s
          /\ [pc |-> pc, session |-> s, late |-> s \in confirmed].pc = pc
          /\ [pc |-> pc, session |-> s, late |-> s \in confirmed].late <=> s \in confirmed
      OBVIOUS
    <3>2. stop'[x] = [pc |-> pc, session |-> s, late |-> s \in confirmed]
      BY <2>0, <2>1, Zenon
    <3> QED
      BY <3>1, <3>2, Zenon
  <2>2a. (pc = "flagging" /\ s \in entries) \/ pc = "missing"
    BY <2>0
  <2>2b. Acting(x)' => s \in entries
    BY <2>2, <2>2a DEF Acting
  <2>2c. \A y \in Stops : y # x => (Acting(y)' <=> Acting(y))
    BY <2>1 DEF Acting
  <2>3. \A y \in Stops : Acting(y)' => (y = x /\ s \in entries) \/ (y # x /\ Acting(y))
    <3> SUFFICES ASSUME NEW y \in Stops, Acting(y)' PROVE (y = x /\ s \in entries) \/ (y # x /\ Acting(y))
      OBVIOUS
    <3>1. CASE y = x
      <4>1. Acting(x)'
        BY <3>1 DEF Acting
      <4> QED
        BY <2>2b, <3>1, <4>1
    <3>2. CASE y # x
      BY <2>2c, <3>2
    <3> QED
      BY <3>1, <3>2
  <2>4. \A y \in Stops : Acting(y)' => /\ stop'[y].session \notin entries' \cup confirmed'
                                       /\ phase'[stop'[y].session] \notin NotListedYet
    BY <2>1, <2>2, <2>3 DEF StopsInv
  <2>5. \A y, z \in Stops : Acting(y)' /\ Acting(z)' /\ stop'[y].session = stop'[z].session => y = z
    BY <2>1, <2>2, <2>3 DEF StopsInv
  <2>6. \A y \in Stops : stop'[y].late => stop'[y].session \in confirmed'
    BY <2>1, <2>2 DEF StopsInv
  <2>7. ConfirmedStopIsRepeatable'
    BY <2>1, <2>2, <2>2a DEF StopsInv, ConfirmedStopIsRepeatable
  <2> QED
    BY <2>1, <2>4, <2>5, <2>6, <2>7 DEF StopsInv
<1>2. ASSUME UNCHANGED <<tombstones, confirmed, entries, phase>>,
             \A y \in Stops : y # x => stop'[y] = stop[y],
             Acting(x)' => Acting(x) /\ stop'[x].session = stop[x].session,
             stop'[x].late => stop[x].late /\ stop'[x].session = stop[x].session,
             stop'[x].pc = "refused" /\ stop'[x].late =>
               Len(tombstones) = MaxStopped /\ stop'[x].session \notin ToSet(tombstones)
      PROVE  StopsInv'
  <2>1. \A y \in Stops : Acting(y)' => Acting(y) /\ stop'[y].session = stop[y].session
    BY <1>2 DEF Acting
  <2>2. \A y \in Stops : stop'[y].late => stop[y].late /\ stop'[y].session = stop[y].session
    BY <1>2
  <2>3. ConfirmedStopIsRepeatable'
    BY <1>2 DEF StopsInv, ConfirmedStopIsRepeatable
  <2>4. \A y \in Stops : Acting(y)' => /\ stop'[y].session \notin entries' \cup confirmed'
                                       /\ phase'[stop'[y].session] \notin NotListedYet
    BY <1>2, <2>1 DEF StopsInv
  <2>5. \A y, z \in Stops : Acting(y)' /\ Acting(z)' /\ stop'[y].session = stop'[z].session => y = z
    BY <2>1 DEF StopsInv
  <2>6. \A y \in Stops : stop'[y].late => stop'[y].session \in confirmed'
    BY <1>2, <2>2 DEF StopsInv
  <2> QED
    BY <1>2, <2>3, <2>4, <2>5, <2>6 DEF StopsInv
<1>3. CASE StopMissing(x)
  <2>1. UNCHANGED <<tombstones, confirmed, entries, phase>> /\ stop[x].pc = "missing"
        /\ (StopReturns(x) \/ (StopGoto(x, "refused") /\ stop[x].session \notin ToSet(tombstones)))
    BY <1>3 DEF StopMissing
  <2>2. \A y \in Stops : y # x => stop'[y] = stop[y]
    BY <2>1, OneStop
  <2>3. \/ stop'[x].pc = "idle" /\ ~stop'[x].late
        \/ /\ stop'[x].pc = "refused" /\ stop'[x].session = stop[x].session /\ stop'[x].late = stop[x].late
           /\ stop[x].session \notin ToSet(tombstones)
    BY <2>1, OneStop
  <2>4. stop[x].late => stop[x].session \in confirmed
    BY DEF StopsInv
  <2>5. stop[x].late /\ stop[x].session \notin ToSet(tombstones) => Len(tombstones) = MaxStopped
    BY <2>4 DEF StopsInv
  <2> QED
    BY <1>2, <2>1, <2>2, <2>3, <2>5 DEF Acting
<1>4. CASE StopFlags(x) \/ StopKills(x) \/ StopRefused(x)
  <2>1. PICK pc : (StopGoto(x, pc) /\ Acting(x)) \/ StopReturns(x)
    BY <1>4 DEF StopFlags, StopKills, StopRefused, Acting
  <2>2. UNCHANGED <<tombstones, confirmed, entries, phase>>
    BY <1>4 DEF StopFlags, StopKills, StopRefused
  <2>3. \A y \in Stops : y # x => stop'[y] = stop[y]
    BY <2>1, OneStop
  <2>4. \/ stop'[x].pc = "idle" /\ ~stop'[x].late
        \/ Acting(x) /\ stop'[x].session = stop[x].session /\ stop'[x].late = stop[x].late
    BY <2>1, OneStop
  <2>5. Acting(x) => ~stop[x].late
    BY DEF StopsInv
  <2>6. stop'[x].pc = "idle" => ~Acting(x)'
    BY DEF Acting
  <2> QED
    BY <1>2, <2>2, <2>3, <2>4, <2>5, <2>6
<1>5. CASE StopRemembers(x)
  <2>1. PICK s \in Sessions : s = stop[x].session
    BY <1>5 DEF StopRemembers, FlagInv
  <2>2. /\ stop[x].pc = "remembering" /\ Acting(x)
        /\ tombstones' = Remember(s) /\ confirmed' = confirmed \cup {s} /\ StopReturns(x)
        /\ UNCHANGED <<entries, phase>>
    BY <1>5, <2>1 DEF StopRemembers, Acting
  <2>3. s \notin confirmed /\ s \notin entries /\ phase[s] \notin NotListedYet /\ s \notin ToSet(tombstones)
    BY <2>1, <2>2 DEF StopsInv
  <2>4. /\ ToSet(Remember(s)) \subseteq ToSet(tombstones) \cup {s}
        /\ Len(Remember(s)) = MaxStopped \/ ToSet(Remember(s)) = ToSet(tombstones) \cup {s}
        /\ Len(tombstones) = MaxStopped => Len(Remember(s)) = MaxStopped
    BY <1>0, <2>3, RememberAdds
  <2>5. /\ \A y \in Stops : y # x => stop'[y] = stop[y]
        /\ stop'[x].pc = "idle" /\ ~stop'[x].late
    BY <2>2, OneStop
  <2>6. \A y \in Stops : Acting(y)' => y # x /\ Acting(y) /\ stop'[y].session = stop[y].session /\ stop[y].session # s
    BY <2>1, <2>2, <2>5 DEF Acting, StopsInv
  <2>7. ToSet(tombstones') \subseteq confirmed'
    BY <2>2, <2>4 DEF StopsInv
  <2>8. \A t \in confirmed' : t \in ToSet(tombstones') \/ Len(tombstones') = MaxStopped
    BY <2>2, <2>4 DEF StopsInv
  <2>9. \A t \in confirmed' : t \notin entries' /\ phase'[t] \notin NotListedYet
    BY <2>2, <2>3 DEF StopsInv
  <2>10. \A y \in Stops : Acting(y)' => /\ stop'[y].session \notin entries' \cup confirmed'
                                        /\ phase'[stop'[y].session] \notin NotListedYet
    BY <2>2, <2>6 DEF StopsInv
  <2>11. \A y, z \in Stops : Acting(y)' /\ Acting(z)' /\ stop'[y].session = stop'[z].session => y = z
    BY <2>6 DEF StopsInv
  <2>12. \A y \in Stops : stop'[y].late => stop'[y].session \in confirmed'
    BY <2>2, <2>5 DEF StopsInv
  <2>13. ConfirmedStopIsRepeatable'
    <3>1. SUFFICES ASSUME NEW y \in Stops, stop'[y].pc = "refused", stop'[y].late
                   PROVE  Len(tombstones') = MaxStopped /\ stop'[y].session \notin ToSet(tombstones')
      BY DEF ConfirmedStopIsRepeatable
    <3>2. y # x /\ stop'[y] = stop[y]
      BY <2>5, <3>1
    <3>3. Len(tombstones) = MaxStopped /\ stop[y].session \notin ToSet(tombstones) /\ stop[y].session \in confirmed
      BY <3>1, <3>2 DEF StopsInv, ConfirmedStopIsRepeatable
    <3> QED
      BY <2>2, <2>3, <2>4, <3>2, <3>3
  <2> QED
    BY <2>7, <2>8, <2>9, <2>10, <2>11, <2>12, <2>13 DEF StopsInv
<1> QED
  BY <1>1, <1>3, <1>4, <1>5 DEF StopCall

LEMMA StopsStep ==
  SlotsInv /\ FlagInv /\ TerminalRest /\ StopsInv /\ [TerminalNext]_terminalVars => StopsInv'
<1> SUFFICES ASSUME SlotsInv, FlagInv, TerminalRest, StopsInv, [TerminalNext]_terminalVars PROVE StopsInv'
  OBVIOUS
<1>1. SessionTypes
  BY DEF SlotsInv
<1>2. CASE UNCHANGED terminalVars
  BY <1>2 DEF terminalVars, StopsInv, Acting, ConfirmedStopIsRepeatable
<1> QED
  BY <1>1, <1>2, StopsSessionStep, StopsStopStep DEF TerminalNext

\* terminal_session::stop: what a stop told stays true.  The exit event of the process it
\* killed says stopped, and whoever stops the session again is not refused, unless the
\* bounded memory of stopped sessions has been filled by others.
THEOREM StopsTruthful == TerminalSpec => StopsAreTruthful
<1>1. TerminalInit => SlotsInv /\ FlagInv /\ TerminalRest /\ StopsInv
  <2> SUFFICES ASSUME TerminalInit PROVE FlagInv /\ TerminalRest /\ StopsInv
    BY SlotsInit
  <2>1. FlagInv
    BY DEF TerminalInit, FlagInv, NotStopping
  <2>2. TerminalRest
    BY TerminalAssumption DEF TerminalInit, TerminalRest
  <2>3. StopsInv
    <3>1. ToSet(tombstones) = {} /\ confirmed = {} /\ \A x \in Stops : stop[x].pc = "idle" /\ ~stop[x].late
      BY DEF TerminalInit, ToSet, NotStopping
    <3> QED
      BY <3>1 DEF StopsInv, Acting, ConfirmedStopIsRepeatable
  <2> QED
    BY <2>1, <2>2, <2>3
<1>2. StopsInv => /\ ConfirmedStopIsRepeatable
  BY DEF StopsInv
<1>3. TerminalSpec => [](/\ ConfirmedStopIsRepeatable)
  <2>1. SlotsInv /\ FlagInv /\ TerminalRest /\ StopsInv /\ [TerminalNext]_terminalVars
          => (SlotsInv /\ FlagInv /\ TerminalRest /\ StopsInv)'
    BY SlotsStep, FlagStep, TerminalRestStep, StopsStep DEF SlotsInv
  <2> QED
    BY <1>1, <1>2, <2>1, PTL DEF TerminalSpec
<1> QED
  BY <1>3, StoppedIsReported DEF StopsAreTruthful

-----------------------------------------------------------------------------
(* The rest of the batch runner.                                           *)

Results == [Items -> Outcome \cup {"none"}]

\* The flags of a batch, its results, and what the caller gets.
QueueRest ==
  /\ submitted \in BOOLEAN /\ cancelled \in BOOLEAN
  /\ results \in Results /\ answer \in [given : BOOLEAN, cancelled : BOOLEAN, results : Results]

LEMMA FinishFacts ==
  ASSUME QueueRest, NEW now, NEW res \in Results, NEW over \in BOOLEAN, FinishIfReady(now, res, over)
  PROVE  answer' \in [given : BOOLEAN, cancelled : BOOLEAN, results : Results]
BY DEF QueueRest, FinishIfReady

LEMMA QueueRestStep == QueueRest /\ [QueueNext]_queueVars => QueueRest'
<1> SUFFICES ASSUME QueueRest, [QueueNext]_queueVars PROVE QueueRest'
  OBVIOUS
<1>1. CASE SubmitBatch
  BY <1>1 DEF SubmitBatch, QueueRest
<1>2. CASE CancelBatch
  <2>1. MarkCancelled(nextIndex, results) \in Results
    BY DEF QueueRest, MarkCancelled, Results, Outcome
  <2>2. results' \in Results /\ cancelled' = TRUE /\ UNCHANGED submitted /\ FinishIfReady(active, results', TRUE)
    BY <1>2, <2>1 DEF CancelBatch
  <2>3. PICK res \in Results : res = results'
    BY <2>2
  <2>4. answer' \in [given : BOOLEAN, cancelled : BOOLEAN, results : Results]
    BY <2>2, <2>3, FinishFacts
  <2> QED
    BY <2>2, <2>4 DEF QueueRest
<1>3. ASSUME NEW i \in Items, NEW result \in {"fulfilled", "rejected"}, SettleItem(i, result) PROVE QueueRest'
  BY <1>3 DEF SettleItem, QueueRest, Results, Outcome
<1>4. ASSUME NEW i \in Items, LeaveSlot(i) PROVE QueueRest'
  <2>1. UNCHANGED <<submitted, cancelled, results>> /\ FinishIfReady(active', results, cancelled)
    BY <1>4 DEF LeaveSlot
  <2>2. PICK now : now = active'
    OBVIOUS
  <2>3. answer' \in [given : BOOLEAN, cancelled : BOOLEAN, results : Results]
    BY <2>1, <2>2, FinishFacts DEF QueueRest
  <2> QED
    BY <2>1, <2>3 DEF QueueRest
<1>5. CASE UNCHANGED queueVars
  BY <1>5 DEF queueVars, QueueRest
<1> QED
  BY <1>1, <1>2, <1>3, <1>4, <1>5 DEF QueueNext, QueueWork

-----------------------------------------------------------------------------
(* All parts together, as MCDesktop runs them.                             *)

DesktopInv ==
  /\ CreationInv /\ SlotsInv /\ FlagInv /\ TerminalRest
  /\ QueueInv /\ QueueRest /\ ScheduleTypeOK /\ CommandInv

\* The books of the desktop are right whichever of its parts moves: every value is of its
\* type, within its limit, and the slots of the terminals and of the batch are counted.
THEOREM BooksAreRight == DesktopSpec => []DesktopBooks
<1>1. DesktopInit => DesktopInv
  <2> SUFFICES ASSUME DesktopInit PROVE DesktopInv
    OBVIOUS
  <2>1. FlagInv
    BY DEF DesktopInit, TerminalInit, FlagInv, NotStopping
  <2>2. TerminalRest
    BY TerminalAssumption DEF DesktopInit, TerminalInit, TerminalRest
  <2>3. QueueRest
    BY DEF DesktopInit, QueueInit, QueueRest, Results, Unresolved
  <2> QED
    BY <2>1, <2>2, <2>3, CreationInvInit, SlotsInit, QueueInvInit, ScheduleTypeInit, CommandInvInit
      DEF DesktopInit, DesktopInv
<1>2. DesktopInv /\ [DesktopNext]_desktopVars => DesktopInv'
  <2> SUFFICES ASSUME DesktopInv, [DesktopNext]_desktopVars PROVE DesktopInv'
    OBVIOUS
  <2>1. [CreationNext]_creationVars /\ [TerminalNext]_terminalVars /\ [QueueNext]_queueVars
    BY DEF DesktopNext, desktopVars
  <2>2. [ScheduleNext]_scheduleVars /\ [CommandNext]_commandVars
    BY DEF DesktopNext, desktopVars
  <2>3. CreationInv' /\ QueueInv' /\ QueueRest'
    BY <2>1, CreationInvStep, QueueInvStep, QueueRestStep DEF DesktopInv
  <2>4. SlotsInv' /\ FlagInv' /\ TerminalRest'
    BY <2>1, SlotsStep, FlagStep, TerminalRestStep DEF DesktopInv, SlotsInv
  <2>5. ScheduleTypeOK' /\ CommandInv'
    BY <2>2, ScheduleTypeStep, CommandInvStep DEF DesktopInv
  <2> QED
    BY <2>3, <2>4, <2>5 DEF DesktopInv
<1>3. DesktopInv => DesktopBooks
  <2> SUFFICES ASSUME DesktopInv PROVE DesktopBooks
    OBVIOUS
  <2>1. TerminalTypeOK
    <3>1. activeSessions \in Nat
      BY FS_CardinalityType DEF DesktopInv, SlotsInv, SlotsAreCounted, SlotHolders
    <3> QED
      BY <3>1, TerminalAssumption DEF DesktopInv, SlotsInv, SessionTypes, TerminalRest, TerminalTypeOK
  <2>2. QueueTypeOK
    <3>1. N \in Nat /\ QueueLimit \in Nat
      BY LimitType, TaskQueueAssumption
    <3>2. running \cup leaving \subseteq Items
      BY <3>1 DEF DesktopInv, QueueInv, Items
    <3>3. IsFiniteSet(running \cup leaving)
      <4>1. IsFiniteSet(1..N)
        BY <3>1, FS_Interval
      <4> QED
        BY <3>2, <4>1, FS_Subset DEF Items
    <3>4. active \in 0..QueueLimit
      BY <3>1, <3>3, FS_CardinalityType DEF DesktopInv, QueueInv, ActiveIsHeldSlots
    <3> QED
      BY <3>2, <3>4 DEF DesktopInv, QueueInv, QueueRest, Results, QueueTypeOK
  <2> QED
    BY <2>1, <2>2 DEF DesktopInv, DesktopBooks, DesktopTypeOK, CreationInv, CreationTypes, CreationTypeOK, SlotsInv, QueueInv, CommandInv
<1> QED
  BY <1>1, <1>2, <1>3, PTL DEF DesktopSpec
=============================================================================
