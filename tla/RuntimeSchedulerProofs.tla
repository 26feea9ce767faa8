----------------------- MODULE RuntimeSchedulerProofs -----------------------
(* Theorems about RuntimeScheduler, for every value of its constants.  The   *)
(* inductive invariant is SchedulerInv: the type invariant, the safety       *)
(* invariants TLC checks, and the finiteness of the starting set, without    *)
(* which counting it means nothing.                                          *)
EXTENDS RuntimeScheduler, Integers, FiniteSetTheorems, SequenceTheorems, TLAPS

-----------------------------------------------------------------------------
(* What the sequence operators do to a duplicate-free queue.               *)

\* Appending adds one element at the end; a new one keeps the queue duplicate-free.
LEMMA AppendFacts ==
  ASSUME NEW S, NEW q \in Seq(S), NEW e \in S
  PROVE  /\ Append(q, e) \in Seq(S)
         /\ ToSet(Append(q, e)) = ToSet(q) \cup {e}
         /\ Append(q, e) # <<>>
         /\ IsInjective(q) /\ e \notin ToSet(q) => IsInjective(Append(q, e))
<1>1. /\ Append(q, e) \in Seq(S)
      /\ Len(Append(q, e)) = Len(q) + 1
      /\ \A i \in 1..Len(q) : Append(q, e)[i] = q[i]
      /\ Append(q, e)[Len(q) + 1] = e
  OBVIOUS
<1>2. DOMAIN Append(q, e) = 1..(Len(q) + 1) /\ DOMAIN q = 1..Len(q) /\ Len(q) \in Nat
  OBVIOUS
<1> QED  BY <1>1, <1>2 DEF ToSet, IsInjective

\* Popping the head of a duplicate-free queue removes exactly that element.
LEMMA TailFacts ==
  ASSUME NEW S, NEW q \in Seq(S), q # <<>>
  PROVE  /\ Head(q) \in S
         /\ Head(q) \in ToSet(q)
         /\ Tail(q) \in Seq(S)
         /\ ToSet(Tail(q)) \subseteq ToSet(q)
         /\ IsInjective(q) => /\ ToSet(Tail(q)) = ToSet(q) \ {Head(q)}
                              /\ IsInjective(Tail(q))
<1>1. /\ Tail(q) \in Seq(S)
      /\ Len(q) \in Nat \ {0}
      /\ Len(Tail(q)) = Len(q) - 1
      /\ Head(q) = q[1] /\ q[1] \in S
      /\ \A i \in 1..(Len(q) - 1) : Tail(q)[i] = q[i + 1]
  OBVIOUS
<1>2. DOMAIN q = 1..Len(q) /\ DOMAIN Tail(q) = 1..(Len(q) - 1)
  BY <1>1
<1>3. \A i \in 1..Len(q) : i # 1 => i - 1 \in 1..(Len(q) - 1) /\ q[i] = Tail(q)[i - 1]
  BY <1>1
<1>4. ToSet(Tail(q)) \subseteq ToSet(q) /\ Head(q) \in ToSet(q)
  BY <1>1, <1>2 DEF ToSet
<1>5. ASSUME IsInjective(q)
      PROVE  /\ ToSet(Tail(q)) = ToSet(q) \ {Head(q)}
             /\ IsInjective(Tail(q))
  <2>1. \A i, j \in 1..Len(q) : q[i] = q[j] => i = j
    BY <1>2, <1>5 DEF IsInjective
  <2>2. IsInjective(Tail(q))
    BY <1>1, <1>2, <2>1 DEF IsInjective
  <2>3. \A i \in 1..(Len(q) - 1) : Tail(q)[i] # Head(q)
    BY <1>1, <2>1
  <2>4. \A i \in 1..Len(q) : q[i] # Head(q) => i # 1
    BY <1>1
  <2>5. ToSet(q) = {q[i] : i \in 1..Len(q)} /\ ToSet(Tail(q)) = {Tail(q)[i] : i \in 1..(Len(q) - 1)}
    BY <1>2 DEF ToSet
  <2>6. ToSet(q) \ {Head(q)} \subseteq ToSet(Tail(q))
    BY <1>3, <2>4, <2>5
  <2>7. Head(q) \notin ToSet(Tail(q))
    BY <2>3, <2>5
  <2> QED  BY <1>4, <2>2, <2>6, <2>7
<1> QED  BY <1>1, <1>4, <1>5

\* Removing position k of a duplicate-free queue removes exactly that element.
LEMMA RemoveAtFacts ==
  ASSUME NEW S, NEW q \in Seq(S), NEW k \in 1..Len(q)
  PROVE  /\ RemoveAt(q, k) \in Seq(S)
         /\ ToSet(RemoveAt(q, k)) \subseteq ToSet(q)
         /\ IsInjective(q) => /\ ToSet(RemoveAt(q, k)) = ToSet(q) \ {q[k]}
                              /\ IsInjective(RemoveAt(q, k))
<1> DEFINE a == SubSeq(q, 1, k - 1)
           b == SubSeq(q, k + 1, Len(q))
           p == RemoveAt(q, k)
<1>1. /\ a \in Seq(S) /\ Len(a) = k - 1 /\ \A i \in 1..(k - 1) : a[i] = q[i]
  OBVIOUS
<1>2. /\ b \in Seq(S) /\ Len(b) = Len(q) - k /\ \A i \in 1..(Len(q) - k) : b[i] = q[k + i]
  OBVIOUS
<1>3. p = a \o b
  BY DEF RemoveAt
<1>4. /\ p \in Seq(S)
      /\ Len(p) = Len(q) - 1
      /\ \A i \in 1..(Len(q) - 1) : p[i] = IF i < k THEN q[i] ELSE q[i + 1]
  <2> HIDE DEF a, b, p
  <2>1. p \in Seq(S) /\ Len(p) = Len(a) + Len(b)
    BY <1>1, <1>2, <1>3, ConcatProperties
  <2>2. \A i \in 1..(Len(a) + Len(b)) : p[i] = IF i <= Len(a) THEN a[i] ELSE b[i - Len(a)]
    BY <1>1, <1>2, <1>3
  <2>3. Len(q) \in Nat /\ k \in 1..Len(q) /\ Len(a) + Len(b) = Len(q) - 1
    BY <1>1, <1>2
  <2>4. ASSUME NEW i \in 1..(Len(q) - 1)
        PROVE  p[i] = IF i < k THEN q[i] ELSE q[i + 1]
    <3>1. CASE i < k
      BY <3>1, <2>2, <2>3, <1>1
    <3>2. CASE i >= k
      <4>1. i - (k - 1) \in 1..(Len(q) - k) /\ k + (i - (k - 1)) = i + 1
        BY <3>2, <2>3
      <4>2. p[i] = b[i - (k - 1)]
        BY <3>2, <2>2, <2>3, <1>1
      <4> QED  BY <4>1, <4>2, <3>2, <2>3, <1>2
    <3> QED  BY <3>1, <3>2, <2>3
  <2> QED  BY <2>1, <2>3, <2>4
<1>5. DOMAIN q = 1..Len(q) /\ DOMAIN p = 1..(Len(q) - 1) /\ Len(q) \in Nat
  BY <1>4
<1>6. \A i \in 1..Len(q) : i # k =>
        \/ i \in 1..(Len(q) - 1) /\ p[i] = q[i]
        \/ i - 1 \in 1..(Len(q) - 1) /\ p[i - 1] = q[i]
  BY <1>4, <1>5
<1> HIDE DEF a, b, p
<1>7. ToSet(q) = {q[i] : i \in 1..Len(q)} /\ ToSet(p) = {p[i] : i \in 1..(Len(q) - 1)}
  BY <1>5 DEF ToSet
<1>8. \A i \in 1..(Len(q) - 1) : \E j \in 1..Len(q) : p[i] = q[j] /\ j # k
  BY <1>4, <1>5
<1>9. ToSet(p) \subseteq ToSet(q)
  BY <1>7, <1>8
<1>10. ASSUME IsInjective(q)
       PROVE  ToSet(p) = ToSet(q) \ {q[k]} /\ IsInjective(p)
  <2>1. \A i, j \in 1..Len(q) : q[i] = q[j] => i = j
    BY <1>5, <1>10 DEF IsInjective
  <2>2. \A i \in 1..(Len(q) - 1) : p[i] # q[k]
    BY <1>8, <2>1
  <2>3. \A i \in 1..Len(q) : q[i] # q[k] => i # k
    OBVIOUS
  <2>4. ToSet(q) \ {q[k]} \subseteq ToSet(p)
    BY <1>6, <1>7, <2>3
  <2>5. \A i, j \in 1..(Len(q) - 1) : p[i] = p[j] => i = j
    <3> DEFINE old(i) == IF i < k THEN i ELSE i + 1
    <3>1. \A i \in 1..(Len(q) - 1) : old(i) \in 1..Len(q) /\ p[i] = q[old(i)]
      BY <1>4, <1>5
    <3>2. \A i, j \in 1..(Len(q) - 1) : old(i) = old(j) => i = j
      BY <1>5
    <3> HIDE DEF old
    <3> QED  BY <3>1, <3>2, <2>1
  <2>6. IsInjective(p)
    BY <1>5, <2>5 DEF IsInjective
  <2>7. q[k] \notin ToSet(p)
    BY <1>7, <2>2
  <2> QED  BY <1>9, <2>4, <2>6, <2>7
<1> QED  BY <1>4, <1>9, <1>10 DEF p

-----------------------------------------------------------------------------
(* Type correctness.                                                       *)

\* Both copies of the policy that a locked section decides by are at least one.
LEMMA CurrentPolicyType ==
  ASSUME settings \in [maxParallel : ParallelSettings, autoRelease : BOOLEAN]
  PROVE  CurrentPolicy \in Policy
BY RuntimeSchedulerAssumption DEF CurrentPolicy, Policy, AtLeastOne

\* Returning from a call leaves the thread variables well typed.
LEMMA ReturnType ==
  ASSUME TypeOK, NEW t \in Threads, NEW d \in StartDecision, Return(t, d)
  PROVE  /\ pc' \in [Threads -> Labels]
         /\ request' \in [Threads -> StartRequest \cup {NoRequest}]
         /\ \A u \in Threads : pc'[u] # "idle" => request'[u] \in StartRequest
         /\ pressure' \in [Threads -> MemoryPressure]
         /\ outcome' \in [Threads -> StartDecision]
BY DEF TypeOK, Return, Goto, Labels, MemoryPressure

\* Admission, queueing and refusal keep the types.
LEMMA RequestStartType ==
  ASSUME TypeOK, NEW t \in Threads, pc[t] # "idle", NEW max, RequestStart(t, max)
  PROVE  /\ startsInFlight' \in Nat
         /\ starting' \in SUBSET StartRequest
         /\ queued' \in Seq(StartRequest)
         /\ pc' \in [Threads -> Labels]
         /\ request' \in [Threads -> StartRequest \cup {NoRequest}]
         /\ \A u \in Threads : pc'[u] # "idle" => request'[u] \in StartRequest
         /\ pressure' \in [Threads -> MemoryPressure]
         /\ outcome' \in [Threads -> StartDecision]
<1> DEFINE r == request[t]
<1>0. r \in StartRequest
  BY DEF TypeOK
<1>1. CASE r \in Tracked /\ Return(t, "AlreadyTracked") /\ UNCHANGED schedVars
  <2>1. "AlreadyTracked" \in StartDecision
    BY DEF StartDecision
  <2> QED  BY <1>1, <2>1, ReturnType DEF TypeOK, schedVars
<1>2. CASE /\ queued' = Append(queued, r) /\ Goto(t, "waiting")
           /\ pressure' = [pressure EXCEPT ![t] = "Normal"]
           /\ UNCHANGED <<startsInFlight, starting, request, outcome>>
  BY <1>0, <1>2 DEF TypeOK, Goto, Labels, MemoryPressure
<1>3. CASE /\ startsInFlight' = startsInFlight + 1
           /\ starting' = starting \cup {r} /\ Goto(t, "recheck")
           /\ pressure' = [pressure EXCEPT ![t] = "Normal"]
           /\ UNCHANGED <<queued, request, outcome>>
  BY <1>0, <1>3 DEF TypeOK, Goto, Labels, InStarting, MemoryPressure
<1> QED  BY <1>1, <1>2, <1>3 DEF RequestStart

\* Finishing a start and promoting the next one keeps the scheduler's types.
LEMMA FinishAndPromoteType ==
  ASSUME TypeOK, NEW r, FinishAndPromote(r)
  PROVE  /\ startsInFlight' \in Nat
         /\ starting' \in SUBSET StartRequest
         /\ queued' \in Seq(StartRequest)
<1>1. SlotsLeft(r) \in Nat
  BY DEF TypeOK, SlotsLeft
<1>2. queued # <<>> => Head(queued) \in StartRequest /\ Tail(queued) \in Seq(StartRequest)
  BY TailFacts DEF TypeOK
<1>3. CanPromote(starting \ {r}, SlotsLeft(r)) => queued # <<>>
  BY DEF CanPromote
<1>4. startsInFlight' \in Nat
  BY <1>1 DEF FinishAndPromote
<1>5. starting' \in SUBSET StartRequest
  BY <1>2, <1>3 DEF FinishAndPromote, TypeOK
<1>6. queued' \in Seq(StartRequest)
  BY <1>2, <1>3 DEF FinishAndPromote, TypeOK
<1> QED  BY <1>4, <1>5, <1>6

\* The type invariant is inductive.
LEMMA TypeStep == TypeOK /\ [Next]_vars => TypeOK'
<1> SUFFICES ASSUME TypeOK, [Next]_vars PROVE TypeOK'
  OBVIOUS
<1> USE DEF vars, schedVars, threadVars
<1>1. CASE ChangeSettings
  BY <1>1 DEF ChangeSettings, TypeOK
<1>2. ASSUME NEW t \in Threads, Call(t) PROVE TypeOK'
  BY <1>2 DEF Call, Goto, TypeOK, Labels, StartDecision
<1>3. ASSUME NEW t \in Threads, Admit(t) PROVE TypeOK'
  <2>1. policy' \in Policy
    BY <1>3, CurrentPolicyType DEF Admit, TypeOK
  <2>2. CASE RequestStart(t, policy'.maxParallel)
    BY <1>3, <2>1, <2>2, RequestStartType DEF Admit, TypeOK
  <2>3. CASE /\ Goto(t, "guestReclaim") \/ Goto(t, "readmit")
             /\ UNCHANGED <<schedVars, request, pressure, outcome>>
    BY <1>3, <2>1, <2>3 DEF Admit, Goto, TypeOK, Labels
  <2> QED  BY <1>3, <2>2, <2>3 DEF Admit
<1>4. ASSUME NEW t \in Threads, GuestReclaim(t) PROVE TypeOK'
  BY <1>4 DEF GuestReclaim, Goto, TypeOK, Labels
<1>5. ASSUME NEW t \in Threads, BeginReclaim(t) PROVE TypeOK'
  <2>1. policy' \in Policy
    BY <1>5, CurrentPolicyType DEF BeginReclaim, TypeOK
  <2> QED  BY <1>5, <2>1 DEF BeginReclaim, Goto, TypeOK, Labels
<1>6. ASSUME NEW t \in Threads, NEW released \in BOOLEAN, FinishReclaim(t, released) PROVE TypeOK'
  BY <1>6 DEF FinishReclaim, Goto, TypeOK, Labels
<1>7. ASSUME NEW t \in Threads, Readmit(t) PROVE TypeOK'
  <2>1. CASE Return(t, "Blocked") /\ UNCHANGED schedVars
    <3>1. "Blocked" \in StartDecision
      BY DEF StartDecision
    <3> QED  BY <1>7, <2>1, <3>1, ReturnType DEF Readmit, TypeOK
  <2>2. CASE RequestStart(t, policy.maxParallel)
    BY <1>7, <2>2, RequestStartType DEF Readmit, TypeOK
  <2> QED  BY <1>7, <2>1, <2>2 DEF Readmit
<1>8. ASSUME NEW t \in Threads, Promoted(t) PROVE TypeOK'
  BY <1>8 DEF Promoted, Goto, TypeOK, Labels, InStarting
<1>9. ASSUME NEW t \in Threads, GiveUp(t) PROVE TypeOK'
  <2>1. queued' \in Seq(StartRequest)
    BY <1>9, RemoveAtFacts DEF GiveUp, TypeOK
  <2>2. "Cancelled" \in StartDecision /\ "TimedOut" \in StartDecision
    BY DEF StartDecision
  <2>3. Return(t, "Cancelled") \/ Return(t, "TimedOut")
    BY <1>9 DEF GiveUp
  <2> QED  BY <1>9, <2>1, <2>2, <2>3, ReturnType DEF GiveUp, TypeOK
<1>10. ASSUME NEW t \in Threads, AbortLaunch(t) PROVE TypeOK'
  <2>1. "Blocked" \in StartDecision
    BY DEF StartDecision
  <2> QED  BY <1>10, <2>1, FinishAndPromoteType, ReturnType DEF AbortLaunch, TypeOK
<1>11. ASSUME NEW t \in Threads, Launch(t) PROVE TypeOK'
  BY <1>11 DEF Launch, Goto, TypeOK, Labels, InStarting
<1>12. ASSUME NEW t \in Threads, NEW success \in BOOLEAN, LaunchReturns(t, success) PROVE TypeOK'
  BY <1>12 DEF LaunchReturns, Goto, TypeOK, Labels, InStarting
<1>13. ASSUME NEW t \in Threads, FinishStart(t) PROVE TypeOK'
  <2>1. {"StartFailed", "Ready", "NotTracked"} \subseteq StartDecision
    BY DEF StartDecision
  <2>2. \E d \in StartDecision : Return(t, d)
    BY <1>13, <2>1 DEF FinishStart
  <2> QED  BY <1>13, <2>2, FinishAndPromoteType, ReturnType DEF FinishStart, TypeOK
<1>14. CASE UNCHANGED vars
  BY <1>14 DEF TypeOK
<1> QED
  BY <1>1, <1>2, <1>3, <1>4, <1>5, <1>6, <1>7, <1>8, <1>9, <1>10, <1>11, <1>12, <1>13, <1>14
  DEF Next, Step

\* The initial states are well typed.
LEMMA TypeInit == Init => TypeOK
<1> SUFFICES ASSUME Init PROVE TypeOK
  OBVIOUS
<1>1. policy \in Policy
  BY DEF Init, Policy
<1>2. queued \in Seq(StartRequest)
  BY DEF Init
<1>3. /\ pc \in [Threads -> Labels]
      /\ request \in [Threads -> StartRequest \cup {NoRequest}]
      /\ pressure \in [Threads -> MemoryPressure]
      /\ outcome \in [Threads -> StartDecision]
  BY DEF Init, Labels, MemoryPressure, StartDecision
<1> QED  BY <1>1, <1>2, <1>3 DEF Init, TypeOK

\* Every reachable state is well typed: in particular the policy in force never
\* allows fewer than one start, and a thread inside a call has a request.
THEOREM TypeCorrect == Spec => []TypeOK
BY TypeInit, TypeStep, PTL DEF Spec

-----------------------------------------------------------------------------
(* The bookkeeping of SchedulerState: budget, starting set and queue.      *)

Bookkeeping ==
  /\ IsFiniteSet(starting)
  /\ BudgetCountsStarts
  /\ OneStartPerVm
  /\ TrackedOnce
  /\ QueueNeverStranded

\* Admission and queueing keep the books: a request is queued only behind a start.
LEMMA RequestStartBooks ==
  ASSUME TypeOK, Bookkeeping, NEW t \in Threads, pc[t] # "idle",
         NEW max \in Nat \ {0}, RequestStart(t, max)
  PROVE  Bookkeeping'
<1> DEFINE r == request[t]
<1>0. r \in StartRequest /\ startsInFlight \in Nat /\ queued \in Seq(StartRequest)
  BY DEF TypeOK
<1>1. CASE UNCHANGED schedVars
  BY <1>1 DEF Bookkeeping, schedVars, BudgetCountsStarts, OneStartPerVm, TrackedOnce,
              QueueNeverStranded, ToSet, IsInjective
<1>2. CASE /\ r \notin Tracked
           /\ startsInFlight >= max \/ IsBooting(r.vm)
           /\ queued' = Append(queued, r)
           /\ UNCHANGED <<startsInFlight, starting>>
  <2>1. starting # {}
    <3>1. CASE startsInFlight >= max
      BY <3>1, <1>0, FS_EmptySet DEF Bookkeeping, BudgetCountsStarts
    <3>2. CASE IsBooting(r.vm)
      BY <3>2 DEF IsBooting
    <3> QED  BY <1>2, <3>1, <3>2
  <2>2. r \notin ToSet(queued) /\ r \notin starting
    BY <1>2 DEF Tracked
  <2>3. TrackedOnce'
    BY <1>0, <1>2, <2>2, AppendFacts DEF TrackedOnce, Bookkeeping
  <2> QED  BY <1>2, <2>1, <2>3 DEF Bookkeeping, BudgetCountsStarts, OneStartPerVm, QueueNeverStranded
<1>3. CASE /\ r \notin Tracked
           /\ ~IsBooting(r.vm)
           /\ startsInFlight' = startsInFlight + 1
           /\ starting' = starting \cup {r}
           /\ UNCHANGED queued
  <2>1. r \notin ToSet(queued) /\ r \notin starting
    BY <1>3 DEF Tracked
  <2>2. IsFiniteSet(starting') /\ BudgetCountsStarts'
    BY <1>3, <2>1, FS_AddElement DEF Bookkeeping, BudgetCountsStarts
  <2>3. OneStartPerVm'
    BY <1>3 DEF Bookkeeping, OneStartPerVm, IsBooting
  <2>4. TrackedOnce'
    BY <1>3, <2>1 DEF Bookkeeping, TrackedOnce
  <2>5. QueueNeverStranded'
    BY <1>3 DEF QueueNeverStranded
  <2> QED  BY <2>2, <2>3, <2>4, <2>5 DEF Bookkeeping
<1> QED  BY <1>1, <1>2, <1>3 DEF RequestStart

\* Finishing a start keeps the books, forgets exactly that request, and if
\* nothing is left in flight it has emptied the queue or promoted its head.
LEMMA FinishBooks ==
  ASSUME TypeOK, Bookkeeping, NEW r \in starting, FinishAndPromote(r)
  PROVE  /\ Bookkeeping'
         /\ starting' \cup ToSet(queued') = Tracked \ {r}
         /\ starting \ {r} \subseteq starting'
         /\ ToSet(queued') \subseteq ToSet(queued)
<1> DEFINE rest == starting \ {r}
           left == SlotsLeft(r)
<1>0. startsInFlight \in Nat /\ queued \in Seq(StartRequest) /\ policy.maxParallel \in Nat \ {0}
  BY DEF TypeOK, Policy
<1>1. IsFiniteSet(rest) /\ Cardinality(rest) = Cardinality(starting) - 1
  BY FS_RemoveElement DEF Bookkeeping
<1>2. Cardinality(starting) # 0
  BY FS_EmptySet DEF Bookkeeping
<1>3. left = Cardinality(rest)
  BY <1>0, <1>1, <1>2 DEF SlotsLeft, Bookkeeping, BudgetCountsStarts
<1>4. \A r1, r2 \in rest : r1.vm = r2.vm => r1 = r2
  BY DEF Bookkeeping, OneStartPerVm
<1>5. IsInjective(queued) /\ ToSet(queued) \cap starting = {}
  BY DEF Bookkeeping, TrackedOnce
<1>6. CASE /\ CanPromote(rest, left)
           /\ startsInFlight' = left + 1
           /\ starting' = rest \cup {Head(queued)}
           /\ queued' = Tail(queued)
  <2>1. /\ queued # <<>>
        /\ \A other \in rest : other.vm # Head(queued).vm
    BY <1>6 DEF CanPromote
  <2>2. /\ Head(queued) \in ToSet(queued)
        /\ ToSet(Tail(queued)) = ToSet(queued) \ {Head(queued)}
        /\ IsInjective(Tail(queued))
    BY <1>0, <1>5, <2>1, TailFacts
  <2>3. Head(queued) \notin rest
    BY <1>5, <2>2
  <2>4. IsFiniteSet(starting') /\ startsInFlight' = Cardinality(starting')
    BY <1>1, <1>3, <1>6, <2>3, FS_AddElement
  <2>5. OneStartPerVm'
    BY <1>4, <1>6, <2>1 DEF OneStartPerVm
  <2>6. TrackedOnce'
    BY <1>5, <1>6, <2>2 DEF TrackedOnce
  <2>7. QueueNeverStranded'
    BY <1>6 DEF QueueNeverStranded
  <2>8. r # Head(queued) /\ r \notin ToSet(queued)
    BY <1>5, <2>2
  <2>9. starting' \cup ToSet(queued') = Tracked \ {r}
    BY <1>6, <2>2, <2>8 DEF Tracked
  <2> QED
    BY <1>6, <2>2, <2>4, <2>5, <2>6, <2>7, <2>9 DEF Bookkeeping, BudgetCountsStarts
<1>7. CASE /\ ~CanPromote(rest, left)
           /\ startsInFlight' = left
           /\ starting' = rest
           /\ UNCHANGED queued
  <2>1. QueueNeverStranded'
    <3>1. ASSUME rest = {}, queued # <<>> PROVE FALSE
      <4>1. left = 0
        BY <1>3, <3>1, FS_EmptySet
      <4>2. left < policy.maxParallel
        BY <1>0, <4>1
      <4> QED  BY <1>7, <3>1, <4>2 DEF CanPromote
    <3> QED  BY <1>7, <3>1 DEF QueueNeverStranded
  <2>2. OneStartPerVm' /\ TrackedOnce'
    BY <1>4, <1>5, <1>7 DEF OneStartPerVm, TrackedOnce
  <2>3. r \notin ToSet(queued)
    BY <1>5
  <2> QED
    BY <1>1, <1>3, <1>7, <2>1, <2>2, <2>3 DEF Bookkeeping, BudgetCountsStarts, Tracked
<1> QED  BY <1>6, <1>7 DEF FinishAndPromote

\* Cancelling a queued request keeps the books and forgets exactly that request.
LEMMA GiveUpBooks ==
  ASSUME TypeOK, Bookkeeping, NEW t \in Threads, GiveUp(t)
  PROVE  Bookkeeping' /\ ToSet(queued') = ToSet(queued) \ {request[t]}
<1>0. queued \in Seq(StartRequest) /\ IsInjective(queued)
  BY DEF TypeOK, Bookkeeping, TrackedOnce
<1>1. /\ ToSet(queued') = ToSet(queued) \ {request[t]}
      /\ IsInjective(queued')
      /\ queued' # <<>> => queued # <<>>
  <2>1. CASE request[t] \notin ToSet(queued) /\ UNCHANGED queued
    BY <1>0, <2>1
  <2>2. CASE \E i \in 1..Len(queued) : queued[i] = request[t] /\ queued' = RemoveAt(queued, i)
    <3>1. PICK i \in 1..Len(queued) : queued[i] = request[t] /\ queued' = RemoveAt(queued, i)
      BY <2>2
    <3>2. queued # <<>>
      BY <1>0, <3>1
    <3> QED  BY <1>0, <3>1, <3>2, RemoveAtFacts
  <2> QED  BY <2>1, <2>2 DEF GiveUp
<1> QED
  BY <1>1 DEF GiveUp, Bookkeeping, BudgetCountsStarts, OneStartPerVm, TrackedOnce, QueueNeverStranded

-----------------------------------------------------------------------------
(* Ownership: which call settles which tracked request.                    *)

Ownership ==
  /\ StartsHaveOwners
  /\ QueuedHaveOwners
  /\ OwnersAreUnique
  /\ OwnersAreTracked

\* What a call that returns leaves behind.
LEMMA ReturnFacts ==
  ASSUME TypeOK, NEW t \in Threads, NEW d, Return(t, d)
  PROVE  /\ Owners' = Owners \ {t}
         /\ \A u \in Threads \ {t} : pc'[u] = pc[u] /\ request'[u] = request[u]
BY DEF TypeOK, Return, Goto, Owners, InStarting

\* A call that takes a slot or a place in the queue becomes its only owner.
LEMMA RequestStartOwnership ==
  ASSUME TypeOK, Ownership, NEW t \in Threads, pc[t] \in {"admit", "readmit"},
         NEW max, RequestStart(t, max)
  PROVE  Ownership'
<1> DEFINE r == request[t]
<1>0. t \notin Owners /\ queued \in Seq(StartRequest) /\ r \in StartRequest
  BY DEF Owners, InStarting, TypeOK
<1>1. CASE Return(t, "AlreadyTracked") /\ UNCHANGED schedVars
  <2>1. /\ Owners' = Owners
        /\ \A u \in Owners : pc'[u] = pc[u] /\ request'[u] = request[u]
        /\ starting' = starting /\ Tracked' = Tracked /\ ToSet(queued') = ToSet(queued)
    BY <1>0, <1>1, ReturnFacts DEF schedVars, Tracked, Owners
  <2> QED
    BY <2>1 DEF Ownership, StartsHaveOwners, QueuedHaveOwners, OwnersAreUnique, OwnersAreTracked
<1>2. CASE /\ r \notin Tracked
           /\ queued' = Append(queued, r) /\ Goto(t, "waiting")
           /\ UNCHANGED <<starting, request>>
  <2>1. /\ Owners' = Owners \cup {t}
        /\ \A u \in Owners : u # t /\ pc'[u] = pc[u]
        /\ pc'[t] = "waiting"
    BY <1>0, <1>2 DEF Goto, Owners, TypeOK
  <2>2. ToSet(queued') = ToSet(queued) \cup {r} /\ Tracked' = Tracked \cup {r}
    BY <1>0, <1>2, AppendFacts DEF Tracked
  <2>3. StartsHaveOwners' /\ QueuedHaveOwners'
    BY <1>2, <2>1, <2>2 DEF Ownership, StartsHaveOwners, QueuedHaveOwners
  <2>4. OwnersAreUnique' /\ OwnersAreTracked'
    BY <1>2, <2>1, <2>2 DEF Ownership, OwnersAreUnique, OwnersAreTracked
  <2> QED  BY <2>3, <2>4 DEF Ownership
<1>3. CASE /\ r \notin Tracked
           /\ starting' = starting \cup {r} /\ Goto(t, "recheck")
           /\ UNCHANGED <<queued, request>>
  <2>1. /\ Owners' = Owners \cup {t}
        /\ \A u \in Owners : u # t /\ pc'[u] = pc[u]
        /\ pc'[t] = "recheck"
    BY <1>0, <1>3 DEF Goto, Owners, InStarting, TypeOK
  <2>2. ToSet(queued') = ToSet(queued) /\ Tracked' = Tracked \cup {r}
    BY <1>3 DEF Tracked
  <2>3. StartsHaveOwners' /\ QueuedHaveOwners'
    BY <1>3, <2>1, <2>2 DEF Ownership, StartsHaveOwners, QueuedHaveOwners
  <2>4. OwnersAreUnique' /\ OwnersAreTracked'
    BY <1>3, <2>1, <2>2 DEF Ownership, OwnersAreUnique, OwnersAreTracked
  <2> QED  BY <2>3, <2>4 DEF Ownership
<1> QED  BY <1>1, <1>2, <1>3 DEF RequestStart

\* The owner of a request that is forgotten leaves; everyone else keeps theirs.
LEMMA LeaveOwnership ==
  ASSUME TypeOK, Ownership, NEW t \in Owners, NEW d, Return(t, d),
         starting' \cup ToSet(queued') = Tracked \ {request[t]},
         starting \ {request[t]} \subseteq starting',
         ToSet(queued') \subseteq ToSet(queued)
  PROVE  Ownership'
<1>1. /\ t \in Threads
      /\ Owners' = Owners \ {t}
      /\ \A u \in Owners' : u \in Owners /\ u # t /\ pc'[u] = pc[u] /\ request'[u] = request[u]
  BY ReturnFacts DEF Owners
<1>2. Tracked' = Tracked \ {request[t]}
  BY DEF Tracked
<1>3. \A u \in Owners' : request[u] # request[t]
  BY <1>1 DEF Ownership, OwnersAreUnique
<1>4. \A r \in Tracked : \E u \in Owners : request[u] = r
  BY DEF Ownership, StartsHaveOwners, QueuedHaveOwners, Tracked
<1>5. StartsHaveOwners'
  <2> SUFFICES ASSUME NEW r \in starting' PROVE \E u \in Owners' : request'[u] = r
    BY DEF StartsHaveOwners
  <2>1. r \in Tracked /\ r # request[t]
    OBVIOUS
  <2> QED  BY <1>1, <1>4, <2>1
<1>6. QueuedHaveOwners'
  <2> SUFFICES ASSUME NEW r \in ToSet(queued')
               PROVE  \E u \in Owners' : request'[u] = r /\ pc'[u] = "waiting"
    BY DEF QueuedHaveOwners
  <2>1. r \in ToSet(queued) /\ r # request[t]
    OBVIOUS
  <2>2. PICK u \in Owners : request[u] = r /\ pc[u] = "waiting"
    BY <2>1 DEF Ownership, QueuedHaveOwners
  <2>3. u \in Owners' /\ request'[u] = r /\ pc'[u] = "waiting"
    BY <1>1, <2>1, <2>2
  <2> QED  BY <2>3
<1>7. OwnersAreUnique'
  BY <1>1 DEF Ownership, OwnersAreUnique
<1>8. OwnersAreTracked'
  BY <1>1, <1>2, <1>3 DEF Ownership, OwnersAreTracked
<1> QED  BY <1>5, <1>6, <1>7, <1>8 DEF Ownership

\* A call that owns nothing may move freely outside the owning labels.
LEMMA OutsiderOwnership ==
  ASSUME TypeOK, Ownership, NEW t \in Threads, t \notin Owners, UNCHANGED schedVars,
         pc'[t] \notin InStarting \cup {"waiting"},
         \A u \in Threads \ {t} : pc'[u] = pc[u] /\ request'[u] = request[u]
  PROVE  Ownership'
<1>1. /\ Owners' = Owners
      /\ \A u \in Owners : pc'[u] = pc[u] /\ request'[u] = request[u]
      /\ starting' = starting /\ Tracked' = Tracked /\ ToSet(queued') = ToSet(queued)
  BY DEF schedVars, Tracked, Owners
<1> QED
  BY <1>1 DEF Ownership, StartsHaveOwners, QueuedHaveOwners, OwnersAreUnique, OwnersAreTracked

\* The owner of a start in flight may move between the labels of a start.
LEMMA StarterOwnership ==
  ASSUME TypeOK, Ownership, TrackedOnce, NEW t \in Owners, request[t] \in starting,
         UNCHANGED <<schedVars, request>>, NEW l \in InStarting, Goto(t, l)
  PROVE  Ownership'
<1>1. /\ Owners' = Owners
      /\ \A u \in Owners \ {t} : pc'[u] = pc[u]
      /\ starting' = starting /\ Tracked' = Tracked /\ ToSet(queued') = ToSet(queued)
      /\ request' = request
  BY DEF schedVars, Tracked, Owners, Goto, TypeOK
<1>2. request[t] \notin ToSet(queued)
  BY DEF TrackedOnce
<1>3. QueuedHaveOwners'
  BY <1>1, <1>2 DEF Ownership, QueuedHaveOwners
<1> QED
  BY <1>1, <1>3 DEF Ownership, StartsHaveOwners, OwnersAreUnique, OwnersAreTracked

-----------------------------------------------------------------------------
(* The inductive invariant.                                                *)

SchedulerInv ==
  /\ TypeOK
  /\ Bookkeeping
  /\ Ownership
  /\ NoPhantomAnswer
  /\ ReclaimSlotOwned

\* A step that leaves the scheduler alone leaves its books alone.
LEMMA BooksUntouched ==
  ASSUME Bookkeeping, UNCHANGED schedVars
  PROVE  Bookkeeping'
BY DEF Bookkeeping, schedVars, BudgetCountsStarts, OneStartPerVm, TrackedOnce, QueueNeverStranded

\* A thread that neither takes nor gives back the reclaim slot leaves it owned.
LEMMA SlotUntouched ==
  ASSUME ReclaimSlotOwned, UNCHANGED reclaimInFlight, NEW t \in Threads,
         pc[t] # "reclaiming", pc'[t] # "reclaiming",
         \A u \in Threads \ {t} : pc'[u] = pc[u]
  PROVE  ReclaimSlotOwned'
BY DEF ReclaimSlotOwned

\* Moving thread t to label l moves no other thread.
LEMMA GotoFacts ==
  ASSUME TypeOK, NEW t \in Threads, NEW l, Goto(t, l)
  PROVE  pc'[t] = l /\ \A u \in Threads \ {t} : pc'[u] = pc[u]
BY DEF TypeOK, Goto

\* A return that does not say "cancelled" or "not tracked" answers nobody else.
LEMMA ReturnAnswers ==
  ASSUME TypeOK, NoPhantomAnswer, NEW t \in Threads,
         NEW d \in StartDecision \ {"Cancelled", "NotTracked"}, Return(t, d)
  PROVE  NoPhantomAnswer' /\ pc'[t] = "idle" /\ \A u \in Threads \ {t} : pc'[u] = pc[u]
BY DEF TypeOK, NoPhantomAnswer, Return, Goto

\* Where the request of a call being admitted ends up, and what it answers.
LEMMA RequestStartAnswers ==
  ASSUME TypeOK, NoPhantomAnswer, NEW t \in Threads, NEW max, RequestStart(t, max)
  PROVE  /\ NoPhantomAnswer'
         /\ pc'[t] # "reclaiming"
         /\ \A u \in Threads \ {t} : pc'[u] = pc[u]
<1>1. CASE Return(t, "AlreadyTracked")
  <2>1. "AlreadyTracked" \in StartDecision \ {"Cancelled", "NotTracked"}
    BY DEF StartDecision
  <2> QED  BY <1>1, <2>1, ReturnAnswers
<1>2. CASE (Goto(t, "waiting") \/ Goto(t, "recheck")) /\ UNCHANGED outcome
  BY <1>2, GotoFacts DEF NoPhantomAnswer
<1> QED  BY <1>1, <1>2 DEF RequestStart

\* Every step of the program keeps the inductive invariant.
LEMMA SchedulerStep == SchedulerInv /\ [Next]_vars => SchedulerInv'
<1> SUFFICES ASSUME SchedulerInv, [Next]_vars
             PROVE  Bookkeeping' /\ Ownership' /\ NoPhantomAnswer' /\ ReclaimSlotOwned'
  BY TypeStep DEF SchedulerInv
<1>0. TypeOK /\ Bookkeeping /\ Ownership /\ NoPhantomAnswer /\ ReclaimSlotOwned /\ TrackedOnce
  BY DEF SchedulerInv, Bookkeeping
<1> USE <1>0
<1>1. CASE UNCHANGED <<schedVars, reclaimInFlight, threadVars>>
  <2>1. UNCHANGED schedVars /\ UNCHANGED <<pc, request, outcome, reclaimInFlight>>
    BY <1>1 DEF threadVars
  <2>2. Ownership'
    BY <2>1 DEF schedVars, Ownership, StartsHaveOwners, QueuedHaveOwners, OwnersAreUnique,
                OwnersAreTracked, Owners, Tracked
  <2> QED  BY <2>1, <2>2, BooksUntouched DEF NoPhantomAnswer, ReclaimSlotOwned
<1>2. ASSUME NEW t \in Threads, Call(t)
      PROVE  Bookkeeping' /\ Ownership' /\ NoPhantomAnswer' /\ ReclaimSlotOwned'
  <2>1. /\ UNCHANGED schedVars /\ UNCHANGED reclaimInFlight
        /\ pc[t] = "idle" /\ pc'[t] = "admit"
        /\ \A u \in Threads \ {t} : pc'[u] = pc[u] /\ request'[u] = request[u]
    BY <1>2, GotoFacts DEF Call, TypeOK
  <2>2. NoPhantomAnswer'
    BY <1>2 DEF Call, NoPhantomAnswer, TypeOK
  <2>3. t \notin Owners /\ pc'[t] \notin InStarting \cup {"waiting"}
    BY <2>1 DEF Owners, InStarting
  <2> QED  BY <2>1, <2>2, <2>3, BooksUntouched, OutsiderOwnership, SlotUntouched
<1>3. ASSUME NEW t \in Threads, Admit(t)
      PROVE  Bookkeeping' /\ Ownership' /\ NoPhantomAnswer' /\ ReclaimSlotOwned'
  <2>1. pc[t] = "admit" /\ UNCHANGED reclaimInFlight /\ policy'.maxParallel \in Nat \ {0}
    BY <1>3, TypeStep DEF Admit, TypeOK, Policy
  <2>2. CASE RequestStart(t, policy'.maxParallel)
    BY <2>1, <2>2, RequestStartBooks, RequestStartOwnership, RequestStartAnswers, SlotUntouched
  <2>3. CASE /\ Goto(t, "guestReclaim") \/ Goto(t, "readmit")
             /\ UNCHANGED <<schedVars, request, pressure, outcome>>
    <3>1. /\ pc'[t] \in {"guestReclaim", "readmit"}
          /\ \A u \in Threads \ {t} : pc'[u] = pc[u]
      BY <2>3, GotoFacts
    <3>2. t \notin Owners /\ pc'[t] \notin InStarting \cup {"waiting"}
      BY <2>1, <3>1 DEF Owners, InStarting
    <3>3. NoPhantomAnswer'
      BY <2>3 DEF NoPhantomAnswer
    <3> QED  BY <2>1, <2>3, <3>1, <3>2, <3>3, BooksUntouched, OutsiderOwnership, SlotUntouched
  <2> QED  BY <1>3, <2>2, <2>3 DEF Admit
<1>4. ASSUME NEW t \in Threads, GuestReclaim(t)
      PROVE  Bookkeeping' /\ Ownership' /\ NoPhantomAnswer' /\ ReclaimSlotOwned'
  <2>1. /\ pc[t] = "guestReclaim" /\ pc'[t] \in {"autoRelease", "readmit"}
        /\ \A u \in Threads \ {t} : pc'[u] = pc[u]
        /\ UNCHANGED schedVars /\ UNCHANGED <<request, outcome, reclaimInFlight>>
    BY <1>4, GotoFacts DEF GuestReclaim
  <2>2. t \notin Owners /\ pc'[t] \notin InStarting \cup {"waiting"}
    BY <2>1 DEF Owners, InStarting
  <2>3. NoPhantomAnswer'
    BY <2>1 DEF NoPhantomAnswer
  <2> QED  BY <2>1, <2>2, <2>3, BooksUntouched, OutsiderOwnership, SlotUntouched
<1>5. ASSUME NEW t \in Threads, BeginReclaim(t)
      PROVE  Bookkeeping' /\ Ownership' /\ NoPhantomAnswer' /\ ReclaimSlotOwned'
  <2>1. /\ pc[t] = "autoRelease" /\ pc'[t] \in {"reclaiming", "readmit"}
        /\ \A u \in Threads \ {t} : pc'[u] = pc[u]
        /\ UNCHANGED schedVars /\ UNCHANGED <<request, outcome>>
    BY <1>5, GotoFacts DEF BeginReclaim
  <2>2. t \notin Owners /\ pc'[t] \notin InStarting \cup {"waiting"}
    BY <2>1 DEF Owners, InStarting
  <2>3. NoPhantomAnswer'
    BY <2>1 DEF NoPhantomAnswer
  <2>4. ReclaimSlotOwned'
    <3>1. CASE ~reclaimInFlight /\ reclaimInFlight' = TRUE /\ Goto(t, "reclaiming")
      BY <2>1, <3>1, GotoFacts DEF ReclaimSlotOwned
    <3>2. CASE Goto(t, "readmit") /\ UNCHANGED reclaimInFlight
      BY <2>1, <3>2, GotoFacts, SlotUntouched
    <3> QED  BY <1>5, <3>1, <3>2 DEF BeginReclaim
  <2> QED  BY <2>1, <2>2, <2>3, <2>4, BooksUntouched, OutsiderOwnership
<1>6. ASSUME NEW t \in Threads, NEW released \in BOOLEAN, FinishReclaim(t, released)
      PROVE  Bookkeeping' /\ Ownership' /\ NoPhantomAnswer' /\ ReclaimSlotOwned'
  <2>1. /\ pc[t] = "reclaiming" /\ pc'[t] = "readmit"
        /\ \A u \in Threads \ {t} : pc'[u] = pc[u]
        /\ UNCHANGED schedVars /\ UNCHANGED <<request, outcome>>
        /\ reclaimInFlight' = FALSE
    BY <1>6, GotoFacts DEF FinishReclaim
  <2>2. t \notin Owners /\ pc'[t] \notin InStarting \cup {"waiting"}
    BY <2>1 DEF Owners, InStarting
  <2>3. NoPhantomAnswer' /\ ReclaimSlotOwned'
    BY <2>1 DEF NoPhantomAnswer, ReclaimSlotOwned
  <2> QED  BY <2>1, <2>2, <2>3, BooksUntouched, OutsiderOwnership
<1>7. ASSUME NEW t \in Threads, Readmit(t)
      PROVE  Bookkeeping' /\ Ownership' /\ NoPhantomAnswer' /\ ReclaimSlotOwned'
  <2>1. pc[t] = "readmit" /\ UNCHANGED reclaimInFlight /\ policy.maxParallel \in Nat \ {0}
    BY <1>7 DEF Readmit, TypeOK, Policy
  <2>2. CASE RequestStart(t, policy.maxParallel)
    BY <2>1, <2>2, RequestStartBooks, RequestStartOwnership, RequestStartAnswers, SlotUntouched
  <2>3. CASE Return(t, "Blocked") /\ UNCHANGED schedVars
    <3>1. "Blocked" \in StartDecision \ {"Cancelled", "NotTracked"}
      BY DEF StartDecision
    <3>2. NoPhantomAnswer' /\ pc'[t] = "idle" /\ \A u \in Threads \ {t} : pc'[u] = pc[u]
      BY <2>3, <3>1, ReturnAnswers
    <3>3. \A u \in Threads \ {t} : request'[u] = request[u]
      BY <2>3, ReturnFacts
    <3>4. t \notin Owners /\ pc'[t] \notin InStarting \cup {"waiting"}
      BY <2>1, <3>2 DEF Owners, InStarting
    <3> QED  BY <2>1, <2>3, <3>2, <3>3, <3>4, BooksUntouched, OutsiderOwnership, SlotUntouched
  <2> QED  BY <1>7, <2>2, <2>3 DEF Readmit
<1>8. ASSUME NEW t \in Threads,
             pc[t] \in {"waiting", "recheck", "launching"}, request[t] \in starting,
             NEW l \in InStarting, Goto(t, l),
             UNCHANGED <<schedVars, reclaimInFlight, request, outcome>>
      PROVE  Bookkeeping' /\ Ownership' /\ NoPhantomAnswer' /\ ReclaimSlotOwned'
  <2>1. pc[t] # "reclaiming" /\ pc'[t] # "reclaiming" /\ \A u \in Threads \ {t} : pc'[u] = pc[u]
    BY <1>8, GotoFacts DEF InStarting
  <2>2. t \in Owners
    BY <1>8 DEF Owners, InStarting
  <2>3. NoPhantomAnswer'
    BY <1>8 DEF NoPhantomAnswer
  <2> QED  BY <1>8, <2>1, <2>2, <2>3, BooksUntouched, StarterOwnership, SlotUntouched
<1>9. ASSUME NEW t \in Threads, GiveUp(t)
      PROVE  Bookkeeping' /\ Ownership' /\ NoPhantomAnswer' /\ ReclaimSlotOwned'
  <2>1. t \in Owners /\ pc[t] = "waiting" /\ request[t] \notin starting
        /\ UNCHANGED <<starting, reclaimInFlight>>
    BY <1>9 DEF GiveUp, Owners
  <2>2. request[t] \in ToSet(queued)
    BY <2>1 DEF Ownership, OwnersAreTracked, Tracked
  <2>3. Return(t, "TimedOut")
    BY <1>9, <2>2 DEF GiveUp
  <2>4. Bookkeeping' /\ ToSet(queued') = ToSet(queued) \ {request[t]}
    BY <1>9, GiveUpBooks
  <2>5. Ownership'
    <3>1. starting' \cup ToSet(queued') = Tracked \ {request[t]}
      BY <2>1, <2>4 DEF Tracked
    <3> QED  BY <2>1, <2>3, <2>4, <3>1, LeaveOwnership
  <2>6. "TimedOut" \in StartDecision \ {"Cancelled", "NotTracked"}
    BY DEF StartDecision
  <2>7. NoPhantomAnswer' /\ pc'[t] = "idle" /\ \A u \in Threads \ {t} : pc'[u] = pc[u]
    BY <2>3, <2>6, ReturnAnswers
  <2> QED  BY <2>1, <2>4, <2>5, <2>7, SlotUntouched
<1>10. ASSUME NEW t \in Threads, pc[t] \in InStarting, FinishAndPromote(request[t]),
              NEW d \in StartDecision \ {"Cancelled", "NotTracked"}, Return(t, d),
              UNCHANGED reclaimInFlight
       PROVE  Bookkeeping' /\ Ownership' /\ NoPhantomAnswer' /\ ReclaimSlotOwned'
  <2>1. t \in Owners /\ request[t] \in starting
    BY <1>10 DEF Owners, Ownership, OwnersAreTracked, InStarting
  <2>2. /\ Bookkeeping'
        /\ starting' \cup ToSet(queued') = Tracked \ {request[t]}
        /\ starting \ {request[t]} \subseteq starting'
        /\ ToSet(queued') \subseteq ToSet(queued)
    BY <1>10, <2>1, FinishBooks
  <2>3. NoPhantomAnswer' /\ pc'[t] = "idle" /\ \A u \in Threads \ {t} : pc'[u] = pc[u]
    BY <1>10, ReturnAnswers
  <2>4. pc[t] # "reclaiming" /\ pc'[t] # "reclaiming"
    BY <1>10, <2>3 DEF InStarting
  <2> QED  BY <1>10, <2>1, <2>2, <2>3, <2>4, LeaveOwnership, SlotUntouched
<1>11. ASSUME NEW t \in Threads, Promoted(t)
       PROVE  Bookkeeping' /\ Ownership' /\ NoPhantomAnswer' /\ ReclaimSlotOwned'
  BY <1>8, <1>11 DEF Promoted, InStarting
<1>12. ASSUME NEW t \in Threads, AbortLaunch(t)
       PROVE  Bookkeeping' /\ Ownership' /\ NoPhantomAnswer' /\ ReclaimSlotOwned'
  BY <1>10, <1>12 DEF AbortLaunch, InStarting, StartDecision
<1>13. ASSUME NEW t \in Threads, pc[t] \in InStarting
       PROVE  request[t] \in starting
  BY <1>13 DEF Ownership, OwnersAreTracked, Owners, InStarting
<1>14. ASSUME NEW t \in Threads, Launch(t)
       PROVE  Bookkeeping' /\ Ownership' /\ NoPhantomAnswer' /\ ReclaimSlotOwned'
  BY <1>8, <1>13, <1>14 DEF Launch, InStarting
<1>15. ASSUME NEW t \in Threads, NEW success \in BOOLEAN, LaunchReturns(t, success)
       PROVE  Bookkeeping' /\ Ownership' /\ NoPhantomAnswer' /\ ReclaimSlotOwned'
  BY <1>8, <1>13, <1>15 DEF LaunchReturns, InStarting
<1>16. ASSUME NEW t \in Threads, FinishStart(t)
       PROVE  Bookkeeping' /\ Ownership' /\ NoPhantomAnswer' /\ ReclaimSlotOwned'
  <2>1. pc[t] \in InStarting
    BY <1>16 DEF FinishStart, InStarting
  <2>2. \E d \in {"StartFailed", "Ready"} : Return(t, d)
    BY <1>13, <1>16, <2>1 DEF FinishStart
  <2>3. {"StartFailed", "Ready"} \subseteq StartDecision \ {"Cancelled", "NotTracked"}
    BY DEF StartDecision
  <2> QED  BY <1>10, <1>16, <2>1, <2>2, <2>3 DEF FinishStart
<1>17. CASE ChangeSettings
  BY <1>1, <1>17 DEF ChangeSettings
<1>18. CASE UNCHANGED vars
  BY <1>1, <1>18 DEF vars
<1> QED
  BY <1>2, <1>3, <1>4, <1>5, <1>6, <1>7, <1>9, <1>11, <1>12, <1>14, <1>15, <1>16, <1>17, <1>18
  DEF Next, Step

\* The program starts with an empty scheduler.
LEMMA SchedulerInit == Init => SchedulerInv
<1> SUFFICES ASSUME Init PROVE SchedulerInv
  OBVIOUS
<1>1. TypeOK
  BY TypeInit
<1>2. IsFiniteSet(starting) /\ BudgetCountsStarts
  BY FS_EmptySet DEF Init, BudgetCountsStarts
<1>3. ToSet(queued) = {} /\ IsInjective(queued)
  BY DEF Init, ToSet, IsInjective
<1>4. Owners = {}
  BY DEF Init, Owners, InStarting
<1>5. Bookkeeping
  BY <1>2, <1>3 DEF Init, Bookkeeping, OneStartPerVm, TrackedOnce, QueueNeverStranded
<1>6. Ownership
  BY <1>3, <1>4 DEF Init, Ownership, StartsHaveOwners, QueuedHaveOwners, OwnersAreUnique,
                    OwnersAreTracked
<1> QED  BY <1>1, <1>5, <1>6 DEF Init, SchedulerInv, NoPhantomAnswer, ReclaimSlotOwned

-----------------------------------------------------------------------------
(* The theorems.                                                           *)

\* The inductive invariant holds in every reachable state.
THEOREM SchedulerInvariant == Spec => []SchedulerInv
BY SchedulerInit, SchedulerStep, PTL DEF Spec

\* starts_in_flight always equals the number of tracked starts: no path of the
\* command misses or doubles a decrement, so the budget never drifts.
THEOREM BudgetCorrect == Spec => []BudgetCountsStarts
<1>1. SchedulerInv => BudgetCountsStarts
  BY DEF SchedulerInv, Bookkeeping
<1> QED  BY <1>1, SchedulerInvariant, PTL

\* However many calls race, a node never boots two instances at once.
THEOREM OneStartPerVmCorrect == Spec => []OneStartPerVm
<1>1. SchedulerInv => OneStartPerVm
  BY DEF SchedulerInv, Bookkeeping
<1> QED  BY <1>1, SchedulerInvariant, PTL

\* No tracked request is lost, leaked or owned by two calls.
THEOREM OwnershipCorrect == Spec => []TrackedRequestsAreOwned
<1>1. SchedulerInv => TrackedRequestsAreOwned
  BY DEF SchedulerInv, Bookkeeping, Ownership, TrackedRequestsAreOwned
<1> QED  BY <1>1, SchedulerInvariant, PTL

\* While a request is queued some start is in flight that will promote it.
THEOREM QueueCorrect == Spec => []QueueNeverStranded
<1>1. SchedulerInv => QueueNeverStranded
  BY DEF SchedulerInv, Bookkeeping
<1> QED  BY <1>1, SchedulerInvariant, PTL

\* No start is added beyond the policy in force, however the policy has changed
\* while requests were waiting.
THEOREM BudgetRespected == Spec => NewStartsWithinBudget
<1>1. SchedulerInv /\ SchedulerInv' /\ [Next]_vars
      => [~(starting' \subseteq starting) => Cardinality(starting') <= policy'.maxParallel]_vars
  <2> SUFFICES ASSUME SchedulerInv, SchedulerInv', [Next]_vars, ~(starting' \subseteq starting)
               PROVE  Cardinality(starting') <= policy'.maxParallel
    OBVIOUS
  <2>1. /\ Cardinality(starting') = startsInFlight'
        /\ startsInFlight \in Nat /\ policy.maxParallel \in Nat /\ policy'.maxParallel \in Nat
    BY DEF SchedulerInv, Bookkeeping, BudgetCountsStarts, TypeOK, Policy
  <2>2. ASSUME NEW t \in Threads, NEW max \in Nat, RequestStart(t, max)
        PROVE  startsInFlight' <= max
    BY <2>1, <2>2 DEF RequestStart, schedVars
  <2>3. ASSUME NEW r, FinishAndPromote(r)
        PROVE  startsInFlight' <= policy.maxParallel
    <3>1. SlotsLeft(r) \in Nat
      BY <2>1 DEF SlotsLeft
    <3> QED  BY <2>1, <2>3, <3>1 DEF FinishAndPromote, CanPromote
  <2>4. PICK t \in Threads : Admit(t) \/ Readmit(t) \/ AbortLaunch(t) \/ FinishStart(t)
    BY DEF Next, Step, vars, schedVars, threadVars, ChangeSettings, Call, GuestReclaim,
           BeginReclaim, FinishReclaim, Promoted, GiveUp, Launch, LaunchReturns
  <2>5. CASE Admit(t)
    BY <2>1, <2>2, <2>5 DEF Admit, schedVars
  <2>6. CASE Readmit(t)
    BY <2>1, <2>2, <2>6 DEF Readmit, schedVars
  <2>7. CASE AbortLaunch(t) \/ FinishStart(t)
    BY <2>1, <2>3, <2>7 DEF AbortLaunch, FinishStart
  <2> QED  BY <2>4, <2>5, <2>6, <2>7
<1> QED  BY <1>1, SchedulerInvariant, PTL DEF Spec, NewStartsWithinBudget

\* A call that could not measure memory is admitted only into an empty scheduler.
THEOREM UnknownPressureAlone == Spec => UnknownPressureStartsAlone
<1>1. SchedulerInv /\ [Next]_vars
      => [\A t \in Threads : AdmittedBlind(t) => Tracked = {} /\ pc'[t] = "recheck"]_vars
  <2> SUFFICES ASSUME SchedulerInv, [Next]_vars, NEW t \in Threads, AdmittedBlind(t)
               PROVE  Tracked = {} /\ pc'[t] = "recheck"
    OBVIOUS
  <2>1. TypeOK /\ Bookkeeping
    BY DEF SchedulerInv
  <2>2. Admit(t) \/ Readmit(t)
    BY <2>1 DEF Next, Step, vars, threadVars, ChangeSettings, Call, Admit, GuestReclaim,
           BeginReclaim, FinishReclaim, Readmit, Promoted, GiveUp, AbortLaunch, Launch,
           LaunchReturns, FinishStart, Return, RequestStart, Goto, TypeOK, AdmittedBlind
  <2>3. ~HasOtherStart(request[t]) /\ \E max \in Nat \ {0} : RequestStart(t, max)
    BY <2>1, <2>2, TypeStep DEF Admit, Readmit, ShouldBlock, Goto, Return, TypeOK, Policy,
                              AdmittedBlind
  <2>4. request[t] \notin Tracked
    BY <2>1, <2>3 DEF RequestStart, Return, Goto, TypeOK, AdmittedBlind
  <2>5. Tracked = {}
    BY <2>3, <2>4 DEF HasOtherStart
  <2>6. startsInFlight = 0 /\ starting = {}
    BY <2>1, <2>5, FS_EmptySet DEF Bookkeeping, BudgetCountsStarts, Tracked
  <2> QED  BY <2>1, <2>3, <2>5, <2>6 DEF RequestStart, IsBooting, Goto, Return, TypeOK, AdmittedBlind
<1> QED  BY <1>1, SchedulerInvariant, PTL DEF Spec, UnknownPressureStartsAlone

-----------------------------------------------------------------------------
(* Refinement of StartGate.                                                *)

\* Admission enters the gate, waits at it, or changes nothing.
LEMMA RequestStartRefines ==
  ASSUME SchedulerInv, NEW t \in Threads, pc[t] # "idle", NEW max \in Nat \ {0},
         RequestStart(t, max)
  PROVE  [Gate!Next]_<<starting, ToSet(queued)>>
<1> DEFINE r == request[t]
<1>0. /\ r \in Gate!Request /\ queued \in Seq(StartRequest) /\ startsInFlight \in Nat
      /\ startsInFlight = Cardinality(starting)
  BY DEF SchedulerInv, TypeOK, Gate!Request, StartRequest, Bookkeeping, BudgetCountsStarts
<1>1. CASE UNCHANGED schedVars
  BY <1>1 DEF schedVars
<1>2. CASE /\ r \notin Tracked
           /\ startsInFlight >= max \/ IsBooting(r.vm)
           /\ queued' = Append(queued, r)
           /\ UNCHANGED <<startsInFlight, starting>>
  <2>1. starting # {}
    <3>1. CASE startsInFlight >= max
      <4>1. Cardinality({}) = 0
        BY FS_EmptySet
      <4>2. startsInFlight # 0
        BY <3>1, <1>0
      <4> QED  BY <4>1, <4>2, <1>0
    <3>2. CASE IsBooting(r.vm)
      BY <3>2 DEF IsBooting
    <3> QED  BY <1>2, <3>1, <3>2
  <2>2. ToSet(queued') = ToSet(queued) \cup {r}
    <3>1. r \in StartRequest
      BY <1>0 DEF StartRequest, Gate!Request
    <3>2. ToSet(Append(queued, r)) = ToSet(queued) \cup {r}
      BY <1>0, <3>1, AppendFacts
    <3> QED  BY <1>2, <3>2
  <2>3. Gate!Wait(r)
    BY <1>2, <2>1, <2>2 DEF Gate!Wait, Tracked
  <2> QED  BY <1>0, <2>3 DEF Gate!Next
<1>3. CASE /\ r \notin Tracked
           /\ ~IsBooting(r.vm)
           /\ starting' = starting \cup {r}
           /\ UNCHANGED queued
  <2>1. Gate!Enter(r)
    BY <1>3 DEF Gate!Enter, Gate!NodeFree, Tracked, IsBooting
  <2> QED  BY <1>0, <2>1 DEF Gate!Next
<1> QED  BY <1>1, <1>2, <1>3 DEF RequestStart

\* Finishing a start hands its turn over at the gate.
LEMMA FinishRefines ==
  ASSUME SchedulerInv, NEW r \in starting, FinishAndPromote(r), QueueNeverStranded'
  PROVE  Gate!Next
<1> DEFINE rest == starting \ {r}
<1>0. r \in Gate!Request /\ queued \in Seq(StartRequest) /\ IsInjective(queued)
  BY DEF SchedulerInv, TypeOK, Gate!Request, StartRequest, Bookkeeping, TrackedOnce
<1>1. CASE /\ CanPromote(rest, SlotsLeft(r))
           /\ starting' = rest \cup {Head(queued)}
           /\ queued' = Tail(queued)
  <2>1. /\ Head(queued) \in ToSet(queued)
        /\ ToSet(Tail(queued)) = ToSet(queued) \ {Head(queued)}
        /\ Gate!NodeFree(Head(queued).vm, rest)
    BY <1>0, <1>1, TailFacts DEF CanPromote, Gate!NodeFree
  <2>2. Gate!Finish(r)
    BY <1>1, <2>1 DEF Gate!Finish
  <2> QED  BY <1>0, <2>2 DEF Gate!Next
<1>2. CASE starting' = rest /\ UNCHANGED queued
  <2>1. rest # {} \/ ToSet(queued) = {}
    BY <1>0, <1>2 DEF QueueNeverStranded, ToSet
  <2>2. Gate!Finish(r)
    BY <1>2, <2>1 DEF Gate!Finish
  <2> QED  BY <1>0, <2>2 DEF Gate!Next
<1> QED  BY <1>1, <1>2 DEF FinishAndPromote

\* The scheduler implements the gate, for any number of threads, nodes and slots.
THEOREM SchedulerImplementsGate == Spec => ImplementsStartGate
<1>1. Init => Gate!Init
  BY DEF Init, Gate!Init, ToSet
<1>2. SchedulerInv /\ SchedulerInv' /\ [Next]_vars => [Gate!Next]_<<starting, ToSet(queued)>>
  <2> SUFFICES ASSUME SchedulerInv, SchedulerInv', [Next]_vars
               PROVE  [Gate!Next]_<<starting, ToSet(queued)>>
    OBVIOUS
  <2>0. TypeOK /\ policy.maxParallel \in Nat \ {0} /\ policy'.maxParallel \in Nat \ {0}
    BY DEF SchedulerInv, TypeOK, Policy
  <2>1. CASE UNCHANGED schedVars
    BY <2>1 DEF schedVars
  <2>2. ASSUME NEW t \in Threads, Admit(t) PROVE [Gate!Next]_<<starting, ToSet(queued)>>
    BY <2>0, <2>1, <2>2, RequestStartRefines DEF Admit, schedVars
  <2>3. ASSUME NEW t \in Threads, Readmit(t) PROVE [Gate!Next]_<<starting, ToSet(queued)>>
    BY <2>0, <2>1, <2>3, RequestStartRefines DEF Readmit
  <2>4. ASSUME NEW t \in Threads, GiveUp(t) PROVE [Gate!Next]_<<starting, ToSet(queued)>>
    <3>1. ToSet(queued') = ToSet(queued) \ {request[t]} /\ starting' = starting
      BY <2>4, GiveUpBooks DEF SchedulerInv, GiveUp
    <3>2. CASE request[t] \in ToSet(queued)
      <4>1. request[t] \in Gate!Request
        BY <2>0, <2>4 DEF GiveUp, TypeOK, Gate!Request, StartRequest
      <4>2. Gate!Leave(request[t])
        BY <3>1, <3>2 DEF Gate!Leave
      <4> QED  BY <4>1, <4>2 DEF Gate!Next
    <3>3. CASE request[t] \notin ToSet(queued)
      BY <3>1, <3>3
    <3> QED  BY <3>2, <3>3
  <2>5. ASSUME NEW t \in Threads, AbortLaunch(t) \/ FinishStart(t)
        PROVE  [Gate!Next]_<<starting, ToSet(queued)>>
    <3>1. request[t] \in starting
      BY <2>5 DEF SchedulerInv, Ownership, OwnersAreTracked, Owners, AbortLaunch, FinishStart, InStarting
    <3>2. FinishAndPromote(request[t]) /\ QueueNeverStranded'
      BY <2>5 DEF AbortLaunch, FinishStart, SchedulerInv, Bookkeeping
    <3> QED  BY <3>1, <3>2, FinishRefines
  <2> QED
    BY <2>1, <2>2, <2>3, <2>4, <2>5
    DEF Next, Step, vars, ChangeSettings, Call, GuestReclaim, BeginReclaim, FinishReclaim,
        Promoted, Launch, LaunchReturns
<1> QED  BY <1>1, <1>2, SchedulerInvariant, PTL DEF Spec, ImplementsStartGate, Gate!Spec
=============================================================================
