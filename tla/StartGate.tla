----------------------------- MODULE StartGate ------------------------------
(* What the runtime scheduler promises its callers, without its budget, its  *)
(* queue order or its threads: a gate that lets one start run per node, makes *)
(* the others wait, and never closes while somebody waits.  RuntimeScheduler  *)
(* implements it.                                                             *)
CONSTANTS Vms, Instances

VARIABLES
  running,   \* the starts in flight
  waiting    \* the requests that have been told to wait

Request == [vm : Vms, instance : Instances]

NodeFree(vm, others) == \A r \in others : r.vm # vm

Init == running = {} /\ waiting = {}

\* A new request starts at once.
Enter(r) ==
  /\ r \notin running \cup waiting
  /\ NodeFree(r.vm, running)
  /\ running' = running \cup {r}
  /\ UNCHANGED waiting

\* A new request is made to wait, which it may be only for another start.
Wait(r) ==
  /\ r \notin running \cup waiting
  /\ running # {}
  /\ waiting' = waiting \cup {r}
  /\ UNCHANGED running

\* A waiting request gives up.
Leave(r) ==
  /\ r \in waiting
  /\ waiting' = waiting \ {r}
  /\ UNCHANGED running

\* A start ends and hands its turn to a waiting request whose node is free, or to
\* nobody, but then another start is still running or nobody waits.
Finish(r) ==
  /\ r \in running
  /\ LET rest == running \ {r} IN
     \/ \E w \in waiting :
          /\ NodeFree(w.vm, rest)
          /\ running' = rest \cup {w}
          /\ waiting' = waiting \ {w}
     \/ /\ rest # {} \/ waiting = {}
        /\ running' = rest
        /\ UNCHANGED waiting

Next == \E r \in Request : Enter(r) \/ Wait(r) \/ Leave(r) \/ Finish(r)

Spec == Init /\ [][Next]_<<running, waiting>>
=============================================================================
