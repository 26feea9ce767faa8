--------------------------- MODULE ServicesProofs ---------------------------
(* Theorems about the services of the desktop that MCServices checks on small *)
(* instances, each for every value of its constants.                          *)
EXTENDS MCServices, FiniteSetTheorems, OrderFacts, TLAPS

-----------------------------------------------------------------------------
(* The idle releases, for all nodes, instances, protections and numbers of    *)
(* concurrent releases.                                                       *)

AutoType == [pc : {"idle", "listing", "stopping", "finishing"}, target : Request \cup {None},
             candidates : SUBSET Instances, victim : Request \cup {None}]

ReleaseType == [pc : {"idle", "stopping", "listing", "nodeStopping", "clearing"},
                target : Request \cup {None}, keepWarm : BOOLEAN, seen : SUBSET Request]

\* An automatic release that is under way has a target, and a victim while it stops one.
AutoRecord(c) ==
  /\ c \in AutoType
  /\ c.pc # "idle" => c.target \in Request
  /\ c.pc = "stopping" => c.victim \in Request

\* A release that is under way has a target; on its way to stopping the node it has
\* seen nothing else there.
ReleaseRecord(c) ==
  /\ c \in ReleaseType
  /\ c.pc # "idle" => c.target \in Request
  /\ c.pc = "nodeStopping" => \A d \in c.seen : d.instance = c.target.instance

\* What the gate, the containers, the nodes and the activity records range over.
SharedTypes ==
  /\ running \subseteq Request /\ waiting \subseteq Request /\ launched \subseteq running
  /\ up \subseteq Request /\ nodesUp \subseteq Vms
  /\ activity \in [Instances -> Age]
  /\ autoSlot \in BOOLEAN

ReleaseInv ==
  /\ SharedTypes
  /\ auto = [a \in AutoReleases |-> auto[a]] /\ \A a \in AutoReleases : AutoRecord(auto[a])
  /\ release = [x \in Releases |-> release[x]] /\ \A x \in Releases : ReleaseRecord(release[x])

-----------------------------------------------------------------------------
\* A listing that shows every other instance stopped leaves only the released one.
LEMMA ListingIsTrusted ==
  ASSUME up \subseteq Request, NEW r \in Request, NEW listing \in Listings(r.vm),
         ShouldStopNode(listing, r.instance)
  PROVE  \A c \in Containers(r.vm) : c.instance = r.instance
<1> SUFFICES ASSUME NEW c \in Containers(r.vm), c.instance # r.instance PROVE FALSE
  OBVIOUS
<1>1. c \in up /\ c \in Request /\ c.vm = r.vm /\ c.instance \in Instances
  BY DEF Containers, Request
<1>2. c = [vm |-> r.vm, instance |-> c.instance]
  BY <1>1 DEF Request
<1>3. listing[c.instance] = "stopped"
  BY <1>1 DEF ShouldStopNode
<1>4. listing[c.instance] = "running" <=> [vm |-> r.vm, instance |-> c.instance] \in up
  BY <1>1, <1>3 DEF Listings
<1> QED  BY <1>1, <1>2, <1>3, <1>4

\* A step that changes one release call, and what a release changes of what is
\* shared, keeps the invariant if the call is still in order.
LEMMA OneRelease ==
  ASSUME ReleaseInv, NEW x \in Releases, SharedTypes', auto' = auto,
         NEW c, ReleaseRecord(c), release' = [release EXCEPT ![x] = c]
  PROVE  ReleaseInv'
BY DEF ReleaseInv

\* The same of one automatic release.
LEMMA OneAuto ==
  ASSUME ReleaseInv, NEW a \in AutoReleases, SharedTypes', release' = release,
         NEW c, AutoRecord(c), auto' = [auto EXCEPT ![a] = c]
  PROVE  ReleaseInv'
BY DEF ReleaseInv

\* A release that stops the node has read a whole listing.
LEMMA ReleaseStepInv ==
  ASSUME ReleaseInv, NEW x \in Releases, ReleaseStep(x)
  PROVE  ReleaseInv'
<1>0. SharedTypes /\ ReleaseRecord(release[x]) /\ release[x] \in ReleaseType
  BY DEF ReleaseInv, ReleaseRecord
<1>i. ReleaseRecord(ReleaseIdle)
  BY DEF ReleaseRecord, ReleaseType, ReleaseIdle
<1>1. ASSUME NEW r \in Request, NEW warm \in BOOLEAN, ReleaseDecide(x, r, warm) PROVE ReleaseInv'
  <2> DEFINE c == [pc |-> "stopping", target |-> r, keepWarm |-> warm, seen |-> {}]
  <2>1. ReleaseRecord(c)
    BY DEF ReleaseRecord, ReleaseType
  <2>2. SharedTypes' /\ auto' = auto /\ release' = [release EXCEPT ![x] = c]
    BY <1>0, <1>1 DEF ReleaseDecide, gateVars, worldVars, SharedTypes
  <2> HIDE DEF c
  <2> QED  BY <2>1, <2>2, OneRelease
<1>2. ASSUME NEW success \in BOOLEAN, ReleaseStop(x, success) PROVE ReleaseInv'
  <2> DEFINE c == [release[x] EXCEPT !.pc = IF release[x].keepWarm THEN "clearing" ELSE "listing"]
  <2>1. ReleaseRecord(c)
    BY <1>0, <1>2 DEF ReleaseStop, ReleaseRecord, ReleaseType
  <2>2. SharedTypes' /\ auto' = auto
    BY <1>0, <1>2 DEF ReleaseStop, gateVars, SharedTypes
  <2>3. release' = [release EXCEPT ![x] = c] \/ release' = [release EXCEPT ![x] = ReleaseIdle]
    BY <1>2 DEF ReleaseStop
  <2> HIDE DEF c
  <2> QED  BY <1>i, <2>1, <2>2, <2>3, OneRelease
<1>3. ASSUME NEW success \in BOOLEAN, ReleaseNodeStop(x, success) PROVE ReleaseInv'
  <2> DEFINE c == [release[x] EXCEPT !.pc = "clearing"]
  <2>1. ReleaseRecord(c)
    BY <1>0, <1>3 DEF ReleaseNodeStop, ReleaseRecord, ReleaseType
  <2>2. SharedTypes' /\ auto' = auto
    BY <1>0, <1>3 DEF ReleaseNodeStop, gateVars, worldVars, SharedTypes
  <2>3. release' = [release EXCEPT ![x] = c] \/ release' = [release EXCEPT ![x] = ReleaseIdle]
    BY <1>3 DEF ReleaseNodeStop
  <2> HIDE DEF c
  <2> QED  BY <1>i, <2>1, <2>2, <2>3, OneRelease
<1>4. CASE ReleaseList(x)
  <2> DEFINE r == release[x].target
  <2>1. r \in Request /\ Containers(r.vm) \subseteq Request
    BY <1>0, <1>4 DEF ReleaseList, ReleaseRecord, Containers, SharedTypes
  <2>2. PICK listing \in Listings(r.vm), answered \in BOOLEAN :
          release' = [release EXCEPT
            ![x].pc = IF answered /\ ShouldStopNode(listing, r.instance)
                      THEN "nodeStopping" ELSE "clearing",
            ![x].seen = Containers(r.vm)]
    BY <1>4 DEF ReleaseList
  <2> DEFINE c == [release[x] EXCEPT !.pc = IF answered /\ ShouldStopNode(listing, r.instance)
                                            THEN "nodeStopping" ELSE "clearing",
                                     !.seen = Containers(r.vm)]
  <2>3. ShouldStopNode(listing, r.instance) =>
          \A d \in Containers(r.vm) : d.instance = r.instance
    BY <1>0, <2>1, ListingIsTrusted DEF SharedTypes
  <2>4. ReleaseRecord(c)
    BY <1>0, <2>1, <2>3 DEF ReleaseRecord, ReleaseType
  <2>5. release' = [release EXCEPT ![x] = c]
    BY <2>2
  <2>6. SharedTypes' /\ auto' = auto
    BY <1>0, <1>4 DEF ReleaseList, gateVars, worldVars, SharedTypes
  <2> HIDE DEF c
  <2> QED  BY <2>4, <2>5, <2>6, OneRelease
<1>5. CASE ReleaseClear(x)
  <2>1. SharedTypes' /\ auto' = auto /\ release' = [release EXCEPT ![x] = ReleaseIdle]
    BY <1>0, <1>5 DEF ReleaseClear, gateVars, worldVars, Forget, Age, SharedTypes
  <2> QED  BY <1>i, <2>1, OneRelease
<1> QED  BY <1>1, <1>2, <1>3, <1>4, <1>5 DEF ReleaseStep

\* The automatic release keeps its own books.
LEMMA AutoStepInv ==
  ASSUME ReleaseInv, NEW a \in AutoReleases, AutoStep(a)
  PROVE  ReleaseInv'
<1>0. SharedTypes /\ AutoRecord(auto[a]) /\ auto[a] \in AutoType
  BY DEF ReleaseInv, AutoRecord
<1>1. ASSUME NEW r \in Request, AutoBegin(a, r) PROVE ReleaseInv'
  <2> DEFINE c == [pc |-> "listing", target |-> r, victim |-> None,
                   candidates |-> {i \in Instances : IsReclaimable(i)}]
  <2>1. AutoRecord(c)
    BY DEF AutoRecord, AutoType
  <2>2. SharedTypes' /\ release' = release /\ auto' = [auto EXCEPT ![a] = c]
    BY <1>0, <1>1 DEF AutoBegin, gateVars, worldVars, SharedTypes
  <2> HIDE DEF c
  <2> QED  BY <2>1, <2>2, OneAuto
<1>2. CASE AutoList(a)
  <2>1. SharedTypes' /\ release' = release
    BY <1>0, <1>2 DEF AutoList, gateVars, worldVars, SharedTypes
  <2>2. CASE auto' = [auto EXCEPT ![a].pc = "finishing"]
    <3> DEFINE c == [auto[a] EXCEPT !.pc = "finishing"]
    <3>1. AutoRecord(c)
      BY <1>0, <1>2 DEF AutoList, AutoRecord, AutoType
    <3>2. auto' = [auto EXCEPT ![a] = c]
      BY <2>2
    <3> HIDE DEF c
    <3> QED  BY <2>1, <3>1, <3>2, OneAuto
  <2>3. ASSUME NEW i \in Instances,
               auto' = [auto EXCEPT ![a].pc = "stopping",
                                    ![a].victim = [vm |-> auto[a].target.vm, instance |-> i]]
        PROVE  ReleaseInv'
    <3> DEFINE v == [vm |-> auto[a].target.vm, instance |-> i]
               c == [auto[a] EXCEPT !.pc = "stopping", !.victim = v]
    <3>1. v \in Request /\ auto[a].target \in Request
      BY <1>0, <1>2 DEF AutoList, AutoRecord, Request
    <3>2. auto' = [auto EXCEPT ![a] = c]
      BY <2>3
    <3> HIDE DEF v
    <3>3. AutoRecord(c)
      BY <1>0, <3>1 DEF AutoRecord, AutoType
    <3> HIDE DEF c
    <3> QED  BY <2>1, <3>2, <3>3, OneAuto
  <2>4. PICK listing \in Listings(auto[a].target.vm), answered \in BOOLEAN :
          \/ auto' = [auto EXCEPT ![a].pc = "finishing"]
          \/ \E i \in {j \in auto[a].candidates \ {auto[a].target.instance} :
                        answered /\ listing[j] = "running"} :
               auto' = [auto EXCEPT ![a].pc = "stopping",
                                    ![a].victim = [vm |-> auto[a].target.vm, instance |-> i]]
    BY <1>2 DEF AutoList
  <2>5. auto[a].candidates \subseteq Instances
    BY <1>0 DEF AutoType
  <2> QED  BY <2>2, <2>3, <2>4, <2>5
<1>3. ASSUME NEW success \in BOOLEAN, AutoStop(a, success) PROVE ReleaseInv'
  <2> DEFINE c == [auto[a] EXCEPT !.pc = "finishing", !.victim = IF success THEN @ ELSE None]
  <2>1. AutoRecord(c)
    BY <1>0, <1>3 DEF AutoStop, AutoRecord, AutoType
  <2>2. SharedTypes' /\ release' = release /\ auto' = [auto EXCEPT ![a] = c]
    BY <1>0, <1>3 DEF AutoStop, gateVars, SharedTypes
  <2> HIDE DEF c
  <2> QED  BY <2>1, <2>2, OneAuto
<1>4. CASE AutoFinish(a)
  <2>1. AutoRecord(AutoIdle)
    BY DEF AutoRecord, AutoType, AutoIdle
  <2>2. SharedTypes' /\ release' = release /\ auto' = [auto EXCEPT ![a] = AutoIdle]
    BY <1>0, <1>4 DEF AutoFinish, gateVars, worldVars, Forget, Age, SharedTypes
  <2> QED  BY <2>1, <2>2, OneAuto
<1> QED  BY <1>1, <1>2, <1>3, <1>4 DEF AutoStep

\* Starts and the user touch the gate, the containers and the activity records only.
LEMMA ReleaseInvStep == ReleaseInv /\ [Next]_vars => ReleaseInv'
<1> SUFFICES ASSUME ReleaseInv, [Next]_vars PROVE ReleaseInv'
  OBVIOUS
<1> USE DEF ReleaseInv, SharedTypes, gateVars, worldVars, Age
<1>1. CASE GateMoves
  BY <1>1 DEF GateMoves, Gate!Enter, Gate!Wait, Gate!Leave
<1>2. ASSUME NEW r \in Request, LaunchSucceeds(r) PROVE ReleaseInv'
  BY <1>2 DEF LaunchSucceeds
<1>3. ASSUME NEW r \in Request, FinishSuccess(r) PROVE ReleaseInv'
  BY <1>3 DEF FinishSuccess, Gate!Finish
<1>4. ASSUME NEW r \in Request, FinishFailure(r) PROVE ReleaseInv'
  BY <1>4 DEF FinishFailure, Gate!Finish
<1>5. ASSUME NEW i \in Instances, MarkActivity(i) \/ BecomeIdle(i) PROVE ReleaseInv'
  BY <1>5 DEF MarkActivity, BecomeIdle
<1>6. ASSUME NEW vm \in Vms, StartNode(vm) PROVE ReleaseInv'
  BY <1>6 DEF StartNode
<1>7. ASSUME NEW a \in AutoReleases, AutoStep(a) PROVE ReleaseInv'
  BY <1>7, AutoStepInv
<1>8. ASSUME NEW x \in Releases, ReleaseStep(x) PROVE ReleaseInv'
  BY <1>8, ReleaseStepInv
<1>9. CASE UNCHANGED vars
  BY <1>9 DEF vars
<1> QED  BY <1>1, <1>2, <1>3, <1>4, <1>5, <1>6, <1>7, <1>8, <1>9 DEF Next, StartStep

\* No call is under way at the start.
LEMMA ReleaseInvInit == Init => ReleaseInv
<1> SUFFICES ASSUME Init PROVE ReleaseInv
  OBVIOUS
<1>1. AutoRecord(AutoIdle) /\ ReleaseRecord(ReleaseIdle)
  BY DEF AutoRecord, AutoType, AutoIdle, ReleaseRecord, ReleaseType, ReleaseIdle
<1>2. SharedTypes
  BY DEF Init, Gate!Init, SharedTypes, Age
<1> QED  BY <1>1, <1>2 DEF Init, ReleaseInv

\* The invariant says more than the types, and what a node's stop is decided by.
LEMMA ReleaseInvImplies == ReleaseInv => TypeOK /\ NodeStopFailsClosed
BY DEF ReleaseInv, SharedTypes, TypeOK, NodeStopFailsClosed, AutoRecord, ReleaseRecord,
       AutoType, ReleaseType

\* Every reachable state is well typed.
THEOREM ReleaseTypes == Spec => []TypeOK
<1>1. ReleaseInv => TypeOK
  BY ReleaseInvImplies
<1> QED  BY <1>1, ReleaseInvInit, ReleaseInvStep, PTL DEF Spec

-----------------------------------------------------------------------------
\* Records are forgotten where AutoFinish and ReleaseClear call clear_instance only.
LEMMA ForgettingStep ==
  ASSUME ReleaseInv, [Next]_vars, NEW i \in Instances, Forgets(i)
  PROVE  HasStopped(i)
<1> USE DEF Forgets
<1>0. activity \in [Instances -> Age]
  BY DEF ReleaseInv, SharedTypes
<1>1. ASSUME NEW x \in Releases, ReleaseClear(x)
      PROVE  release[x].pc = "clearing" /\ release[x].target.instance = i
  BY <1>0, <1>1 DEF ReleaseClear, Forget
<1>2. ASSUME NEW a \in AutoReleases, AutoFinish(a)
      PROVE  auto[a].pc = "finishing" /\ auto[a].victim # None /\ auto[a].victim.instance = i
  BY <1>0, <1>2 DEF AutoFinish, Forget
<1>3. ASSUME activity' = activity PROVE FALSE
  BY <1>3
<1>4. ASSUME NEW j \in Instances, activity' = [activity EXCEPT ![j] = "fresh"] PROVE FALSE
  BY <1>0, <1>4
<1>5. ASSUME NEW r \in Request, FinishSuccess(r) PROVE FALSE
  <2>1. r.instance \in Instances
    BY DEF Request
  <2> QED  BY <1>4, <1>5, <2>1 DEF FinishSuccess
<1>6. ASSUME NEW j \in Instances, MarkActivity(j) PROVE FALSE
  BY <1>4, <1>6 DEF MarkActivity
<1>7. ASSUME NEW j \in Instances, BecomeIdle(j) PROVE FALSE
  BY <1>0, <1>7 DEF BecomeIdle
<1>8. CASE GateMoves \/ \E r \in Request : LaunchSucceeds(r) \/ FinishFailure(r)
  BY <1>3, <1>8 DEF GateMoves, LaunchSucceeds, FinishFailure
<1>9. CASE \E vm \in Vms : StartNode(vm)
  BY <1>3, <1>9 DEF StartNode
<1>10. ASSUME NEW a \in AutoReleases, AutoStep(a), ~AutoFinish(a) PROVE FALSE
  BY <1>3, <1>10 DEF AutoStep, AutoBegin, AutoList, AutoStop
<1>11. ASSUME NEW x \in Releases, ReleaseStep(x), ~ReleaseClear(x) PROVE FALSE
  BY <1>3, <1>11 DEF ReleaseStep, ReleaseDecide, ReleaseStop, ReleaseNodeStop, ReleaseList
<1>12. CASE UNCHANGED vars
  BY <1>3, <1>12 DEF vars
<1> QED  BY <1>1, <1>2, <1>5, <1>6, <1>7, <1>8, <1>9, <1>10, <1>11, <1>12
         DEF Next, StartStep, HasStopped

\* Whatever docker and the node answer, and whoever else starts, marks or releases
\* meanwhile: a node is stopped only on a listing that showed nothing else on it, and
\* an instance is forgotten only by a call that has stopped it.
THEOREM ReleasesCareful == Spec => ReleasesAreCareful
<1>1. ReleaseInv => NodeStopFailsClosed
  BY ReleaseInvImplies
<1>2. ReleaseInv /\ [Next]_vars => [\A i \in Instances : Forgets(i) => HasStopped(i)]_vars
  BY ForgettingStep
<1>3. Spec => []NodeStopFailsClosed
  BY <1>1, ReleaseInvInit, ReleaseInvStep, PTL DEF Spec
<1>4. Spec => ForgottenOnlyWhenStopped
  BY <1>2, ReleaseInvInit, ReleaseInvStep, PTL DEF Spec, ForgottenOnlyWhenStopped
<1> QED  BY <1>3, <1>4, PTL DEF ReleasesAreCareful

-----------------------------------------------------------------------------
(* The caches: what a command changed is seen.                             *)

\* Nothing answers for a change that has not been made yet; and a clean value, stored
\* or about to be stored, was probed after the change that its cache last answered for.
VersionsInv ==
  /\ \A s \in Slots : settled[s] <= reported
  /\ \A c \in Changers : changer[c].version <= reported
  /\ \A s \in Slots : slot[s].full /\ slot[s].clean => settled[s] <= slot[s].version
  /\ \A r \in Readers : reader[r].pc = "storing" /\ reader[r].clean
       => settled[reader[r].slot] <= reader[r].version

CacheInv == CacheTypeOK /\ VersionsInv

\* A reader's locals.
Looker == [pc : {"idle", "probing", "storing"}, slot : Slots, version : Versions, clean : BOOLEAN]

LEMMA LookerFacts == Reading \in Looker /\ Reading.pc = "idle"
BY CacheAssumption DEF Reading, Looker, Slots, Versions

LEMMA LookerChanges ==
  ASSUME NEW q \in Looker, NEW s \in Slots
  PROVE  /\ [q EXCEPT !.clean = FALSE] \in Looker
         /\ [q EXCEPT !.pc = "probing", !.slot = s] \in Looker
BY DEF Looker

LEMMA CacheInvInit == CacheInit => CacheInv
BY CacheAssumption DEF CacheInit, CacheInv, CacheTypeOK, VersionsInv, Slots, Versions, Empty, Reading

\* Emptying a slot: what it has to answer for grows, and no clean value is left that
\* was probed before.
LEMMA InvalidateStep ==
  ASSUME CacheInv, NEW s \in Slots, NEW c \in Changers, Invalidate(s, changer[c].version),
         UNCHANGED <<reported, clock>>,
         changer' \in [Changers -> [pc : {"idle", "docker", "devices"}, version : Versions]],
         \A d \in Changers : changer'[d].version <= reported
  PROVE  CacheInv'
<1> USE CacheAssumption DEF CacheInv, CacheTypeOK, VersionsInv, Invalidate, Later, Versions, Empty
<1>1. settled' \in [Slots -> Versions] /\ \A t \in Slots : settled'[t] <= reported
  OBVIOUS
<1>2. slot' \in [Slots -> [full : BOOLEAN, version : Versions, at : 0..MaxClock, clean : BOOLEAN]]
  OBVIOUS
<1>3. reader' \in [Readers -> Looker]
  <2>1. reader \in [Readers -> Looker]
    BY DEF Looker
  <2>2. \A r \in Readers : [reader[r] EXCEPT !.clean = FALSE] \in Looker
    BY <2>1, LookerChanges
  <2> QED
    BY <2>1, <2>2
<1>4. \A t \in Slots : slot'[t].full /\ slot'[t].clean => settled'[t] <= slot'[t].version
  OBVIOUS
<1>5. \A r \in Readers : reader'[r].pc = "storing" /\ reader'[r].clean
        => settled'[reader'[r].slot] <= reader'[r].version
  OBVIOUS
<1> QED
  BY <1>1, <1>2, <1>3, <1>4, <1>5 DEF Looker

LEMMA CacheInvStep == CacheInv /\ [CacheNext]_cacheVars => CacheInv'
<1> SUFFICES ASSUME CacheInv, [CacheNext]_cacheVars PROVE CacheInv'
  OBVIOUS
<1> USE CacheAssumption DEF CacheInv, CacheTypeOK, VersionsInv, Slots, Versions, Empty
<1>1. ASSUME NEW r \in Readers, NEW s \in Slots, Look(r, s) PROVE CacheInv'
  <2> DEFINE begun == [Reading EXCEPT !.pc = "probing", !.slot = s]
  <2>1. begun \in Looker /\ begun.pc = "probing"
    BY LookerFacts, LookerChanges DEF Looker
  <2> HIDE DEF begun
  <2>2. reader' = [reader EXCEPT ![r] = begun]
    BY <1>1 DEF Look, begun
  <2>3. reader \in [Readers -> Looker] /\ reader' \in [Readers -> Looker]
    BY <2>1, <2>2 DEF Looker
  <2>4. \A q \in Readers : reader'[q].pc = "storing" => reader'[q] = reader[q]
    BY <2>1, <2>2, <2>3
  <2>5. UNCHANGED <<reported, clock, slot, changer, settled>>
    BY <1>1 DEF Look
  <2> QED
    BY <2>3, <2>4, <2>5 DEF Looker
<1>2. ASSUME NEW r \in Readers, LookFresh(r) PROVE CacheInv'
  <2> DEFINE begun == [Reading EXCEPT !.pc = "probing"]
  <2>1. begun \in Looker /\ begun.pc = "probing"
    BY LookerFacts DEF Looker
  <2> HIDE DEF begun
  <2>2. reader \in [Readers -> Looker]
    BY DEF Looker
  <2>3. \A q \in Readers : [reader[q] EXCEPT !.clean = FALSE] \in Looker
    BY <2>2, LookerChanges
  <2>4. reader' = [q \in Readers |->
          IF q = r THEN begun
          ELSE IF reader[q].pc = "storing" /\ reader[q].slot = "docker" THEN [reader[q] EXCEPT !.clean = FALSE]
          ELSE reader[q]]
    BY <1>2 DEF LookFresh, begun
  <2>5. reader' \in [Readers -> Looker]
    BY <2>1, <2>2, <2>3, <2>4
  <2>6. \A q \in Readers : reader'[q].pc = "storing" /\ reader'[q].clean => reader'[q] = reader[q]
    BY <2>1, <2>2, <2>4 DEF Looker
  <2>7. /\ slot' = [slot EXCEPT !["docker"] = [full |-> FALSE, version |-> 0, at |-> 0, clean |-> TRUE]]
        /\ UNCHANGED <<reported, clock, changer, settled>>
    BY <1>2 DEF LookFresh
  <2> QED
    BY <2>5, <2>6, <2>7 DEF Looker
<1>3. ASSUME NEW r \in Readers, Probe(r) PROVE CacheInv'
  BY <1>3 DEF Probe
<1>4. ASSUME NEW r \in Readers, Store(r) PROVE CacheInv'
  BY <1>4, LookerFacts DEF Store, Looker
<1>5. ASSUME NEW c \in Changers, Change(c) PROVE CacheInv'
  BY <1>5 DEF Change
<1>6. ASSUME NEW c \in Changers, InvalidateDocker(c) PROVE CacheInv'
  BY <1>6, InvalidateStep DEF InvalidateDocker
<1>7. ASSUME NEW c \in Changers, InvalidateDevices(c) PROVE CacheInv'
  BY <1>7, InvalidateStep DEF InvalidateDevices
<1>8. CASE Tick
  BY <1>8 DEF Tick
<1>9. CASE UNCHANGED cacheVars
  BY <1>9 DEF cacheVars
<1> QED
  BY <1>1, <1>2, <1>3, <1>4, <1>5, <1>6, <1>7, <1>8, <1>9 DEF CacheNext

\* The docker page's information and the device list: what start, stop, restart, remove
\* and rename changed is seen by every look that comes after the slot was emptied, unless
\* a probe from before stored its answer after it.
THEOREM ChangesSeen == CacheSpec => []ChangesAreSeen
<1>1. CacheInv => ChangesAreSeen
  BY DEF CacheInv, CacheTypeOK, VersionsInv, Versions, ChangesAreSeen, Recent
<1> QED
  BY <1>1, CacheInvInit, CacheInvStep, PTL DEF CacheSpec

-----------------------------------------------------------------------------
(* The page of a device: only the newest load counts, and it is the route's. *)

\* A load that still counts is for the device of the route, unless it follows an attempt
\* to connect: that one is for the device the attempt was made for.
CurrentInv == \A l \in Loads : load[l].isCurrent /\ ~load[l].retried => load[l].device = route

PageInv == PageTypeOK /\ CurrentInv

\* begin() hands one load out and takes the token of every other.
LEMMA BeginFacts ==
  ASSUME PageTypeOK, NEW d \in Devices, NEW first \in BOOLEAN, NEW retried \in BOOLEAN,
         Begin(d, first, retried)
  PROVE  /\ load' \in [Loads -> [device : MaybeDevice, isCurrent : BOOLEAN, first : BOOLEAN, retried : BOOLEAN]]
         /\ refreshInFlight' = TRUE
         /\ \A l \in Loads : load'[l].isCurrent => load'[l].device = d /\ load'[l].retried = retried
<1> DEFINE freeLoad == CHOOSE l \in Loads : ~Waiting(l)
           begun == [device |-> d, isCurrent |-> TRUE, first |-> first, retried |-> retried]
           Loading == [device : MaybeDevice, isCurrent : BOOLEAN, first : BOOLEAN, retried : BOOLEAN]
<1>1. freeLoad \in Loads
  BY DEF Begin
<1>2. \A l \in Loads : [load[l] EXCEPT !.isCurrent = FALSE] \in Loading
  BY DEF PageTypeOK
<1>3. Invalidated \in [Loads -> Loading] /\ \A l \in Loads : ~Invalidated[l].isCurrent
  BY <1>2 DEF Invalidated, PageTypeOK
<1>4. begun \in Loading /\ begun.device = d /\ begun.retried = retried
  BY DEF MaybeDevice
<1>5. load' = [Invalidated EXCEPT ![freeLoad] = begun] /\ refreshInFlight' = TRUE
  BY DEF Begin
<1> HIDE DEF freeLoad, begun
<1> QED
  BY <1>1, <1>3, <1>4, <1>5

LEMMA PageInvInit == PageInit => PageInv
<1> SUFFICES ASSUME PageInit PROVE PageInv
  OBVIOUS
<1>1. NoLoad \in [device : MaybeDevice, isCurrent : BOOLEAN, first : BOOLEAN, retried : BOOLEAN]
  BY DEF NoLoad, MaybeDevice
<1>2. ~NoLoad.isCurrent
  BY DEF NoLoad
<1> QED
  BY <1>1, <1>2 DEF PageInit, PageInv, PageTypeOK, CurrentInv, MaybeDevice

LEMMA PageInvStep == PageInv /\ [PageNext]_pageVars => PageInv'
<1> SUFFICES ASSUME PageInv, [PageNext]_pageVars PROVE PageInv'
  OBVIOUS
<1> USE PageAssumption DEF PageInv, PageTypeOK, CurrentInv, MaybeDevice
<1>1. ASSUME NEW d \in Devices, Navigate(d) PROVE PageInv'
  BY <1>1, BeginFacts DEF Navigate
<1>2. ASSUME NEW d \in Devices, Refresh(d) PROVE PageInv'
  BY <1>2, BeginFacts DEF Refresh
<1>3. ASSUME NEW l \in Loads, LoadDropped(l) PROVE PageInv'
  BY <1>3 DEF LoadDropped, NoLoad
<1>4. ASSUME NEW l \in Loads, LoadAnswered(l) PROVE PageInv'
  <2>1. load' = [load EXCEPT ![l] = NoLoad] /\ load[l].device \in Devices /\ UNCHANGED route
    BY <1>4 DEF LoadAnswered, Waiting
  <2>2. NoLoad \in [device : MaybeDevice, isCurrent : BOOLEAN, first : BOOLEAN, retried : BOOLEAN]
    BY DEF NoLoad
  <2>3. ~NoLoad.isCurrent
    BY DEF NoLoad
  <2>4. CurrentInv' /\ load' \in [Loads -> [device : MaybeDevice, isCurrent : BOOLEAN, first : BOOLEAN, retried : BOOLEAN]]
    BY <2>1, <2>2, <2>3
  <2>5. {route, shown, autoTried}' \subseteq MaybeDevice /\ refreshInFlight' \in BOOLEAN
    BY <1>4, <2>1 DEF LoadAnswered
  <2>6. connect' \in [Connects -> MaybeDevice]
    BY <1>4, <2>1 DEF LoadAnswered
  <2> QED
    BY <2>4, <2>5, <2>6
<1>5. ASSUME NEW c \in Connects, ConnectReturns(c) PROVE PageInv'
  <2>1. connect[c] \in Devices
    BY <1>5 DEF ConnectReturns
  <2>2. CASE refreshInFlight
    BY <1>5, <2>2 DEF ConnectReturns
  <2>3. CASE ~refreshInFlight
    BY <1>5, <2>1, <2>3, BeginFacts DEF ConnectReturns
  <2> QED
    BY <2>2, <2>3
<1>6. CASE UNCHANGED pageVars
  BY <1>6 DEF pageVars
<1> QED
  BY <1>1, <1>2, <1>3, <1>4, <1>5, <1>6 DEF PageNext

\* The device page: an answer that a newer request has overtaken never reaches the page,
\* and one that does is for the device of the route, unless it follows an attempt to connect.
THEOREM LateAnswersDropped == PageSpec => LateAnswersAreDropped
<1> DEFINE Step == shown' # shown /\ shown' \notin {route', NoDevice} =>
                     \E l \in Loads : load[l].isCurrent /\ load[l].retried /\ load[l].device = shown'
<1>1. PageInv /\ [PageNext]_pageVars => [Step]_pageVars
  <2> SUFFICES ASSUME PageInv, PageNext PROVE Step
    OBVIOUS
  <2>1. CASE \E d \in Devices : Navigate(d) \/ Refresh(d)
    BY <2>1 DEF Navigate, Refresh
  <2>2. CASE \E l \in Loads : LoadDropped(l) \/ LoadAnswered(l)
    BY <2>2 DEF LoadDropped, LoadAnswered, PageInv, CurrentInv, PageTypeOK
  <2>3. CASE \E c \in Connects : ConnectReturns(c)
    BY <2>3 DEF ConnectReturns
  <2> QED
    BY <2>1, <2>2, <2>3 DEF PageNext
<1> QED
  BY <1>1, PageInvInit, PageInvStep, PTL DEF PageSpec, LateAnswersAreDropped

-----------------------------------------------------------------------------
(* The processes of a device: never two side by side.                      *)

\* The shape of the two functions that the steps change.
ProcessShapes ==
  /\ procs = [p \in Children |-> procs[p]]
  /\ starts = [x \in Starts |-> starts[x]]

\* With no race, one start at a time is under way.  What it has spawned is in its own
\* hands until it is listed, and before it spawns it has seen the registry's entry gone.
OneStartInv ==
  /\ \A x, y \in Underway : x = y
  /\ \A x \in Starts : starts[x].pc # "launched" => starts[x].own = {}
  /\ \A x \in Starts : starts[x].pc \in {"ready", "launched"} => handles = {}
  /\ \A p \in Running : p \in handles \/ \E x \in Starts : p \in starts[x].own

ProcessInv == ProcessShapes /\ (~raced /\ ~dropped => OneStartInv)

LEMMA ProcessInvInit == DeviceInit => ProcessInv
BY DEF DeviceInit, ProcessInv, ProcessShapes, OneStartInv, Underway, NoStart, Running

\* Bringing the listed processes down leaves nothing running that is not listed, and
\* leaves an empty registry empty.
LEMMA TakeDownFacts ==
  ASSUME ProcessShapes, NEW ok \in BOOLEAN, TakeDown(ok)
  PROVE  /\ procs' = [p \in Children |-> procs'[p]]
         /\ Running' \subseteq Running
         /\ handles' \in {{}, handles}
         /\ handles' = {} => Running' \cap handles = {}
         /\ ok => handles' = {}
<1>0. PICK refused \in SUBSET handles : \E survivors \in SUBSET refused :
        /\ procs' = Ended(handles, survivors)
        /\ handles' = IF refused = {} THEN {} ELSE handles
        /\ ok = (refused = {} /\ (ReportsStatus => \A p \in handles : procs[p] # "failed"))
  BY DEF TakeDown
<1>1. PICK survivors \in SUBSET refused :
        /\ procs' = Ended(handles, survivors)
        /\ handles' = IF refused = {} THEN {} ELSE handles
        /\ ok = (refused = {} /\ (ReportsStatus => \A p \in handles : procs[p] # "failed"))
  BY <1>0
<1>2. procs' = [p \in Children |-> procs'[p]] /\ Running' = Running \ (handles \ survivors)
  BY <1>1 DEF Ended, Running, ProcessShapes
<1>3. handles' = {} => handles = {} \/ survivors = {}
  BY <1>1
<1> QED
  BY <1>1, <1>2, <1>3

LEMMA ProcessInvStep == ProcessInv /\ [DeviceNext]_deviceVars => ProcessInv'
<1> SUFFICES ASSUME ProcessInv, [DeviceNext]_deviceVars PROVE ProcessInv'
  OBVIOUS
<1> USE DEF ProcessInv, ProcessShapes, OneStartInv, Underway, StartAt
<1>1. ASSUME NEW x \in Starts, AskStart(x) PROVE ProcessInv'
  BY <1>1 DEF AskStart, Running
<1>2. ASSUME NEW x \in Starts, StopPrevious(x) PROVE ProcessInv'
  <2>1. PICK ok \in BOOLEAN, cleared \in BOOLEAN :
          /\ TakeDown(ok)
          /\ StartAt(x, IF ok /\ (service = "gnirehtet" => cleared) THEN "ready" ELSE "idle", {})
    BY <1>2 DEF StopPrevious
  <2>2. PICK place \in {"ready", "idle"} :
          starts' = [starts EXCEPT ![x] = [pc |-> place, own |-> {}]] /\ (place = "ready" => ok)
    BY <2>1
  <2>3. starts[x].pc = "asked" /\ UNCHANGED <<raced, dropped>>
    BY <1>2 DEF StopPrevious
  <2>4. ~raced /\ ~dropped => \A y \in Starts : starts'[y].own = starts[y].own
    BY <2>2, <2>3
  <2>5. \A y \in Starts : y # x => starts'[y] = starts[y]
    BY <2>2
  <2>6. starts'[x].pc = place
    BY <2>2
  <2>7. ASSUME ~raced, ~dropped PROVE OneStartInv'
    <3>1. Running' \subseteq Running /\ (place = "ready" => handles' = {})
      BY <2>1, <2>2, TakeDownFacts
    <3>2. handles' \in {{}, handles} /\ (handles' = {} => Running' \cap handles = {})
      BY <2>1, TakeDownFacts
    <3>3. \A y \in Starts : starts'[y].pc # "idle" => starts[y].pc # "idle"
      BY <2>3, <2>5
    <3>4. \A y \in Starts : starts'[y].pc \in {"ready", "launched"} => handles' = {}
      BY <2>2, <2>5, <2>6, <3>1, <3>2, <2>7
    <3>5. \A p \in Running' : p \in handles' \/ \E y \in Starts : p \in starts'[y].own
      BY <2>4, <3>1, <3>2, <2>7
    <3> QED
      BY <2>2, <2>3, <2>4, <2>5, <2>6, <3>3, <3>4, <3>5, <2>7
  <2> QED
    BY <2>1, <2>2, <2>3, <2>7, TakeDownFacts
<1>3. ASSUME NEW x \in Starts, StartRefused(x) PROVE ProcessInv'
  BY <1>3 DEF StartRefused, Running
<1>4. ASSUME NEW x \in Starts, Launch(x) PROVE ProcessInv'
  BY <1>4 DEF Launch, Running
<1>5. ASSUME NEW x \in Starts, LaunchHalf(x) PROVE ProcessInv'
  BY <1>5 DEF LaunchHalf, Running
<1>6. ASSUME NEW x \in Starts, Enroll(x) PROVE ProcessInv'
  <2>1. /\ starts' = [starts EXCEPT ![x] = [pc |-> "idle", own |-> {}]] /\ handles' = starts[x].own
        /\ starts[x].pc = "launched" /\ UNCHANGED <<procs, raced, dropped>>
    BY <1>6 DEF Enroll
  <2>2. ~raced /\ ~dropped => \A y \in Starts : y # x => starts[y].pc = "idle" /\ starts'[y] = starts[y]
    BY <2>1
  <2>3. starts'[x].pc = "idle" /\ starts'[x].own = {}
    BY <2>1
  <2> QED
    BY <2>1, <2>2, <2>3 DEF Running
<1>7. ASSUME NEW x \in Starts, StartFailsLate(x) PROVE ProcessInv'
  BY <1>7 DEF StartFailsLate, Ended, Running
<1>8. CASE StopDevice
  BY <1>8, TakeDownFacts DEF StopDevice
<1>9. CASE DeviceStatus
  BY <1>9, TakeDownFacts DEF DeviceStatus, Running
<1>10. ASSUME NEW p \in Children, ProcessEnds(p) PROVE ProcessInv'
  BY <1>10 DEF ProcessEnds, Running
<1>11. CASE UNCHANGED deviceVars
  BY <1>11 DEF deviceVars, Running
<1> QED
  BY <1>1, <1>2, <1>3, <1>4, <1>5, <1>6, <1>7, <1>8, <1>9, <1>10, <1>11 DEF DeviceNext

\* Recordings, scrcpy windows, streams and tunnels: unless two starts overlapped or a
\* start gave a process up, whatever runs for the device is listed or in the hands of the
\* one start, and never both.
THEOREM OneProcess == DeviceSpec => []OneProcessUnlessRaced
<1>1. ProcessInv => OneProcessUnlessRaced
  BY DEF ProcessInv, OneStartInv, OneProcessUnlessRaced
<1> QED
  BY <1>1, ProcessInvInit, ProcessInvStep, PTL DEF DeviceSpec

\* A start has all the processes that its service needs, or none.
SizesInv ==
  /\ DeviceTypeOK
  /\ \A x \in Starts : starts[x].pc = "launched" => Cardinality(starts[x].own) = Halves

LEMMA SizesInvInit == DeviceInit => SizesInv
<1>1. Cardinality({}) = 0
  BY FS_EmptySet
<1> SUFFICES ASSUME DeviceInit PROVE SizesInv
  OBVIOUS
<1>2. handles = {} /\ Cardinality(handles) \in {0, Halves}
  BY <1>1 DEF DeviceInit
<1>3. starts \in [Starts -> [pc : {"idle", "asked", "ready", "launched"}, own : SUBSET Children]]
  BY DEF DeviceInit, NoStart
<1> QED
  BY <1>2, <1>3 DEF DeviceInit, SizesInv, DeviceTypeOK, NoStart

\* Bringing the listed processes down keeps all of the entry or none of it.
LEMMA TakeDownSizes ==
  ASSUME SizesInv, NEW ok \in BOOLEAN, TakeDown(ok)
  PROVE  /\ procs' \in [Children -> {"unused", "alive", "ended", "failed"}]
         /\ handles' \subseteq Children /\ Cardinality(handles') \in {0, Halves}
<1>1. PICK refused \in SUBSET handles : \E survivors \in SUBSET refused :
        /\ procs' = Ended(handles, survivors)
        /\ handles' = IF refused = {} THEN {} ELSE handles
  BY DEF TakeDown
<1>2. Cardinality({}) = 0
  BY FS_EmptySet
<1> QED
  BY <1>1, <1>2 DEF Ended, SizesInv, DeviceTypeOK

\* What is spawned is as many as were to be spawned.
LEMMA SpawnedFacts ==
  ASSUME NEW n, CanSpawn(n) PROVE Spawned(n) \subseteq Children /\ Cardinality(Spawned(n)) = n
BY DEF CanSpawn, Spawned, Fresh

LEMMA SizesInvStep == SizesInv /\ [DeviceNext]_deviceVars => SizesInv'
<1> SUFFICES ASSUME SizesInv, [DeviceNext]_deviceVars PROVE SizesInv'
  OBVIOUS
<1> USE DEF SizesInv, DeviceTypeOK, StartAt, Halves
<1>1. ASSUME NEW x \in Starts, AskStart(x) PROVE SizesInv'
  BY <1>1 DEF AskStart
<1>2. ASSUME NEW x \in Starts, StopPrevious(x) PROVE SizesInv'
  <2>1. PICK ok \in BOOLEAN, place \in {"ready", "idle"} :
          TakeDown(ok) /\ starts' = [starts EXCEPT ![x] = [pc |-> place, own |-> {}]]
    BY <1>2 DEF StopPrevious
  <2>2. UNCHANGED <<service, raced, dropped>>
    BY <1>2 DEF StopPrevious
  <2> QED
    BY <2>1, <2>2, TakeDownSizes
<1>3. ASSUME NEW x \in Starts, StartRefused(x) PROVE SizesInv'
  BY <1>3 DEF StartRefused
<1>4. ASSUME NEW x \in Starts, Launch(x) PROVE SizesInv'
  BY <1>4, SpawnedFacts DEF Launch
<1>5. ASSUME NEW x \in Starts, LaunchHalf(x) PROVE SizesInv'
  BY <1>5 DEF LaunchHalf
<1>6. ASSUME NEW x \in Starts, Enroll(x) PROVE SizesInv'
  BY <1>6 DEF Enroll
<1>7. ASSUME NEW x \in Starts, StartFailsLate(x) PROVE SizesInv'
  BY <1>7 DEF StartFailsLate, Ended
<1>8. CASE StopDevice
  BY <1>8, TakeDownSizes DEF StopDevice
<1>9. CASE DeviceStatus
  <2>1. Cardinality({}) = 0
    BY FS_EmptySet
  <2> QED
    BY <1>9, <2>1, TakeDownSizes DEF DeviceStatus
<1>10. ASSUME NEW p \in Children, ProcessEnds(p) PROVE SizesInv'
  BY <1>10 DEF ProcessEnds
<1>11. CASE UNCHANGED deviceVars
  BY <1>11 DEF deviceVars
<1> QED
  BY <1>1, <1>2, <1>3, <1>4, <1>5, <1>6, <1>7, <1>8, <1>9, <1>10, <1>11 DEF DeviceNext

\* The types of the registries of processes: an entry has all the processes its service
\* runs for a device, or it is not there.
THEOREM ProcessTypes == DeviceSpec => []DeviceTypeOK
<1>1. SizesInv => DeviceTypeOK
  BY DEF SizesInv
<1> QED
  BY <1>1, SizesInvInit, SizesInvStep, PTL DEF DeviceSpec

-----------------------------------------------------------------------------
(* The derived images: one that is used again is current.                  *)

\* Two sets of packages of which the second is the same or newer, one by one.
NoNewer(s, t) ==
  /\ DOMAIN s = DOMAIN t
  /\ s \in [DOMAIN s -> Nat] /\ t \in [DOMAIN s -> Nat]
  /\ \A a \in DOMAIN s : s[a] <= t[a]

BuildFields == {"at", "request", "stamp", "copied", "answer"}

ImageShapes ==
  /\ asset \in [Assets -> 0..MaxEdition]
  /\ build = [b \in Builds |-> build[b]]
  /\ \A b \in Builds : /\ DOMAIN build[b] = BuildFields
                       /\ build[b].at # "idle" => build[b].answer = "none"

\* What an image was built from is no older than its stamp, and no newer than what is on
\* the disk; the same of a build on its way.
AgesInv ==
  /\ \A i \in images :
       /\ DOMAIN i.stamp \subseteq Assets
       /\ NoNewer(i.stamp, i.from)
       /\ NoNewer(i.from, Contents(DOMAIN i.stamp))
  /\ \A b \in Builds :
       /\ build[b].at \in {"stamped", "copied"} =>
            /\ build[b].request \subseteq Assets
            /\ NoNewer(build[b].stamp, Contents(build[b].request))
       /\ build[b].at = "copied" =>
            /\ NoNewer(build[b].stamp, build[b].copied)
            /\ NoNewer(build[b].copied, Contents(build[b].request))

ImagesInv == ImageShapes /\ AgesInv

LEMMA NoBuildFacts ==
  DOMAIN NoBuild = BuildFields /\ NoBuild.at = "idle" /\ NoBuild.answer = "none"
BY DEF NoBuild, BuildFields

\* Packages are only ever replaced by newer ones.
LEMMA NewerStill ==
  ASSUME ImageShapes, NEW s, NEW r \in SUBSET Assets, NoNewer(s, Contents(r)),
         asset' \in [Assets -> 0..MaxEdition], \A a \in Assets : asset[a] <= asset'[a]
  PROVE  NoNewer(s, Contents(r)')
<1>1. MaxEdition \in Nat
  BY ImagesAssumption
<1>2. /\ DOMAIN s = r /\ s \in [r -> Nat] /\ Contents(r)' \in [r -> Nat] /\ DOMAIN (Contents(r)') = r
      /\ \A a \in r : s[a] <= asset[a] /\ Contents(r)'[a] = asset'[a]
  BY <1>1 DEF NoNewer, Contents, ImageShapes
<1>3. \A a \in r : s[a] \in Int /\ asset[a] \in Int /\ asset'[a] \in Int /\ asset[a] <= asset'[a]
  BY <1>1, <1>2 DEF ImageShapes
<1>4. \A a \in r : s[a] <= Contents(r)'[a]
  BY <1>2, <1>3
<1> QED
  BY <1>2, <1>4 DEF NoNewer

\* What is on the disk now is no newer than itself.
LEMMA AsItIs ==
  ASSUME ImageShapes, NEW r \in SUBSET Assets
  PROVE  NoNewer(Contents(r), Contents(r)) /\ DOMAIN Contents(r) = r
<1>1. MaxEdition \in Nat
  BY ImagesAssumption
<1> QED
  BY <1>1 DEF NoNewer, Contents, ImageShapes

LEMMA ImagesInvInit == ImagesInit => ImagesInv
BY NoBuildFacts, ImagesAssumption DEF ImagesInit, ImagesInv, ImageShapes, AgesInv

LEMMA EnsureStep == ASSUME ImagesInv, NEW b \in Builds, Ensure(b) PROVE ImagesInv'
<1>1. PICK r \in Requests :
        \/ Ends(b, "failed")
        \/ build' = [build EXCEPT ![b] =
             IF ImageOf(StampOf(r)) # {}
             THEN [NoBuild EXCEPT !.answer = "reused", !.request = r, !.stamp = StampOf(r)]
             ELSE [NoBuild EXCEPT !.at = "stamped", !.request = r, !.stamp = StampOf(r)]]
  BY DEF Ensure
<1> DEFINE begun == [NoBuild EXCEPT !.at = "stamped", !.request = r, !.stamp = StampOf(r)]
           again == [NoBuild EXCEPT !.answer = "reused", !.request = r, !.stamp = StampOf(r)]
           over  == [NoBuild EXCEPT !.answer = "failed"]
<1>2. DOMAIN begun = BuildFields /\ begun.at = "stamped" /\ begun.answer = "none"
      /\ begun.request = r /\ begun.stamp = StampOf(r)
  BY NoBuildFacts DEF BuildFields
<1>3. DOMAIN again = BuildFields /\ again.at = "idle" /\ DOMAIN over = BuildFields /\ over.at = "idle"
  BY NoBuildFacts DEF BuildFields
<1>4. \E c \in {begun, again, over} : build' = [build EXCEPT ![b] = c]
  BY <1>1 DEF Ends
<1> HIDE DEF begun, again, over
<1>5. r \subseteq Assets /\ NoNewer(StampOf(r), Contents(r))
  BY AsItIs DEF Requests, StampOf, ImagesInv
<1>6. UNCHANGED <<asset, images>>
  BY DEF Ensure
<1>7. ImageShapes'
  BY <1>2, <1>3, <1>4, <1>6 DEF ImagesInv, ImageShapes
<1>8. \A d \in Builds \ {b} : build'[d] = build[d]
  BY <1>4 DEF ImagesInv, ImageShapes
<1>9. build'[b] \in {begun, again, over}
  BY <1>4 DEF ImagesInv, ImageShapes
<1>10. \A q : Contents(q)' = Contents(q)
  BY <1>6 DEF Contents
<1>11. build'[b].at \in {"stamped", "copied"} => build'[b] = begun /\ build'[b].at = "stamped"
  BY <1>2, <1>3, <1>9
<1>12. AgesInv'
  BY <1>2, <1>5, <1>6, <1>8, <1>10, <1>11 DEF ImagesInv, AgesInv
<1> QED
  BY <1>7, <1>12 DEF ImagesInv

\* A build that is over, for better or worse.
LEMMA EndsFacts ==
  ASSUME NEW answer
  PROVE  LET over == [NoBuild EXCEPT !.answer = answer]
         IN  DOMAIN over = BuildFields /\ over.at = "idle" /\ over.answer = answer
BY NoBuildFacts DEF BuildFields

LEMMA PrepareStep == ASSUME ImagesInv, NEW b \in Builds, Prepare(b) PROVE ImagesInv'
<1> DEFINE over == [NoBuild EXCEPT !.answer = "failed"]
           copy == Contents(build[b].request)
           with == [build[b] EXCEPT !.at = "copied", !.copied = copy]
<1>1. build[b].at = "stamped" /\ DOMAIN build[b] = BuildFields /\ build[b].answer = "none"
  BY DEF Prepare, ImagesInv, ImageShapes
<1>2. /\ DOMAIN with = BuildFields /\ with.at = "copied" /\ with.answer = "none"
      /\ with.request = build[b].request /\ with.stamp = build[b].stamp /\ with.copied = copy
  BY <1>1 DEF BuildFields
<1>3. DOMAIN over = BuildFields /\ over.at = "idle"
  BY EndsFacts
<1>4. \E c \in {with, over} : build' = [build EXCEPT ![b] = c]
  BY DEF Prepare, Ends
<1>5. NoNewer(copy, Contents(build[b].request)) /\ NoNewer(build[b].stamp, copy)
      /\ build[b].request \subseteq Assets
  BY <1>1, AsItIs DEF ImagesInv, AgesInv
<1> HIDE DEF with, over
<1>6. UNCHANGED <<asset, images>>
  BY DEF Prepare
<1>7. ImageShapes'
  BY <1>1, <1>2, <1>3, <1>4, <1>6 DEF ImagesInv, ImageShapes
<1>8. AgesInv'
  BY <1>1, <1>2, <1>3, <1>4, <1>5, <1>6 DEF ImagesInv, ImageShapes, AgesInv, Contents
<1> QED
  BY <1>7, <1>8 DEF ImagesInv

LEMMA BuildStep == ASSUME ImagesInv, NEW b \in Builds, Build(b) PROVE ImagesInv'
<1> DEFINE new == [stamp |-> build[b].stamp, from |-> build[b].copied]
<1>1. PICK answer \in {"failed", "built"} : Ends(b, answer)
  BY DEF Build
<1> DEFINE over == [NoBuild EXCEPT !.answer = answer]
<1>2. DOMAIN over = BuildFields /\ over.at = "idle" /\ build' = [build EXCEPT ![b] = over]
  BY <1>1, EndsFacts DEF Ends
<1> HIDE DEF over
<1>3. UNCHANGED asset /\ images' \subseteq images \cup {new} /\ build[b].at = "copied"
  BY DEF Build
<1>4. /\ build[b].request \subseteq Assets
      /\ NoNewer(build[b].stamp, build[b].copied)
      /\ NoNewer(build[b].copied, Contents(build[b].request))
      /\ DOMAIN build[b].stamp = build[b].request
  BY <1>3 DEF ImagesInv, AgesInv, NoNewer, Contents
<1>5. ImageShapes'
  BY <1>2, <1>3 DEF ImagesInv, ImageShapes
<1>6. \A i \in images' : /\ DOMAIN i.stamp \subseteq Assets
                         /\ NoNewer(i.stamp, i.from)
                         /\ NoNewer(i.from, Contents(DOMAIN i.stamp))
  BY <1>3, <1>4 DEF ImagesInv, AgesInv
<1>7. AgesInv'
  BY <1>2, <1>3, <1>6 DEF ImagesInv, ImageShapes, AgesInv, Contents
<1> QED
  BY <1>5, <1>7 DEF ImagesInv

LEMMA ReplaceAssetStep == ASSUME ImagesInv, NEW a \in Assets, ReplaceAsset(a) PROVE ImagesInv'
<1>1. MaxEdition \in Nat
  BY ImagesAssumption
<1>2. asset' \in [Assets -> 0..MaxEdition] /\ \A c \in Assets : asset[c] <= asset'[c]
  BY <1>1 DEF ReplaceAsset, ImagesInv, ImageShapes
<1>3. UNCHANGED <<images, build>>
  BY DEF ReplaceAsset
<1>4. ImageShapes'
  BY <1>2, <1>3 DEF ImagesInv, ImageShapes
<1>5. \A i \in images : NoNewer(i.from, Contents(DOMAIN i.stamp)')
  BY <1>2, NewerStill DEF ImagesInv, AgesInv
<1>6. ASSUME NEW b \in Builds, build[b].at \in {"stamped", "copied"}
      PROVE  /\ NoNewer(build[b].stamp, Contents(build[b].request)')
             /\ build[b].at = "copied" => NoNewer(build[b].copied, Contents(build[b].request)')
  <2>1. PICK r \in SUBSET Assets : r = build[b].request
    BY <1>6 DEF ImagesInv, AgesInv
  <2>2. NoNewer(build[b].stamp, Contents(r))
    BY <1>6, <2>1 DEF ImagesInv, AgesInv
  <2>3. build[b].at = "copied" => NoNewer(build[b].copied, Contents(r))
    BY <2>1 DEF ImagesInv, AgesInv
  <2>4. NoNewer(build[b].stamp, Contents(r)')
    BY <1>2, <2>2, NewerStill DEF ImagesInv
  <2>5. build[b].at = "copied" => NoNewer(build[b].copied, Contents(r)')
    BY <1>2, <2>3, NewerStill DEF ImagesInv
  <2>6. Contents(r)' = Contents(build[b].request)'
    BY <1>3, <2>1 DEF Contents
  <2> QED
    BY <2>4, <2>5, <2>6
<1>7. AgesInv'
  BY <1>3, <1>5, <1>6 DEF ImagesInv, AgesInv, Contents
<1> QED
  BY <1>4, <1>7 DEF ImagesInv

LEMMA ImagesInvStep == ImagesInv /\ [ImagesNext]_imageVars => ImagesInv'
<1> SUFFICES ASSUME ImagesInv, [ImagesNext]_imageVars PROVE ImagesInv'
  OBVIOUS
<1>1. ASSUME NEW i \in images, RemoveDerived(i) PROVE ImagesInv'
  BY <1>1 DEF RemoveDerived, ImagesInv, ImageShapes, AgesInv, Contents
<1>2. CASE UNCHANGED imageVars
  BY <1>2 DEF imageVars, ImagesInv, ImageShapes, AgesInv, Contents
<1> QED
  BY <1>1, <1>2, EnsureStep, PrepareStep, BuildStep, ReplaceAssetStep DEF ImagesNext

\* Preset and Google images: an image that a creation uses again has been built from the
\* packages as they are on the disk now, whatever was replaced while it was built, since
\* packages only get newer.
THEOREM ReusedAreCurrent == ImagesSpec => ReusedImagesAreCurrent
<1> DEFINE Step == \A b \in Builds : build'[b] # build[b] /\ build'[b].answer = "reused"
                     => \E i \in images : /\ i.stamp = build'[b].stamp
                                          /\ i.from = Contents(build'[b].request)
<1>1. ASSUME ImagesInv, ImagesNext PROVE Step
  <2> SUFFICES ASSUME NEW b \in Builds, build'[b] # build[b], build'[b].answer = "reused"
               PROVE  \E i \in images : /\ i.stamp = build'[b].stamp
                                        /\ i.from = Contents(build'[b].request)
    OBVIOUS
  <2>1. ASSUME NEW c \in Builds, NEW answer \in {"failed", "built"}, Ends(c, answer) PROVE FALSE
    <3> DEFINE over == [NoBuild EXCEPT !.answer = answer]
    <3>1. over.answer = answer /\ build' = [build EXCEPT ![c] = over]
      BY <2>1, EndsFacts DEF Ends
    <3> HIDE DEF over
    <3> QED
      BY <1>1, <3>1 DEF ImagesInv, ImageShapes
  <2>2. ASSUME NEW c \in Builds, Prepare(c) PROVE FALSE
    <3> DEFINE with == [build[c] EXCEPT !.at = "copied", !.copied = Contents(build[c].request)]
    <3>1. build' = [build EXCEPT ![c] = with]
      BY <2>1, <2>2 DEF Prepare
    <3>2. with.answer = "none"
      BY <1>1, <2>2 DEF Prepare, ImagesInv, ImageShapes, BuildFields
    <3> HIDE DEF with
    <3> QED
      BY <1>1, <3>1, <3>2 DEF ImagesInv, ImageShapes
  <2>3. ASSUME NEW c \in Builds, Build(c) PROVE FALSE
    BY <2>1, <2>3 DEF Build
  <2>4. PICK c \in Builds : Ensure(c)
    BY <1>1, <2>2, <2>3 DEF ImagesNext, ReplaceAsset, RemoveDerived
  <2>5. PICK r \in Requests :
          build' = [build EXCEPT ![c] =
             IF ImageOf(StampOf(r)) # {}
             THEN [NoBuild EXCEPT !.answer = "reused", !.request = r, !.stamp = StampOf(r)]
             ELSE [NoBuild EXCEPT !.at = "stamped", !.request = r, !.stamp = StampOf(r)]]
    BY <2>1, <2>4 DEF Ensure
  <2> DEFINE begun == [NoBuild EXCEPT !.at = "stamped", !.request = r, !.stamp = StampOf(r)]
             again == [NoBuild EXCEPT !.answer = "reused", !.request = r, !.stamp = StampOf(r)]
  <2>6. begun.answer = "none" /\ again.request = r /\ again.stamp = StampOf(r)
    BY NoBuildFacts DEF BuildFields
  <2>7. build' = [build EXCEPT ![c] = IF ImageOf(StampOf(r)) # {} THEN again ELSE begun]
    BY <2>5
  <2> HIDE DEF begun, again
  <2>8. b = c /\ build'[b] = again /\ ImageOf(StampOf(r)) # {}
    BY <1>1, <2>6, <2>7 DEF ImagesInv, ImageShapes
  <2>9. PICK i \in images : i.stamp = StampOf(r)
    BY <2>8 DEF ImageOf
  <2>10. r \subseteq Assets /\ DOMAIN i.stamp = r
    BY <2>9 DEF Requests, StampOf, Contents
  <2>11. NoNewer(Contents(r), i.from) /\ NoNewer(i.from, Contents(r))
    BY <1>1, <2>9, <2>10 DEF ImagesInv, AgesInv, StampOf
  <2>12. i.from = Contents(r)
    BY <2>11 DEF NoNewer
  <2> QED
    BY <2>6, <2>8, <2>9, <2>12
<1>2. ImagesInv /\ [ImagesNext]_imageVars => [Step]_imageVars
  BY <1>1
<1> QED
  BY <1>2, ImagesInvInit, ImagesInvStep, PTL DEF ImagesSpec, ReusedImagesAreCurrent

\* The types of a build's locals: what it has so far are sets of packages as they were.
BuildTyped(c) ==
  /\ c.at \in {"idle", "stamped", "copied"}
  /\ c.request \subseteq Assets
  /\ c.answer \in {"none", "reused", "built", "failed"}
  /\ c.at \in {"stamped", "copied"} => c.stamp \in Stamps
  /\ c.at = "copied" => c.copied \in Stamps

ImageTypesInv ==
  /\ ImagesInv
  /\ \A i \in images : i.stamp \in Stamps /\ i.from \in Stamps
  /\ \A b \in Builds : BuildTyped(build[b])

LEMMA ImageTypesInit == ImagesInit => ImageTypesInv
<1>1. BuildTyped(NoBuild)
  BY DEF BuildTyped, NoBuild
<1> QED
  BY <1>1, ImagesInvInit DEF ImagesInit, ImageTypesInv

\* Packages that are there have versions.
LEMMA PresentTyped ==
  ASSUME ImageShapes, NEW r \in SUBSET Assets, \A a \in r : Present(a)
  PROVE  Contents(r) \in Stamps
<1>1. MaxEdition \in Nat
  BY ImagesAssumption
<1>2. \A a \in r : asset[a] \in Editions
  <2>1. \A n \in 0..MaxEdition : n # 0 => n \in 1..MaxEdition
    BY <1>1
  <2> QED
    BY <2>1 DEF ImageShapes, Present, Editions
<1> QED
  BY <1>2 DEF Contents, Stamps

LEMMA EndsTyped ==
  ASSUME NEW answer \in {"reused", "built", "failed"}
  PROVE  BuildTyped([NoBuild EXCEPT !.answer = answer])
BY DEF BuildTyped, NoBuild

LEMMA ImageTypesStep == ImageTypesInv /\ [ImagesNext]_imageVars => ImageTypesInv'
<1> SUFFICES ASSUME ImageTypesInv, [ImagesNext]_imageVars PROVE ImageTypesInv'
  OBVIOUS
<1>0. ImagesInv /\ ImagesInv' /\ ImageShapes
  BY ImagesInvStep DEF ImageTypesInv, ImagesInv
<1>a. ASSUME NEW b \in Builds, NEW c, BuildTyped(c), build' = [build EXCEPT ![b] = c]
      PROVE  \A d \in Builds : BuildTyped(build'[d])
  BY <1>0, <1>a DEF ImageTypesInv, ImageShapes
<1>1. ASSUME NEW b \in Builds, Ensure(b) PROVE ImageTypesInv'
  <2>1. PICK r \in Requests :
          \/ Ends(b, "failed")
          \/ /\ \A a \in r : Present(a)
             /\ build' = [build EXCEPT ![b] =
                  IF ImageOf(StampOf(r)) # {}
                  THEN [NoBuild EXCEPT !.answer = "reused", !.request = r, !.stamp = StampOf(r)]
                  ELSE [NoBuild EXCEPT !.at = "stamped", !.request = r, !.stamp = StampOf(r)]]
    BY <1>1 DEF Ensure
  <2>2. UNCHANGED <<asset, images>>
    BY <1>1 DEF Ensure
  <2>3. CASE Ends(b, "failed")
    BY <1>0, <1>a, <2>2, <2>3, EndsTyped DEF Ends, ImageTypesInv
  <2>4. CASE ~Ends(b, "failed")
    <3>1. StampOf(r) \in Stamps /\ r \subseteq Assets
      BY <1>0, <2>1, <2>4, PresentTyped DEF StampOf, Requests
    <3>2. BuildTyped([NoBuild EXCEPT !.answer = "reused", !.request = r, !.stamp = StampOf(r)])
      BY <3>1 DEF BuildTyped, NoBuild
    <3>3. BuildTyped([NoBuild EXCEPT !.at = "stamped", !.request = r, !.stamp = StampOf(r)])
      BY <3>1 DEF BuildTyped, NoBuild
    <3>4. PICK c : BuildTyped(c) /\ build' = [build EXCEPT ![b] = c]
      BY <2>1, <2>4, <3>2, <3>3
    <3> QED
      BY <1>0, <1>a, <2>2, <3>4 DEF ImageTypesInv
  <2> QED
    BY <2>3, <2>4
<1>2. ASSUME NEW b \in Builds, Prepare(b) PROVE ImageTypesInv'
  <2>1. UNCHANGED <<asset, images>> /\ build[b].at = "stamped"
    BY <1>2 DEF Prepare
  <2>2. CASE Ends(b, "failed")
    BY <1>0, <1>a, <2>1, <2>2, EndsTyped DEF Ends, ImageTypesInv
  <2>3. CASE ~Ends(b, "failed")
    <3>1. /\ \A a \in build[b].request : Present(a)
          /\ build' = [build EXCEPT ![b].at = "copied", ![b].copied = Contents(build[b].request)]
      BY <1>2, <2>3 DEF Prepare
    <3>2. BuildTyped(build[b]) /\ DOMAIN build[b] = BuildFields
      BY <1>0 DEF ImageTypesInv, ImageShapes
    <3>3. Contents(build[b].request) \in Stamps
      BY <1>0, <3>1, <3>2, PresentTyped DEF BuildTyped
    <3> DEFINE with == [build[b] EXCEPT !.at = "copied", !.copied = Contents(build[b].request)]
    <3>4. BuildTyped(with)
      BY <2>1, <3>2, <3>3 DEF BuildTyped, BuildFields
    <3>5. build' = [build EXCEPT ![b] = with]
      BY <3>1
    <3> HIDE DEF with
    <3> QED
      BY <1>0, <1>a, <2>1, <3>4, <3>5 DEF ImageTypesInv
  <2> QED
    BY <2>2, <2>3
<1>3. ASSUME NEW b \in Builds, Build(b) PROVE ImageTypesInv'
  <2>1. PICK answer \in {"failed", "built"} : Ends(b, answer)
    BY <1>3 DEF Build
  <2>2. \A d \in Builds : BuildTyped(build'[d])
    BY <1>a, <2>1, EndsTyped DEF Ends
  <2>3. build[b].at = "copied" /\ images' \subseteq images \cup {[stamp |-> build[b].stamp, from |-> build[b].copied]}
    BY <1>3 DEF Build
  <2>4. build[b].stamp \in Stamps /\ build[b].copied \in Stamps
    BY <2>3 DEF ImageTypesInv, BuildTyped
  <2>5. \A i \in images' : i.stamp \in Stamps /\ i.from \in Stamps
    BY <2>3, <2>4 DEF ImageTypesInv
  <2> QED
    BY <1>0, <2>2, <2>5 DEF ImageTypesInv
<1>4. ASSUME NEW a \in Assets, ReplaceAsset(a) PROVE ImageTypesInv'
  BY <1>0, <1>4 DEF ReplaceAsset, ImageTypesInv
<1>5. ASSUME NEW i \in images, RemoveDerived(i) PROVE ImageTypesInv'
  BY <1>0, <1>5 DEF RemoveDerived, ImageTypesInv
<1>6. CASE UNCHANGED imageVars
  BY <1>0, <1>6 DEF imageVars, ImageTypesInv
<1> QED
  BY <1>1, <1>2, <1>3, <1>4, <1>5, <1>6 DEF ImagesNext

\* The types of the packages, the derived images and the builds.
THEOREM ImageTypes == ImagesSpec => []ImagesTypeOK
<1>1. ImageTypesInv => ImagesTypeOK
  BY DEF ImageTypesInv, ImagesInv, ImageShapes, BuildTyped, ImagesTypeOK
<1> QED
  BY <1>1, ImageTypesInit, ImageTypesStep, PTL DEF ImagesSpec

-----------------------------------------------------------------------------
(* Clones: a clone gets no port of another instance.                       *)

CloneLocals ==
  [at : {"idle", "naming", "committing", "listing", "inspecting", "running", "booting", "replaying", "undoing"},
   source : Managed \cup {NoContainerName}, name : Managed \cup {NoContainerName},
   listed : SUBSET Managed, taken : SUBSET Ports, port : 0..LastPort, blind : BOOLEAN]

\* A clone that nothing has disturbed has listed every container that is there, and the
\* port it has chosen is in none of their bindings.
PortsInv ==
  \A c \in Clones : ~clone[c].blind =>
    /\ clone[c].at = "inspecting" => \A n \in Managed : Exists(n) => n \in clone[c].listed
    /\ clone[c].at = "running" => clone[c].port \notin Mapped

LifecycleInv ==
  /\ LifecycleTypeOK /\ PortsInv
  /\ \A c \in Clones : clone[c].at # "idle" => clone[c].name \in Managed

LEMMA NoCloneFacts == NoClone \in CloneLocals /\ NoClone.at = "idle" /\ ~NoClone.blind
BY LifecycleAssumption DEF NoClone, CloneLocals, Ports

LEMMA NoContainerFacts ==
  /\ NoContainer \in [status : {"none", "created", "running", "exited"}, port : 0..LastPort]
  /\ NoContainer.status = "none"
BY LifecycleAssumption DEF NoContainer

\* The port that is chosen is one that nothing shown or bound has, when one is left.
LEMMA ChosenPortFacts ==
  ASSUME NEW taken
  PROVE  /\ ChosenPort(taken) \in Ports
         /\ FreePorts(taken) # {} => ChosenPort(taken) \notin taken
<1>1. FreePorts(taken) \in SUBSET Nat /\ FreePorts(taken) \subseteq Ports \ taken
  BY LifecycleAssumption DEF FreePorts, Ports
<1>2. 1 \in Ports
  BY LifecycleAssumption DEF Ports
<1>3. CASE FreePorts(taken) = {}
  BY <1>2, <1>3 DEF ChosenPort
<1>4. CASE FreePorts(taken) # {}
  BY <1>1, <1>4, MinFacts DEF ChosenPort
<1> QED
  BY <1>3, <1>4

\* Where the only clone whose locals change is c, and no container comes, the others keep
\* what they have seen.
LEMMA OwnStep ==
  ASSUME LifecycleInv, NEW c \in Clones, NEW q \in CloneLocals, clone' = [clone EXCEPT ![c] = q],
         q.at # "idle" => q.name \in Managed,
         UNCHANGED container, volume' \subseteq Managed, image' \subseteq Managed,
         ~q.blind /\ q.at = "inspecting" => \A n \in Managed : Exists(n) => n \in q.listed,
         ~q.blind /\ q.at = "running" => q.port \notin Mapped
  PROVE  LifecycleInv'
BY DEF LifecycleInv, LifecycleTypeOK, PortsInv, CloneLocals, Exists, Mapped

\* Where no container comes and none changes its port, every clone's locals keep their worth.
LEMMA FewerContainers ==
  ASSUME LifecycleInv, UNCHANGED clone, volume' \subseteq Managed, image' \subseteq Managed,
         container' \in [Managed -> [status : {"none", "created", "running", "exited"}, port : 0..LastPort]],
         \A n \in Managed : container'[n].status # "none" => Exists(n) /\ container'[n].port = container[n].port
  PROVE  LifecycleInv'
<1>1. LifecycleTypeOK'
  BY DEF LifecycleInv, LifecycleTypeOK
<1>2. Mapped' \subseteq Mapped /\ \A n \in Managed : Exists(n)' => Exists(n)
  BY DEF Mapped, Exists
<1>3. PortsInv'
  BY <1>2 DEF LifecycleInv, PortsInv
<1> QED
  BY <1>1, <1>3 DEF LifecycleInv

\* Where every clone but one that is past its choice has been blinded, nothing is promised.
LEMMA BlindedStep ==
  ASSUME LifecycleInv, volume' \subseteq Managed, image' \subseteq Managed,
         container' \in [Managed -> [status : {"none", "created", "running", "exited"}, port : 0..LastPort]],
         clone' \in [Clones -> CloneLocals],
         \A c \in Clones : clone'[c].at # "idle" => clone'[c].name \in Managed,
         \A c \in Clones : clone'[c].at \in {"inspecting", "running"} => clone'[c].blind
  PROVE  LifecycleInv'
BY DEF LifecycleInv, LifecycleTypeOK, PortsInv, CloneLocals

LEMMA LifecycleInvInit == LifecycleInit => LifecycleInv
BY NoCloneFacts, NoContainerFacts DEF LifecycleInit, LifecycleInv, LifecycleTypeOK, PortsInv, CloneLocals

\* The steps of a clone.
LEMMA CloneInvStep == ASSUME LifecycleInv, NEW c \in Clones, CloneStep(c) PROVE LifecycleInv'
<1> DEFINE old == clone[c]
<1>0. /\ old \in CloneLocals /\ clone = [d \in Clones |-> clone[d]]
      /\ container \in [Managed -> [status : {"none", "created", "running", "exited"}, port : 0..LastPort]]
      /\ volume \subseteq Managed /\ image \subseteq Managed
      /\ old.at # "idle" => old.name \in Managed
  BY DEF LifecycleInv, LifecycleTypeOK, CloneLocals
<1>1. CASE BeginClone(c)
  <2>1. PICK s, n \in Managed :
          clone' = [clone EXCEPT ![c] = [NoClone EXCEPT !.at = "naming", !.source = s, !.name = n]]
    BY <1>1 DEF BeginClone
  <2> DEFINE q == [NoClone EXCEPT !.at = "naming", !.source = s, !.name = n]
  <2>2. q \in CloneLocals /\ q.at = "naming" /\ q.name \in Managed
    BY NoCloneFacts DEF CloneLocals
  <2>3. clone' = [clone EXCEPT ![c] = q]
    BY <2>1
  <2> HIDE DEF q
  <2> QED
    BY <1>0, <1>1, <2>2, <2>3, OwnStep DEF BeginClone
<1>2. CASE CheckName(c)
  <2> DEFINE on    == [old EXCEPT !.at = "committing"]
             blind == [old EXCEPT !.at = "committing", !.blind = TRUE]
  <2>1. /\ on \in CloneLocals /\ on.at = "committing" /\ on.name = old.name
        /\ blind \in CloneLocals /\ blind.at = "committing" /\ blind.name = old.name
    BY <1>0 DEF CloneLocals
  <2>2. \E q \in {on, blind, NoClone} : clone' = [clone EXCEPT ![c] = q]
    BY <1>2 DEF CheckName, Moves, Finish
  <2> HIDE DEF on, blind
  <2> QED
    BY <1>0, <1>2, <2>1, <2>2, OwnStep, NoCloneFacts DEF CheckName
<1>3. CASE Commit(c)
  <2> DEFINE on == [old EXCEPT !.at = "listing"]
  <2>1. on \in CloneLocals /\ on.at = "listing" /\ on.name = old.name
    BY <1>0 DEF CloneLocals
  <2>2. \/ Exists(old.source) /\ clone' = [clone EXCEPT ![c] = on]
              /\ image' = image \cup {old.name} /\ volume' \in {volume, volume \cup {old.name}}
        \/ clone' = [clone EXCEPT ![c] = NoClone] /\ UNCHANGED <<image, volume>>
    BY <1>3 DEF Commit, Moves, Finish
  <2>3. old.at = "committing" /\ UNCHANGED container
    BY <1>3 DEF Commit
  <2>4. volume' \subseteq Managed /\ image' \subseteq Managed
    BY <1>0, <2>2, <2>3
  <2> HIDE DEF on
  <2> QED
    BY <1>0, <2>1, <2>2, <2>3, <2>4, OwnStep, NoCloneFacts
<1>4. CASE ListForPorts(c)
  <2> DEFINE seen  == [old EXCEPT !.at = "inspecting", !.listed = {n \in Managed : Exists(n)},
                                  !.taken = {p \in Ports : Bound(p)}]
             blind == [old EXCEPT !.at = "inspecting", !.listed = {}, !.blind = TRUE]
  <2>1. /\ seen \in CloneLocals /\ \A n \in Managed : Exists(n) => n \in seen.listed
        /\ seen.at = "inspecting" /\ seen.name = old.name
    BY <1>0 DEF CloneLocals
  <2>2. blind \in CloneLocals /\ blind.blind /\ blind.name = old.name
    BY <1>0 DEF CloneLocals
  <2>3. \E q \in {seen, blind} : clone' = [clone EXCEPT ![c] = q]
    BY <1>4 DEF ListForPorts
  <2> HIDE DEF seen, blind
  <2> QED
    BY <1>0, <1>4, <2>1, <2>2, <2>3, OwnStep DEF ListForPorts
<1>5. CASE InspectStopped(c)
  <2>1. PICK works \in {\A n \in old.listed : Exists(n), FALSE} :
          LET taken == old.taken \cup (IF works THEN BindingsOf(c) ELSE {})
          IN clone' = [clone EXCEPT ![c].at = "running", ![c].taken = {}, ![c].listed = {},
                                    ![c].port = ChosenPort(taken),
                                    ![c].blind = @ \/ ~works \/ FreePorts(taken) = {}]
    BY <1>5 DEF InspectStopped
  <2> DEFINE taken == old.taken \cup (IF works THEN BindingsOf(c) ELSE {})
             lost  == old.blind \/ ~works \/ FreePorts(taken) = {}
             q == [old EXCEPT !.at = "running", !.taken = {}, !.listed = {}, !.port = ChosenPort(taken),
                              !.blind = lost]
  <2>2. clone' = [clone EXCEPT ![c] = q]
    BY <1>0, <2>1
  <2>3. ChosenPort(taken) \in 0..LastPort /\ (FreePorts(taken) # {} => ChosenPort(taken) \notin taken)
    BY ChosenPortFacts, LifecycleAssumption DEF Ports
  <2>4. lost \in BOOLEAN
    OBVIOUS
  <2>5. ~lost => Mapped \subseteq taken
    BY <1>5 DEF InspectStopped, BindingsOf, Mapped, LifecycleInv, PortsInv
  <2> HIDE DEF taken, lost
  <2>6. q \in CloneLocals /\ q.at = "running" /\ q.port = ChosenPort(taken) /\ q.blind = lost
        /\ q.name = old.name
    BY <1>0, <2>3, <2>4 DEF CloneLocals
  <2>7. ~lost => FreePorts(taken) # {}
    BY DEF lost
  <2> HIDE DEF q
  <2> QED
    <3>1. ~q.blind => q.port \notin Mapped
      BY <2>3, <2>5, <2>6, <2>7
    <3>2. UNCHANGED <<container, volume, image>> /\ old.at = "inspecting"
      BY <1>5 DEF InspectStopped
    <3> QED
      BY <1>0, <2>2, <2>6, <3>1, <3>2, OwnStep
<1>6. CASE RunClone(c)
  <2> DEFINE past(at) == [old EXCEPT !.at = at]
             new == [status |-> IF Bound(old.port) THEN "created" ELSE "running", port |-> old.port]
  <2>0. \A at \in {"booting", "undoing"} :
          past(at) \in CloneLocals /\ past(at).at = at /\ past(at).name = old.name
    BY <1>0 DEF CloneLocals
  <2>1. old.at = "running" /\ UNCHANGED image
    BY <1>6 DEF RunClone
  <2>2. CASE Moves(c, "undoing") /\ UNCHANGED <<container, volume>>
    <3>1. clone' = [clone EXCEPT ![c] = past("undoing")]
      BY <2>2 DEF Moves
    <3> HIDE DEF past
    <3> QED
      BY <1>0, <2>0, <2>1, <2>2, <3>1, OwnStep
  <2>3. CASE ~(Moves(c, "undoing") /\ UNCHANGED <<container, volume>>)
    <3>1. PICK at \in {"booting", "undoing"} :
            clone' = [d \in Clones |->
              IF d = c THEN past(at)
              ELSE IF clone[d].at # "idle" THEN [clone[d] EXCEPT !.blind = TRUE] ELSE clone[d]]
      BY <1>6, <2>3 DEF RunClone
    <3>2. container' = [container EXCEPT ![old.name] = new] /\ volume' = volume \cup {old.name}
      BY <1>6, <2>3 DEF RunClone
    <3>3. \A d \in Clones : /\ [clone[d] EXCEPT !.blind = TRUE] \in CloneLocals
                            /\ [clone[d] EXCEPT !.blind = TRUE].blind
                            /\ [clone[d] EXCEPT !.blind = TRUE].name = clone[d].name
      BY DEF LifecycleInv, LifecycleTypeOK, CloneLocals
    <3>4. new \in [status : {"none", "created", "running", "exited"}, port : 0..LastPort]
      BY <1>0 DEF CloneLocals
    <3> HIDE DEF past, new
    <3>5. clone' \in [Clones -> CloneLocals]
      BY <1>0, <2>0, <3>1, <3>3 DEF LifecycleInv, LifecycleTypeOK, CloneLocals
    <3>6. \A d \in Clones : clone'[d].at # "idle" => clone'[d].name \in Managed
      BY <1>0, <2>0, <2>1, <3>1, <3>3 DEF LifecycleInv
    <3>7. \A d \in Clones : clone'[d].at \in {"inspecting", "running"} => clone'[d].blind
      BY <2>0, <3>1, <3>3
    <3> QED
      BY <1>0, <2>1, <3>2, <3>4, <3>5, <3>6, <3>7, BlindedStep
  <2> QED
    BY <2>2, <2>3
<1>7. CASE BootClone(c)
  <2> DEFINE on == [old EXCEPT !.at = "replaying"]
  <2>1. on \in CloneLocals /\ on.at = "replaying" /\ on.name = old.name
    BY <1>0 DEF CloneLocals
  <2>2. \E q \in {on, NoClone} : clone' = [clone EXCEPT ![c] = q]
    BY <1>7 DEF BootClone, Moves, Finish
  <2> HIDE DEF on
  <2> QED
    BY <1>0, <1>7, <2>1, <2>2, OwnStep, NoCloneFacts DEF BootClone
<1>8. CASE Replay(c)
  BY <1>0, <1>8, OwnStep, NoCloneFacts DEF Replay, Finish
<1>9. CASE UndoClone(c)
  BY <1>0, <1>9, OwnStep, NoCloneFacts DEF UndoClone, Finish
<1> QED
  BY <1>1, <1>2, <1>3, <1>4, <1>5, <1>6, <1>7, <1>8, <1>9 DEF CloneStep

\* The clones under way are told that a container has come or changed its name.
LEMMA BlindsFacts ==
  ASSUME LifecycleInv, Blinds(Clones)
  PROVE  /\ clone' \in [Clones -> CloneLocals]
         /\ \A c \in Clones : clone'[c].at # "idle" => clone'[c].name \in Managed
         /\ \A c \in Clones : clone'[c].at = clone[c].at /\ (clone'[c].at # "idle" => clone'[c].blind)
<1>1. \A c \in Clones : clone[c] \in CloneLocals
  BY DEF LifecycleInv, LifecycleTypeOK, CloneLocals
<1>2. \A c \in Clones : LET q == [clone[c] EXCEPT !.blind = TRUE]
                        IN q \in CloneLocals /\ q.blind /\ q.at = clone[c].at /\ q.name = clone[c].name
  BY <1>1 DEF CloneLocals
<1>3. clone' = [c \in Clones |-> IF c \in Clones /\ clone[c].at # "idle"
                                 THEN [clone[c] EXCEPT !.blind = TRUE] ELSE clone[c]]
  BY DEF Blinds
<1> QED
  BY <1>1, <1>2, <1>3 DEF LifecycleInv

\* The single commands of the panel.
LEMMA ContainerInvStep ==
  ASSUME LifecycleInv, NEW n \in Managed,
         \/ StartContainer(n) \/ StopContainer(n) \/ RemoveContainer(n)
         \/ RemoveVolume(n) \/ RemoveImage(n)
         \/ \E m \in Managed : RenameContainer(n, m)
         \/ \E p \in Ports : CreateElsewhere(n, p)
  PROVE  LifecycleInv'
<1>0. /\ container \in [Managed -> [status : {"none", "created", "running", "exited"}, port : 0..LastPort]]
      /\ volume \subseteq Managed /\ image \subseteq Managed
  BY DEF LifecycleInv, LifecycleTypeOK
<1>1. CASE StartContainer(n)
  BY <1>0, <1>1, FewerContainers DEF StartContainer, BecomesStatus, Exists
<1>2. CASE StopContainer(n)
  BY <1>0, <1>2, FewerContainers DEF StopContainer, BecomesStatus, Exists, IsRunning
<1>3. CASE RemoveContainer(n)
  BY <1>0, <1>3, FewerContainers, NoContainerFacts DEF RemoveContainer, Exists
<1>4. CASE RemoveVolume(n) \/ RemoveImage(n)
  BY <1>0, <1>4, FewerContainers DEF RemoveVolume, RemoveImage, Exists
<1>5. ASSUME NEW m \in Managed, RenameContainer(n, m) PROVE LifecycleInv'
  <2>1. container' \in [Managed -> [status : {"none", "created", "running", "exited"}, port : 0..LastPort]]
    BY <1>0, <1>5, NoContainerFacts DEF RenameContainer
  <2> QED
    BY <1>0, <1>5, <2>1, BlindsFacts, BlindedStep DEF RenameContainer
<1>6. ASSUME NEW p \in Ports, CreateElsewhere(n, p) PROVE LifecycleInv'
  <2>1. container' \in [Managed -> [status : {"none", "created", "running", "exited"}, port : 0..LastPort]]
    BY <1>0, <1>6, LifecycleAssumption DEF CreateElsewhere, Ports
  <2> QED
    BY <1>0, <1>6, <2>1, BlindsFacts, BlindedStep DEF CreateElsewhere
<1> QED
  BY <1>1, <1>2, <1>3, <1>4, <1>5, <1>6

LEMMA LifecycleInvStep == LifecycleInv /\ [LifecycleNext]_lifecycleVars => LifecycleInv'
<1>1. LifecycleInv /\ UNCHANGED lifecycleVars => LifecycleInv'
  BY DEF LifecycleInv, LifecycleTypeOK, PortsInv, Exists, Mapped, lifecycleVars
<1> QED
  BY <1>1, CloneInvStep, ContainerInvStep DEF LifecycleNext

\* clone_container: the port of a clone is that of no other instance, also of one that is
\* stopped, whatever else is started, stopped and removed while the clone is under way.
THEOREM ClonesGetOwnPorts == LifecycleSpec => ClonesGetPortsOfTheirOwn
<1> DEFINE Step == \A c \in Clones :
       LET n == clone[c].name IN
       /\ clone[c].at = "running" /\ clone'[c].at # "running" /\ ~clone[c].blind
       /\ ~Exists(n) /\ container'[n].status # "none"
       => container'[n].port \notin Mapped
<1>1. ASSUME LifecycleInv, LifecycleNext PROVE Step
  <2> SUFFICES ASSUME NEW c \in Clones, clone[c].at = "running", clone'[c].at # "running",
                      ~clone[c].blind, ~Exists(clone[c].name), container'[clone[c].name].status # "none"
               PROVE  container'[clone[c].name].port \notin Mapped
    OBVIOUS
  <2>0. clone[c].name \in Managed /\ clone[c].port \notin Mapped
    BY <1>1 DEF LifecycleInv, PortsInv
  <2>1. CASE RunClone(c)
    BY <1>1, <2>0, <2>1 DEF RunClone, LifecycleInv, LifecycleTypeOK, Exists
  <2>2. ASSUME ~RunClone(c) PROVE FALSE
    <3>0. clone = [d \in Clones |-> clone[d]] /\ clone[c] \in CloneLocals
      BY <1>1 DEF LifecycleInv, LifecycleTypeOK, CloneLocals
    <3>1. ASSUME NEW d \in Clones, CloneStep(d) PROVE FALSE
      <4>1. CASE d = c
        BY <2>2, <3>1, <4>1 DEF CloneStep, BeginClone, CheckName, Commit, ListForPorts, InspectStopped,
          BootClone, Replay, UndoClone
      <4>2. CASE d # c /\ ~RunClone(d)
        <5>1. clone'[c] = clone[c]
          <6>1. CASE BeginClone(d) \/ Replay(d) \/ UndoClone(d) \/ BootClone(d)
            BY <3>0, <4>2, <6>1 DEF BeginClone, Replay, UndoClone, BootClone, Moves, Finish
          <6>2. CASE CheckName(d) \/ Commit(d)
            BY <3>0, <4>2, <6>2 DEF CheckName, Commit, Moves, Finish
          <6>3. CASE ListForPorts(d)
            BY <3>0, <4>2, <6>3 DEF ListForPorts
          <6>4. CASE InspectStopped(d)
            BY <3>0, <4>2, <6>4 DEF InspectStopped
          <6> QED
            BY <3>1, <4>2, <6>1, <6>2, <6>3, <6>4 DEF CloneStep
        <5> QED
          BY <5>1
      <4>3. CASE d # c /\ RunClone(d)
        BY <3>0, <4>3 DEF RunClone, Moves, CloneLocals
      <4> QED
        BY <4>1, <4>2, <4>3
    <3>2. ASSUME Blinds(Clones) PROVE FALSE
      BY <1>1, <3>2, BlindsFacts
    <3> QED
      BY <1>1, <3>1, <3>2 DEF LifecycleNext, StartContainer, StopContainer, RemoveContainer, RemoveVolume,
        RemoveImage, RenameContainer, CreateElsewhere
  <2> QED
    BY <2>1, <2>2
<1>2. LifecycleInv /\ [LifecycleNext]_lifecycleVars => [Step]_lifecycleVars
  BY <1>1
<1> QED
  BY <1>2, LifecycleInvInit, LifecycleInvStep, PTL DEF LifecycleSpec, ClonesGetPortsOfTheirOwn

-----------------------------------------------------------------------------
(* The profiles of devices, for all profiles, phones, callers and bounds.     *)

Warnings == {"hooks", "readme", "chmod", "traces", "traces skipped"}
CallRecord == [op : DeviceCalls \cup LibraryCalls \cup {"none"}, at : Places, ok : BOOLEAN,
               look : Looks \cup {Absent}, id : Ids, warned : SUBSET Warnings, alone : BOOLEAN,
               before : Looks \cup {Absent}]
ScriptRecord == {<< >>} \cup ({"swap", "reapply"} \X (1..3))

\* The places a command comes by, and what it was given.
Way(t) ==
  /\ t.op = "swap" => t.at \in {"swap conf", "script", "in script", "hooks", "traces", "done"} /\ t.look \in Looks
  /\ t.op = "reapply" => t.at \in {"script", "in script", "done"} /\ t.look = Born
  /\ t.op = "push" => t.at \in {"hooks", "done"} /\ t.look \in Looks
  /\ t.op = "seed" => t.at \in {"list", "readme", "chmod", "touch", "done"} /\ t.look \in Looks
  /\ t.op = "native" => t.at \in {"copy", "install", "done"}
  /\ t.op = "capture" => t.at \in {"read", "choose", "write", "done"} /\ t.look \in Phones
  /\ t.op = "delete" => t.at \in {"write", "done"}
  /\ t.op = "none" => t.at = "done" /\ ~t.alone

CallTypes ==
  /\ call \in [Callers -> CallRecord] /\ script \in [Callers -> ScriptRecord]
  /\ \A c \in Callers : Way(call[c])

ShownTypes ==
  /\ containerUp \in BOOLEAN /\ tool \in BOOLEAN /\ label \in {"true", "false", "none"}
  /\ conf \in Looks \cup {Absent} /\ hooks \in Looks \cup {Absent}
  /\ props \in [1..3 -> Looks \cup {Absent}] /\ traces \in [{"name", "id"} -> Looks \cup {Absent}]
  /\ native \in {"none", "broken", "written", "live"}
  /\ usage \in [list : Looks \cup {Absent}, readable : BOOLEAN, dated : Looks \cup {Absent}]
  /\ calls \in 0..MaxCalls /\ stops \in 0..MaxStops

\* Beside a command that is alone there is no other of its kind, and no script of another.
Solo ==
  \A c, d \in Callers : c # d /\ call[c].alone =>
     /\ call[c].op \in DeviceCalls => call[d].op \notin DeviceCalls /\ script[d] = << >>
     /\ call[c].op \in LibraryCalls => call[d].op \notin LibraryCalls

\* How far a command on the device has come, when it is alone: s is its script.
Shows(look) == tool => \A p \in 1..3 : props[p] = look
HooksAreAsTold(t) == hooks = IF "hooks" \in t.warned THEN t.before ELSE t.look
SwitchIsAt(t) ==
  /\ t.at \in {"swap conf", "script", "in script", "hooks"} => hooks = t.before /\ "hooks" \notin t.warned
  /\ t.at \in {"script", "in script"} => conf = t.look
  /\ t.at = "traces" \/ (t.at = "done" /\ t.ok) => HooksAreAsTold(t)
  /\ t.at = "done" /\ ~t.ok => hooks = t.before
ScriptIsAt(t, s) ==
  /\ t.at = "in script" =>
       /\ s = << >> => Shows(t.look)
       /\ s # << >> => s[1] = t.op /\ \A p \in 1..3 : p < s[2] => props[p] = t.look
  /\ t.at \in {"hooks", "traces"} \/ (t.at = "done" /\ t.ok) => s = << >> /\ Shows(t.look)
SeedIsAt(t) ==
  /\ t.at \in {"readme", "chmod", "touch", "done"} => usage.list = t.look
  /\ t.at \in {"touch", "done"} /\ "chmod" \notin t.warned => usage.readable
  /\ t.at = "done" => usage.dated = t.look
DeviceTruth(t, s) ==
  /\ t.at # "done" => ~t.ok
  /\ t.op = "swap" => SwitchIsAt(t)
  /\ t.op \in {"swap", "reapply"} => ScriptIsAt(t, s)
  /\ t.at = "done" /\ t.op # "swap" => t.ok
  /\ t.op = "push" /\ t.at = "done" => hooks = t.look
  /\ t.op = "seed" => SeedIsAt(t)
  /\ t.op = "native" /\ t.at = "done" => native = "written"
LibraryTruth(t) ==
  /\ t.op = "capture" /\ t.at = "done" => FileOf(t.id) = {<<t.id, t.look>>}
  /\ t.op = "delete" /\ t.at = "done" => FileOf(t.id) = {}

DeviceInv == Solo /\ \A c \in Callers : call[c].alone /\ call[c].op \in DeviceCalls => DeviceTruth(call[c], script[c])

\* What a capture is about to write is no built-in profile's, and there are no more
\* files than captures.
Captures == {c \in Callers : call[c].op = "capture" /\ call[c].at # "done"}
LibraryInv ==
  /\ files \subseteq Ids \X (Phones \cup {Torn})
  /\ \A i \in BuiltinIds : FileOf(i) = {}
  /\ \A c \in Captures : call[c].at = "write" => call[c].id \notin BuiltinIds
  /\ \A c \in Callers : call[c].alone => LibraryTruth(call[c])
  /\ IsFiniteSet(files) /\ IsFiniteSet(Captures) /\ Cardinality(files) + Cardinality(Captures) <= calls

ProfileInv == CallTypes /\ ShownTypes /\ DeviceInv /\ LibraryInv

LEMMA ConfDomain == DOMAIN ConfProps = 1..3 /\ Len(ConfProps) = 3
BY DEF ConfProps

LEMMA NoCallFacts ==
  NoCall \in CallRecord /\ Way(NoCall) /\ NoCall.op = "none" /\ NoCall.at = "done" /\ ~NoCall.alone
<1>1. <<NewBase, 1>> \in Ids
  BY ProfileAssumption DEF Ids
<1> QED
  BY <1>1 DEF NoCall, CallRecord, Way, Places, Looks

\* What the helpers that move a command on make of its record.
Kept(e, t) == e.op = t.op /\ e.look = t.look /\ e.id = t.id /\ e.alone = t.alone /\ e.before = t.before
Others(c) == \A d \in Callers \ {c} : call'[d] = call[d]
Moved(c, at, extra) ==
  /\ call' \in [Callers -> CallRecord] /\ Others(c) /\ Kept(call'[c], call[c])
  /\ call'[c].at = at /\ call'[c].ok = call[c].ok /\ call'[c].warned = call[c].warned \cup extra
CallEnded(c, ok, extra) ==
  /\ call' \in [Callers -> CallRecord] /\ Others(c)
  /\ \/ call'[c] = NoCall
     \/ /\ call[c].alone /\ (ok \/ call[c].op = "swap") /\ Kept(call'[c], call[c])
        /\ call'[c].at = "done" /\ call'[c].ok = ok /\ call'[c].warned = call[c].warned \cup extra

LEMMA MovedFacts ==
  ASSUME CallTypes, NEW c \in Callers, NEW at \in Places
  PROVE  /\ GoOn(c, at) => Moved(c, at, {})
         /\ \A layer \in Warnings : Warn(c, layer, at) => Moved(c, at, {layer})
<1> DEFINE t == call[c]
<1>1. t \in CallRecord
  BY DEF CallTypes
<1>2. \A x \in SUBSET Warnings : LET e == [t EXCEPT !.at = at, !.warned = x] IN
        /\ e \in CallRecord /\ Kept(e, t) /\ e.at = at /\ e.ok = t.ok /\ e.warned = x
  BY <1>1 DEF CallRecord, Kept
<1>3. t.warned \in SUBSET Warnings
  BY <1>1 DEF CallRecord
<1>4. LET e == [t EXCEPT !.at = at] IN
        /\ e \in CallRecord /\ Kept(e, t) /\ e.at = at /\ e.ok = t.ok /\ e.warned = t.warned
  BY <1>1 DEF CallRecord, Kept
<1>5. ASSUME GoOn(c, at) PROVE Moved(c, at, {})
  BY <1>4, <1>5 DEF GoOn, Moved, CallTypes, Others
<1>6. ASSUME NEW layer \in Warnings, Warn(c, layer, at) PROVE Moved(c, at, {layer})
  <2>1. t.warned \cup {layer} \in SUBSET Warnings
    BY <1>3
  <2>2. call' = [call EXCEPT ![c] = [t EXCEPT !.at = at, !.warned = t.warned \cup {layer}]]
    BY <1>6 DEF Warn, CallTypes
  <2>3. call'[c] = [t EXCEPT !.at = at, !.warned = t.warned \cup {layer}]
    BY <2>2 DEF CallTypes
  <2> QED
    BY <1>2, <2>1, <2>2, <2>3 DEF Moved, CallTypes, Others
<1> QED
  BY <1>5, <1>6

LEMMA EndedFacts ==
  ASSUME CallTypes, NEW c \in Callers, NEW ok \in BOOLEAN, NEW extra \in SUBSET Warnings,
         call' = [call EXCEPT ![c] = Told(@, ok, extra)]
  PROVE  CallEnded(c, ok, extra)
<1> DEFINE t == call[c]
<1>1. t \in CallRecord /\ t.warned \in SUBSET Warnings
  BY DEF CallTypes, CallRecord
<1>2. \A x \in SUBSET Warnings : LET e == [t EXCEPT !.at = "done", !.ok = ok, !.warned = x] IN
        /\ e \in CallRecord /\ Kept(e, t) /\ e.at = "done" /\ e.ok = ok /\ e.warned = x
  BY <1>1 DEF CallRecord, Kept, Places
<1>3. t.warned \cup extra \in SUBSET Warnings
  BY <1>1
<1>4. call' \in [Callers -> CallRecord] /\ Others(c) /\ call'[c] = Told(t, ok, extra)
  <2>1. Told(t, ok, extra) \in CallRecord
    BY <1>2, <1>3, NoCallFacts DEF Told
  <2> QED
    BY <2>1 DEF CallTypes, Others
<1> QED
  BY <1>2, <1>3, <1>4 DEF Told, CallEnded

\* A step of a command on the device keeps the invariant, if what the command knows
\* of the device, when it is alone, is still so.
LEMMA DeviceMoves ==
  ASSUME ProfileInv, NEW c \in Callers, call[c].op \in DeviceCalls, Others(c),
         call' \in [Callers -> CallRecord], script' \in [Callers -> ScriptRecord],
         \A d \in Callers \ {c} : script'[d] = script[d],
         call'[c] = NoCall \/ (Kept(call'[c], call[c]) /\ Way(call'[c])),
         ShownTypes', UNCHANGED <<files, calls>>,
         call[c].alone /\ call'[c].alone => DeviceTruth(call[c], script[c])'
  PROVE  ProfileInv'
<1> USE DEF ProfileInv
<1>1. call'[c].op \in DeviceCalls \cup {"none"} /\ (call'[c].alone => call[c].alone /\ call'[c].op = call[c].op)
  BY NoCallFacts DEF Kept
<1>2. CallTypes'
  BY NoCallFacts DEF CallTypes, Others
<1>3. Solo'
  BY <1>1 DEF DeviceInv, Solo, Others, DeviceCalls, LibraryCalls
<1>4. \A d \in Callers : (call[d].alone /\ call[d].op \in DeviceCalls)' => d = c
  BY <1>1, <1>3 DEF DeviceInv, Solo, Others, DeviceCalls, LibraryCalls
<1>5. DeviceInv'
  BY <1>1, <1>3, <1>4 DEF DeviceInv
<1>6. Captures' = Captures /\ \A d \in Captures : call'[d] = call[d]
  BY <1>1 DEF Captures, Others, DeviceCalls
<1>7. \A d \in Callers : call'[d].alone => LibraryTruth(call[d])'
  BY <1>1 DEF LibraryInv, LibraryTruth, Others, DeviceCalls, FileOf
<1>8. LibraryInv'
  BY <1>6, <1>7 DEF LibraryInv, FileOf
<1> QED
  BY <1>2, <1>5, <1>8

Rest == <<containerUp, tool, label, calls, stops>>

\* The hypotheses of DeviceMoves from what the helpers make.
LEMMA StepsOn ==
  ASSUME ProfileInv, NEW c \in Callers, call[c].op \in DeviceCalls, UNCHANGED <<files, Rest>>,
         NEW at \in Places, NEW extra \in SUBSET Warnings, Moved(c, at, extra), Way(call[c])',
         script' \in [Callers -> ScriptRecord], \A d \in Callers \ {c} : script'[d] = script[d],
         ShownTypes', call[c].alone => DeviceTruth(call[c], script[c])'
  PROVE  ProfileInv'
BY DeviceMoves DEF Moved, Rest

LEMMA StepEnds ==
  ASSUME ProfileInv, NEW c \in Callers, call[c].op \in DeviceCalls, UNCHANGED <<files, Rest>>,
         NEW ok \in BOOLEAN, NEW extra \in SUBSET Warnings, CallEnded(c, ok, extra),
         UNCHANGED script, ShownTypes',
         /\ call[c].alone /\ (ok \/ call[c].op = "swap") /\ Kept(call[c]', call[c])
         /\ call'[c].at = "done" /\ call'[c].ok = ok /\ call'[c].warned = call[c].warned \cup extra
         => DeviceTruth(call[c], script[c])'
  PROVE  ProfileInv'
<1> USE DEF ProfileInv, CallTypes
<1>1. call'[c] = NoCall \/ (Kept(call'[c], call[c]) /\ Way(call'[c]))
  <2>1. Way(call[c]) /\ call[c].op \in DeviceCalls
    OBVIOUS
  <2>2. ASSUME Kept(call'[c], call[c]), call'[c].at = "done" PROVE Way(call'[c])
    BY <2>1, <2>2 DEF Way, Kept, DeviceCalls
  <2> QED
    BY <2>2 DEF CallEnded
<1>2. ASSUME call[c].alone, call'[c].alone PROVE DeviceTruth(call[c], script[c])'
  BY <1>2, NoCallFacts DEF CallEnded
<1> QED
  BY <1>1, <1>2, DeviceMoves DEF CallEnded, Rest

LEMMA WriteConfStep ==
  ASSUME ProfileInv, NEW c \in Callers, UNCHANGED Rest, WriteConf(c)
  PROVE  ProfileInv'
<1> USE DEF ProfileInv, CallTypes
<1>1. call[c].op = "swap" /\ call[c].at = "swap conf" /\ call[c].look \in Looks
  BY DEF WriteConf, At, Way, CallRecord, DeviceCalls, LibraryCalls
<1>2. Moved(c, "script", {})
  BY MovedFacts DEF WriteConf, Places
<1>3. Way(call[c])'
  BY <1>1, <1>2 DEF Way, Moved, Kept
<1>4. ShownTypes'
  BY <1>1 DEF WriteConf, ShownTypes, Rest
<1>5. ASSUME call[c].alone PROVE DeviceTruth(call[c], script[c])'
  <2>1. DeviceTruth(call[c], script[c])
    BY <1>1, <1>5 DEF DeviceInv, DeviceCalls
  <2> QED
    BY <1>1, <1>2, <2>1 DEF DeviceTruth, SwitchIsAt, ScriptIsAt, Moved, Kept, WriteConf
<1>6. UNCHANGED <<files, script>> /\ {} \in SUBSET Warnings /\ "script" \in Places /\ call[c].op \in DeviceCalls
  BY <1>1 DEF WriteConf, DeviceCalls, Places
<1> QED
  BY <1>2, <1>3, <1>4, <1>5, <1>6, StepsOn

LEMMA StartScriptStep ==
  ASSUME ProfileInv, NEW c \in Callers, UNCHANGED Rest, StartScript(c)
  PROVE  ProfileInv'
<1> USE DEF ProfileInv, CallTypes
<1>1. call[c].op \in {"swap", "reapply"} /\ call[c].at = "script"
  BY DEF StartScript, At, Way, CallRecord, DeviceCalls, LibraryCalls
<1>2. Moved(c, "in script", {})
  BY MovedFacts DEF StartScript, Places
<1>3. Way(call[c])'
  BY <1>1, <1>2 DEF Way, Moved, Kept
<1>4. ShownTypes'
  BY DEF StartScript, ShownTypes, Rest, shownVars
<1>5. /\ script' \in [Callers -> ScriptRecord] /\ \A d \in Callers \ {c} : script'[d] = script[d]
      /\ script'[c] = IF tool THEN <<call[c].op, 1>> ELSE << >>
  <2>1. <<call[c].op, 1>> \in ScriptRecord /\ << >> \in ScriptRecord
    BY <1>1 DEF ScriptRecord
  <2> QED
    BY <2>1 DEF StartScript
<1>6. ASSUME call[c].alone PROVE DeviceTruth(call[c], script[c])'
  <2>1. DeviceTruth(call[c], script[c])
    BY <1>1, <1>6 DEF DeviceInv, DeviceCalls
  <2>2. tool => script'[c] # << >> /\ script'[c][1] = call[c].op /\ script'[c][2] = 1
    BY <1>1, <1>5
  <2> QED
    <3>1. UNCHANGED <<conf, hooks, props, tool>>
      BY DEF StartScript, shownVars, Rest
    <3>2. ScriptIsAt(call[c], script[c])'
      <4>1. call'[c].at = "in script" /\ call'[c].op = call[c].op
        BY <1>2 DEF Moved, Kept
      <4>2. CASE tool
        <5>1. \A p \in 1..3 : ~(p < script'[c][2])
          BY <2>2, <4>2
        <5> QED
          BY <2>2, <4>1, <4>2, <5>1 DEF ScriptIsAt
      <4>3. CASE ~tool
        BY <1>5, <3>1, <4>1, <4>3 DEF ScriptIsAt, Shows
      <4> QED
        BY <4>2, <4>3
    <3>3. call[c].op = "swap" => SwitchIsAt(call[c])'
      BY <1>1, <1>2, <2>1, <3>1 DEF DeviceTruth, SwitchIsAt, HooksAreAsTold, Moved, Kept
    <3> QED
      BY <1>1, <1>2, <2>1, <3>2, <3>3 DEF DeviceTruth, Moved, Kept
<1>7. UNCHANGED files /\ {} \in SUBSET Warnings /\ "in script" \in Places /\ call[c].op \in DeviceCalls
  BY <1>1 DEF StartScript, DeviceCalls, Places
<1> QED
  BY <1>2, <1>3, <1>4, <1>5, <1>6, <1>7, StepsOn

LEMMA ScriptAnsweredStep ==
  ASSUME ProfileInv, NEW c \in Callers, UNCHANGED Rest, ScriptAnswered(c)
  PROVE  ProfileInv'
<1> USE DEF ProfileInv, CallTypes
<1>1. call[c].op \in {"swap", "reapply"} /\ call[c].at = "in script" /\ script[c] = << >>
  BY DEF ScriptAnswered, At, Way, CallRecord, DeviceCalls, LibraryCalls
<1>2. ShownTypes'
  BY DEF ScriptAnswered, ShownTypes, Rest, shownVars
<1>3. call[c].alone => DeviceTruth(call[c], script[c])
  BY <1>1 DEF DeviceInv, DeviceCalls
<1>4. CASE call[c].op = "swap"
  <2>1. Moved(c, "hooks", {})
    BY <1>4, MovedFacts DEF ScriptAnswered, Places
  <2>2. Way(call[c])'
    BY <1>4, <2>1 DEF Way, Moved, Kept
  <2>3. call[c].alone => DeviceTruth(call[c], script[c])'
    BY <1>1, <1>3, <1>4, <2>1 DEF DeviceTruth, SwitchIsAt, ScriptIsAt, Shows, Moved, Kept, ScriptAnswered, shownVars, Rest
  <2>4. UNCHANGED <<files, script>> /\ {} \in SUBSET Warnings /\ "hooks" \in Places /\ call[c].op \in DeviceCalls
    BY <1>4 DEF ScriptAnswered, DeviceCalls, Places
  <2> QED
    BY <1>2, <2>1, <2>2, <2>3, <2>4, StepsOn
<1>5. CASE call[c].op = "reapply"
  <2>1. CallEnded(c, TRUE, {})
    BY <1>5, EndedFacts DEF ScriptAnswered, CallEnds
  <2>2. ASSUME call[c].alone, Kept(call[c]', call[c]), call'[c].at = "done", call'[c].ok = TRUE
        PROVE  DeviceTruth(call[c], script[c])'
    BY <1>1, <1>3, <1>5, <2>2 DEF DeviceTruth, ScriptIsAt, Shows, Kept, ScriptAnswered, shownVars, Rest
  <2> QED
    BY <1>1, <1>2, <2>1, <2>2, StepEnds DEF ScriptAnswered, DeviceCalls
<1> QED
  BY <1>1, <1>4, <1>5

\* The properties that a script sets are set one after the other, and nobody else sets one.
LEMMA ScriptStepStep ==
  ASSUME ProfileInv, NEW c \in Callers, UNCHANGED Rest, ScriptStep(c)
  PROVE  ProfileInv'
<1> USE DEF ProfileInv, CallTypes
<1> DEFINE s == script[c]
           shownLook == IF s[1] = "swap" THEN conf ELSE Born
<1>1. s # << >> /\ s[1] \in {"swap", "reapply"} /\ s[2] \in 1..3
  BY DEF ScriptStep, ScriptRecord
<1>2. props' = [props EXCEPT ![s[2]] = shownLook] /\ UNCHANGED <<files, conf, hooks, traces, usage, native, call>>
  BY DEF ScriptStep
<1>3. /\ script' \in [Callers -> ScriptRecord] /\ \A d \in Callers \ {c} : script'[d] = script[d]
      /\ s[2] = 3 => script'[c] = << >>
      /\ s[2] # 3 => script'[c] # << >> /\ script'[c][1] = s[1] /\ script'[c][2] = s[2] + 1
  <2>1. s[2] # 3 => <<s[1], s[2] + 1>> \in ScriptRecord /\ <<s[1], s[2] + 1>> # << >>
    BY <1>1 DEF ScriptRecord
  <2>2. << >> \in ScriptRecord
    BY DEF ScriptRecord
  <2>3. script' = [script EXCEPT ![c] = IF s[2] = 3 THEN << >> ELSE <<s[1], s[2] + 1>>]
    BY ConfDomain DEF ScriptStep
  <2>4. script'[c] = IF s[2] = 3 THEN << >> ELSE <<s[1], s[2] + 1>>
    BY <2>3
  <2> QED
    BY <1>1, <2>1, <2>2, <2>3, <2>4
<1>4. CallTypes'
  BY <1>2, <1>3 DEF Way
<1>5. shownLook \in Looks \cup {Absent}
  BY ProfileAssumption DEF ShownTypes, Looks
<1>6. props' \in [1..3 -> Looks \cup {Absent}] /\ \A p \in 1..3 : props'[p] = IF p = s[2] THEN shownLook ELSE props[p]
  BY <1>2, <1>5 DEF ShownTypes
<1>7. ShownTypes'
  BY <1>2, <1>6 DEF ShownTypes, Rest
<1>8. \A d \in Callers : call[d].alone /\ call[d].op \in DeviceCalls => d = c
  BY <1>1 DEF DeviceInv, Solo
<1>9. Solo'
  BY <1>2, <1>3, <1>8 DEF DeviceInv, Solo
<1>10. ASSUME call[c].alone, call[c].op \in DeviceCalls PROVE DeviceTruth(call[c], script[c])'
  <2>1. DeviceTruth(call[c], s)
    BY <1>10 DEF DeviceInv
  <2>2. UNCHANGED <<conf, hooks, usage, native, call[c], tool>>
    BY <1>2 DEF Rest
  <2>3. ASSUME call[c].op \in {"swap", "reapply"} PROVE ScriptIsAt(call[c], script[c])'
    <3>1. ScriptIsAt(call[c], s)
      BY <2>1, <2>3 DEF DeviceTruth
    <3>2. ~(call[c].at \in {"hooks", "traces"} \/ (call[c].at = "done" /\ call[c].ok))
      BY <1>1, <3>1 DEF ScriptIsAt
    <3>3. ASSUME call[c].at = "in script" PROVE shownLook = call[c].look /\ s[1] = call[c].op
      <4>1. s[1] = call[c].op
        BY <1>1, <3>1, <3>3 DEF ScriptIsAt
      <4>2. call[c].op = "swap" => conf = call[c].look
        BY <2>1, <3>3 DEF DeviceTruth, SwitchIsAt
      <4>3. call[c].op = "reapply" => call[c].look = Born
        BY DEF Way
      <4> QED
        BY <2>3, <4>1, <4>2, <4>3
    <3>4. ASSUME call[c].at = "in script" PROVE \A p \in 1..3 : p < s[2] + 1 => props'[p] = call[c].look
      <4>1. \A p \in 1..3 : p < s[2] => props[p] = call[c].look
        BY <1>1, <3>1, <3>4 DEF ScriptIsAt
      <4>2. \A p \in 1..3 : p < s[2] + 1 => p < s[2] \/ p = s[2]
        BY <1>1
      <4>3. shownLook = call[c].look
        BY <3>3, <3>4
      <4> HIDE DEF shownLook, s
      <4>4. ASSUME NEW p \in 1..3, p < s[2] + 1 PROVE props'[p] = call[c].look
        <5>1. props'[p] = IF p = s[2] THEN shownLook ELSE props[p]
          BY <1>6
        <5> QED
          BY <4>1, <4>2, <4>3, <4>4, <5>1
      <4> QED
        BY <4>4
    <3>5. ASSUME call[c].at = "in script", s[2] = 3 PROVE ScriptIsAt(call[c], script[c])'
      <4>1. \A p \in 1..3 : props'[p] = call[c].look
        <5> HIDE DEF s
        <5>1. \A n : n = 3 => \A p \in 1..3 : p < n + 1
          OBVIOUS
        <5> QED
          BY <3>4, <3>5, <5>1
      <4> QED
        BY <1>3, <2>2, <3>5, <4>1 DEF ScriptIsAt, Shows
    <3>6. ASSUME call[c].at = "in script", s[2] # 3 PROVE ScriptIsAt(call[c], script[c])'
      BY <1>3, <2>2, <3>3, <3>4, <3>6 DEF ScriptIsAt
    <3> QED
      BY <2>2, <3>2, <3>5, <3>6 DEF ScriptIsAt
  <2> QED
    BY <2>1, <2>2, <2>3 DEF DeviceTruth, SwitchIsAt, HooksAreAsTold, SeedIsAt
<1>11. DeviceInv'
  BY <1>2, <1>8, <1>9, <1>10 DEF DeviceInv
<1>12. LibraryInv'
  BY <1>2 DEF LibraryInv, LibraryTruth, FileOf, Captures, Rest
<1> QED
  BY <1>4, <1>7, <1>11, <1>12

LEMMA PushCloakConfigStep ==
  ASSUME ProfileInv, NEW c \in Callers, NEW pushed \in BOOLEAN, UNCHANGED Rest, PushCloakConfig(c, pushed)
  PROVE  ProfileInv'
<1> USE DEF ProfileInv, CallTypes
<1>1. call[c].op \in {"swap", "push"} /\ call[c].at = "hooks" /\ call[c].look \in Looks
  BY DEF PushCloakConfig, Way, CallRecord, DeviceCalls, LibraryCalls
<1>2. hooks' = (IF pushed THEN call[c].look ELSE hooks) /\ UNCHANGED <<files, conf, props, traces, usage, native, script>>
  BY DEF PushCloakConfig
<1>3. ShownTypes'
  BY <1>1, <1>2 DEF ShownTypes, Rest
<1>4. UNCHANGED <<files, script>> /\ {} \in SUBSET Warnings /\ "traces" \in Places /\ call[c].op \in DeviceCalls
  BY <1>1, <1>2 DEF DeviceCalls, Places
<1>5. call[c].alone => DeviceTruth(call[c], script[c])
  BY <1>4 DEF DeviceInv
<1>6. CASE call[c].op = "push"
  <2>1. CallEnded(c, pushed, {})
    BY <1>6, EndedFacts DEF PushCloakConfig, CallEnds
  <2>2. ASSUME pushed, Kept(call[c]', call[c]), call'[c].at = "done", call'[c].ok = pushed
        PROVE  DeviceTruth(call[c], script[c])'
    BY <1>2, <1>6, <2>2 DEF DeviceTruth, Kept
  <2> QED
    BY <1>3, <1>4, <1>6, <2>1, <2>2, StepEnds
<1>7. CASE call[c].op = "swap"
  <2> DEFINE extra == IF pushed THEN {} ELSE {"hooks"}
  <2>1. extra \in SUBSET Warnings /\ Moved(c, "traces", extra)
    BY <1>4, <1>7, MovedFacts DEF PushCloakConfig, Warnings
  <2>2. Way(call[c])'
    BY <1>7, <2>1 DEF Way, Moved, Kept
  <2>3. ASSUME call[c].alone PROVE DeviceTruth(call[c], script[c])'
    <3>1. UNCHANGED <<conf, props, tool, script>>
      BY <1>2 DEF Rest
    <3>2. ScriptIsAt(call[c], script[c])'
      BY <1>1, <1>5, <1>7, <2>1, <2>3, <3>1 DEF DeviceTruth, ScriptIsAt, Shows, Moved, Kept
    <3>3. hooks = call[c].before /\ "hooks" \notin call[c].warned
      BY <1>1, <1>5, <1>7, <2>3 DEF DeviceTruth, SwitchIsAt
    <3>4. HooksAreAsTold(call[c])'
      BY <1>2, <2>1, <3>3 DEF HooksAreAsTold, Moved, Kept
    <3> QED
      BY <1>1, <1>5, <1>7, <2>1, <2>3, <3>2, <3>4 DEF DeviceTruth, SwitchIsAt, Moved, Kept
  <2> HIDE DEF extra
  <2> QED
    BY <1>3, <1>4, <2>1, <2>2, <2>3, StepsOn
<1> QED
  BY <1>1, <1>6, <1>7

LEMMA SyncTracesStep ==
  ASSUME ProfileInv, NEW c \in Callers, NEW read \in BOOLEAN, NEW written \in BOOLEAN,
         UNCHANGED Rest, SyncTraces(c, read, written)
  PROVE  ProfileInv'
<1> USE DEF ProfileInv, CallTypes
<1>1. call[c].op = "swap" /\ call[c].at = "traces" /\ call[c].look \in Looks
  BY DEF SyncTraces, Way, CallRecord, DeviceCalls, LibraryCalls
<1>2. PICK missed \in {{}, {"traces"}, {"traces skipped"}} :
        /\ traces' = [traces EXCEPT !["id"] = call[c].look] \/ traces' = traces
        /\ call' = [call EXCEPT ![c] = Told(@, TRUE, missed)]
  BY DEF SyncTraces, RegenerateContainerTraces
<1>3. UNCHANGED <<files, conf, props, hooks, usage, native, script>>
  BY DEF SyncTraces
<1>4. ShownTypes'
  BY <1>1, <1>2, <1>3 DEF ShownTypes, Rest
<1>5. missed \in SUBSET Warnings /\ call[c].op \in DeviceCalls
  BY <1>1 DEF Warnings, DeviceCalls
<1>6. CallEnded(c, TRUE, missed)
  BY <1>2, <1>5, EndedFacts
<1>7. call[c].alone => DeviceTruth(call[c], script[c])
  BY <1>5 DEF DeviceInv
<1>8. ASSUME call[c].alone, Kept(call[c]', call[c]), call'[c].at = "done", call'[c].ok = TRUE,
             call'[c].warned = call[c].warned \cup missed
      PROVE  DeviceTruth(call[c], script[c])'
  <2>1. UNCHANGED <<conf, props, hooks, script, tool>>
    BY <1>3 DEF Rest
  <2>2. HooksAreAsTold(call[c])'
    BY <1>1, <1>2, <1>7, <1>8, <2>1 DEF DeviceTruth, SwitchIsAt, HooksAreAsTold, Kept
  <2>3. ScriptIsAt(call[c], script[c])'
    BY <1>1, <1>7, <1>8, <2>1 DEF DeviceTruth, ScriptIsAt, Shows, Kept
  <2> QED
    BY <1>1, <1>8, <2>2, <2>3 DEF DeviceTruth, SwitchIsAt, Kept
<1> QED
  BY <1>3, <1>4, <1>5, <1>6, <1>8, StepEnds

\* A command fails, which only the one that switches is told to last.
LEMMA FailsStep ==
  ASSUME ProfileInv, NEW c \in Callers, NEW at \in {"swap conf", "script", "in script", "list", "touch", "copy", "install"},
         UNCHANGED Rest, Fails(c, at)
  PROVE  ProfileInv'
<1> USE DEF ProfileInv, CallTypes
<1>1. call[c].at = at /\ UNCHANGED <<files, shownVars, script>>
  BY DEF Fails
<1>2. call[c].op \in DeviceCalls /\ {} \in SUBSET Warnings
  BY <1>1 DEF Way, CallRecord, DeviceCalls, LibraryCalls
<1>3. CallEnded(c, FALSE, {})
  BY EndedFacts DEF Fails, CallEnds
<1>4. ShownTypes'
  BY <1>1 DEF ShownTypes, Rest, shownVars
<1>5. ASSUME call[c].alone, call[c].op = "swap", Kept(call[c]', call[c]), call'[c].at = "done", call'[c].ok = FALSE
      PROVE  DeviceTruth(call[c], script[c])'
  <2>1. DeviceTruth(call[c], script[c]) /\ at \in {"swap conf", "script", "in script"}
    BY <1>1, <1>2, <1>5 DEF DeviceInv, Way
  <2> QED
    BY <1>1, <1>5, <2>1 DEF DeviceTruth, SwitchIsAt, ScriptIsAt, Kept, shownVars
<1> QED
  BY <1>1, <1>2, <1>3, <1>4, <1>5, StepEnds

LEMMA SeedSteps ==
  ASSUME ProfileInv, NEW c \in Callers, UNCHANGED Rest,
         \/ WriteList(c) \/ TouchTimestamps(c)
         \/ \E done \in BOOLEAN : WriteReadme(c, done) \/ Chmod(c, done)
  PROVE  ProfileInv'
<1> USE DEF ProfileInv, CallTypes
<1>1. call[c].op = "seed" /\ call[c].look \in Looks /\ call[c].at \in {"list", "readme", "chmod", "touch"}
  BY DEF WriteList, WriteReadme, Chmod, TouchTimestamps, At, Way, CallRecord, DeviceCalls, LibraryCalls
<1>2. call[c].op \in DeviceCalls /\ UNCHANGED <<files, script>> /\ UNCHANGED <<conf, props, hooks, traces, native>>
  BY <1>1 DEF DeviceCalls, WriteList, WriteReadme, Chmod, TouchTimestamps, shownVars
<1>3. call[c].alone => DeviceTruth(call[c], script[c])
  BY <1>2 DEF DeviceInv
<1>4. usage \in [list : Looks \cup {Absent}, readable : BOOLEAN, dated : Looks \cup {Absent}]
  BY DEF ShownTypes
<1>5. \A look \in Looks \cup {Absent}, r \in BOOLEAN :
         /\ LET u == [usage EXCEPT !.list = look] IN
              /\ u \in [list : Looks \cup {Absent}, readable : BOOLEAN, dated : Looks \cup {Absent}]
              /\ u.list = look /\ u.readable = usage.readable /\ u.dated = usage.dated
         /\ LET u == [usage EXCEPT !.readable = r] IN
              /\ u \in [list : Looks \cup {Absent}, readable : BOOLEAN, dated : Looks \cup {Absent}]
              /\ u.list = usage.list /\ u.readable = r /\ u.dated = usage.dated
         /\ LET u == [usage EXCEPT !.dated = look] IN
              /\ u \in [list : Looks \cup {Absent}, readable : BOOLEAN, dated : Looks \cup {Absent}]
              /\ u.list = usage.list /\ u.readable = usage.readable /\ u.dated = look
  BY <1>4
<1>6. ASSUME usage' \in [list : Looks \cup {Absent}, readable : BOOLEAN, dated : Looks \cup {Absent}]
      PROVE  ShownTypes'
  BY <1>2, <1>6 DEF ShownTypes, Rest
<1>7. {} \in SUBSET Warnings /\ {"readme"} \in SUBSET Warnings /\ {"chmod"} \in SUBSET Warnings
      /\ {"readme", "chmod", "touch"} \subseteq Places
  BY DEF Warnings, Places
<1>8. ASSUME NEW at \in {"readme", "chmod", "touch"}, NEW extra \in SUBSET Warnings, Moved(c, at, extra),
             usage' \in [list : Looks \cup {Absent}, readable : BOOLEAN, dated : Looks \cup {Absent}],
             call[c].alone => SeedIsAt(call[c])'
      PROVE  ProfileInv'
  <2>1. Way(call[c])' /\ at \in Places
    BY <1>1, <1>7, <1>8 DEF Way, Moved, Kept
  <2>2. call[c].alone => DeviceTruth(call[c], script[c])'
    BY <1>1, <1>3, <1>8 DEF DeviceTruth, Moved, Kept
  <2> QED
    BY <1>2, <1>6, <1>8, <2>1, <2>2, StepsOn
<1>9. CASE WriteList(c)
  <2>1. Moved(c, "readme", {})
    BY <1>7, <1>9, MovedFacts DEF WriteList
  <2>2. usage' = [usage EXCEPT !.list = call[c].look]
    BY <1>9 DEF WriteList
  <2>3. usage' \in [list : Looks \cup {Absent}, readable : BOOLEAN, dated : Looks \cup {Absent}] /\ usage'.list = call[c].look
    BY <1>1, <1>5, <2>2
  <2>4. SeedIsAt(call[c])'
    BY <2>1, <2>3 DEF SeedIsAt, Moved, Kept
  <2> QED
    BY <1>7, <1>8, <2>1, <2>3, <2>4
<1>10. ASSUME NEW done \in BOOLEAN, WriteReadme(c, done) PROVE ProfileInv'
  <2>1. PICK extra \in SUBSET Warnings : Moved(c, "chmod", extra)
    BY <1>7, <1>10, MovedFacts DEF WriteReadme, Warnings
  <2>2. usage' = usage /\ call[c].at = "readme"
    BY <1>10 DEF WriteReadme, shownVars
  <2>3. call[c].alone => SeedIsAt(call[c])'
    BY <1>1, <1>3, <2>1, <2>2 DEF DeviceTruth, SeedIsAt, Moved, Kept
  <2> QED
    BY <1>4, <1>8, <2>1, <2>2, <2>3
<1>11. ASSUME NEW done \in BOOLEAN, Chmod(c, done) PROVE ProfileInv'
  <2>1. PICK extra \in SUBSET Warnings : Moved(c, "touch", extra) /\ (~done => "chmod" \in extra)
    <3>1. CASE done
      BY <1>7, <1>11, <3>1, MovedFacts DEF Chmod
    <3>2. CASE ~done
      <4>1. Moved(c, "touch", {"chmod"})
        BY <1>7, <1>11, <3>2, MovedFacts DEF Chmod, Warnings
      <4> QED
        BY <1>7, <3>2, <4>1
    <3> QED
      BY <3>1, <3>2
  <2>2. usage' = [usage EXCEPT !.readable = usage.readable \/ done] /\ call[c].at = "chmod"
    BY <1>4, <1>11 DEF Chmod
  <2>3. (usage.readable \/ done) \in BOOLEAN
    BY <1>4
  <2>4. /\ usage' \in [list : Looks \cup {Absent}, readable : BOOLEAN, dated : Looks \cup {Absent}]
        /\ usage'.list = usage.list /\ (done => usage'.readable)
    BY <1>5, <2>2, <2>3
  <2>5. call[c].alone => SeedIsAt(call[c])'
    BY <1>1, <1>3, <2>1, <2>2, <2>4 DEF DeviceTruth, SeedIsAt, Moved, Kept
  <2> QED
    BY <1>8, <2>1, <2>4, <2>5
<1>12. CASE TouchTimestamps(c)
  <2>1. CallEnded(c, TRUE, {}) /\ call[c].at = "touch"
    BY <1>12, EndedFacts DEF TouchTimestamps, CallEnds, At
  <2>2. usage' = [usage EXCEPT !.dated = call[c].look]
    BY <1>12 DEF TouchTimestamps
  <2>3. /\ usage' \in [list : Looks \cup {Absent}, readable : BOOLEAN, dated : Looks \cup {Absent}]
        /\ usage'.list = usage.list /\ usage'.readable = usage.readable /\ usage'.dated = call[c].look
    BY <1>1, <1>5, <2>2
  <2>4. ASSUME call[c].alone, Kept(call[c]', call[c]), call'[c].at = "done", call'[c].ok = TRUE,
               call'[c].warned = call[c].warned \cup {}
        PROVE  DeviceTruth(call[c], script[c])'
    BY <1>1, <1>3, <2>1, <2>3, <2>4 DEF DeviceTruth, SeedIsAt, Kept
  <2> QED
    BY <1>2, <1>6, <1>7, <2>1, <2>3, <2>4, StepEnds
<1> QED
  BY <1>9, <1>10, <1>11, <1>12

LEMMA NativeSteps ==
  ASSUME ProfileInv, NEW c \in Callers, UNCHANGED Rest,
         CopyZip(c) \/ \E whole \in BOOLEAN : InstallNativeCloak(c, whole)
  PROVE  ProfileInv'
<1> USE DEF ProfileInv, CallTypes
<1>1. call[c].op = "native" /\ call[c].op \in DeviceCalls /\ call[c].at \in {"copy", "install"}
  BY DEF CopyZip, InstallNativeCloak, At, Way, CallRecord, DeviceCalls, LibraryCalls
<1>2. {} \in SUBSET Warnings /\ "install" \in Places
  BY DEF Places
<1>3. CASE CopyZip(c)
  <2>1. Moved(c, "install", {}) /\ UNCHANGED <<files, script>> /\ ShownTypes'
    BY <1>2, <1>3, MovedFacts DEF CopyZip, ShownTypes, Rest, shownVars
  <2>2. Way(call[c])'
    BY <1>1, <2>1 DEF Way, Moved, Kept
  <2>3. call[c].alone => DeviceTruth(call[c], script[c])'
    BY <1>1, <1>3, <2>1 DEF DeviceInv, DeviceTruth, Moved, Kept, CopyZip
  <2> QED
    BY <1>1, <1>2, <2>1, <2>2, <2>3, StepsOn
<1>4. ASSUME NEW whole \in BOOLEAN, InstallNativeCloak(c, whole) PROVE ProfileInv'
  <2>1. CallEnded(c, whole, {}) /\ UNCHANGED <<files, script>>
    BY <1>4, EndedFacts DEF InstallNativeCloak, CallEnds
  <2>2. native' = (IF whole THEN "written" ELSE "broken") /\ ShownTypes'
    BY <1>4 DEF InstallNativeCloak, ShownTypes, Rest
  <2>3. ASSUME whole, Kept(call[c]', call[c]), call'[c].at = "done", call'[c].ok = whole
        PROVE  DeviceTruth(call[c], script[c])'
    BY <1>1, <2>2, <2>3 DEF DeviceTruth, Kept
  <2> QED
    BY <1>1, <1>2, <2>1, <2>2, <2>3, StepEnds
<1> QED
  BY <1>3, <1>4

\* A step of a command of the library.
LEMMA LibraryMoves ==
  ASSUME ProfileInv, NEW c \in Callers, call[c].op \in LibraryCalls, Others(c),
         call' \in [Callers -> CallRecord], UNCHANGED <<shownVars, script, Rest>>,
         \/ call'[c] = NoCall
         \/ call'[c].op = call[c].op /\ call'[c].alone = call[c].alone /\ Way(call'[c]),
         LibraryInv'
  PROVE  ProfileInv'
<1> USE DEF ProfileInv
<1>1. call'[c].op \in LibraryCalls \cup {"none"} /\ (call'[c].alone => call[c].alone /\ call'[c].op = call[c].op)
  BY NoCallFacts
<1>2. CallTypes' /\ ShownTypes'
  BY NoCallFacts DEF CallTypes, Others, ShownTypes, shownVars, Rest
<1>3. Solo'
  BY <1>1 DEF DeviceInv, Solo, Others, DeviceCalls, LibraryCalls
<1>4. ASSUME NEW d \in Callers, call'[d].alone, call'[d].op \in DeviceCalls
      PROVE  DeviceTruth(call[d], script[d])'
  <2>1. call'[d] = call[d]
    BY <1>1, <1>4 DEF Others, DeviceCalls, LibraryCalls
  <2>2. DeviceTruth(call[d], script[d])
    BY <1>4, <2>1 DEF DeviceInv
  <2> QED
    BY <2>1, <2>2 DEF shownVars, Rest, DeviceTruth, SwitchIsAt, ScriptIsAt, SeedIsAt, HooksAreAsTold, Shows
<1> QED
  BY <1>2, <1>3, <1>4 DEF DeviceInv

\* While the captured profiles stay, and no capture is added.
LEMMA FilesStay ==
  ASSUME LibraryInv, CallTypes, UNCHANGED files, calls' \in Nat, calls <= calls', calls \in Nat,
         \A d \in Callers : d \in Captures' => d \in Captures /\ (call'[d].at = "write" => call'[d].id \notin BuiltinIds),
         \A d \in Callers : call'[d].alone => LibraryTruth(call[d])'
  PROVE  LibraryInv'
<1>1. Captures' \in SUBSET Captures
  BY DEF Captures
<1>2. IsFiniteSet(Captures)' /\ Cardinality(Captures') <= Cardinality(Captures)
  BY <1>1, FS_Subset DEF LibraryInv
<1>3. Cardinality(files) \in Nat /\ Cardinality(Captures) \in Nat /\ Cardinality(Captures') \in Nat
  BY <1>2, FS_CardinalityType DEF LibraryInv
<1>4. Cardinality(files) + Cardinality(Captures') <= calls'
  BY <1>2, <1>3 DEF LibraryInv
<1>5. \A d \in Captures' : call'[d].at = "write" => call'[d].id \notin BuiltinIds
  BY DEF Captures
<1> QED
  BY <1>2, <1>4, <1>5 DEF LibraryInv, FileOf

\* A capture finds a number for its profile, which is no other profile's: there are
\* more numbers than captures.
LEMMA FreeNumber ==
  ASSUME ProfileInv, NEW c \in Captures, NEW base \in Builtins \cup {NewBase}
  PROVE  \E n \in 1..MaxCalls + 1 : <<base, n>> \notin ExistingIds
<1>1. IsFiniteSet(files) /\ Cardinality(files) < MaxCalls
  <2>1. Cardinality(Captures) > 0
    <3>1. Captures # {} /\ IsFiniteSet(Captures)
      BY DEF ProfileInv, LibraryInv
    <3> QED
      BY <3>1, FS_EmptySet, FS_CardinalityType
  <2>2. Cardinality(files) \in Nat /\ Cardinality(Captures) \in Nat
    BY FS_CardinalityType DEF ProfileInv, LibraryInv
  <2> QED
    BY <2>1, <2>2, ProfileAssumption DEF ProfileInv, LibraryInv, ShownTypes
<1>2. SUFFICES ASSUME \A n \in 1..MaxCalls + 1 : <<base, n>> \in ExistingIds PROVE FALSE
  OBVIOUS
<1> DEFINE numbers == 2..MaxCalls + 1
           g == [n \in numbers |-> CHOOSE f \in files : f[1] = <<base, n>>]
<1>3. \A n \in numbers : \E f \in files : f[1] = <<base, n>>
  <2>1. \A n \in numbers : <<base, n>> \notin BuiltinIds /\ <<base, n>> \in ExistingIds
    BY <1>2, ProfileAssumption DEF BuiltinIds
  <2> QED
    BY <2>1 DEF ExistingIds
<1>4. \A n \in numbers : g[n] \in files /\ g[n][1] = <<base, n>>
  BY <1>3
<1> HIDE DEF g
<1>5. \A m, n \in numbers : g[m] = g[n] => m = n
  BY <1>4
<1>6. g \in Injection(numbers, files)
  <2>1. g \in [numbers -> files]
    BY <1>4 DEF g
  <2> QED
    BY <1>5, <2>1 DEF Injection, IsInjective
<1>7. Cardinality(numbers) <= Cardinality(files)
  BY <1>1, <1>6, FS_Injection
<1>8. Cardinality(numbers) = MaxCalls
  <2>1. 2 \in Int /\ MaxCalls + 1 \in Int
    BY ProfileAssumption
  <2> QED
    BY <2>1, ProfileAssumption, FS_Interval
<1>9. Cardinality(files) \in Nat
  BY <1>1, FS_CardinalityType
<1> QED
  BY <1>1, <1>7, <1>8, <1>9, ProfileAssumption

LEMMA ResolveFacts ==
  ASSUME ProfileInv, NEW c \in Captures, NEW base \in Builtins \cup {NewBase}
  PROVE  ResolveUniqueId(base) \in Ids /\ ResolveUniqueId(base) \notin BuiltinIds
<1> DEFINE free == {n \in 1..MaxCalls + 1 : <<base, n>> \notin ExistingIds}
           least == CHOOSE n \in free : \A m \in free : n <= m
<1>1. free \in SUBSET Nat /\ free # {}
  <2>1. PICK n \in 1..MaxCalls + 1 : <<base, n>> \notin ExistingIds
    BY FreeNumber
  <2>2. free \subseteq 1..MaxCalls + 1 /\ 1..MaxCalls + 1 \subseteq Nat
    BY ProfileAssumption
  <2> QED
    BY <2>1, <2>2
<1>2. least \in free
  BY <1>1, LeastElement
<1>3. ResolveUniqueId(base) = <<base, least>>
  BY DEF ResolveUniqueId
<1> HIDE DEF least
<1> QED
  BY <1>2, <1>3 DEF Ids, ExistingIds

LEMMA ReadPhoneStep ==
  ASSUME ProfileInv, NEW c \in Callers, UNCHANGED Rest,
         ReadPhone(c) \/ Fails(c, "read") \/ \E r \in Readings : RejectPhone(c, r)
  PROVE  ProfileInv'
<1> USE DEF ProfileInv, CallTypes
<1>1. call[c].op = "capture" /\ call[c].op \in LibraryCalls /\ call[c].at \in {"read", "choose"}
  BY DEF ReadPhone, RejectPhone, Fails, Way, CallRecord, DeviceCalls, LibraryCalls
<1>2. UNCHANGED <<files, shownVars, script, Rest>> /\ calls \in Nat /\ calls' = calls
  <2>1. UNCHANGED <<files, shownVars, script>>
    BY DEF ReadPhone, RejectPhone, Fails
  <2>2. calls \in Nat
    BY ProfileAssumption DEF ShownTypes
  <2> QED
    BY <2>1, <2>2 DEF Rest
<1>3. ASSUME Moved(c, "choose", {}) PROVE ProfileInv'
  <2>1. Way(call'[c])
    BY <1>1, <1>3 DEF Way, Moved, Kept
  <2>2. LibraryInv'
    <3>1. \A d \in Callers : d \in Captures' => d \in Captures /\ (call'[d].at = "write" => call'[d].id \notin BuiltinIds)
      BY <1>1, <1>3 DEF Captures, Moved, Kept, Others, LibraryInv
    <3>2. \A d \in Callers : call'[d].alone => LibraryTruth(call[d])'
      BY <1>2, <1>3 DEF LibraryInv, LibraryTruth, FileOf, Moved, Kept, Others
    <3> QED
      BY <1>2, <3>1, <3>2, FilesStay
  <2> QED
    BY <1>1, <1>2, <1>3, <2>1, <2>2, LibraryMoves DEF Moved, Kept
<1>4. ASSUME CallEnded(c, FALSE, {}) PROVE ProfileInv'
  <2>1. call'[c] = NoCall
    BY <1>1, <1>4 DEF CallEnded
  <2>2. LibraryInv'
    <3>1. \A d \in Callers : d \in Captures' => d \in Captures /\ (call'[d].at = "write" => call'[d].id \notin BuiltinIds)
      BY <1>4, <2>1, NoCallFacts DEF Captures, CallEnded, Others, LibraryInv
    <3>2. \A d \in Callers : call'[d].alone => LibraryTruth(call[d])'
      BY <1>2, <1>4, <2>1, NoCallFacts DEF LibraryInv, LibraryTruth, FileOf, CallEnded, Others
    <3> QED
      BY <1>2, <3>1, <3>2, FilesStay
  <2> QED
    BY <1>1, <1>2, <1>4, <2>1, <2>2, LibraryMoves DEF CallEnded
<1>5. CASE ReadPhone(c)
  BY <1>3, <1>5, MovedFacts DEF ReadPhone, Places
<1>6. CASE Fails(c, "read") \/ \E r \in Readings : RejectPhone(c, r)
  BY <1>4, <1>6, EndedFacts DEF RejectPhone, Fails, CallEnds
<1> QED
  BY <1>5, <1>6

LEMMA ChooseIdStep ==
  ASSUME ProfileInv, NEW c \in Callers, UNCHANGED Rest, NEW r \in Readings, ChooseId(c, r)
  PROVE  ProfileInv'
<1> USE DEF ProfileInv, CallTypes
<1> DEFINE t == call[c]
           new == ResolveUniqueId(t.id[1])
<1>1. t.op = "capture" /\ t.op \in LibraryCalls /\ t.at = "choose" /\ c \in Captures
  BY DEF ChooseId, Way, CallRecord, DeviceCalls, LibraryCalls, Captures
<1>2. UNCHANGED <<files, shownVars, script, Rest>> /\ calls \in Nat /\ calls' = calls
  <2>1. UNCHANGED <<files, shownVars, script>>
    BY DEF ChooseId
  <2>2. calls \in Nat
    BY ProfileAssumption DEF ShownTypes
  <2> QED
    BY <2>1, <2>2 DEF Rest
<1>3. new \in Ids /\ new \notin BuiltinIds
  <2>1. t.id[1] \in Builtins \cup {NewBase}
    BY DEF CallRecord, Ids
  <2> QED
    BY <1>1, <2>1, ResolveFacts
<1> HIDE DEF new
<1>4. t \in CallRecord /\ "write" \in Places
  BY DEF Places
<1>5. \A id \in Ids : LET e == [t EXCEPT !.id = id, !.at = "write"] IN
         /\ e \in CallRecord /\ e.op = t.op /\ e.look = t.look /\ e.id = id /\ e.alone = t.alone
         /\ e.at = "write"
  BY <1>4 DEF CallRecord
<1>6. call' = [call EXCEPT ![c] = [t EXCEPT !.id = new, !.at = "write"]]
  BY DEF ChooseId, new
<1>7. /\ call' \in [Callers -> CallRecord] /\ Others(c)
      /\ call'[c].op = t.op /\ call'[c].look = t.look /\ call'[c].id = new /\ call'[c].alone = t.alone
      /\ call'[c].at = "write"
  BY <1>3, <1>5, <1>6 DEF Others
<1>8. Way(call'[c])
  BY <1>1, <1>7 DEF Way
<1>9. LibraryInv'
  <2>1. \A d \in Callers : d \in Captures' => d \in Captures /\ (call'[d].at = "write" => call'[d].id \notin BuiltinIds)
    BY <1>1, <1>3, <1>7 DEF Captures, Others, LibraryInv
  <2>2. \A d \in Callers : call'[d].alone => LibraryTruth(call[d])'
    BY <1>1, <1>2, <1>7 DEF LibraryInv, LibraryTruth, FileOf, Others
  <2> QED
    BY <1>2, <2>1, <2>2, FilesStay
<1> QED
  BY <1>1, <1>2, <1>7, <1>8, <1>9, LibraryMoves

\* What becomes of the library when a command has changed the file of its profile:
\* beside one that is alone nobody else was told of any.
LEMMA LibraryEnds ==
  ASSUME ProfileInv, NEW c \in Callers, call[c].op \in LibraryCalls, call[c].at # "done",
         UNCHANGED <<shownVars, script, Rest>>, NEW ok \in BOOLEAN, CallEnded(c, ok, {}),
         NEW id, id = call[c].id,
         files' \subseteq Ids \X (Phones \cup {Torn}), \A i \in BuiltinIds : FileOf(i)' = {},
         ok => {f \in files' : f[1] = id} = IF call[c].op = "capture" THEN {<<id, call[c].look>>} ELSE {},
         IsFiniteSet(files'), Cardinality(files') <= Cardinality(files) + IF call[c].op = "capture" THEN 1 ELSE 0
  PROVE  ProfileInv'
<1> USE DEF ProfileInv, CallTypes
<1>1. call'[c] = NoCall \/ (Kept(call'[c], call[c]) /\ call[c].alone /\ ok /\ call'[c].at = "done" /\ Way(call'[c]))
  <2>1. Way(call[c])
    OBVIOUS
  <2>2. Kept(call'[c], call[c]) /\ call'[c].at = "done" => Way(call'[c])
    BY <2>1 DEF Way, Kept, LibraryCalls
  <2> QED
    BY <2>2 DEF CallEnded, LibraryCalls
<1>2. \A d \in Callers : call'[d].alone => LibraryTruth(call[d])'
  <2>1. ASSUME NEW d \in Callers, d # c, call'[d].alone, call'[d].op \in LibraryCalls PROVE LibraryTruth(call[d])'
    <3>1. call'[d] = call[d]
      BY <2>1 DEF CallEnded, Others
    <3>2. FALSE
      BY <2>1, <3>1 DEF DeviceInv, Solo
    <3> QED
      BY <3>2
  <2>2. call'[c].alone => LibraryTruth(call[c])'
    BY <1>1, NoCallFacts DEF LibraryTruth, Kept, FileOf, LibraryCalls
  <2> QED
    BY <2>1, <2>2 DEF LibraryTruth, LibraryCalls
<1>3. Captures' = Captures \ {c} /\ \A d \in Captures' : call'[d] = call[d]
  BY <1>1, NoCallFacts DEF Captures, CallEnded, Others
<1>4. IsFiniteSet(Captures') /\ Cardinality(files') + Cardinality(Captures') <= calls'
  <2>1. IsFiniteSet(Captures) /\ IsFiniteSet(files) /\ Cardinality(files) + Cardinality(Captures) <= calls
    BY DEF LibraryInv
  <2>2. /\ IsFiniteSet(Captures')
        /\ Cardinality(Captures') = IF c \in Captures THEN Cardinality(Captures) - 1 ELSE Cardinality(Captures)
    BY <1>3, <2>1, FS_RemoveElement
  <2>3. c \in Captures <=> call[c].op = "capture"
    BY DEF Captures
  <2>4. /\ Cardinality(files) \in Nat /\ Cardinality(Captures) \in Nat
        /\ Cardinality(files') \in Nat /\ Cardinality(Captures') \in Nat /\ calls \in Nat /\ calls' = calls
    BY <2>1, <2>2, FS_CardinalityType, ProfileAssumption DEF ShownTypes, Rest
  <2> QED
    BY <2>1, <2>2, <2>3, <2>4
<1>5. \A d \in Captures' : call'[d].at = "write" => call'[d].id \notin BuiltinIds
  BY <1>3 DEF LibraryInv
<1>6. LibraryInv'
  BY <1>2, <1>4, <1>5 DEF LibraryInv
<1> QED
  BY <1>1, <1>6, LibraryMoves DEF CallEnded, Kept

LEMMA WriteProfileStep ==
  ASSUME ProfileInv, NEW c \in Callers, UNCHANGED Rest, NEW written \in BOOLEAN,
         call[c].op = "capture", WriteProfile(c, written)
  PROVE  ProfileInv'
<1> DEFINE id == call[c].id
           look == IF written THEN call[c].look ELSE Torn
<1>1. call[c].at = "write" /\ call[c].op \in LibraryCalls /\ call[c].look \in Phones /\ id \in Ids
  BY DEF WriteProfile, ProfileInv, CallTypes, Way, CallRecord, LibraryCalls
<1>2. id \notin BuiltinIds
  BY <1>1 DEF ProfileInv, LibraryInv, Captures
<1>3. files' = (files \ FileOf(id)) \cup {<<id, look>>}
  BY DEF WriteProfile, Replaced
<1>4. UNCHANGED <<shownVars, script, Rest>>
  BY DEF WriteProfile
<1>5. CallEnded(c, written, {})
  BY EndedFacts DEF WriteProfile, CallEnds, ProfileInv
<1>6. files' \subseteq Ids \X (Phones \cup {Torn})
  BY <1>1, <1>3 DEF ProfileInv, LibraryInv
<1>7. \A i \in BuiltinIds : FileOf(i)' = {}
  BY <1>2, <1>3 DEF ProfileInv, LibraryInv, FileOf
<1>8. {f \in files' : f[1] = id} = {<<id, look>>}
  BY <1>3 DEF FileOf
<1>9. IsFiniteSet(files') /\ Cardinality(files') <= Cardinality(files) + 1
  <2> DEFINE kept == files \ FileOf(id)
  <2>1. IsFiniteSet(files)
    BY DEF ProfileInv, LibraryInv
  <2>2. IsFiniteSet(kept) /\ Cardinality(kept) <= Cardinality(files)
    BY <2>1, FS_Subset
  <2>3. files' = kept \cup {<<id, look>>}
    BY <1>3
  <2> HIDE DEF kept, look
  <2>4. IsFiniteSet(files') /\ Cardinality(files') <= Cardinality(kept) + 1
    <3>1. Cardinality(kept) \in Nat
      BY <2>2, FS_CardinalityType
    <3>2. PICK x : files' = kept \cup {x}
      BY <2>3
    <3>3. /\ IsFiniteSet(kept \cup {x})
          /\ Cardinality(kept \cup {x}) = IF x \in kept THEN Cardinality(kept) ELSE Cardinality(kept) + 1
      BY <2>2, FS_AddElement
    <3> QED
      BY <3>1, <3>2, <3>3
  <2> QED
    BY <2>1, <2>2, <2>4, FS_CardinalityType
<1> HIDE DEF id
<1>10. written => {f \in files' : f[1] = id} = {<<id, call[c].look>>}
  BY <1>8
<1>11. id = call[c].id /\ call[c].at # "done"
  BY <1>1 DEF id
<1> QED
  BY <1>1, <1>4, <1>5, <1>6, <1>7, <1>9, <1>10, <1>11, LibraryEnds

LEMMA DeleteCustomProfileStep ==
  ASSUME ProfileInv, NEW c \in Callers, UNCHANGED Rest, DeleteCustomProfile(c)
  PROVE  ProfileInv'
<1> DEFINE id == call[c].id
           gone == id \notin BuiltinIds /\ FileOf(id) # {}
<1>1. call[c].op = "delete" /\ call[c].op \in LibraryCalls /\ call[c].at # "done" /\ id = call[c].id
  BY DEF DeleteCustomProfile, LibraryCalls
<1>2. files' = (IF gone THEN files \ FileOf(id) ELSE files)
  BY DEF DeleteCustomProfile
<1>3. UNCHANGED <<shownVars, script, Rest>> /\ gone \in BOOLEAN
  BY DEF DeleteCustomProfile
<1>4. CallEnded(c, gone, {})
  BY <1>3, EndedFacts DEF DeleteCustomProfile, CallEnds, ProfileInv
<1>5. files' \in SUBSET files
  BY <1>2
<1>6. files' \subseteq Ids \X (Phones \cup {Torn}) /\ \A i \in BuiltinIds : FileOf(i)' = {}
  BY <1>5 DEF ProfileInv, LibraryInv, FileOf
<1>7. gone => {f \in files' : f[1] = id} = {}
  BY <1>2 DEF FileOf
<1>8. IsFiniteSet(files') /\ Cardinality(files') <= Cardinality(files) + 0
  <2>1. IsFiniteSet(files)
    BY DEF ProfileInv, LibraryInv
  <2> QED
    BY <1>5, <2>1, FS_Subset, FS_CardinalityType
<1> HIDE DEF gone, id
<1> QED
  BY <1>1, <1>3, <1>4, <1>6, <1>7, <1>8, LibraryEnds

\* The first place of every command, and what it is given.
Opening(op, at, look) ==
  \/ op = "swap" /\ at = "swap conf" /\ look \in Looks
  \/ op = "reapply" /\ at = "script" /\ look = Born
  \/ op = "push" /\ at = "hooks" /\ look \in Looks
  \/ op = "seed" /\ at = "list" /\ look \in Looks
  \/ op = "native" /\ at = "copy" /\ look = Absent
  \/ op = "capture" /\ at = "read" /\ look \in Phones
  \/ op = "delete" /\ at = "write" /\ look = Absent

LEMMA DisturbedFacts ==
  ASSUME CallTypes, NEW c \in Callers, NEW ops
  PROVE  LET e == Disturbed(c, ops) IN
           /\ e \in CallRecord
           /\ \/ e = NoCall
              \/ e = call[c] /\ e.op \notin ops
              \/ call[c].at # "done" /\ ~e.alone /\ e.op = call[c].op /\ e.look = call[c].look /\ e.id = call[c].id
                 /\ e.at = call[c].at
<1> DEFINE t == call[c]
<1>1. t \in CallRecord
  BY DEF CallTypes
<1>2. LET e == [t EXCEPT !.alone = FALSE] IN
        /\ e \in CallRecord /\ ~e.alone /\ e.op = t.op /\ e.look = t.look /\ e.id = t.id /\ e.at = t.at
  BY <1>1 DEF CallRecord
<1> QED
  BY <1>1, <1>2, NoCallFacts DEF Disturbed, InCall

\* A command begins, alone or not; what was told before of the same things is not
\* counted on any more.
LEMMA BeginsStep ==
  ASSUME ProfileInv, NEW c \in Callers, NEW op, NEW at, NEW look, NEW id \in Ids, Opening(op, at, look),
         CallBegins(c, op, at, look, id),
         UNCHANGED <<files, shownVars, script, containerUp, tool, label, stops>>
  PROVE  ProfileInv'
<1> DEFINE rivals == {d \in Callers \ {c} : InCall(d) /\ call[d].op \in Kind(op)}
           alone == rivals = {} /\ (op \in DeviceCalls => \A d \in Callers : script[d] = << >>)
           new == [op |-> op, at |-> at, ok |-> FALSE, look |-> look, id |-> id, warned |-> {},
                   alone |-> alone, before |-> hooks]
<1>1. new \in CallRecord
  <2>1. op \in DeviceCalls \cup LibraryCalls /\ at \in Places /\ look \in Looks \cup {Absent}
    BY ProfileAssumption DEF Opening, DeviceCalls, LibraryCalls, Places, Looks
  <2>2. hooks \in Looks \cup {Absent} /\ alone \in BOOLEAN /\ {} \in SUBSET Warnings
    BY DEF ProfileInv, ShownTypes
  <2> HIDE DEF alone
  <2> QED
    BY <2>1, <2>2 DEF CallRecord
<1>2. /\ new.op = op /\ new.at = at /\ new.ok = FALSE /\ new.look = look /\ new.id = id /\ new.warned = {}
      /\ new.before = hooks /\ (new.alone <=> alone)
  OBVIOUS
<1>3. /\ calls < MaxCalls /\ calls' = calls + 1 /\ call[c].at = "done"
      /\ call' = [d \in Callers |-> IF d = c THEN new ELSE Disturbed(d, Kind(op))]
  BY DEF CallBegins, InCall
<1> HIDE DEF new
<1>4. call' \in [Callers -> CallRecord] /\ call'[c] = new
  BY <1>1, <1>3, DisturbedFacts DEF ProfileInv
<1>5. ASSUME NEW d \in Callers, d # c
      PROVE  \/ call'[d] = NoCall
             \/ call'[d] = call[d] /\ call[d].op \notin Kind(op)
             \/ call[d].at # "done" /\ ~call'[d].alone /\ call'[d].op = call[d].op /\ call'[d].look = call[d].look
                /\ call'[d].id = call[d].id /\ call'[d].at = call[d].at
  BY <1>3, <1>5, DisturbedFacts DEF ProfileInv
<1>6. Kind(op) \in {DeviceCalls, LibraryCalls} /\ op \in Kind(op)
  BY DEF Kind, Opening, DeviceCalls, LibraryCalls
<1>7. alone => \A d \in Callers : d # c => call'[d].op \notin Kind(op)
  <2> SUFFICES ASSUME alone, NEW d \in Callers, d # c PROVE call'[d].op \notin Kind(op)
    OBVIOUS
  <2>1. ~(call[d].at # "done" /\ call[d].op \in Kind(op))
    BY DEF InCall
  <2> QED
    BY <1>5, <1>6, <2>1, NoCallFacts DEF DeviceCalls, LibraryCalls
<1>8. alone => (op \in DeviceCalls => \A d \in Callers : script[d] = << >>)
  OBVIOUS
<1> HIDE DEF alone, rivals
<1>9. CallTypes'
  <2>1. Way(new)
    BY <1>2 DEF Way, Opening
  <2>2. \A d \in Callers : d # c => Way(call'[d])
    <3> SUFFICES ASSUME NEW d \in Callers, d # c PROVE Way(call'[d])
      OBVIOUS
    <3>1. Way(call[d])
      BY DEF ProfileInv, CallTypes
    <3>2. ASSUME ~call'[d].alone, call'[d].op = call[d].op, call'[d].look = call[d].look, call'[d].at = call[d].at
          PROVE  Way(call'[d])
      BY <3>1, <3>2 DEF Way
    <3> QED
      BY <1>5, <3>1, <3>2, NoCallFacts
  <2> QED
    BY <1>4, <2>1, <2>2 DEF ProfileInv, CallTypes
<1>10. ShownTypes'
  BY <1>3, ProfileAssumption DEF ProfileInv, ShownTypes, shownVars
<1>11. Solo'
  <2> SUFFICES ASSUME NEW d \in Callers, NEW e \in Callers, d # e, call'[d].alone
      PROVE  /\ call'[d].op \in DeviceCalls => call'[e].op \notin DeviceCalls /\ script'[e] = << >>
             /\ call'[d].op \in LibraryCalls => call'[e].op \notin LibraryCalls
    BY DEF Solo
  <2>1. CASE d = c
    BY <1>2, <1>4, <1>6, <1>7, <1>8, <2>1 DEF Kind, DeviceCalls, LibraryCalls
  <2>2. CASE d # c
    <3>1. call'[d] = call[d] /\ call[d].op \notin Kind(op) /\ call[d].alone
      BY <1>5, <2>2, NoCallFacts
    <3>2. CASE e = c
      BY <1>2, <1>4, <1>6, <3>1, <3>2 DEF ProfileInv, DeviceInv, Solo, Kind, DeviceCalls, LibraryCalls
    <3>3. CASE e # c
      BY <1>5, <3>1, <3>3, NoCallFacts DEF ProfileInv, DeviceInv, Solo, DeviceCalls, LibraryCalls
    <3> QED
      BY <3>2, <3>3
  <2> QED
    BY <2>1, <2>2
<1>12. ASSUME NEW d \in Callers, call'[d].alone, call'[d].op \in DeviceCalls
       PROVE  DeviceTruth(call[d], script[d])'
  <2>1. CASE d = c
    BY <1>2, <1>4, <2>1 DEF Opening, DeviceTruth, SwitchIsAt, ScriptIsAt, SeedIsAt, shownVars
  <2>2. CASE d # c
    <3>1. call'[d] = call[d]
      BY <1>5, <1>12, <2>2, NoCallFacts
    <3>2. DeviceTruth(call[d], script[d])
      BY <1>12, <3>1 DEF ProfileInv, DeviceInv
    <3> QED
      BY <3>1, <3>2 DEF shownVars, DeviceTruth, SwitchIsAt, ScriptIsAt, SeedIsAt, HooksAreAsTold, Shows
  <2> QED
    BY <2>1, <2>2
<1>13. \A d \in Callers : call'[d].alone => LibraryTruth(call[d])'
  <2> SUFFICES ASSUME NEW d \in Callers, call'[d].alone PROVE LibraryTruth(call[d])'
    OBVIOUS
  <2>1. CASE d = c
    BY <1>2, <1>4, <2>1 DEF Opening, LibraryTruth
  <2>2. CASE d # c
    <3>1. call'[d] = call[d]
      BY <1>5, <2>2, NoCallFacts
    <3> QED
      BY <3>1 DEF ProfileInv, LibraryInv, LibraryTruth, FileOf
  <2> QED
    BY <2>1, <2>2
<1>14. LibraryInv'
  <2>1. /\ Captures' \in SUBSET (Captures \cup {c}) /\ c \notin Captures
        /\ \A d \in Captures' : d # c => call'[d].id = call[d].id /\ call'[d].at = call[d].at
    <3>1. \A d \in Captures' : d # c => d \in Captures /\ call'[d].id = call[d].id /\ call'[d].at = call[d].at
      BY <1>5, NoCallFacts DEF Captures
    <3> QED
      BY <1>3, <3>1 DEF Captures
  <2>2. \A d \in Captures' : call'[d].at = "write" => call'[d].id \notin BuiltinIds
    BY <1>2, <1>4, <2>1 DEF ProfileInv, LibraryInv, Captures, Opening
  <2>3. IsFiniteSet(Captures) /\ IsFiniteSet(files) /\ Cardinality(files) + Cardinality(Captures) <= calls
    BY DEF ProfileInv, LibraryInv
  <2>4. IsFiniteSet(Captures \cup {c}) /\ Cardinality(Captures \cup {c}) = Cardinality(Captures) + 1
    BY <2>1, <2>3, FS_AddElement
  <2>5. IsFiniteSet(Captures') /\ Cardinality(Captures') <= Cardinality(Captures) + 1
    BY <2>1, <2>4, FS_Subset
  <2>6. Cardinality(files) \in Nat /\ Cardinality(Captures) \in Nat /\ Cardinality(Captures') \in Nat /\ calls \in Nat
    BY <2>3, <2>5, FS_CardinalityType, ProfileAssumption DEF ProfileInv, ShownTypes
  <2>7. Cardinality(files) + Cardinality(Captures') <= calls'
    BY <1>3, <2>3, <2>5, <2>6
  <2> QED
    BY <1>13, <2>2, <2>3, <2>5, <2>7 DEF ProfileInv, LibraryInv, FileOf
<1> QED
  BY <1>9, <1>10, <1>11, <1>12, <1>14 DEF ProfileInv, DeviceInv

LEMMA CommandStep ==
  ASSUME ProfileInv, NEW c \in Callers, Command(c), UNCHANGED <<containerUp, tool, label, stops>>
  PROVE  ProfileInv'
<1>1. NoCall.id \in Ids
  BY NoCallFacts DEF CallRecord
<1>2. ASSUME NEW id \in Ids, SwapBegin(c, id) PROVE ProfileInv'
  <2>1. Opening("swap", "swap conf", ProfileById(id))
    BY <1>2 DEF SwapBegin, Known, Opening
  <2> QED
    BY <1>1, <1>2, <2>1, BeginsStep DEF SwapBegin
<1>3. ASSUME NEW id \in Ids, PushHooks(c, id) PROVE ProfileInv'
  <2>1. Opening("push", "hooks", ProfileById(id))
    BY <1>3 DEF PushHooks, Known, Opening
  <2> QED
    BY <1>1, <1>3, <2>1, BeginsStep DEF PushHooks
<1>4. ASSUME NEW id \in Ids, SeedBegin(c, id) PROVE ProfileInv'
  <2>1. Opening("seed", "list", ProfileById(id))
    BY <1>4 DEF SeedBegin, Known, Opening
  <2> QED
    BY <1>1, <1>4, <2>1, BeginsStep DEF SeedBegin
<1>5. ASSUME NEW id \in Ids, DeleteBegin(c, id) PROVE ProfileInv'
  <2>1. Opening("delete", "write", Absent)
    BY DEF Opening
  <2> QED
    BY <1>5, <2>1, BeginsStep DEF DeleteBegin
<1>6. CASE Reapply(c)
  <2>1. Opening("reapply", "script", Born)
    BY DEF Opening
  <2> QED
    BY <1>1, <1>6, <2>1, BeginsStep DEF Reapply
<1>7. CASE NativeBegin(c)
  <2>1. Opening("native", "copy", Absent)
    BY DEF Opening
  <2> QED
    BY <1>1, <1>7, <2>1, BeginsStep DEF NativeBegin
<1>8. ASSUME NEW base \in Builtins \cup {NewBase}, NEW phone \in Phones, CaptureBegin(c, base, phone) PROVE ProfileInv'
  <2>1. Opening("capture", "read", phone) /\ <<base, 1>> \in Ids
    BY ProfileAssumption DEF Opening, Ids
  <2> QED
    BY <1>8, <2>1, BeginsStep DEF CaptureBegin
<1> QED
  BY <1>2, <1>3, <1>4, <1>5, <1>6, <1>7, <1>8 DEF Command

LEMMA ProgressStep ==
  ASSUME ProfileInv, NEW c \in Callers, Progress(c), UNCHANGED Rest
  PROVE  ProfileInv'
<1>1. CASE ScriptLost(c)
  BY <1>1, FailsStep DEF ScriptLost
<1>2. ASSUME NEW at \in {"swap conf", "script", "list", "touch", "copy", "install", "read"}, Fails(c, at)
      PROVE  ProfileInv'
  BY <1>2, FailsStep, ReadPhoneStep
<1>3. ASSUME NEW done \in BOOLEAN,
             \/ PushCloakConfig(c, done) \/ WriteReadme(c, done) \/ Chmod(c, done) \/ InstallNativeCloak(c, done)
             \/ call[c].op = "capture" /\ WriteProfile(c, done)
      PROVE  ProfileInv'
  BY <1>3, PushCloakConfigStep, SeedSteps, NativeSteps, WriteProfileStep
<1>4. ASSUME NEW r \in Readings, ChooseId(c, r) \/ RejectPhone(c, r) PROVE ProfileInv'
  BY <1>4, ChooseIdStep, ReadPhoneStep
<1>5. CASE WriteConf(c) \/ StartScript(c) \/ ScriptAnswered(c) \/ ScriptStep(c)
  BY <1>5, WriteConfStep, StartScriptStep, ScriptAnsweredStep, ScriptStepStep
<1>6. CASE WriteList(c) \/ TouchTimestamps(c) \/ CopyZip(c) \/ ReadPhone(c) \/ DeleteCustomProfile(c)
  BY <1>6, SeedSteps, NativeSteps, ReadPhoneStep, DeleteCustomProfileStep
<1>7. ASSUME NEW read \in BOOLEAN, NEW written \in BOOLEAN, SyncTraces(c, read, written) PROVE ProfileInv'
  BY <1>7, SyncTracesStep
<1> QED
  BY <1>1, <1>2, <1>3, <1>4, <1>5, <1>6, <1>7 DEF Progress

\* Whoever stops or starts the container disturbs every command on the device.
LEMMA ContainerStep ==
  ASSUME ProfileInv, ContainerStops \/ ContainerBoots, UNCHANGED <<tool, label>>
  PROVE  ProfileInv'
<1>1. /\ UNCHANGED <<files, calls>> /\ script' \in [Callers -> ScriptRecord] /\ call' \in [Callers -> CallRecord]
      /\ \A d \in Callers : call'[d] = NoCall \/ call'[d] = Disturbed(d, DeviceCalls)
  <2>1. << >> \in ScriptRecord /\ script \in [Callers -> ScriptRecord]
    BY DEF ScriptRecord, ProfileInv, CallTypes
  <2>2. \A d \in Callers : Disturbed(d, DeviceCalls) \in CallRecord
    BY DisturbedFacts DEF ProfileInv
  <2>3. \A d \in Callers : call'[d] = NoCall \/ call'[d] = Disturbed(d, DeviceCalls)
    BY DEF ContainerStops, ContainerBoots
  <2>4. script' \in [Callers -> ScriptRecord]
    BY <2>1 DEF ContainerStops, ContainerBoots
  <2>5. call' \in [Callers -> CallRecord]
    BY <2>2, NoCallFacts DEF ContainerStops, ContainerBoots
  <2> QED
    BY <2>3, <2>4, <2>5 DEF ContainerStops, ContainerBoots
<1>2. ASSUME NEW d \in Callers
      PROVE  \/ call'[d] = NoCall
             \/ call'[d] = call[d] /\ call[d].op \notin DeviceCalls
             \/ ~call'[d].alone /\ call'[d].op = call[d].op /\ call'[d].look = call[d].look
                /\ call'[d].id = call[d].id /\ call'[d].at = call[d].at
  BY <1>1, DisturbedFacts DEF ProfileInv
<1>3. CallTypes'
  <2> SUFFICES ASSUME NEW d \in Callers PROVE Way(call'[d])
    BY <1>1 DEF CallTypes
  <2>1. Way(call[d])
    BY DEF ProfileInv, CallTypes
  <2>2. ASSUME ~call'[d].alone, call'[d].op = call[d].op, call'[d].look = call[d].look, call'[d].at = call[d].at
        PROVE  Way(call'[d])
    BY <2>1, <2>2 DEF Way
  <2> QED
    BY <1>2, <2>1, <2>2, NoCallFacts
<1>4. ShownTypes'
  <2>1. CASE ContainerStops
    <3>1. stops \in 0..MaxStops /\ stops < MaxStops /\ stops' = stops + 1
      BY <2>1 DEF ContainerStops, ProfileInv, ShownTypes
    <3>2. stops' \in 0..MaxStops
      BY <3>1, ProfileAssumption
    <3>3. containerUp' = FALSE /\ UNCHANGED <<conf, props, hooks, traces, usage, native, calls, tool, label>>
      BY <2>1 DEF ContainerStops, shownVars
    <3> QED
      BY <3>2, <3>3 DEF ProfileInv, ShownTypes
  <2>2. CASE ContainerBoots
    BY <2>2, ConfDomain, ProfileAssumption DEF ContainerBoots, ProfileInv, ShownTypes, Looks
  <2> QED
    BY <2>1, <2>2
<1>5. \A d \in Callers : call'[d].alone => call'[d] = call[d] /\ call[d].op \notin DeviceCalls
  BY <1>2, NoCallFacts
<1>6. DeviceInv'
  <2>1. Solo'
    BY <1>2, <1>5, NoCallFacts DEF ProfileInv, DeviceInv, Solo, LibraryCalls
  <2> QED
    BY <1>5, <2>1 DEF DeviceInv
<1>7. LibraryInv'
  <2>1. \A d \in Callers : d \in Captures' => d \in Captures /\ (call'[d].at = "write" => call'[d].id \notin BuiltinIds)
    BY <1>2, NoCallFacts DEF Captures, ProfileInv, LibraryInv
  <2>2. \A d \in Callers : call'[d].alone => LibraryTruth(call[d])'
    BY <1>1, <1>5 DEF ProfileInv, LibraryInv, LibraryTruth, FileOf
  <2>3. calls \in Nat /\ calls' = calls /\ calls <= calls'
    BY <1>1, ProfileAssumption DEF ProfileInv, ShownTypes
  <2> QED
    BY <1>1, <2>1, <2>2, <2>3, FilesStay DEF ProfileInv
<1> QED
  BY <1>3, <1>4, <1>6, <1>7 DEF ProfileInv

LEMMA ProfileInvInit == ProfileInit => ProfileInv
<1> SUFFICES ASSUME ProfileInit PROVE ProfileInv
  OBVIOUS
<1>1. call = [c \in Callers |-> NoCall] /\ script = [c \in Callers |-> << >>] /\ files = {} /\ calls = 0 /\ stops = 0
  BY DEF ProfileInit
<1>2. CallTypes
  BY <1>1, NoCallFacts DEF CallTypes, ScriptRecord
<1>3. ShownTypes
  BY <1>1, ConfDomain, ProfileAssumption DEF ProfileInit, ShownTypes, Looks
<1>4. DeviceInv
  BY <1>1, NoCallFacts DEF DeviceInv, Solo
<1>5. LibraryInv
  <2>1. Captures = {}
    BY <1>1, NoCallFacts DEF Captures
  <2> QED
    BY <1>1, <2>1, NoCallFacts, FS_EmptySet DEF LibraryInv, FileOf
<1> QED
  BY <1>2, <1>3, <1>4, <1>5 DEF ProfileInv

LEMMA ProfileInvStep == ProfileInv /\ [ProfileNext]_profileVars => ProfileInv'
<1> SUFFICES ASSUME ProfileInv, [ProfileNext]_profileVars PROVE ProfileInv'
  OBVIOUS
<1>1. ASSUME NEW c \in Callers, Command(c), UNCHANGED <<containerUp, tool, label, stops>> PROVE ProfileInv'
  BY <1>1, CommandStep
<1>2. ASSUME NEW c \in Callers, Progress(c), UNCHANGED <<containerUp, tool, label, calls, stops>> PROVE ProfileInv'
  BY <1>2, ProgressStep DEF Rest
<1>3. CASE (ContainerStops \/ ContainerBoots) /\ UNCHANGED <<tool, label>>
  BY <1>3, ContainerStep
<1>4. CASE UNCHANGED profileVars
  <2>1. CallTypes' /\ ShownTypes'
    BY <1>4 DEF profileVars, ProfileInv, CallTypes, ShownTypes
  <2>2. Solo'
    BY <1>4 DEF profileVars, ProfileInv, DeviceInv, Solo
  <2>3. \A c \in Callers : DeviceTruth(call[c], script[c]) => DeviceTruth(call[c], script[c])'
    <3>1. UNCHANGED <<call, script, tool, conf, props, hooks, usage, native>>
      BY <1>4 DEF profileVars
    <3> SUFFICES ASSUME NEW c \in Callers, DeviceTruth(call[c], script[c]) PROVE DeviceTruth(call[c], script[c])'
      OBVIOUS
    <3> QED
      BY <3>1 DEF DeviceTruth, SwitchIsAt, ScriptIsAt, SeedIsAt, HooksAreAsTold, Shows
  <2>4. DeviceInv'
    BY <1>4, <2>2, <2>3 DEF profileVars, ProfileInv, DeviceInv
  <2>5. LibraryInv'
    BY <1>4 DEF profileVars, ProfileInv, LibraryInv, LibraryTruth, FileOf, Captures
  <2> QED
    BY <2>1, <2>4, <2>5 DEF ProfileInv
<1> QED
  BY <1>1, <1>2, <1>3, <1>4 DEF ProfileNext

LEMMA ProfileInvImplies == ProfileInv => ProfileTypeOK /\ ProfileIsAsTold
<1> SUFFICES ASSUME ProfileInv PROVE ProfileTypeOK /\ ProfileIsAsTold
  OBVIOUS
<1> USE DEF ProfileInv
<1>1. ProfileTypeOK
  <2>1. \A c \in Callers : Len(script[c]) \in {0, 2}
    BY DEF CallTypes, ScriptRecord
  <2>2. \A c \in Callers : call[c].op \in DeviceCalls \cup LibraryCalls \cup {"none"} /\ call[c].at \in Places
    BY DEF CallTypes, CallRecord
  <2> QED
    BY <2>1, <2>2, ConfDomain DEF ShownTypes, LibraryInv, ProfileTypeOK
<1>2. ASSUME NEW c \in Callers, call[c].at = "done", call[c].alone, call[c].op \in DeviceCalls
      PROVE  LET t == call[c] IN
             /\ t.op \in {"swap", "reapply"} /\ t.ok /\ tool => \A p \in DOMAIN props : props[p] = t.look
             /\ t.op = "swap" =>
                  hooks = IF t.ok /\ "hooks" \notin t.warned THEN t.look ELSE t.before
             /\ t.op = "push" /\ t.ok => hooks = t.look
             /\ t.op = "seed" /\ t.ok => usage.list = t.look /\ usage.dated = t.look
             /\ t.op = "seed" /\ t.ok /\ "chmod" \notin t.warned => usage.readable
             /\ t.op = "native" /\ t.ok => native = "written"
  <2>1. DeviceTruth(call[c], script[c])
    BY <1>2 DEF DeviceInv
  <2>2. DOMAIN props = 1..3
    BY DEF ShownTypes
  <2> QED
    BY <1>2, <2>1, <2>2 DEF DeviceTruth, SwitchIsAt, ScriptIsAt, SeedIsAt, HooksAreAsTold, Shows
<1>3. ASSUME NEW c \in Callers, call[c].at = "done", call[c].alone
      PROVE  /\ call[c].op = "capture" => FileOf(call[c].id) = {<<call[c].id, call[c].look>>}
             /\ call[c].op = "delete" => FileOf(call[c].id) = {}
  BY <1>3 DEF LibraryInv, LibraryTruth
<1> QED
  BY <1>1, <1>2, <1>3 DEF ProfileIsAsTold, LibraryInv, DeviceCalls

\* What a command of the library of profiles was told of the device or of the library is
\* so, for as long as nobody else has been at work on the same things; a captured profile
\* finds a name, and no built-in one is ever covered.
THEOREM ProfileAsTold == ProfileSpec => []ProfileIsAsTold
<1> QED
  BY ProfileInvInit, ProfileInvStep, ProfileInvImplies, PTL DEF ProfileSpec

\* The types of the library, the container and the commands.
THEOREM ProfileTypes == ProfileSpec => []ProfileTypeOK
<1> QED
  BY ProfileInvInit, ProfileInvStep, ProfileInvImplies, PTL DEF ProfileSpec

-----------------------------------------------------------------------------
(* Devices that are waited for, and packages put on them, for all threads,    *)
(* packages, and numbers of probes and rounds.                                *)

WaitRecord == [at : {"idle", "probing", "looping", "connecting", "reading", "sleeping", "ended"},
               left : 0..(Probes + Rounds), last : {"unknown", "none", "offline", "unauthorized", "device"},
               first : BOOLEAN,
               answer : {"none", "refused", "unreachable", "cancelled", "ready", "timeout"}]
InstallRecord == [at : {"idle", "pushing", "installing", "removing"}, apk : Apks \cup {NoApk},
                  alone : BOOLEAN, answer : {"none", "ok", "failed"}]

InLoop(l) == l.at \in {"probing", "looping", "connecting", "reading", "sleeping"}

\* Where a loop that has not been disturbed is: the first round connects, or finds a
\* transport that is no use, and the second one drops that and connects anew.
Calm(l) ==
  /\ l.at = "looping" =>
       \/ l.left = Rounds /\ l.first /\ l.last = "unknown"
       \/ l.left = Rounds - 1 /\ l.last \in {"offline", "unauthorized"}
  /\ l.at = "connecting" => l.left = Rounds \/ (l.left = Rounds - 1 /\ transport \in {"none", "device"})
  /\ l.at = "reading" => transport # "none" /\ (l.left = Rounds \/ (l.left = Rounds - 1 /\ transport = "device"))
  /\ l.at = "sleeping" =>
       /\ transport # "none" /\ l.last \in {"device", "offline", "unauthorized"}
       /\ l.last = "device" => transport = "device"
       /\ l.left = Rounds \/ (l.left = Rounds - 1 /\ l.last = "device")

\* One loop at a time, as long as it is in WAITING.
OneLoop ==
  /\ \A w \in Waits : InLoop(waitLoop[w]) => waitingFor
  /\ \A v, w \in Waits : InLoop(waitLoop[v]) /\ InLoop(waitLoop[w]) => v = w

LoopsInv ==
  /\ OneLoop
  /\ \A w \in Waits : /\ waitLoop[w].at \in {"idle", "probing"} => waitLoop[w].last = "unknown" /\ waitLoop[w].first
                      /\ waitLoop[w].at # "ended" => waitLoop[w].answer = "none"
                      /\ waitLoop[w].at \in {"connecting", "reading", "sleeping"} => waitLoop[w].left > 0
                      /\ steady => Calm(waitLoop[w])
  /\ steady => Up

\* What is on the device is the package of the installation that is alone.
InstallsInv ==
  \A i \in Installs :
     /\ install[i].at \in {"pushing", "installing"} => install[i].answer = "none"
     /\ Busy(i) /\ install[i].alone =>
          /\ \A j \in Installs \ {i} : ~Busy(j)
          /\ install[i].at = "installing" => remote = install[i].apk

LinkInv == LinkTypeOK /\ LoopsInv /\ InstallsInv

LEMMA LinkInvInit == LinkInit => LinkInv
<1> SUFFICES ASSUME LinkInit PROVE LinkInv
  OBVIOUS
<1> USE LinkAssumption
<1>1. Idle \in WaitRecord /\ Idle.at = "idle" /\ Idle.last = "unknown" /\ Idle.first /\ Idle.answer = "none"
  BY DEF Idle, WaitRecord
<1>2. NoInstall \in InstallRecord /\ NoInstall.at = "idle"
  BY DEF NoInstall, InstallRecord
<1>3. waitLoop = [w \in Waits |-> Idle] /\ install = [i \in Installs |-> NoInstall]
  BY DEF LinkInit
<1>4. LinkTypeOK
  <2>1. waitLoop \in [Waits -> WaitRecord] /\ install \in [Installs -> InstallRecord]
    BY <1>1, <1>2, <1>3
  <2> QED
    BY <2>1 DEF LinkInit, LinkTypeOK, WaitRecord, InstallRecord
<1>5. LoopsInv
  BY <1>1, <1>3 DEF LinkInit, LoopsInv, OneLoop, InLoop, Calm
<1>6. InstallsInv
  BY <1>2, <1>3 DEF InstallsInv, Busy
<1> QED
  BY <1>4, <1>5, <1>6 DEF LinkInv

\* A step of one loop.
LEMMA LoopMoves ==
  ASSUME LinkInv, NEW w \in Waits, NEW l \in WaitRecord, waitLoop' = [waitLoop EXCEPT ![w] = l],
         transport' \in {"none", "offline", "unauthorized", "device"},
         UNCHANGED <<device, steady, installVars>>, waitingFor' \in BOOLEAN, waitCancelled' \in BOOLEAN,
         InLoop(waitLoop[w]), waitingFor' <=> InLoop(l), l.at # "idle",
         l.at = "probing" => l.last = "unknown" /\ l.first, l.at # "ended" => l.answer = "none",
         l.at \in {"connecting", "reading", "sleeping"} => l.left > 0,
         steady => Calm(l)'
  PROVE  LinkInv'
<1> USE DEF LinkInv
<1>1. LinkTypeOK'
  BY DEF LinkTypeOK, WaitRecord, installVars
<1>2. waitLoop'[w] = l /\ \A v \in Waits \ {w} : waitLoop'[v] = waitLoop[v] /\ ~InLoop(waitLoop[v])
  BY DEF LinkTypeOK, LoopsInv, OneLoop
<1>3. OneLoop'
  BY <1>2 DEF OneLoop
<1>4. \A v \in Waits \ {w} : Calm(waitLoop[v])'
  BY <1>2 DEF InLoop, Calm
<1>5. LoopsInv'
  BY <1>2, <1>3, <1>4 DEF LoopsInv, InLoop, Up
<1>6. InstallsInv'
  BY DEF InstallsInv, Busy, installVars
<1> QED
  BY <1>1, <1>5, <1>6

LEMMA EndFacts ==
  ASSUME NEW answer \in {"unreachable", "cancelled", "ready", "timeout"}
  PROVE  LET e == [Idle EXCEPT !.at = "ended", !.answer = answer] IN
           e \in WaitRecord /\ e.at = "ended" /\ e.answer = answer
<1>1. Idle \in WaitRecord
  BY LinkAssumption DEF Idle, WaitRecord
<1> QED
  BY <1>1 DEF WaitRecord

\* A way out of the loop.
LEMMA EndStep ==
  ASSUME LinkInv, NEW w \in Waits, NEW answer \in {"unreachable", "cancelled", "ready", "timeout"}, End(w, answer),
         InLoop(waitLoop[w]), UNCHANGED <<transport, device, steady, installVars>>
  PROVE  LinkInv' /\ waitLoop'[w].answer = answer
<1>1. PICK l \in WaitRecord :
        /\ l.at = "ended" /\ l.answer = answer
        /\ waitLoop' = [waitLoop EXCEPT ![w] = l] /\ waitingFor' = FALSE /\ waitCancelled' = waitCancelled
  BY EndFacts DEF End, Set
<1>3. transport' \in {"none", "offline", "unauthorized", "device"} /\ waitCancelled' \in BOOLEAN
  BY <1>1 DEF LinkInv, LinkTypeOK
<1>4. ~InLoop(l) /\ Calm(l)'
  BY <1>1 DEF InLoop, Calm
<1>5. waitLoop'[w] = l
  BY <1>1 DEF LinkInv, LinkTypeOK
<1> QED
  <2>1. /\ waitingFor' \in BOOLEAN /\ (waitingFor' <=> InLoop(l)) /\ l.at \notin {"idle", "probing"}
        /\ l.at \notin {"connecting", "reading", "sleeping"}
    BY <1>1, <1>4
  <2> QED
    BY <1>1, <1>3, <1>4, <1>5, <2>1, LoopMoves

\* What a step of a loop does to the answers: the time is over, or the port closed,
\* for no device that is up and left alone.
Patient == \A w \in Waits : waitLoop'[w].answer \in {"unreachable", "timeout"} /\ waitLoop[w].answer = "none" => ~steady

LEMMA ProbePortStep == ASSUME LinkInv, NEW w \in Waits, ProbePort(w) PROVE LinkInv' /\ Patient
<1> USE LinkAssumption DEF LinkInv
<1> DEFINE t == waitLoop[w]
<1>1. t \in WaitRecord /\ t.at = "probing" /\ t.left \in 0..(Probes + Rounds) /\ InLoop(t)
      /\ t.last = "unknown" /\ t.first /\ t.answer = "none" /\ waitingFor
  BY DEF ProbePort, LinkTypeOK, WaitRecord, InLoop, LoopsInv, OneLoop
<1>2. UNCHANGED <<transport, device, steady, installVars>>
      /\ transport' \in {"none", "offline", "unauthorized", "device"} /\ waitingFor \in BOOLEAN /\ waitCancelled \in BOOLEAN
  BY DEF ProbePort, LinkTypeOK
<1>3. \A v \in Waits \ {w} : waitLoop'[v] = waitLoop[v]
  BY DEF ProbePort, End, Set, LinkTypeOK
<1>4. CASE waitCancelled \/ device.listening
  <2>1. PICK l : l = [t EXCEPT !.at = "looping", !.left = Rounds]
    OBVIOUS
  <2>2. l \in WaitRecord /\ l.left = Rounds /\ l.at = "looping" /\ l.last = "unknown" /\ l.first /\ l.answer = "none"
    <3>1. Rounds \in 0..(Probes + Rounds)
      OBVIOUS
    <3> QED
      BY <1>1, <2>1, <3>1 DEF WaitRecord
  <2>5. waitLoop' = [waitLoop EXCEPT ![w] = l] /\ UNCHANGED <<waitingFor, waitCancelled>>
    BY <1>4, <2>1 DEF ProbePort, Set
  <2>3. InLoop(l) /\ Calm(l)'
    BY <2>2 DEF InLoop, Calm
  <2>4. waitLoop'[w] = l
    BY <2>5 DEF LinkTypeOK
  <2> QED
    BY <1>1, <1>2, <1>3, <2>2, <2>3, <2>4, <2>5, LoopMoves DEF Patient
<1>5. CASE ~(waitCancelled \/ device.listening) /\ t.left > Rounds + 1
  <2>1. PICK l : l = [t EXCEPT !.left = t.left - 1]
    OBVIOUS
  <2>2. l \in WaitRecord /\ l.at = "probing" /\ l.last = "unknown" /\ l.first /\ l.answer = "none"
    <3>1. t.left - 1 \in 0..(Probes + Rounds)
      BY <1>1, <1>5
    <3> QED
      BY <1>1, <2>1, <3>1 DEF WaitRecord
  <2>5. waitLoop' = [waitLoop EXCEPT ![w] = l] /\ UNCHANGED <<waitingFor, waitCancelled>>
    BY <1>5, <2>1 DEF ProbePort, Set
  <2>3. InLoop(l) /\ Calm(l)'
    BY <2>2 DEF InLoop, Calm
  <2>4. waitLoop'[w] = l
    BY <2>5 DEF LinkTypeOK
  <2> QED
    BY <1>1, <1>2, <1>3, <2>2, <2>3, <2>4, <2>5, LoopMoves DEF Patient
<1>6. CASE ~(waitCancelled \/ device.listening) /\ ~(t.left > Rounds + 1)
  <2>1. End(w, "unreachable")
    BY <1>6 DEF ProbePort
  <2>2. ~steady
    BY <1>6 DEF LoopsInv, Up
  <2> QED
    BY <1>1, <1>2, <2>1, <2>2, EndStep DEF Patient
<1> QED
  BY <1>4, <1>5, <1>6

LEMMA RoundStep == ASSUME LinkInv, NEW w \in Waits, Round(w) PROVE LinkInv' /\ Patient
<1> USE LinkAssumption DEF LinkInv
<1> DEFINE t == waitLoop[w]
<1>1. t \in WaitRecord /\ t.at = "looping" /\ t.left \in 0..(Probes + Rounds) /\ InLoop(t)
      /\ t.answer = "none" /\ waitingFor /\ (steady => Calm(t))
  BY DEF Round, LinkTypeOK, WaitRecord, InLoop, LoopsInv, OneLoop
<1>2. UNCHANGED <<device, steady, installVars>> /\ transport \in {"none", "offline", "unauthorized", "device"}
      /\ waitingFor \in BOOLEAN /\ waitCancelled \in BOOLEAN
  BY DEF Round, LinkTypeOK
<1>3. \A v \in Waits \ {w} : waitLoop'[v] = waitLoop[v]
  BY DEF Round, End, Set, LinkTypeOK
<1>4. CASE t.left = 0
  <2>1. End(w, "timeout") /\ UNCHANGED transport
    BY <1>4 DEF Round
  <2>2. ~steady
    BY <1>1, <1>4 DEF Calm
  <2> QED
    BY <1>1, <1>2, <2>1, <2>2, EndStep DEF Patient
<1>5. CASE t.left # 0 /\ waitCancelled
  <2>1. End(w, "cancelled") /\ UNCHANGED transport
    BY <1>5 DEF Round
  <2>2. LinkInv' /\ waitLoop'[w].answer = "cancelled"
    BY <1>1, <1>2, <2>1, EndStep
  <2> QED
    BY <1>3, <2>2 DEF Patient
<1>6. CASE t.left # 0 /\ ~waitCancelled
  <2> DEFINE at == IF MustConnect(w) THEN "connecting" ELSE "reading"
  <2>1. PICK l : l = [t EXCEPT !.at = at, !.first = FALSE]
    OBVIOUS
  <2>2. l \in WaitRecord /\ l.left = t.left /\ l.at = at /\ l.last = t.last /\ ~l.first /\ l.answer = "none"
    BY <1>1, <2>1 DEF WaitRecord
  <2>3. /\ waitLoop' = [waitLoop EXCEPT ![w] = l] /\ UNCHANGED <<waitingFor, waitCancelled>>
        /\ transport' = IF MustConnect(w) /\ Stale(w) THEN "none" ELSE transport
    BY <1>6, <2>1 DEF Round, Set
  <2>4. InLoop(l) /\ (steady => Calm(l)')
    <3>1. ASSUME steady PROVE MustConnect(w) /\ (t.left = Rounds \/ (t.left = Rounds - 1 /\ Stale(w)))
      BY <1>1, <3>1 DEF Calm, MustConnect, Stale
    <3> QED
      BY <2>2, <2>3, <3>1 DEF InLoop, Calm, MustConnect
  <2>5. waitLoop'[w] = l
    BY <2>3 DEF LinkTypeOK
  <2>6. transport' \in {"none", "offline", "unauthorized", "device"} /\ l.left > 0 /\ l.at \notin {"idle", "probing", "ended"}
    BY <1>1, <1>2, <1>6, <2>2, <2>3
  <2>7. LinkInv'
    BY <1>1, <1>2, <2>2, <2>3, <2>4, <2>6, LoopMoves
  <2> QED
    BY <1>3, <2>2, <2>5, <2>7 DEF Patient
<1> QED
  BY <1>4, <1>5, <1>6

LEMMA ConnectDeviceStep == ASSUME LinkInv, NEW w \in Waits, ConnectDevice(w) PROVE LinkInv' /\ Patient
<1> USE LinkAssumption DEF LinkInv
<1> DEFINE t == waitLoop[w]
<1>1. t \in WaitRecord /\ t.at = "connecting" /\ InLoop(t) /\ t.left > 0
      /\ t.answer = "none" /\ waitingFor /\ (steady => Calm(t)) /\ (steady => Up)
  BY DEF ConnectDevice, LinkTypeOK, WaitRecord, InLoop, LoopsInv, OneLoop
<1>2. UNCHANGED <<device, steady, installVars, waitingFor, waitCancelled>> /\ transport' \in {"none", "offline", "unauthorized", "device"}
      /\ waitingFor \in BOOLEAN /\ waitCancelled \in BOOLEAN
  BY DEF ConnectDevice, LinkTypeOK, Connected
<1>3. PICK l : l = [t EXCEPT !.at = "reading"]
  OBVIOUS
<1>4. l \in WaitRecord /\ l.left = t.left /\ l.at = "reading" /\ l.answer = "none"
  BY <1>1, <1>3 DEF WaitRecord
<1>5. waitLoop' = [waitLoop EXCEPT ![w] = l]
  BY <1>3 DEF ConnectDevice, Set
<1>6. InLoop(l) /\ (steady => Calm(l)')
  <2>1. ASSUME steady PROVE transport' # "none" /\ (transport \in {"none", "device"} => transport' = "device")
    BY <1>1, <2>1 DEF ConnectDevice, Connected, Up
  <2> QED
    BY <1>1, <1>4, <2>1 DEF InLoop, Calm
<1>7. \A v \in Waits : waitLoop'[v].answer = waitLoop[v].answer
  BY <1>1, <1>4, <1>5 DEF LinkTypeOK
<1>8. l.at \notin {"idle", "probing", "ended"} /\ l.left > 0
  BY <1>1, <1>4
<1>9. LinkInv'
  BY <1>1, <1>2, <1>4, <1>5, <1>6, <1>8, LoopMoves
<1> QED
  BY <1>7, <1>9 DEF Patient

LEMMA ReadStateStep == ASSUME LinkInv, NEW w \in Waits, ReadState(w) PROVE LinkInv' /\ Patient
<1> USE LinkAssumption DEF LinkInv
<1> DEFINE t == waitLoop[w]
<1>1. t \in WaitRecord /\ t.at = "reading" /\ InLoop(t) /\ t.left > 0
      /\ t.answer = "none" /\ waitingFor /\ (steady => Calm(t))
  BY DEF ReadState, LinkTypeOK, WaitRecord, InLoop, LoopsInv, OneLoop
<1>2. UNCHANGED <<transport, device, steady, installVars, waitingFor, waitCancelled>> /\ transport \in {"none", "offline", "unauthorized", "device"}
      /\ waitingFor \in BOOLEAN /\ waitCancelled \in BOOLEAN
  BY DEF ReadState, LinkTypeOK
<1>3. PICK l : l = [t EXCEPT !.at = "sleeping", !.last = transport]
  OBVIOUS
<1>4. l \in WaitRecord /\ l.left = t.left /\ l.at = "sleeping" /\ l.last = transport /\ l.answer = "none"
  BY <1>1, <1>2, <1>3 DEF WaitRecord
<1>5. waitLoop' = [waitLoop EXCEPT ![w] = l]
  BY <1>3 DEF ReadState, Set
<1>6. InLoop(l) /\ (steady => Calm(l)')
  BY <1>1, <1>2, <1>4 DEF InLoop, Calm
<1>7. \A v \in Waits : waitLoop'[v].answer = waitLoop[v].answer
  BY <1>1, <1>4, <1>5 DEF LinkTypeOK
<1>8. l.at \notin {"idle", "probing", "ended"} /\ l.left > 0
  BY <1>1, <1>4
<1>9. LinkInv'
  BY <1>1, <1>2, <1>4, <1>5, <1>6, <1>8, LoopMoves
<1> QED
  BY <1>7, <1>9 DEF Patient

LEMMA ReadBootStep == ASSUME LinkInv, NEW w \in Waits, ReadBoot(w) PROVE LinkInv' /\ Patient
<1> USE LinkAssumption DEF LinkInv
<1> DEFINE t == waitLoop[w]
           ready == t.last = "device" /\ transport = "device" /\ device.booted
<1>1. t \in WaitRecord /\ t.at = "sleeping" /\ InLoop(t) /\ t.left > 0 /\ t.left \in 0..(Probes + Rounds)
      /\ t.answer = "none" /\ waitingFor /\ (steady => Calm(t)) /\ (steady => Up)
  BY DEF ReadBoot, LinkTypeOK, WaitRecord, InLoop, LoopsInv, OneLoop
<1>2. UNCHANGED <<transport, device, steady, installVars>> /\ transport \in {"none", "offline", "unauthorized", "device"}
      /\ waitingFor \in BOOLEAN /\ waitCancelled \in BOOLEAN
  BY DEF ReadBoot, LinkTypeOK
<1>3. CASE ready
  <2>1. End(w, "ready")
    BY <1>3 DEF ReadBoot
  <2>2. LinkInv' /\ waitLoop'[w].answer = "ready"
    BY <1>1, <1>2, <2>1, EndStep
  <2>3. \A v \in Waits \ {w} : waitLoop'[v] = waitLoop[v]
    BY <2>1 DEF End, Set, LinkTypeOK
  <2> QED
    BY <2>2, <2>3 DEF Patient
<1>4. CASE ~ready
  <2>1. PICK l : l = [t EXCEPT !.at = "looping", !.left = t.left - 1]
    OBVIOUS
  <2>2. l \in WaitRecord /\ l.left = t.left - 1 /\ l.at = "looping" /\ l.last = t.last /\ l.answer = "none"
    <3>1. t.left - 1 \in 0..(Probes + Rounds)
      BY <1>1
    <3> QED
      BY <1>1, <2>1, <3>1 DEF WaitRecord
  <2>3. waitLoop' = [waitLoop EXCEPT ![w] = l] /\ UNCHANGED <<waitingFor, waitCancelled>>
    BY <1>4, <2>1 DEF ReadBoot, Set
  <2>4. InLoop(l) /\ (steady => Calm(l)')
    <3>1. ASSUME steady PROVE t.left = Rounds /\ t.last \in {"offline", "unauthorized"}
      BY <1>1, <1>4, <3>1 DEF Calm, Up
    <3> QED
      BY <2>2, <3>1 DEF InLoop, Calm
  <2>5. \A v \in Waits : waitLoop'[v].answer = waitLoop[v].answer
    BY <1>1, <2>2, <2>3 DEF LinkTypeOK
  <2>6. l.at \notin {"idle", "probing", "ended", "connecting", "reading", "sleeping"}
    BY <2>2
  <2>7. LinkInv'
    BY <1>1, <1>2, <2>2, <2>3, <2>4, <2>6, LoopMoves
  <2> QED
    BY <2>5, <2>7 DEF Patient
<1> QED
  BY <1>3, <1>4

\* A call begins a loop, or is refused one.
LEMMA BeginWaitStep == ASSUME LinkInv, NEW w \in Waits, BeginWait(w) \/ RefuseWait(w) PROVE LinkInv' /\ Patient
<1> USE LinkAssumption DEF LinkInv
<1> DEFINE t == waitLoop[w]
<1>1. t \in WaitRecord /\ t.at = "idle" /\ t.last = "unknown" /\ t.first /\ t.answer = "none"
  BY DEF BeginWait, RefuseWait, LinkTypeOK, WaitRecord, LoopsInv
<1>2. UNCHANGED <<transport, device, installVars>>
  BY DEF BeginWait, RefuseWait
<1>3. PICK l \in WaitRecord :
        /\ waitLoop' = [waitLoop EXCEPT ![w] = l]
        /\ \/ /\ l.at = "probing" /\ l.last = "unknown" /\ l.first /\ l.answer = "none"
              /\ ~waitingFor /\ waitingFor' = TRUE /\ waitCancelled' = FALSE /\ steady' \in BOOLEAN /\ (steady' <=> Up)
           \/ l.at = "ended" /\ l.answer = "refused" /\ UNCHANGED <<waitingFor, waitCancelled, steady>>
  <2>1. CASE BeginWait(w)
    <3>1. PICK l : l = [t EXCEPT !.at = "probing", !.left = Probes + Rounds]
      OBVIOUS
    <3>2. l \in WaitRecord /\ l.at = "probing" /\ l.last = "unknown" /\ l.first /\ l.answer = "none"
      <4>1. Probes + Rounds \in 0..(Probes + Rounds)
        OBVIOUS
      <4> QED
        BY <1>1, <3>1, <4>1 DEF WaitRecord
    <3> QED
      BY <2>1, <3>1, <3>2 DEF BeginWait, Set, Up, LinkTypeOK
  <2>2. CASE RefuseWait(w)
    <3>1. PICK l : l = [t EXCEPT !.at = "ended", !.answer = "refused"]
      OBVIOUS
    <3>2. l \in WaitRecord /\ l.at = "ended" /\ l.answer = "refused"
      BY <1>1, <3>1 DEF WaitRecord
    <3> QED
      BY <2>2, <3>1, <3>2 DEF RefuseWait, Set
  <2> QED
    BY <2>1, <2>2
<1>4. waitLoop'[w] = l /\ \A v \in Waits \ {w} : waitLoop'[v] = waitLoop[v]
  BY <1>3 DEF LinkTypeOK
<1>5. LinkTypeOK'
  <2>1. waitLoop' \in [Waits -> WaitRecord]
    BY <1>3 DEF LinkTypeOK, WaitRecord
  <2>2. waitingFor' \in BOOLEAN /\ waitCancelled' \in BOOLEAN /\ steady' \in BOOLEAN
    BY <1>3 DEF LinkTypeOK, Up
  <2> QED
    BY <1>2, <2>1, <2>2 DEF LinkTypeOK, installVars, WaitRecord
<1>6. OneLoop'
  BY <1>3, <1>4 DEF LoopsInv, OneLoop, InLoop
<1>7. LoopsInv'
  <2>1. steady' => Up'
    BY <1>2, <1>3 DEF LoopsInv, Up
  <2>2. ASSUME NEW v \in Waits, steady' PROVE Calm(waitLoop[v])'
    <3>1. CASE v = w
      BY <1>3, <1>4, <3>1 DEF Calm
    <3>2. CASE v # w
      BY <1>2, <1>3, <1>4, <2>2, <3>2 DEF LoopsInv, OneLoop, InLoop, Calm
    <3> QED
      BY <3>1, <3>2
  <2> QED
    BY <1>3, <1>4, <1>6, <2>1, <2>2 DEF LoopsInv
<1>8. InstallsInv'
  BY <1>2 DEF InstallsInv, Busy, installVars
<1>9. Patient
  BY <1>3, <1>4 DEF Patient
<1> QED
  BY <1>5, <1>7, <1>8, <1>9

\* adb, the device and whoever cancels leave the loops where they are; while a device is
\* left alone its transport only ever comes up.
LEMMA AroundStep ==
  ASSUME LinkInv, AdbNext \/ CancelWait
  PROVE  LinkInv' /\ Patient
<1> USE DEF LinkInv
<1>1. UNCHANGED <<waitLoop, waitingFor, installVars>>
  BY DEF AdbNext, CancelWait, DeviceChanges, DeviceComesUp, UserDrops, UserConnects, waitVars
<1>2. /\ transport' \in {"none", "offline", "unauthorized", "device"}
      /\ waitCancelled' \in BOOLEAN /\ steady' \in BOOLEAN
  BY DEF AdbNext, CancelWait, DeviceChanges, DeviceComesUp, UserDrops, UserConnects, Connected, LinkTypeOK, waitVars
<1>3. device' \in [listening : BOOLEAN, booted : BOOLEAN] /\ (device.listening /\ steady' => device'.listening)
      /\ (device.booted /\ steady' => device'.booted)
  <2>1. CASE DeviceChanges
    BY <2>1 DEF DeviceChanges
  <2>2. CASE DeviceComesUp
    BY <2>2 DEF DeviceComesUp, LinkTypeOK
  <2>3. CASE UserDrops \/ UserConnects \/ CancelWait
    BY <2>3 DEF UserDrops, UserConnects, CancelWait, LinkTypeOK
  <2> QED
    BY <2>1, <2>2, <2>3 DEF AdbNext
<1>4. steady' => steady /\ (transport' = transport \/ transport' = "device")
  BY DEF AdbNext, CancelWait, DeviceChanges, DeviceComesUp, UserDrops, UserConnects, Connected, LoopsInv
<1>5. LinkTypeOK'
  BY <1>1, <1>2, <1>3 DEF LinkTypeOK, installVars
<1>6. LoopsInv'
  <2>1. steady' => Up'
    BY <1>3, <1>4 DEF LoopsInv, Up
  <2>2. ASSUME NEW w \in Waits, steady' PROVE Calm(waitLoop[w])'
    BY <1>1, <1>4, <2>2 DEF LoopsInv, Calm
  <2>3. OneLoop'
    BY <1>1 DEF LoopsInv, OneLoop
  <2> QED
    BY <1>1, <2>1, <2>2, <2>3 DEF LoopsInv
<1>7. InstallsInv'
  BY <1>1 DEF InstallsInv, Busy, installVars
<1> QED
  BY <1>1, <1>5, <1>6, <1>7 DEF Patient

\* A package goes onto the device, is installed from it, and is removed.
Installed == \A i \in Installs : install[i].at = "installing" /\ install'[i].answer = "ok" /\ install[i].alone
                                  => installed' = install[i].apk

LEMMA InstallStep ==
  ASSUME LinkInv, NEW i \in Installs, BeginInstall(i) \/ Push(i) \/ PmInstall(i) \/ RemoveApk(i)
  PROVE  LinkInv' /\ Patient /\ Installed
<1> USE DEF LinkInv
<1>1. UNCHANGED <<transport, device, waitVars, steady>>
  BY DEF BeginInstall, Push, PmInstall, RemoveApk
<1>2. LoopsInv' /\ Patient
  <2>1. LoopsInv'
    BY <1>1 DEF LoopsInv, OneLoop, Up, Calm, waitVars
  <2> QED
    BY <1>1, <2>1 DEF Patient, waitVars
<1>3. install \in [Installs -> InstallRecord] /\ remote \in Apks \cup {NoApk} /\ installed \in Apks \cup {NoApk}
  BY DEF LinkTypeOK, InstallRecord
<1>4. ASSUME install' \in [Installs -> InstallRecord], remote' \in Apks \cup {NoApk}, installed' \in Apks \cup {NoApk}
      PROVE  LinkTypeOK'
  BY <1>1, <1>4 DEF LinkTypeOK, InstallRecord, waitVars
<1>5. CASE BeginInstall(i)
  <2>1. PICK a \in Apks : install' = [j \in Installs |->
         IF j = i THEN [at |-> "pushing", apk |-> a, answer |-> "none",
                        alone |-> \A k \in Installs : ~Busy(k)]
         ELSE IF Busy(j) THEN [install[j] EXCEPT !.alone = FALSE] ELSE install[j]]
    BY <1>5 DEF BeginInstall
  <2> DEFINE others == \A k \in Installs : ~Busy(k)
             new == [at |-> "pushing", apk |-> a, answer |-> "none", alone |-> others]
  <2>2. new \in InstallRecord /\ new.at = "pushing" /\ new.answer = "none" /\ (new.alone => others)
    BY DEF InstallRecord
  <2>3. install'[i] = new
    BY <2>1
  <2> HIDE DEF new
  <2>4. ASSUME NEW j \in Installs \ {i}
        PROVE  LET e == install'[j] IN
               e \in InstallRecord /\ e.at = install[j].at /\ e.answer = install[j].answer /\ (Busy(j) => ~e.alone)
    BY <1>3, <2>1, <2>4 DEF InstallRecord
  <2>5. install' \in [Installs -> InstallRecord]
    BY <2>1, <2>2, <2>3, <2>4
  <2>6. UNCHANGED <<remote, installed>> /\ ~Busy(i)
    BY <1>5 DEF BeginInstall
  <2>7. InstallsInv'
    BY <2>2, <2>3, <2>4, <2>6 DEF InstallsInv, Busy
  <2>8. Installed
    BY <2>4, <2>6 DEF InstallsInv, Busy, Installed
  <2> QED
    BY <1>2, <1>3, <1>4, <2>5, <2>6, <2>7, <2>8
<1>6. ASSUME NEW at \in {"idle", "installing", "removing"}, NEW answer \in {"none", "ok", "failed"},
             InstallMoves(i, at, answer)
      PROVE  /\ install' \in [Installs -> InstallRecord] /\ \A j \in Installs \ {i} : install'[j] = install[j]
             /\ install'[i].at = at /\ install'[i].answer = answer /\ install'[i].apk = install[i].apk
             /\ install'[i].alone = install[i].alone
  <2>1. LET e == [install[i] EXCEPT !.at = at, !.answer = answer] IN
          e \in InstallRecord /\ e.at = at /\ e.answer = answer /\ e.apk = install[i].apk /\ e.alone = install[i].alone
    BY <1>3 DEF InstallRecord
  <2> QED
    BY <1>3, <1>6, <2>1 DEF InstallMoves
<1>7. install[i] \in InstallRecord /\ install[i].apk \in Apks \cup {NoApk} /\ install[i].answer \in {"none", "ok", "failed"}
  BY <1>3 DEF InstallRecord
<1>8. CASE Push(i)
  <2>1. /\ install[i].at = "pushing" /\ UNCHANGED installed
        /\ \/ remote' = install[i].apk /\ InstallMoves(i, "installing", "none")
           \/ UNCHANGED remote /\ InstallMoves(i, "idle", "failed")
    BY <1>8 DEF Push, AfterFailedPush
  <2>2. InstallsInv' /\ Installed
    BY <1>6, <2>1 DEF InstallsInv, Busy, Installed
  <2> QED
    BY <1>2, <1>3, <1>4, <1>6, <1>7, <2>1, <2>2
<1>9. CASE PmInstall(i)
  <2>1. /\ install[i].at = "installing" /\ UNCHANGED remote
        /\ \/ installed' = remote /\ \E a \in {"ok", "failed"} : InstallMoves(i, "removing", a)
           \/ UNCHANGED installed /\ InstallMoves(i, "removing", "failed")
    BY <1>9 DEF PmInstall
  <2>2. InstallsInv' /\ Installed
    BY <1>6, <2>1 DEF InstallsInv, Busy, Installed
  <2> QED
    BY <1>2, <1>3, <1>4, <1>6, <2>1, <2>2
<1>10. CASE RemoveApk(i)
  <2>1. install[i].at = "removing" /\ UNCHANGED installed /\ remote' \in {NoApk, remote} /\ InstallMoves(i, "idle", install[i].answer)
    BY <1>10 DEF RemoveApk
  <2>2. InstallsInv' /\ Installed
    BY <1>6, <1>7, <2>1 DEF InstallsInv, Busy, Installed
  <2> QED
    BY <1>2, <1>3, <1>4, <1>6, <1>7, <2>1, <2>2
<1> QED
  BY <1>5, <1>8, <1>9, <1>10

LEMMA LinkInvStep == LinkInv /\ [LinkNext]_linkVars => LinkInv' /\ Patient /\ Installed
<1> SUFFICES ASSUME LinkInv, [LinkNext]_linkVars PROVE LinkInv' /\ Patient /\ Installed
  OBVIOUS
<1>1. ASSUME UNCHANGED install PROVE Installed
  BY <1>1 DEF Installed, LinkInv, InstallsInv
<1>2. CASE AdbNext \/ CancelWait
  <2>1. UNCHANGED install
    BY <1>2 DEF AdbNext, CancelWait, DeviceChanges, DeviceComesUp, UserDrops, UserConnects, installVars
  <2> QED
    BY <1>1, <1>2, <2>1, AroundStep
<1>3. ASSUME NEW w \in Waits, BeginWait(w) \/ RefuseWait(w) \/ WaitStep(w) PROVE LinkInv' /\ Patient /\ Installed
  <2>1. UNCHANGED install
    BY <1>3 DEF BeginWait, RefuseWait, WaitStep, ProbePort, Round, ConnectDevice, ReadState, ReadBoot, installVars
  <2> QED
    BY <1>1, <1>3, <2>1, BeginWaitStep, ProbePortStep, RoundStep, ConnectDeviceStep, ReadStateStep, ReadBootStep
       DEF WaitStep
<1>4. ASSUME NEW i \in Installs, BeginInstall(i) \/ Push(i) \/ PmInstall(i) \/ RemoveApk(i)
      PROVE  LinkInv' /\ Patient /\ Installed
  BY <1>4, InstallStep
<1>5. CASE UNCHANGED linkVars
  <2>1. UNCHANGED <<transport, device, waitingFor, waitLoop, waitCancelled, steady, remote, installed, install>>
    BY <1>5 DEF linkVars, waitVars, installVars
  <2>2. LinkInv'
    BY <2>1 DEF LinkInv, LinkTypeOK, LoopsInv, OneLoop, Calm, Up, InstallsInv, Busy
  <2> QED
    BY <1>1, <2>1, <2>2 DEF Patient
<1> QED
  BY <1>2, <1>3, <1>4, <1>5 DEF LinkNext, WaitNext, InstallNext

\* A device that is up and left alone while a loop waits for it is found ready, and an
\* installation that nobody overlapped has installed what it was asked to.
THEOREM DeviceTold == LinkSpec => DeviceIsAsTold
<1>1. LinkInv /\ [LinkNext]_linkVars =>
        [\A w \in Waits : waitLoop'[w].answer \in {"unreachable", "timeout"} /\ waitLoop[w].answer = "none"
           => ~steady]_linkVars
  BY LinkInvStep DEF Patient
<1>2. LinkInv /\ [LinkNext]_linkVars =>
        [\A i \in Installs : install[i].at = "installing" /\ install'[i].answer = "ok" /\ install[i].alone
           => installed' = install[i].apk]_linkVars
  BY LinkInvStep DEF Installed
<1> QED
  BY <1>1, <1>2, LinkInvInit, LinkInvStep, PTL DEF LinkSpec, DeviceIsAsTold, SteadyDeviceIsReady, InstallsWhatWasAsked

-----------------------------------------------------------------------------
(* All the services, as MCServices runs them.                              *)

\* Of each service, what its proofs rest on; a library in use by calls of one kind.
ServicesInv ==
  /\ part \in {"release", "device", "cache", "page", "waits", "installs", "lifecycle", "images", "profile"}
  /\ ReleaseInv /\ SizesInv /\ CacheInv /\ PageInv /\ LinkInv /\ LifecycleInv /\ ImageTypesInv /\ ProfileInv

LEMMA ServicesInvStep == ServicesInv /\ [ServicesNext]_servicesVars => ServicesInv'
<1> SUFFICES ASSUME ServicesInv, [ServicesNext]_servicesVars PROVE ServicesInv'
  OBVIOUS
<1>1. part' = part /\ [Next]_vars /\ [DeviceNext]_deviceVars /\ [CacheNext]_cacheVars
  BY DEF ServicesNext, servicesVars, serviceVars
<1>2. [PageNext]_pageVars /\ [LinkNext]_linkVars /\ [LifecycleNext]_lifecycleVars
  BY DEF ServicesNext, servicesVars, serviceVars, LinkNext
<1>3. [ImagesNext]_imageVars /\ [ProfileNext]_profileVars
  BY DEF ServicesNext, servicesVars, serviceVars
<1>4. ReleaseInv' /\ SizesInv' /\ CacheInv'
  BY <1>1, ReleaseInvStep, SizesInvStep, CacheInvStep DEF ServicesInv
<1>5. PageInv' /\ LinkInv' /\ LifecycleInv'
  BY <1>2, PageInvStep, LinkInvStep, LifecycleInvStep DEF ServicesInv
<1>6. ImageTypesInv' /\ ProfileInv'
  BY <1>3, ImageTypesStep, ProfileInvStep DEF ServicesInv
<1> QED
  BY <1>1, <1>4, <1>5, <1>6 DEF ServicesInv

\* The services of the desktop (runtime_scheduler.rs, the registries of processes, caches,
\* the device page, adb.rs, docker.rs, spoof.rs): whichever of them moves, it keeps its
\* types, and it disturbs none of the others.
THEOREM ServicesTypeCorrect == ServicesSpec => []ServicesTypeOK
<1>1. ServicesInit => ServicesInv
  BY ReleaseInvInit, SizesInvInit, CacheInvInit, PageInvInit, LinkInvInit, LifecycleInvInit, ImageTypesInit, ProfileInvInit
    DEF ServicesInit, ServicesInv
<1>2. ServicesInv => ServicesTypeOK
  <2> SUFFICES ASSUME ServicesInv PROVE ServicesTypeOK
    OBVIOUS
  <2>1. TypeOK /\ ProfileTypeOK
    BY ReleaseInvImplies, ProfileInvImplies DEF ServicesInv
  <2>2. DeviceTypeOK /\ CacheTypeOK /\ PageTypeOK
    BY DEF ServicesInv, SizesInv, CacheInv, PageInv
  <2>3. LinkTypeOK /\ LifecycleTypeOK
    BY DEF ServicesInv, LinkInv, LifecycleInv
  <2>4. ImagesTypeOK
    BY DEF ServicesInv, ImageTypesInv, ImagesInv, ImageShapes, BuildTyped, ImagesTypeOK
  <2> QED
    BY <2>1, <2>2, <2>3, <2>4 DEF ServicesInv, ServicesTypeOK
<1> QED
  BY <1>1, <1>2, ServicesInvStep, PTL DEF ServicesSpec
=============================================================================
