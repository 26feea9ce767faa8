---------------------------- MODULE ClientProofs ----------------------------
(* Theorems about what the client of the authorization service is promised,   *)
(* and promises: its lease, its device identity, its registration and the     *)
(* artifacts that are delivered to it.  MCAuthorization checks the same on    *)
(* small instances.                                                           *)
EXTENDS MCAuthorization, AuthorizationProofs, FiniteSetTheorems, SequenceTheorems, TLAPS

-----------------------------------------------------------------------------
(* The lease of the session the client holds.                              *)

Lent == [rights : SUBSET Rights, exp : Nat, revoked : BOOLEAN]
Call == [pc : {"idle", "sent", "answered"}, kind : {"register", "acquire", "heartbeat"},
         rights : SUBSET Rights, from : Held \cup {NoSession},
         id : Leases \cup {NoLease}, exp : Nat, server_time : Nat]

\* An answer bears a time at which the service was, and a heartbeat goes out for a session;
\* a session in the client's hands has a clock that is behind the service's by no more than
\* its answer was under way.
LeaseInv ==
  /\ \A c \in Threads :
       /\ thread[c].pc = "answered" => thread[c].server_time <= time /\ thread[c].id \in Leases
       /\ thread[c].pc # "idle" /\ thread[c].kind = "heartbeat" => thread[c].from \in Held
  /\ active # NoSession => 0 <= active.ahead + active.delay

ClientInv == ClientTypeOK /\ LeaseInv

LEMMA RestingFacts == Resting \in Call /\ Resting.pc = "idle"
<1>1. NoSession \in {NoSession}
  OBVIOUS
<1> QED
  BY <1>1 DEF Resting, Call

LEMMA ClientInvInit == ClientInit => ClientInv
<1> SUFFICES ASSUME ClientInit PROVE ClientInv
  OBVIOUS
<1>1. lent = <<>> /\ DOMAIN lent = {}
  BY DEF ClientInit
<1>2. thread \in [Threads -> Call] /\ \A c \in Threads : thread[c].pc = "idle"
  BY RestingFacts DEF ClientInit
<1>3. time \in 0..LastTime /\ skew \in Skews /\ registered = FALSE /\ active = NoSession
  BY ClientAssumption DEF ClientInit
<1>4. ClientTypeOK
  BY <1>1, <1>2, <1>3 DEF ClientTypeOK, Call
<1> QED
  BY <1>2, <1>3, <1>4 DEF ClientInv, LeaseInv

\* A command is under way: it has sent its request and holds a copy of the session.
LEMMA PostStep ==
  ASSUME ClientInv, NEW c \in Threads, NEW kind \in {"register", "acquire", "heartbeat"},
         NEW rights \in SUBSET Rights, NEW from \in Held \cup {NoSession},
         kind = "heartbeat" => from \in Held, Post(c, kind, rights, from)
  PROVE  ClientInv'
<1> DEFINE r == [Resting EXCEPT !.pc = "sent", !.kind = kind, !.rights = rights, !.from = from]
<1>1. r \in Call /\ r.pc = "sent" /\ r.kind = kind /\ r.from = from
  BY RestingFacts DEF Call
<1>2. thread' = [thread EXCEPT ![c] = r] /\ UNCHANGED <<time, skew, registered, lent, active>>
  BY DEF Post
<1> HIDE DEF r
<1>3. thread' \in [Threads -> Call]
  BY <1>1, <1>2 DEF ClientInv, ClientTypeOK, Call
<1> QED
  BY <1>1, <1>2, <1>3 DEF ClientInv, ClientTypeOK, LeaseInv, Call

\* The service has answered with a lease of the time it was then.
LEMMA ServedStep ==
  ASSUME ClientInv, NEW c \in Threads, NEW s \in Leases, thread[c].pc = "sent",
         thread' = [thread EXCEPT ![c].pc = "answered", ![c].id = s, ![c].exp = time + LeaseTtl,
                                  ![c].server_time = time],
         DOMAIN lent' \subseteq Leases,
         \A x \in DOMAIN lent' : lent'[x] \in Lent,
         UNCHANGED <<time, skew, registered, active>>
  PROVE  ClientInv'
<1> DEFINE r == [thread[c] EXCEPT !.pc = "answered", !.id = s, !.exp = time + LeaseTtl, !.server_time = time]
<1>0. time \in Nat /\ time + LeaseTtl \in Nat /\ thread[c] \in Call
  BY ClientAssumption DEF ClientInv, ClientTypeOK, Call
<1>1. r \in Call /\ r.pc = "answered" /\ r.server_time = time /\ r.kind = thread[c].kind
      /\ r.from = thread[c].from /\ r.id = s
  BY <1>0 DEF Call
<1>2. thread' = [thread EXCEPT ![c] = r]
  OBVIOUS
<1> HIDE DEF r
<1>3. thread' \in [Threads -> Call]
  BY <1>1, <1>2 DEF ClientInv, ClientTypeOK, Call
<1>4. ClientTypeOK'
  BY <1>3 DEF ClientInv, ClientTypeOK, Call, Lent
<1>5. LeaseInv'
  BY <1>0, <1>1, <1>2 DEF ClientInv, ClientTypeOK, LeaseInv
<1> QED
  BY <1>4, <1>5 DEF ClientInv

\* A command is over: its thread rests.
LEMMA FinishedStep ==
  ASSUME ClientInv, NEW c \in Threads, Finish(c), UNCHANGED <<time, skew, lent>>,
         registered' \in BOOLEAN, active' \in Held \cup {NoSession},
         active' # NoSession => 0 <= active'.ahead + active'.delay
  PROVE  ClientInv'
<1>1. thread' \in [Threads -> Call]
  BY RestingFacts DEF ClientInv, ClientTypeOK, Call, Finish
<1>2. \A d \in Threads : thread'[d].pc # "idle" => thread'[d] = thread[d]
  BY RestingFacts DEF ClientInv, ClientTypeOK, Finish
<1> QED
  BY <1>1, <1>2 DEF ClientInv, ClientTypeOK, LeaseInv, Call

\* The session that an answer brings: the clock it is judged by starts no earlier than
\* at the time of the service's answer.
LEMMA StoreStep == ASSUME ClientInv, NEW c \in Threads, StoreSession(c) PROVE ClientInv'
<1> DEFINE r   == thread[c]
           min == IF r.kind = "heartbeat" THEN LeaseNow(r.from) ELSE 0
           now == lease_validation_now(r.server_time, LocalTime, min)
           new == [id |-> r.id, rights |-> r.rights, exp |-> r.exp, ahead |-> now - time,
                   delay |-> time - r.server_time]
<1>1. /\ time \in Nat /\ skew \in Int /\ r \in Call /\ r.pc = "answered"
      /\ r.server_time \in Nat /\ r.server_time <= time /\ r.id \in Leases
      /\ r.kind = "heartbeat" => r.from \in Held
  BY ClientAssumption DEF StoreSession, ClientInv, ClientTypeOK, LeaseInv, Call, Skews
<1>2. min \in Int
  BY <1>1 DEF LeaseNow, Held
<1>3. LocalTime \in Int
  BY <1>1 DEF LocalTime
<1> HIDE DEF min
<1>4. now \in Int /\ r.server_time <= now
  BY <1>1, <1>2, <1>3 DEF lease_validation_now, Later
<1> HIDE DEF now
<1>5. new \in Held /\ 0 <= new.ahead + new.delay
  BY <1>1, <1>4 DEF Held, Call
<1>6. active' = (IF Verified(r, now) THEN new ELSE active) /\ Finish(c)
      /\ UNCHANGED <<time, skew, registered, lent>>
  BY DEF StoreSession, now, min
<1> HIDE DEF r, new
<1>7. active' \in Held \cup {NoSession} /\ (active' # NoSession => 0 <= active'.ahead + active'.delay)
  BY <1>5, <1>6 DEF ClientInv, ClientTypeOK, LeaseInv
<1> QED
  BY <1>6, <1>7, FinishedStep DEF ClientInv, ClientTypeOK

LEMMA ClientInvStep == ClientInv /\ [ClientNext]_clientVars => ClientInv'
<1> SUFFICES ASSUME ClientInv, [ClientNext]_clientVars PROVE ClientInv'
  OBVIOUS
<1>0. NoSession \in {NoSession} /\ {} \in SUBSET Rights
  OBVIOUS
<1>1. CASE Passes
  BY <1>1, ClientAssumption DEF Passes, ClientInv, ClientTypeOK, LeaseInv, Call
<1>2. CASE ClockIsSet
  BY <1>2 DEF ClockIsSet, ClientInv, ClientTypeOK, LeaseInv
<1>3. CASE runtime_revoke_local
  BY <1>3 DEF runtime_revoke_local, ClientInv, ClientTypeOK, LeaseInv
<1>4. ASSUME NEW c \in Threads, runtime_register(c) PROVE ClientInv'
  BY <1>0, <1>4, PostStep DEF runtime_register
<1>5. ASSUME NEW c \in Threads, runtime_heartbeat(c) PROVE ClientInv'
  <2>1. active \in Held /\ active.rights \in SUBSET Rights
    BY <1>5 DEF runtime_heartbeat, ClientInv, ClientTypeOK, Held
  <2> QED
    BY <1>5, <2>1, PostStep DEF runtime_heartbeat
<1>6. ASSUME NEW c \in Threads, NEW rights \in SUBSET Rights, runtime_acquire(c, rights) PROVE ClientInv'
  BY <1>0, <1>6, PostStep DEF runtime_acquire
<1>7. ASSUME NEW c \in Threads, NEW s \in Leases, ServeAcquire(c, s) PROVE ClientInv'
  <2> DEFINE new == [rights |-> thread[c].rights, exp |-> time + LeaseTtl, revoked |-> FALSE]
  <2>1. new \in Lent
    BY ClientAssumption DEF ClientInv, ClientTypeOK, Lent
  <2>2. \A x \in DOMAIN lent : [lent[x] EXCEPT !.revoked = TRUE] \in Lent
    BY DEF ClientInv, ClientTypeOK, Lent
  <2>3. lent' = [x \in DOMAIN lent \cup {s} |-> IF x = s THEN new ELSE [lent[x] EXCEPT !.revoked = TRUE]]
    BY <1>7 DEF ServeAcquire
  <2> HIDE DEF new
  <2>4. DOMAIN lent' \subseteq Leases /\ \A x \in DOMAIN lent' : lent'[x] \in Lent
    BY <2>1, <2>2, <2>3 DEF ClientInv, ClientTypeOK
  <2> QED
    BY <1>7, <2>4, ServedStep DEF ServeAcquire
<1>8. ASSUME NEW c \in Threads, ServeHeartbeat(c) PROVE ClientInv'
  <2> DEFINE s == thread[c].from.id
  <2>1. s \in Leases
    BY <1>8 DEF ServeHeartbeat, ClientInv, LeaseInv, Held
  <2>2. \A x \in DOMAIN lent : [lent[x] EXCEPT !.exp = time + LeaseTtl] \in Lent
    BY ClientAssumption DEF ClientInv, ClientTypeOK, Lent
  <2>3. lent' = [lent EXCEPT ![s].exp = time + LeaseTtl]
    BY <1>8 DEF ServeHeartbeat
  <2> HIDE DEF s
  <2>4. DOMAIN lent' \subseteq Leases /\ \A x \in DOMAIN lent' : lent'[x] \in Lent
    BY <2>2, <2>3 DEF ClientInv, ClientTypeOK, Lent
  <2> QED
    BY <1>8, <2>1, <2>4, ServedStep DEF ServeHeartbeat, s
<1>9. ASSUME NEW c \in Threads, Registered(c) \/ CallFails(c) PROVE ClientInv'
  <2>1. registered' \in BOOLEAN
    BY <1>9 DEF Registered, CallFails, ClientInv, ClientTypeOK
  <2> QED
    BY <1>9, <2>1, FinishedStep DEF Registered, CallFails, ClientInv, ClientTypeOK, LeaseInv
<1>10. CASE UNCHANGED clientVars
  BY <1>10 DEF clientVars, ClientInv, ClientTypeOK, LeaseInv
<1> QED
  BY <1>1, <1>2, <1>3, <1>4, <1>5, <1>6, <1>7, <1>8, <1>9, <1>10, StoreStep DEF ClientNext, runtime_ensure

\* verify_lease and lease_validation_now: with the machine's clock as wrong as it likes, a
\* session that is reported ready is in force at the service, but for the time its answer
\* was under way.
THEOREM LeaseTrusted == ClientSpec => []LeaseIsNotOvertrusted
<1>1. ClientInv => LeaseIsNotOvertrusted
  <2> SUFFICES ASSUME ClientInv, InForce(active) PROVE time < active.exp + active.delay
    BY DEF LeaseIsNotOvertrusted, Status
  <2>1. active \in Held /\ time \in Int
    BY DEF ClientInv, ClientTypeOK, InForce
  <2> QED
    BY <2>1 DEF ClientInv, LeaseInv, InForce, LeaseNow, Held
<1> QED
  BY <1>1, ClientInvInit, ClientInvStep, PTL DEF ClientSpec

\* The client's calls and the session they leave stay well typed.
THEOREM ClientTypeCorrect == ClientSpec => []ClientTypeOK
<1>1. ClientInv => ClientTypeOK
  BY DEF ClientInv
<1> QED
  BY <1>1, ClientInvInit, ClientInvStep, PTL DEF ClientSpec

-----------------------------------------------------------------------------
(* The device's identity: never with another's key, and never rotated.     *)

Opener == [pc : Pcs, key : Key, device : Key, public : Key, signer : Key]

\* An opener that is given the identity has its key; one that is on its way to writing has
\* seen the store empty, and so has one that has read that there is no key, as long as
\* there are no metadata, which are never removed.
IdentityInv ==
  /\ IdentityTypeOK
  /\ \A o \in Openers : opener[o].pc \in {"done", "cngCheck"} => opener[o].signer = opener[o].public
  /\ \A o \in Openers : opener[o].pc \in {"create", "cngSave", "saveKey", "saveMeta"} =>
       o \in blank /\ (opener[o].pc \in {"cngSave", "saveMeta"} => opener[o].key \in Ids)
  /\ \A o \in Openers : opener[o].pc \in {"meta", "legacyMeta"} /\ opener[o].key = Missing
       /\ metaFile = Missing => o \in blank

LEMMA ClosedFacts == Closed \in Opener /\ Closed.pc = "idle"
BY DEF Closed, Opener, Pcs, Key

LEMMA IdentityInvInit == IdentityInit => IdentityInv
BY ClosedFacts DEF IdentityInit, IdentityInv, IdentityTypeOK, Key, Opener

\* The step of one opener, of which it is known where it leads and with what.
LEMMA OpenerStep ==
  ASSUME IdentityInv, NEW o \in Openers, NEW q \in Opener, opener' = [opener EXCEPT ![o] = q],
         keyFile' \in Key, metaFile' \in Meta \cup {Missing}, cngKeys' \subseteq Ids, made' \subseteq Ids,
         UNCHANGED machine, metaFile' = Missing => metaFile = Missing,
         blank' = {x \in Openers : /\ opener'[x].pc \notin {"idle", "done"}
                                   /\ x \in blank \/ NothingStored'},
         q.pc \in {"done", "cngCheck"} => q.signer = q.public,
         q.pc \in {"create", "cngSave", "saveKey", "saveMeta"} =>
           o \in blank /\ (q.pc \in {"cngSave", "saveMeta"} => q.key \in Ids),
         q.pc \in {"meta", "legacyMeta"} /\ q.key = Missing /\ metaFile' = Missing => keyFile' = Missing
  PROVE  IdentityInv'
<1>1. opener' \in [Openers -> Opener] /\ opener'[o] = q /\ \A x \in Openers : x # o => opener'[x] = opener[x]
  BY DEF IdentityInv, IdentityTypeOK, Opener
<1>2. IdentityTypeOK'
  BY <1>1 DEF IdentityInv, IdentityTypeOK, Opener, machine
<1>3. \A x \in Openers : opener'[x].pc \in {"done", "cngCheck"} => opener'[x].signer = opener'[x].public
  BY <1>1 DEF IdentityInv
<1>4. \A x \in Openers : opener'[x].pc \in {"create", "cngSave", "saveKey", "saveMeta"} =>
        x \in blank' /\ (opener'[x].pc \in {"cngSave", "saveMeta"} => opener'[x].key \in Ids)
  BY <1>1 DEF IdentityInv
<1>5. \A x \in Openers : opener'[x].pc \in {"meta", "legacyMeta"} /\ opener'[x].key = Missing
        /\ metaFile' = Missing => x \in blank'
  BY <1>1 DEF IdentityInv, NothingStored
<1> QED
  BY <1>2, <1>3, <1>4, <1>5 DEF IdentityInv

LEMMA IdentityInvStep == IdentityInv /\ [IdentityNext]_identityVars => IdentityInv'
<1> SUFFICES ASSUME IdentityInv, [IdentityNext]_identityVars PROVE IdentityInv'
  OBVIOUS
<1>1. CASE UNCHANGED identityVars
  BY <1>1 DEF identityVars, machine, IdentityInv, IdentityTypeOK
<1>2. CASE IdentityNext
  <2>0. /\ keyFile \in Key /\ metaFile \in Meta \cup {Missing} /\ cngKeys \subseteq Ids /\ made \subseteq Ids
        /\ \A o \in Openers : opener[o] \in Opener
        /\ blank' = {x \in Openers : /\ opener'[x].pc \notin {"idle", "done"}
                                     /\ x \in blank \/ NothingStored'}
    BY <1>2 DEF IdentityNext, IdentityInv, IdentityTypeOK, Opener
  <2>1. ASSUME NEW o \in Openers, LoadKey(o) PROVE IdentityInv'
    <3> DEFINE q == [Closed EXCEPT !.pc = "meta", !.key = keyFile]
    <3>1. q \in Opener /\ q.pc = "meta" /\ q.key = keyFile
      BY <2>0, ClosedFacts DEF Opener, Pcs
    <3>2. opener' = [opener EXCEPT ![o] = q] /\ UNCHANGED <<keyFile, metaFile, cngKeys, made, machine>>
      BY <2>1 DEF LoadKey
    <3> HIDE DEF q
    <3> QED
      BY <2>0, <3>1, <3>2, OpenerStep
  <2>2. ASSUME NEW o \in Openers, LoadMeta(o) PROVE IdentityInv'
    <3> DEFINE at(pc) == [opener[o] EXCEPT !.pc = pc]
               cng == [opener[o] EXCEPT !.pc = "cngOpen", !.public = metaFile.cng, !.device = metaFile.device]
    <3>1. at("create") \in Opener /\ at("create").pc = "create" /\ at("legacy") \in Opener /\ at("legacy").pc = "legacy"
      BY <2>0 DEF Opener, Pcs
    <3>2. IsCng => cng \in Opener /\ cng.pc = "cngOpen"
      BY <2>0 DEF Opener, Pcs, IsCng, Fetched, Meta, Key
    <3>3. \/ opener' = [opener EXCEPT ![o] = Closed]
          \/ opener' = [opener EXCEPT ![o] = at("legacy")]
          \/ IsCng /\ opener' = [opener EXCEPT ![o] = cng]
          \/ opener[o].key = Missing /\ ~Fetched /\ opener' = [opener EXCEPT ![o] = at("create")]
      BY <2>2 DEF LoadMeta, Refuse, Move
    <3>4. opener[o].pc = "meta" /\ UNCHANGED <<keyFile, metaFile, cngKeys, made, machine>>
      BY <2>2 DEF LoadMeta, At
    <3>5. opener[o].key = Missing /\ ~Fetched => o \in blank
      BY <3>4 DEF IdentityInv, Fetched
    <3> HIDE DEF at, cng
    <3> QED
      BY <2>0, <3>1, <3>2, <3>3, <3>4, <3>5, OpenerStep, ClosedFacts
  <2>3. ASSUME NEW o \in Openers, NEW i \in Ids, CreateCngKey(o, i) PROVE IdentityInv'
    <3> DEFINE q == [opener[o] EXCEPT !.pc = "cngSave", !.key = i]
    <3>1. q \in Opener /\ q.pc = "cngSave" /\ q.key = i
      BY <2>0 DEF Opener, Pcs, Key
    <3>2. opener' = [opener EXCEPT ![o] = q] /\ cngKeys' = cngKeys \cup {i} /\ made' = made \cup {i}
          /\ UNCHANGED <<keyFile, metaFile, machine>> /\ opener[o].pc = "create"
      BY <2>3 DEF CreateCngKey, At
    <3>3. o \in blank
      BY <3>2 DEF IdentityInv
    <3> HIDE DEF q
    <3> QED
      BY <2>0, <3>1, <3>2, <3>3, OpenerStep
  <2>4. ASSUME NEW o \in Openers, SaveCngMeta(o) PROVE IdentityInv'
    <3> DEFINE i == opener[o].key
               q == [pc |-> "done", key |-> i, device |-> i, public |-> i, signer |-> i]
    <3>1. opener[o].pc = "cngSave" /\ i \in Ids
      BY <2>4 DEF SaveCngMeta, At, IdentityInv
    <3>2. q \in Opener /\ q.pc = "done" /\ q.signer = q.public /\ [device |-> i, cng |-> i] \in Meta
      BY <3>1 DEF Opener, Pcs, Key, Meta
    <3>3. \/ metaFile' = [device |-> i, cng |-> i] /\ opener' = [opener EXCEPT ![o] = q]
          \/ UNCHANGED metaFile /\ opener' = [opener EXCEPT ![o] = Closed]
      BY <2>4 DEF SaveCngMeta, Refuse
    <3>4. cngKeys' \subseteq cngKeys /\ UNCHANGED <<keyFile, made, machine>>
      BY <2>4 DEF SaveCngMeta
    <3>5. metaFile' = Missing => metaFile = Missing
      BY <3>1, <3>3, IdentityAssumption
    <3> HIDE DEF i, q
    <3> QED
      BY <2>0, <3>2, <3>3, <3>4, <3>5, OpenerStep, ClosedFacts
  <2>5. ASSUME NEW o \in Openers, OpenCngKey(o) PROVE IdentityInv'
    <3> DEFINE q == [opener[o] EXCEPT !.pc = "cngCheck", !.signer = opener[o].public]
    <3>1. q \in Opener /\ q.pc = "cngCheck" /\ q.signer = q.public
      BY <2>0 DEF Opener, Pcs
    <3>2. /\ \E r \in {q, Closed} : opener' = [opener EXCEPT ![o] = r]
          /\ UNCHANGED <<keyFile, metaFile, cngKeys, made, machine>>
      BY <2>5 DEF OpenCngKey, Refuse
    <3> HIDE DEF q
    <3> QED
      BY <2>0, <3>1, <3>2, OpenerStep, ClosedFacts
  <2>6. ASSUME NEW o \in Openers, CheckNoKeyFile(o) PROVE IdentityInv'
    <3> DEFINE q == [opener[o] EXCEPT !.pc = "done"]
    <3>1. opener[o].pc = "cngCheck" /\ opener[o].signer = opener[o].public
      BY <2>6 DEF CheckNoKeyFile, At, IdentityInv
    <3>2. q \in Opener /\ q.pc = "done" /\ q.signer = q.public
      BY <2>0, <3>1 DEF Opener, Pcs
    <3>3. /\ \E r \in {q, Closed} : opener' = [opener EXCEPT ![o] = r]
          /\ UNCHANGED <<keyFile, metaFile, cngKeys, made, machine>>
      BY <2>6 DEF CheckNoKeyFile, Refuse, Move
    <3> HIDE DEF q
    <3> QED
      BY <2>0, <3>2, <3>3, OpenerStep, ClosedFacts
  <2>7. ASSUME NEW o \in Openers, LegacyLoadKey(o) PROVE IdentityInv'
    <3> DEFINE q == [opener[o] EXCEPT !.pc = "legacyMeta", !.key = keyFile]
    <3>1. q \in Opener /\ q.pc = "legacyMeta" /\ q.key = keyFile
      BY <2>0 DEF Opener, Pcs
    <3>2. opener' = [opener EXCEPT ![o] = q] /\ UNCHANGED <<keyFile, metaFile, cngKeys, made, machine>>
      BY <2>7 DEF LegacyLoadKey
    <3> HIDE DEF q
    <3> QED
      BY <2>0, <3>1, <3>2, OpenerStep
  <2>8. ASSUME NEW o \in Openers, LegacyLoadMeta(o) PROVE IdentityInv'
    <3> DEFINE q == [opener[o] EXCEPT !.pc = "saveKey"]
               r == [opener[o] EXCEPT !.pc = "signer", !.device = metaFile.device, !.public = opener[o].key]
    <3>1. opener[o].pc = "legacyMeta" /\ UNCHANGED <<keyFile, metaFile, cngKeys, made, machine>>
      BY <2>8 DEF LegacyLoadMeta, At
    <3>2. q \in Opener /\ q.pc = "saveKey"
      BY <2>0 DEF Opener, Pcs
    <3>3. Fetched => r \in Opener /\ r.pc = "signer"
      BY <2>0 DEF Opener, Pcs, Fetched, Meta, Key
    <3>4. \/ opener[o].key = Missing /\ ~Fetched /\ opener' = [opener EXCEPT ![o] = q]
          \/ Fetched /\ opener' = [opener EXCEPT ![o] = r]
          \/ opener' = [opener EXCEPT ![o] = Closed]
      BY <2>8 DEF LegacyLoadMeta, Move, Refuse
    <3>5. opener[o].key = Missing /\ ~Fetched => o \in blank
      BY <3>1 DEF IdentityInv, Fetched
    <3> HIDE DEF q, r
    <3> QED
      BY <2>0, <3>1, <3>2, <3>3, <3>4, <3>5, OpenerStep, ClosedFacts
  <2>9. ASSUME NEW o \in Openers, NEW i \in Ids, SaveKey(o, i) PROVE IdentityInv'
    <3> DEFINE q == [opener[o] EXCEPT !.pc = "saveMeta", !.key = i]
    <3>1. opener[o].pc = "saveKey" /\ made' = made \cup {i} /\ UNCHANGED <<metaFile, cngKeys, machine>>
      BY <2>9 DEF SaveKey, At
    <3>2. q \in Opener /\ q.pc = "saveMeta" /\ q.key = i /\ i \in Key
      BY <2>0 DEF Opener, Pcs, Key
    <3>3. \/ keyFile' = i /\ opener' = [opener EXCEPT ![o] = q]
          \/ UNCHANGED keyFile /\ opener' = [opener EXCEPT ![o] = Closed]
      BY <2>9 DEF SaveKey, Refuse
    <3>4. o \in blank
      BY <3>1 DEF IdentityInv
    <3> HIDE DEF q
    <3> QED
      BY <2>0, <3>1, <3>2, <3>3, <3>4, OpenerStep, ClosedFacts
  <2>10. ASSUME NEW o \in Openers, SaveMeta(o) PROVE IdentityInv'
    <3> DEFINE i == opener[o].key
               q == [opener[o] EXCEPT !.pc = "signer", !.device = i, !.public = i]
    <3>1. opener[o].pc = "saveMeta" /\ i \in Ids /\ UNCHANGED <<cngKeys, made, machine>>
      BY <2>10 DEF SaveMeta, At, IdentityInv
    <3>2. q \in Opener /\ q.pc = "signer" /\ [device |-> i, cng |-> Missing] \in Meta
      BY <2>0, <3>1 DEF Opener, Pcs, Key, Meta
    <3>3. \/ metaFile' = [device |-> i, cng |-> Missing] /\ UNCHANGED keyFile
             /\ opener' = [opener EXCEPT ![o] = q]
          \/ UNCHANGED metaFile /\ keyFile' = Missing /\ opener' = [opener EXCEPT ![o] = Closed]
      BY <2>10 DEF SaveMeta, Refuse
    <3>4. Missing \in Key /\ (metaFile' = Missing => metaFile = Missing)
      BY <3>1, <3>3, IdentityAssumption DEF Key
    <3> HIDE DEF i, q
    <3> QED
      BY <2>0, <3>1, <3>2, <3>3, <3>4, OpenerStep, ClosedFacts
  <2>11. ASSUME NEW o \in Openers, LoadSigner(o) PROVE IdentityInv'
    <3> DEFINE q == [opener[o] EXCEPT !.pc = "done", !.signer = keyFile]
    <3>1. \/ opener' = [opener EXCEPT ![o] = Closed]
          \/ keyFile = opener[o].public /\ opener' = [opener EXCEPT ![o] = q]
      BY <2>11 DEF LoadSigner, Refuse
    <3>2. q \in Opener /\ q.pc = "done" /\ q.signer = keyFile /\ q.public = opener[o].public
      BY <2>0 DEF Opener, Pcs
    <3>3. UNCHANGED <<keyFile, metaFile, cngKeys, made, machine>>
      BY <2>11 DEF LoadSigner
    <3> HIDE DEF q
    <3> QED
      BY <2>0, <3>1, <3>2, <3>3, OpenerStep, ClosedFacts
  <2>12. ASSUME NEW o \in Openers, IdentityCrash(o) PROVE IdentityInv'
    BY <2>0, <2>12, OpenerStep, ClosedFacts DEF IdentityCrash, Refuse
  <2> QED
    BY <1>2, <2>1, <2>2, <2>3, <2>4, <2>5, <2>6, <2>7, <2>8, <2>9, <2>10, <2>11, <2>12
      DEF IdentityNext, IdentitySteps
<1> QED
  BY <1>1, <1>2

\* What is written to the store is written by an opener in whose time the store was empty.
LEMMA WritersWereBlank ==
  ASSUME IdentityInv, IdentitySteps, keyFile' # keyFile \/ metaFile' # metaFile
  PROVE  \A o \in Openers : opener'[o] # opener[o] => o \in blank
<1>1. PICK w \in Openers :
        \/ LoadKey(w) \/ LoadMeta(w) \/ SaveCngMeta(w) \/ OpenCngKey(w) \/ CheckNoKeyFile(w)
        \/ LegacyLoadKey(w) \/ LegacyLoadMeta(w) \/ SaveMeta(w) \/ LoadSigner(w)
        \/ \E i \in Ids : CreateCngKey(w, i) \/ SaveKey(w, i)
        \/ IdentityCrash(w)
  BY DEF IdentitySteps
<1>2. \/ SaveCngMeta(w) \/ SaveMeta(w) \/ \E i \in Ids : SaveKey(w, i)
  BY <1>1 DEF LoadKey, LoadMeta, OpenCngKey, CheckNoKeyFile, LegacyLoadKey, LegacyLoadMeta,
              LoadSigner, CreateCngKey, IdentityCrash
<1>3. opener[w].pc \in {"cngSave", "saveMeta", "saveKey"}
  BY <1>2 DEF SaveCngMeta, SaveMeta, SaveKey, At
<1>4. w \in blank
  BY <1>3 DEF IdentityInv
<1>5. \E q : opener' = [opener EXCEPT ![w] = q]
  <2>1. CASE SaveCngMeta(w)
    BY <2>1 DEF SaveCngMeta, Refuse
  <2>2. CASE SaveMeta(w)
    BY <2>2 DEF SaveMeta, Refuse
  <2>3. CASE \E i \in Ids : SaveKey(w, i)
    BY <2>3 DEF SaveKey, Refuse
  <2> QED
    BY <1>2, <2>1, <2>2, <2>3
<1>6. \A o \in Openers : o # w => opener'[o] = opener[o]
  BY <1>5 DEF IdentityInv, IdentityTypeOK
<1> QED
  BY <1>4, <1>6

\* load_or_create_device_material_with: an identity is handed out with its own key only, and
\* what is stored of one is never written over by a command that did not find the store empty.
THEOREM IdentityKept == IdentitySpec => IdentityEndures
<1> DEFINE Blank == keyFile' # keyFile \/ metaFile' # metaFile =>
                      \A o \in Openers : opener'[o] # opener[o] => o \in blank
<1>1. IdentityInv /\ [IdentityNext]_identityVars => [Blank]_identityVars
  BY WritersWereBlank DEF IdentityNext
<1>2. IdentityInv => SignerMatchesIdentity
  BY DEF IdentityInv, SignerMatchesIdentity, At
<1> QED
  BY <1>1, <1>2, IdentityInvInit, IdentityInvStep, PTL
    DEF IdentitySpec, IdentityEndures, IdentityIsNotRotated

-----------------------------------------------------------------------------
(* The delivery of an artifact.                                            *)

Pieces == Contents \X Nat
Chunks == {Sealed(d, m, index, piece) : d \in Downloads, m \in Manifests, index \in Nat, piece \in Pieces}
Stages == {"idle", "prepared", "fetching", "done", "failed", "crashed"}

\* What a download has written so far is all of its own transfer.
OwnPieces(d) ==
  /\ part[d] \in Seq(Pieces)
  /\ \A i \in DOMAIN part[d] : Sealed(d, manifest[d], i - 1, part[d][i]) \in sent

\* A manifest that was accepted is of the ring for good, and there is a temporary file only
\* in a running download and in one that was killed.
DeliveryInv ==
  /\ authority \in Authorities /\ shelf \in Contents /\ changes \in 0..MaxChanges
  /\ openTransfers \in [Downloads -> Manifests \cup {NoManifest}]
  /\ manifest \in [Downloads -> Manifests \cup {NoManifest}]
  /\ stage \in [Downloads -> Stages]
  /\ DOMAIN part = Downloads
  /\ sent \subseteq Chunks
  /\ \A d \in Downloads : stage[d] \in {"prepared", "fetching", "done"} =>
       manifest[d] \in Manifests /\ manifest[d].signer \in ring
  /\ \A d \in Downloads : stage[d] = "fetching" => OwnPieces(d)
  /\ \A d \in Downloads : part[d] = NoPart \/ (stage[d] \in {"fetching", "crashed"} /\ OwnPieces(d))
  /\ delivered # << >> =>
       \E d \in Downloads : stage[d] = "done" /\ delivered = Whole(manifest[d].hash)

LEMMA DeliveryInvInit == DeliveryInit => DeliveryInv
BY DeliveryAssumption DEF DeliveryInit, DeliveryInv, Stages

\* The service makes a manifest of its own file, with its own key.
LEMMA PreparedFacts ==
  ASSUME DeliveryInv, NEW d \in Downloads
  PROVE  Prepared(d) \in Manifests
BY DeliveryAssumption DEF DeliveryInv, Prepared, Manifests

\* A chunk that opens is the one that was sealed for this transfer at this index.
LEMMA OpenedIsSealed ==
  ASSUME NEW chunk \in Chunks, NEW d \in Downloads, part[d] \in Seq(Pieces), Opens(d, chunk)
  PROVE  chunk.piece \in Pieces /\ chunk = Sealed(d, manifest[d], Len(part[d]), chunk.piece)
<1>1. PICK e \in Downloads, m \in Manifests, index \in Nat, piece \in Pieces : chunk = Sealed(e, m, index, piece)
  BY DEF Chunks
<1>2. /\ chunk = [index |-> index, key |-> ArtifactKey(e, m), nonce |-> ArtifactNonce(e, index),
                  aad |-> ArtifactAad(e, index), piece |-> piece]
      /\ chunk.index = Len(part[d]) /\ chunk.key = ArtifactKey(d, manifest[d])
      /\ chunk.nonce = ArtifactNonce(d, Len(part[d])) /\ chunk.aad = ArtifactAad(d, Len(part[d]))
  BY <1>1 DEF Sealed, Opens
<1> QED
  BY <1>2 DEF Sealed

LEMMA DeliveryInvStep == DeliveryInv /\ [DeliveryNext]_deliveryVars => DeliveryInv'
<1> SUFFICES ASSUME DeliveryInv, [DeliveryNext]_deliveryVars PROVE DeliveryInv'
  OBVIOUS
<1>1. ASSUME NEW c \in Contents, ReplaceArtifact(c) PROVE DeliveryInv'
  BY <1>1, DeliveryAssumption DEF ReplaceArtifact, DeliveryInv, OwnPieces
<1>2. ASSUME NEW next \in Authorities, RestartService(next) PROVE DeliveryInv'
  BY <1>2, DeliveryAssumption DEF RestartService, DeliveryInv, OwnPieces
<1>3. ASSUME NEW d \in Downloads, ExpireTransfer(d) PROVE DeliveryInv'
  BY <1>3 DEF ExpireTransfer, DeliveryInv, OwnPieces
<1>4. ASSUME NEW d \in Downloads, Prepare(d) PROVE DeliveryInv'
  <2>1. /\ stage[d] = "idle" /\ UNCHANGED <<ring, authority, shelf, changes, sent, part, delivered>>
        /\ openTransfers' = [openTransfers EXCEPT ![d] = Prepared(d)] /\ Prepared(d) \in Manifests
        /\ \/ /\ Prepared(d).signer \in ring /\ stage' = [stage EXCEPT ![d] = "prepared"]
              /\ manifest' = [manifest EXCEPT ![d] = Prepared(d)]
           \/ stage' = [stage EXCEPT ![d] = "failed"] /\ UNCHANGED manifest
    BY <1>4, PreparedFacts DEF Prepare, Trusted
  <2>2. part[d] = NoPart
    BY <2>1 DEF DeliveryInv
  <2>3. \A e \in Downloads : e # d => stage'[e] = stage[e] /\ manifest'[e] = manifest[e]
    BY <2>1 DEF DeliveryInv
  <2>4. \A e \in Downloads : e # d /\ OwnPieces(e) => OwnPieces(e)'
    BY <2>1, <2>3 DEF OwnPieces
  <2>5. stage'[d] \in {"prepared", "failed"} /\ (stage'[d] = "prepared" => manifest'[d] = Prepared(d) /\ Prepared(d).signer \in ring)
    BY <2>1 DEF DeliveryInv
  <2>6. stage' \in [Downloads -> Stages] /\ openTransfers' \in [Downloads -> Manifests \cup {NoManifest}]
        /\ manifest' \in [Downloads -> Manifests \cup {NoManifest}]
    BY <2>1 DEF DeliveryInv, Stages
  <2>7. delivered' # << >> => \E e \in Downloads : stage'[e] = "done" /\ delivered' = Whole(manifest'[e].hash)
    BY <2>1, <2>3 DEF DeliveryInv
  <2>8. \A e \in Downloads : stage'[e] \in {"prepared", "fetching", "done"} =>
          manifest'[e] \in Manifests /\ manifest'[e].signer \in ring'
    BY <2>1, <2>3, <2>5 DEF DeliveryInv
  <2>9. \A e \in Downloads : stage'[e] = "fetching" => OwnPieces(e)'
    BY <2>3, <2>4, <2>5 DEF DeliveryInv
  <2>10. \A e \in Downloads : part'[e] = NoPart \/ (stage'[e] \in {"fetching", "crashed"} /\ OwnPieces(e)')
    BY <2>1, <2>2, <2>3, <2>4 DEF DeliveryInv
  <2> QED
    BY <2>1, <2>6, <2>7, <2>8, <2>9, <2>10 DEF DeliveryInv, Whole
<1>5. ASSUME NEW d \in Downloads, OpenPart(d) PROVE DeliveryInv'
  <2>1. stage[d] = "prepared" /\ UNCHANGED <<ring, authority, shelf, changes, openTransfers, sent, manifest, delivered>>
    BY <1>5 DEF OpenPart
  <2>2. CASE stage' = [stage EXCEPT ![d] = "failed"] /\ UNCHANGED part
    BY <2>1, <2>2 DEF DeliveryInv, OwnPieces, Stages
  <2>3. CASE stage' = [stage EXCEPT ![d] = "fetching"] /\ part' = [part EXCEPT ![d] = << >>]
    <3>1. OwnPieces(d)'
      BY <2>3 DEF DeliveryInv, OwnPieces
    <3>2. \A e \in Downloads : e # d /\ OwnPieces(e) => OwnPieces(e)'
      BY <2>1, <2>3 DEF OwnPieces, DeliveryInv
    <3> QED
      BY <2>1, <2>3, <3>1, <3>2 DEF DeliveryInv, Stages
  <2> QED
    BY <1>5, <2>2, <2>3 DEF OpenPart
<1>6. ASSUME NEW d \in Downloads, FetchChunk(d) PROVE DeliveryInv'
  <2> DEFINE fresh == ChunkOf(d, Len(part[d]))
  <2>1. /\ stage[d] = "fetching" /\ sent' = sent \cup fresh
        /\ UNCHANGED <<ring, authority, shelf, changes, openTransfers, stage, manifest, delivered>>
    BY <1>6 DEF FetchChunk
  <2>2. PICK chunk \in sent \cup fresh : Opens(d, chunk) /\ part' = [part EXCEPT ![d] = Append(part[d], chunk.piece)]
    BY <1>6 DEF FetchChunk
  <2>3. part[d] \in Seq(Pieces) /\ OwnPieces(d) /\ Len(part[d]) \in Nat
    BY <2>1 DEF DeliveryInv, OwnPieces
  <2>4. fresh \subseteq Chunks
    <3> SUFFICES ASSUME fresh # {} PROVE fresh \subseteq Chunks
      OBVIOUS
    <3>1. fresh = {Sealed(d, openTransfers[d], Len(part[d]), Piece(shelf, Len(part[d])))} /\ openTransfers[d] # NoManifest
      BY DEF ChunkOf
    <3>2. openTransfers[d] \in Manifests /\ Piece(shelf, Len(part[d])) \in Pieces
      BY <2>3, <3>1 DEF DeliveryInv, Piece, Pieces
    <3> QED
      BY <2>3, <3>1, <3>2 DEF Chunks
  <2>5. sent' \subseteq Chunks /\ chunk \in Chunks /\ chunk \in sent'
    BY <2>1, <2>2, <2>4 DEF DeliveryInv
  <2>6. chunk.piece \in Pieces /\ chunk = Sealed(d, manifest[d], Len(part[d]), chunk.piece)
    BY <2>2, <2>3, <2>5, OpenedIsSealed
  <2> DEFINE p == Append(part[d], chunk.piece)
  <2>7. p \in Seq(Pieces) /\ \A i \in DOMAIN p : Sealed(d, manifest[d], i - 1, p[i]) \in sent'
    <3>1. /\ p \in Seq(Pieces) /\ DOMAIN p = 1..(Len(part[d]) + 1) /\ DOMAIN part[d] = 1..Len(part[d])
          /\ p[Len(part[d]) + 1] = chunk.piece /\ \A i \in 1..Len(part[d]) : p[i] = part[d][i]
      BY <2>3, <2>6
    <3>2. Sealed(d, manifest[d], (Len(part[d]) + 1) - 1, chunk.piece) \in sent'
      <4>1. (Len(part[d]) + 1) - 1 = Len(part[d])
        BY <2>3
      <4> QED
        BY <2>5, <2>6, <4>1
    <3>3. \A i \in 1..Len(part[d]) : Sealed(d, manifest[d], i - 1, part[d][i]) \in sent'
      BY <2>1, <2>3, <3>1 DEF OwnPieces
    <3> HIDE DEF p
    <3>4. ASSUME NEW i \in DOMAIN p PROVE Sealed(d, manifest[d], i - 1, p[i]) \in sent'
      <4>1. i \in 1..Len(part[d]) \/ i = Len(part[d]) + 1
        BY <2>3, <3>1
      <4> QED
        BY <3>1, <3>2, <3>3, <4>1
    <3> QED
      BY <3>1, <3>4
  <2>8. part'[d] = p /\ DOMAIN part' = Downloads /\ \A e \in Downloads : e # d => part'[e] = part[e]
    BY <2>2 DEF DeliveryInv
  <2> HIDE DEF p
  <2>9. OwnPieces(d)'
    BY <2>1, <2>7, <2>8 DEF OwnPieces
  <2>10. \A e \in Downloads : e # d /\ OwnPieces(e) => OwnPieces(e)'
    BY <2>1, <2>8 DEF OwnPieces
  <2> HIDE DEF fresh
  <2> QED
    BY <2>1, <2>5, <2>8, <2>9, <2>10 DEF DeliveryInv, Whole
<1>7. ASSUME NEW d \in Downloads, FinishDownload(d) PROVE DeliveryInv'
  <2>1. /\ stage[d] = "fetching" /\ delivered' = Whole(manifest[d].hash) /\ part' = [part EXCEPT ![d] = NoPart]
        /\ stage' = [stage EXCEPT ![d] = "done"]
        /\ UNCHANGED <<ring, authority, shelf, changes, openTransfers, sent, manifest>>
    BY <1>7 DEF FinishDownload, Complete
  <2>2. \A e \in Downloads : e # d /\ OwnPieces(e) => OwnPieces(e)'
    BY <2>1 DEF OwnPieces, DeliveryInv
  <2>3. stage'[d] = "done" /\ delivered' = Whole(manifest'[d].hash)
    BY <2>1 DEF DeliveryInv, Whole
  <2> QED
    BY <2>1, <2>2, <2>3 DEF DeliveryInv, Stages
<1>8. ASSUME NEW d \in Downloads, FailDownload(d) \/ ClientCrashes(d) PROVE DeliveryInv'
  <2>1. CASE FailDownload(d)
    <3>1. \A e \in Downloads : e # d /\ OwnPieces(e) => OwnPieces(e)'
      BY <2>1 DEF FailDownload, OwnPieces, DeliveryInv
    <3>2. /\ stage' = [stage EXCEPT ![d] = "failed"] /\ part' = [part EXCEPT ![d] = NoPart] /\ stage[d] = "fetching"
          /\ UNCHANGED <<ring, authority, shelf, changes, openTransfers, sent, manifest, delivered>>
      BY <2>1 DEF FailDownload
    <3> QED
      BY <3>1, <3>2 DEF DeliveryInv, Stages
  <2>2. CASE ClientCrashes(d)
    <3>1. \A e \in Downloads : OwnPieces(e) => OwnPieces(e)'
      BY <2>2 DEF ClientCrashes, OwnPieces
    <3>2. /\ stage' = [stage EXCEPT ![d] = "crashed"] /\ stage[d] \in {"prepared", "fetching"}
          /\ UNCHANGED <<ring, authority, shelf, changes, openTransfers, sent, manifest, part, delivered>>
      BY <2>2 DEF ClientCrashes
    <3> QED
      BY <3>1, <3>2 DEF DeliveryInv, Stages
  <2> QED
    BY <1>8, <2>1, <2>2
<1>9. CASE UNCHANGED deliveryVars
  BY <1>9 DEF deliveryVars, DeliveryInv, OwnPieces
<1> QED
  BY <1>1, <1>2, <1>3, <1>4, <1>5, <1>6, <1>7, <1>8, <1>9 DEF DeliveryNext

\* download_artifact_to: whatever the service's file, its key, the network and the other
\* downloads did meanwhile, the destination holds a whole artifact that the ring vouches for.
THEOREM DeliveryIsWhole == DeliverySpec => []DeliveredIsWhole
<1>1. DeliveryInv => DeliveredIsWhole
  BY DEF DeliveryInv, DeliveredIsWhole, OwnPieces
<1> QED
  BY <1>1, DeliveryInvInit, DeliveryInvStep, PTL DEF DeliverySpec

-----------------------------------------------------------------------------
(* The registration of a client.                                           *)

RegisterStates == {"idle", "create", "challenge", "complete", "take", "update", "answered"}
Attempts == [at : {"idle"}, tries : 0..MaxTries]
              \cup [at : RegisterStates, tries : 0..MaxTries, version : ClientVersions]

\* The row of the device is there, and the registrant's.
HasRow(r) == rows[Mine(r)] # NoRow /\ rows[Mine(r)].key = KeyOf[r]

\* From the row on, an attempt has a row of its own key: create_pending_client and
\* client_by_device have seen to it, and no row goes or changes its key.
RegistrationInv ==
  /\ RegistrationTypeOK
  /\ register \in [Registrants -> Attempts]
  /\ \A r \in Registrants : register[r].at \notin {"idle", "create"} => HasRow(r)
  /\ \A r \in Registrants : register[r].at = "update" => <<Mine(r), register[r].version>> \in proved
  /\ \A r \in Registrants : saved[r] # NoRow => saved[r] = Mine(r) /\ HasRow(r)

LEMMA RegistrationInvInit == RegistrationInit => RegistrationInv
<1> SUFFICES ASSUME RegistrationInit PROVE RegistrationInv
  OBVIOUS
<1>1. [at |-> "idle", tries |-> 0] \in Attempts
  BY RegistrationAssumption DEF Attempts
<1>2. register \in [Registrants -> Attempts] /\ \A r \in Registrants : register[r].at = "idle" /\ register[r].tries = 0
  BY <1>1 DEF RegistrationInit
<1> QED
  BY <1>2, RegistrationAssumption DEF RegistrationInit, RegistrationInv, RegistrationTypeOK

\* An attempt that is under way goes on with its number and its version.
LEMMA GoesFacts ==
  ASSUME register \in [Registrants -> Attempts], NEW r \in Registrants, NEW at \in RegisterStates,
         register[r].at # "idle", Goes(r, at)
  PROVE  /\ register' \in [Registrants -> Attempts] /\ register'[r].at = at
         /\ register'[r].tries = register[r].tries /\ register'[r].version = register[r].version
         /\ \A q \in Registrants : q # r => register'[q] = register[q]
<1>1. register[r] \in [at : RegisterStates, tries : 0..MaxTries, version : ClientVersions]
  BY DEF Attempts
<1> DEFINE q == [register[r] EXCEPT !.at = at]
<1>2. /\ q \in [at : RegisterStates, tries : 0..MaxTries, version : ClientVersions]
      /\ q.at = at /\ q.tries = register[r].tries /\ q.version = register[r].version
  BY <1>1
<1>3. register' = [register EXCEPT ![r] = q]
  BY DEF Goes
<1> HIDE DEF q
<1> QED
  BY <1>2, <1>3 DEF Attempts

LEMMA DeviceOfOne == \A r \in Registrants : Mine(r) \in DeviceIds
BY DEF Mine, DeviceIds

\* A step of one attempt, when rows stay, as far as their keys go.
LEMMA AttemptStep ==
  ASSUME RegistrationInv, NEW r \in Registrants, RegistrationTypeOK',
         register' \in [Registrants -> Attempts], \A q \in Registrants : q # r => register'[q] = register[q],
         \A d \in DeviceIds : rows[d] # NoRow => rows'[d] # NoRow /\ rows'[d].key = rows[d].key,
         register'[r].at \notin {"idle", "create"} => HasRow(r)',
         register'[r].at = "update" => <<Mine(r), register'[r].version>> \in proved',
         proved \subseteq proved',
         \A q \in Registrants : saved'[q] # NoRow => saved'[q] = saved[q] \/ (saved'[q] = Mine(q) /\ HasRow(q))
  PROVE  RegistrationInv'
<1>1. \A q \in Registrants : HasRow(q) => HasRow(q)'
  BY DeviceOfOne DEF HasRow, Mine
<1>2. \A q \in Registrants : Mine(q)' = Mine(q)
  BY DEF Mine
<1>3. \A q \in Registrants : register'[q].at \notin {"idle", "create"} => HasRow(q)'
  BY <1>1 DEF RegistrationInv
<1>4. \A q \in Registrants : register'[q].at = "update" => <<Mine(q), register'[q].version>> \in proved'
  BY DEF RegistrationInv
<1>5. \A q \in Registrants : saved'[q] # NoRow => saved'[q] = Mine(q) /\ HasRow(q)'
  BY <1>1 DEF RegistrationInv
<1> QED
  BY <1>2, <1>3, <1>4, <1>5 DEF RegistrationInv

\* What a step may do to the rows and to the challenges.
RowsStand ==
  \A d \in DeviceIds :
    /\ rows[d] # NoRow => rows'[d] # NoRow /\ rows'[d].key = rows[d].key
    /\ rows[d] # NoRow /\ rows'[d].version # rows[d].version =>
         ~rows[d].revoked /\ <<d, rows'[d].version>> \in proved
    /\ challenges[d] # NoRow /\ challenges'[d] = NoRow =>
         /\ <<d, challenges[d].version>> \in proved'
         /\ \E r \in Registrants : Mine(r) = d /\ KeyOf[r] = rows[d].key /\ register'[r].at = "update"

LEMMA AskStep ==
  ASSUME RegistrationInv, NEW r \in Registrants, NEW v \in ClientVersions, AskToRegister(r, v)
  PROVE  RegistrationInv' /\ RowsStand
<1> DEFINE q == [at      |-> IF rows[Mine(r)] = NoRow THEN "create"
                             ELSE IF rows[Mine(r)].revoked \/ rows[Mine(r)].key # KeyOf[r] THEN "idle" ELSE "challenge",
                 tries   |-> register[r].tries + 1,
                 version |-> v]
<1>1. /\ register[r].at = "idle" /\ register[r].tries < MaxTries /\ register' = [register EXCEPT ![r] = q]
      /\ UNCHANGED <<rows, challenges, saved, proved>>
  BY DEF AskToRegister
<1>2. register \in [Registrants -> Attempts] /\ register[r].tries \in 0..MaxTries
  BY DEF RegistrationInv, RegistrationTypeOK
<1>3. q.at \in {"create", "idle", "challenge"} /\ (q.at = "challenge" => HasRow(r)) /\ q.tries \in 0..MaxTries
      /\ q \in Attempts
  BY <1>1, <1>2, RegistrationAssumption DEF HasRow, Attempts, RegisterStates
<1> HIDE DEF q
<1>4. register' \in [Registrants -> Attempts] /\ register'[r] = q /\ \A p \in Registrants : p # r => register'[p] = register[p]
  BY <1>1, <1>2, <1>3
<1>5. RegistrationTypeOK'
  BY <1>1, <1>3, <1>4 DEF RegistrationInv, RegistrationTypeOK
<1>6. HasRow(r) => HasRow(r)'
  BY <1>1 DEF HasRow, Mine
<1>7. RegistrationInv'
  BY <1>1, <1>3, <1>4, <1>5, <1>6, AttemptStep
<1> QED
  BY <1>1, <1>7 DEF RowsStand

LEMMA CreateRowStep ==
  ASSUME RegistrationInv, NEW r \in Registrants, CreatePendingClient(r)
  PROVE  RegistrationInv' /\ RowsStand
<1>1. register[r].at = "create" /\ UNCHANGED <<challenges, saved, proved>>
      /\ register \in [Registrants -> Attempts]
  BY DEF CreatePendingClient, RegistrationInv
<1>2. CASE Goes(r, "idle") /\ UNCHANGED rows
  <2>1. register' \in [Registrants -> Attempts] /\ register'[r].at = "idle" /\ register'[r].tries = register[r].tries
        /\ \A p \in Registrants : p # r => register'[p] = register[p]
    BY <1>1, <1>2, GoesFacts DEF RegisterStates
  <2>2. RegistrationTypeOK'
    BY <1>1, <1>2, <2>1 DEF RegistrationInv, RegistrationTypeOK
  <2>3. RegistrationInv'
    BY <1>1, <1>2, <2>1, <2>2, AttemptStep
  <2> QED
    BY <1>1, <1>2, <2>3 DEF RowsStand
<1>3. CASE rows[Mine(r)] = NoRow /\ Goes(r, "challenge")
           /\ rows' = [rows EXCEPT ![Mine(r)] =
                [key |-> KeyOf[r], version |-> register[r].version, approved |-> FALSE, revoked |-> FALSE]]
  <2> DEFINE row == [key |-> KeyOf[r], version |-> register[r].version, approved |-> FALSE, revoked |-> FALSE]
  <2>1. register' \in [Registrants -> Attempts] /\ register'[r].at = "challenge" /\ register'[r].tries = register[r].tries
        /\ \A p \in Registrants : p # r => register'[p] = register[p]
    BY <1>1, <1>3, GoesFacts DEF RegisterStates
  <2>2. row \in Row /\ row.key = KeyOf[r]
    BY <1>1 DEF Row, Attempts
  <2>3. rows' = [rows EXCEPT ![Mine(r)] = row]
    BY <1>3
  <2> HIDE DEF row
  <2>4. rows' \in [DeviceIds -> Row \cup {NoRow}] /\ rows'[Mine(r)] = row /\ row # NoRow
        /\ \A d \in DeviceIds : d # Mine(r) => rows'[d] = rows[d]
    BY <2>2, <2>3, DeviceOfOne, RegistrationAssumption DEF RegistrationInv, RegistrationTypeOK
  <2>5. RegistrationTypeOK'
    BY <1>1, <2>1, <2>4 DEF RegistrationInv, RegistrationTypeOK
  <2>6. HasRow(r)' /\ \A d \in DeviceIds : rows[d] # NoRow => rows'[d] = rows[d]
    BY <1>3, <2>2, <2>4 DEF HasRow, Mine
  <2>7. RegistrationInv'
    BY <1>1, <2>1, <2>5, <2>6, AttemptStep
  <2> QED
    BY <1>1, <2>6, <2>7 DEF RowsStand
<1> QED
  BY <1>2, <1>3 DEF CreatePendingClient

LEMMA SetChallengeStep ==
  ASSUME RegistrationInv, NEW r \in Registrants, SetChallenge(r)
  PROVE  RegistrationInv' /\ RowsStand
<1> DEFINE c == [of |-> Challenge(r), version |-> register[r].version, lapsed |-> FALSE]
<1>1. /\ register[r].at = "challenge" /\ challenges' = [challenges EXCEPT ![Mine(r)] = c] /\ Goes(r, "complete")
      /\ UNCHANGED <<rows, saved, proved>> /\ register \in [Registrants -> Attempts]
  BY DEF SetChallenge, RegistrationInv
<1>2. c \in ChallengeRow
  BY <1>1, RegistrationAssumption DEF ChallengeRow, Challenge, Attempts, RegisterStates
<1> HIDE DEF c
<1>3. register' \in [Registrants -> Attempts] /\ register'[r].at = "complete" /\ register'[r].tries = register[r].tries
      /\ \A p \in Registrants : p # r => register'[p] = register[p]
  BY <1>1, GoesFacts DEF RegisterStates
<1>4. challenges' \in [DeviceIds -> ChallengeRow \cup {NoRow}]
      /\ \A d \in DeviceIds : challenges'[d] = NoRow => challenges[d] = NoRow
  BY <1>1, <1>2, DeviceOfOne, RegistrationAssumption DEF RegistrationInv, RegistrationTypeOK
<1>5. RegistrationTypeOK'
  BY <1>1, <1>3, <1>4 DEF RegistrationInv, RegistrationTypeOK
<1>6. HasRow(r) /\ (HasRow(r) => HasRow(r)')
  BY <1>1 DEF RegistrationInv, HasRow, Mine
<1>7. RegistrationInv'
  BY <1>1, <1>3, <1>5, <1>6, AttemptStep
<1> QED
  BY <1>1, <1>4, <1>7 DEF RowsStand

LEMMA TakeStep ==
  ASSUME RegistrationInv, NEW r \in Registrants, TakeChallenge(r)
  PROVE  RegistrationInv' /\ RowsStand
<1> DEFINE v == challenges[Mine(r)].version
           q == [register[r] EXCEPT !.at = "update", !.version = v]
<1>1. /\ register[r].at = "take" /\ challenges[Mine(r)] # NoRow /\ challenges' = [challenges EXCEPT ![Mine(r)] = NoRow]
      /\ register' = [register EXCEPT ![r] = q] /\ proved' = proved \cup {<<Mine(r), v>>}
      /\ UNCHANGED <<rows, saved>> /\ register \in [Registrants -> Attempts]
  BY DEF TakeChallenge, RegistrationInv, ChallengeStands
<1>2. v \in ClientVersions
  BY <1>1, DeviceOfOne DEF RegistrationInv, RegistrationTypeOK, ChallengeRow
<1>3. q \in Attempts /\ q.at = "update" /\ q.version = v /\ q.tries = register[r].tries
  <2>1. register[r] \in [at : RegisterStates, tries : 0..MaxTries, version : ClientVersions]
    BY <1>1 DEF Attempts
  <2> QED
    BY <2>1, <1>2 DEF Attempts, RegisterStates
<1>4. <<Mine(r), v>> \in proved'
  BY <1>1
<1> HIDE DEF v, q
<1>5. register' \in [Registrants -> Attempts] /\ register'[r] = q /\ \A p \in Registrants : p # r => register'[p] = register[p]
  BY <1>1, <1>3
<1>6. RegistrationTypeOK'
  BY <1>1, <1>3, <1>5 DEF RegistrationInv, RegistrationTypeOK
<1>7. HasRow(r) /\ (HasRow(r) => HasRow(r)')
  BY <1>1 DEF RegistrationInv, HasRow, Mine
<1>8. RegistrationInv'
  BY <1>1, <1>3, <1>4, <1>5, <1>6, <1>7, AttemptStep
<1>9. ASSUME NEW d \in DeviceIds, challenges[d] # NoRow, challenges'[d] = NoRow
      PROVE  /\ <<d, challenges[d].version>> \in proved'
             /\ \E p \in Registrants : Mine(p) = d /\ KeyOf[p] = rows[d].key /\ register'[p].at = "update"
  <2>1. d = Mine(r)
    BY <1>1, <1>9 DEF RegistrationInv, RegistrationTypeOK
  <2> QED
    BY <1>3, <1>4, <1>5, <1>7, <2>1 DEF HasRow, v
<1> QED
  BY <1>1, <1>8, <1>9 DEF RowsStand

\* The other steps of an attempt change nothing but where it is, and who has saved what.
LEMMA GoesStep ==
  ASSUME RegistrationInv, NEW r \in Registrants, NEW at \in RegisterStates \ {"create", "update"},
         register[r].at \notin {"idle", "create"}, Goes(r, at), UNCHANGED <<rows, challenges, proved>>,
         UNCHANGED saved \/ saved' = [saved EXCEPT ![r] = Mine(r)]
  PROVE  RegistrationInv' /\ RowsStand
<1>1. register' \in [Registrants -> Attempts] /\ register'[r].at = at /\ register'[r].tries = register[r].tries
      /\ \A p \in Registrants : p # r => register'[p] = register[p]
  BY GoesFacts DEF RegistrationInv
<1>2. saved' \in [Registrants -> DeviceIds \cup {NoRow}] /\ HasRow(r)
      /\ \A q \in Registrants : saved'[q] = saved[q] \/ (saved'[q] = Mine(q) /\ HasRow(q))
  BY DeviceOfOne DEF RegistrationInv, RegistrationTypeOK
<1>3. RegistrationTypeOK'
  BY <1>1, <1>2 DEF RegistrationInv, RegistrationTypeOK
<1>4. HasRow(r) => HasRow(r)'
  BY DEF HasRow, Mine
<1>5. RegistrationInv'
  BY <1>1, <1>2, <1>3, <1>4, AttemptStep
<1> QED
  BY <1>5 DEF RowsStand

LEMMA UpdateStep ==
  ASSUME RegistrationInv, NEW r \in Registrants, UpdateClient(r)
  PROVE  RegistrationInv' /\ RowsStand
<1> DEFINE old == rows[Mine(r)]
           row == [old EXCEPT !.version = IF old.revoked THEN old.version ELSE register[r].version]
<1>1. /\ register[r].at = "update" /\ rows' = [rows EXCEPT ![Mine(r)] = row] /\ Goes(r, "answered")
      /\ UNCHANGED <<challenges, saved, proved>> /\ register \in [Registrants -> Attempts]
  BY DEF UpdateClient, RegistrationInv
<1>2. old \in Row /\ old.key = KeyOf[r] /\ <<Mine(r), register[r].version>> \in proved
  BY <1>1, DeviceOfOne DEF RegistrationInv, RegistrationTypeOK, HasRow
<1>3. register[r].version \in ClientVersions
  BY <1>1 DEF Attempts
<1>4. /\ row \in Row /\ row.key = KeyOf[r]
      /\ row.version # old.version => ~old.revoked /\ row.version = register[r].version
  BY <1>2, <1>3 DEF Row
<1> HIDE DEF row
<1>5. register' \in [Registrants -> Attempts] /\ register'[r].at = "answered" /\ register'[r].tries = register[r].tries
      /\ \A p \in Registrants : p # r => register'[p] = register[p]
  BY <1>1, GoesFacts DEF RegisterStates
<1>6. rows' \in [DeviceIds -> Row \cup {NoRow}] /\ rows'[Mine(r)] = row /\ row # NoRow
      /\ \A d \in DeviceIds : d # Mine(r) => rows'[d] = rows[d]
  BY <1>1, <1>4, DeviceOfOne, RegistrationAssumption DEF RegistrationInv, RegistrationTypeOK
<1>7. RegistrationTypeOK'
  BY <1>1, <1>5, <1>6 DEF RegistrationInv, RegistrationTypeOK
<1>8. HasRow(r)' /\ \A d \in DeviceIds : rows[d] # NoRow => rows'[d] # NoRow /\ rows'[d].key = rows[d].key
  BY <1>2, <1>4, <1>6 DEF HasRow, Mine
<1>9. RegistrationInv'
  BY <1>1, <1>5, <1>7, <1>8, AttemptStep
<1>10. \A d \in DeviceIds : rows'[d].version # rows[d].version => ~rows[d].revoked /\ <<d, rows'[d].version>> \in proved
  BY <1>2, <1>4, <1>6
<1> QED
  BY <1>1, <1>8, <1>9, <1>10 DEF RowsStand

\* The operator's commands, and the time.
LEMMA OperatorStep ==
  ASSUME RegistrationInv, NEW d \in DeviceIds, ChallengeLapses(d) \/ ApproveClient(d) \/ RevokeClientRow(d)
  PROVE  RegistrationInv' /\ RowsStand
<1>1. CASE ChallengeLapses(d)
  <2>1. challenges[d] \in ChallengeRow /\ UNCHANGED <<rows, register, saved, proved>>
    BY <1>1 DEF ChallengeLapses, RegistrationInv, RegistrationTypeOK
  <2> DEFINE c == [challenges[d] EXCEPT !.lapsed = TRUE]
  <2>2. c \in ChallengeRow
    BY <2>1 DEF ChallengeRow
  <2>3. challenges' = [challenges EXCEPT ![d] = c]
    BY <1>1 DEF ChallengeLapses
  <2> HIDE DEF c
  <2>4. challenges' \in [DeviceIds -> ChallengeRow \cup {NoRow}]
        /\ \A e \in DeviceIds : challenges'[e] = NoRow => challenges[e] = NoRow
    BY <2>2, <2>3, RegistrationAssumption DEF RegistrationInv, RegistrationTypeOK
  <2> QED
    BY <2>1, <2>4 DEF RegistrationInv, RegistrationTypeOK, RowsStand, HasRow, Mine
<1>2. CASE ApproveClient(d) \/ RevokeClientRow(d)
  <2>1. rows[d] \in Row /\ rows[d] # NoRow /\ UNCHANGED <<challenges, register, saved, proved>>
    BY <1>2 DEF ApproveClient, RevokeClientRow, RegistrationInv, RegistrationTypeOK
  <2>2. PICK row \in Row : rows' = [rows EXCEPT ![d] = row] /\ row.key = rows[d].key /\ row.version = rows[d].version
    <3> DEFINE a == [rows[d] EXCEPT !.approved = TRUE]
               b == [rows[d] EXCEPT !.revoked = TRUE]
    <3>1. a \in Row /\ a.key = rows[d].key /\ a.version = rows[d].version
          /\ b \in Row /\ b.key = rows[d].key /\ b.version = rows[d].version
      BY <2>1 DEF Row
    <3>2. rows' = [rows EXCEPT ![d] = a] \/ rows' = [rows EXCEPT ![d] = b]
      BY <1>2 DEF ApproveClient, RevokeClientRow
    <3> HIDE DEF a, b
    <3> QED
      BY <3>1, <3>2
  <2>3. rows' \in [DeviceIds -> Row \cup {NoRow}]
        /\ \A e \in DeviceIds : rows[e] # NoRow =>
             rows'[e] # NoRow /\ rows'[e].key = rows[e].key /\ rows'[e].version = rows[e].version
    BY <2>2, RegistrationAssumption DEF RegistrationInv, RegistrationTypeOK
  <2>4. \A q \in Registrants : HasRow(q) => HasRow(q)'
    BY <2>3, DeviceOfOne DEF HasRow, Mine
  <2> QED
    BY <2>1, <2>3, <2>4 DEF RegistrationInv, RegistrationTypeOK, RowsStand, Mine
<1> QED
  BY <1>1, <1>2

LEMMA RegistrationNextStep ==
  ASSUME RegistrationInv, RegistrationNext
  PROVE  RegistrationInv' /\ RowsStand
<1>1. ASSUME NEW r \in Registrants, VerifyProof(r) \/ RefuseCompletion(r) \/ SaveRegistration(r) \/ LoseAnswer(r)
      PROVE  RegistrationInv' /\ RowsStand
  <2>1. register[r].at \notin {"idle", "create"} /\ UNCHANGED <<rows, challenges, proved>>
        /\ (UNCHANGED saved \/ saved' = [saved EXCEPT ![r] = Mine(r)])
    BY <1>1 DEF VerifyProof, RefuseCompletion, SaveRegistration, LoseAnswer
  <2>2. Goes(r, "take") \/ Goes(r, "idle")
    BY <1>1 DEF VerifyProof, RefuseCompletion, SaveRegistration, LoseAnswer
  <2> QED
    BY <2>1, <2>2, GoesStep DEF RegisterStates
<1> QED
  BY <1>1, AskStep, CreateRowStep, SetChallengeStep, TakeStep, UpdateStep, OperatorStep DEF RegistrationNext

LEMMA RegistrationInvStep == RegistrationInv /\ [RegistrationNext]_registrationVars => RegistrationInv'
<1>1. ASSUME RegistrationInv, UNCHANGED registrationVars PROVE RegistrationInv'
  BY <1>1 DEF registrationVars, RegistrationInv, RegistrationTypeOK, HasRow, Mine
<1> QED
  BY <1>1, RegistrationNextStep

\* register_client and complete_registration: one row of one key for a device, changed only
\* by what was proved, and no challenge lost to a bad proof, for any number of registrants.
THEOREM RegistrationProved == RegistrationSpec => RegistrationIsProved
<1> DEFINE Saved == \A r \in Registrants : saved[r] # NoRow => rows[saved[r]] # NoRow /\ rows[saved[r]].key = KeyOf[r]
           Stand == \A d \in DeviceIds :
             /\ rows[d] # NoRow => rows'[d] # NoRow /\ rows'[d].key = rows[d].key
             /\ rows[d] # NoRow /\ rows'[d].version # rows[d].version =>
                  ~rows[d].revoked /\ <<d, rows'[d].version>> \in proved
             /\ challenges[d] # NoRow /\ challenges'[d] = NoRow =>
                  /\ <<d, challenges[d].version>> \in proved'
                  /\ \E r \in Registrants : Mine(r) = d /\ KeyOf[r] = rows[d].key /\ register'[r].at = "update"
<1>1. RegistrationInv => Saved
  BY DEF RegistrationInv, HasRow
<1>2. RegistrationInv /\ [RegistrationNext]_registrationVars => [Stand]_registrationVars
  BY RegistrationNextStep DEF RowsStand
<1> QED
  BY <1>1, <1>2, RegistrationInvInit, RegistrationInvStep, PTL DEF RegistrationSpec, RegistrationIsProved

-----------------------------------------------------------------------------
(* All parts together, as MCAuthorization runs them.                       *)

SystemInv == AuthInv /\ GrantsInv /\ ClientInv /\ IdentityInv /\ DeliveryInv /\ RegistrationInv

\* Every part stays in its invariant, whichever of them moves: none disturbs another.
THEOREM SystemTypeCorrect == AuthSpec => []AuthTypeOK
<1>1. AuthInit => SystemInv
  BY AuthInvInit, GrantsInvInit, ClientInvInit, IdentityInvInit, DeliveryInvInit, RegistrationInvInit
    DEF AuthInit, SystemInv
<1>2. SystemInv /\ [AuthNext]_authVars => SystemInv'
  <2> SUFFICES ASSUME SystemInv, [AuthNext]_authVars PROVE SystemInv'
    OBVIOUS
  <2>1. [Next]_vars /\ [GrantsNext]_grantVars /\ [ClientNext]_clientVars
    BY DEF AuthNext, authVars
  <2>2. [IdentityNext]_identityVars /\ [DeliveryNext]_deliveryVars /\ [RegistrationNext]_registrationVars
    BY DEF AuthNext, authVars
  <2>3. AuthInv' /\ GrantsInv' /\ ClientInv'
    BY <2>1, AuthInvStep, GrantsInvStep, ClientInvStep DEF SystemInv
  <2>4. IdentityInv' /\ DeliveryInv' /\ RegistrationInv'
    BY <2>2, IdentityInvStep, DeliveryInvStep, RegistrationInvStep DEF SystemInv
  <2> QED
    BY <2>3, <2>4 DEF SystemInv
<1>3. SystemInv => AuthTypeOK
  <2>1. AuthInv => TypeOK
    BY DEF AuthInv, StoreTypes, HandlerType, TypeOK
  <2>2. DeliveryInv => DeliveryTypeOK
    BY DEF DeliveryInv, DeliveryTypeOK, Stages
  <2> QED
    BY <2>1, <2>2 DEF SystemInv, AuthTypeOK, GrantsInv, ClientInv, IdentityInv, RegistrationInv
<1> QED
  BY <1>1, <1>2, <1>3, PTL DEF AuthSpec
=============================================================================
