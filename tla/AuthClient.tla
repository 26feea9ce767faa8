----------------------------- MODULE AuthClient -----------------------------
(* The desktop's authorization client: registration, the one session kept in   *)
(* ACTIVE_SESSION, its heartbeat, and the clock by which its lease is judged.  *)
(* Every call builds a client of its own, works on a copy of ACTIVE_SESSION    *)
(* across the network, and stores its result without looking at what is there  *)
(* by then.  The service is what AuthSessions shows it to be; the machine's    *)
(* clock may stand before or behind the service's, and jump.                   *)
EXTENDS Integers, FiniteSets

CONSTANTS
  Threads,            \* commands of the desktop in progress
  Leases,             \* session ids to come
  Rights,             \* capabilities
  ClockError,         \* how far the machine's clock may be from the service's
  NoLease,
  LeaseTtl,           \* LEASE_MAX_SECS
  LastTime            \* the last second of the model

ASSUME ClientAssumption ==
  /\ LeaseTtl \in Nat \ {0} /\ ClockError \in Nat /\ LastTime \in Nat
  /\ NoLease \notin Leases

VARIABLES
  time,         \* the service's clock
  skew,         \* the machine's clock minus the service's
  registered,   \* the registration record in the secure store
  lent,         \* the service's sessions: lease end and whether revoked
  active,       \* ACTIVE_SESSION
  thread        \* the commands in progress

clientVars == <<time, skew, registered, lent, active, thread>>

Skews == -ClockError..ClockError

\* A session as the client keeps it.  `ahead` is its lease clock minus the service's
\* clock: both run at the same rate.  `delay` is how long its answer was under way.
Held == [id : Leases, rights : SUBSET Rights, exp : Nat, ahead : Int, delay : Nat]

NoSession == [id |-> NoLease, rights |-> {}, exp |-> 0, ahead |-> 0, delay |-> 0]
Resting == [pc |-> "idle", kind |-> "acquire", rights |-> {}, from |-> NoSession,
            id |-> NoLease, exp |-> 0, server_time |-> 0]

ClientTypeOK ==
  /\ time \in 0..LastTime
  /\ skew \in Skews
  /\ registered \in BOOLEAN
  /\ DOMAIN lent \subseteq Leases
  /\ \A s \in DOMAIN lent : lent[s] \in [rights : SUBSET Rights, exp : Nat, revoked : BOOLEAN]
  /\ active \in Held \cup {NoSession}
  /\ thread \in [Threads ->
       [pc : {"idle", "sent", "answered"}, kind : {"register", "acquire", "heartbeat"},
        rights : SUBSET Rights, from : Held \cup {NoSession},
        id : Leases \cup {NoLease}, exp : Nat, server_time : Nat]]

ClientInit ==
  /\ time = 0 /\ skew \in Skews
  /\ registered = FALSE /\ lent = <<>> /\ active = NoSession
  /\ thread = [c \in Threads |-> Resting]

-----------------------------------------------------------------------------
LeaseNow(h) == time + h.ahead
InForce(h)  == h # NoSession /\ h.exp > LeaseNow(h)
LocalTime   == time + skew
Later(a, b) == IF a >= b THEN a ELSE b

lease_validation_now_LocalOnly(server_time, local_time, minimum_now) ==
  Later(local_time, minimum_now)

lease_validation_now_NoMinimum(server_time, local_time, minimum_now) ==
  Later(server_time, local_time)

\* The latest of the three clocks; an acquired session has no minimum.
lease_validation_now(server_time, local_time, minimum_now) ==
  Later(Later(server_time, local_time), minimum_now)

\* runtime_authorization_status.
Status ==
  CASE InForce(active)      -> "ready"
    [] active # NoSession   -> "lease_expired"
    [] registered           -> "authentication_required"
    [] OTHER                -> "not_registered"

\* verify_signed_lease; an answer whose key, signature or bindings are wrong is CallFails.
Verified(answer, now) == answer.exp > now

Post(c, kind, rights, from) ==
  /\ thread[c].pc = "idle"
  /\ thread' = [thread EXCEPT ![c] = [Resting EXCEPT !.pc = "sent", !.kind = kind,
                                                     !.rights = rights, !.from = from]]
  /\ UNCHANGED <<time, skew, registered, lent, active>>

Finish(c) == thread' = [thread EXCEPT ![c] = Resting]

-----------------------------------------------------------------------------
(* Commands.                                                               *)

\* register_client: two requests, of which only the second's answer is kept.
runtime_register(c) == Post(c, "register", {}, NoSession)

\* runtime_acquire_capabilities: identity and registration must be there.
runtime_acquire(c, rights) == registered /\ Post(c, "acquire", rights, NoSession)

\* runtime_ensure_capabilities: a session in force that has the rights is used as it is.
runtime_ensure(c, rights) ==
  /\ ~(InForce(active) /\ rights \subseteq active.rights)
  /\ runtime_acquire(c, rights)

\* runtime_heartbeat adopts a copy of the session, whether or not it has expired.
runtime_heartbeat(c) ==
  /\ registered /\ active # NoSession
  /\ Post(c, "heartbeat", active.rights, active)

runtime_revoke_local ==
  /\ active # NoSession
  /\ active' = NoSession
  /\ UNCHANGED <<time, skew, registered, lent, thread>>

-----------------------------------------------------------------------------
(* The service, and the way there and back.                                *)

\* A new session replaces the one before it.
ServeAcquire(c, s) ==
  /\ thread[c].pc = "sent" /\ thread[c].kind = "acquire" /\ s \in Leases \ DOMAIN lent
  /\ lent' = [x \in DOMAIN lent \cup {s} |->
                IF x = s THEN [rights |-> thread[c].rights, exp |-> time + LeaseTtl, revoked |-> FALSE]
                ELSE [lent[x] EXCEPT !.revoked = TRUE]]
  /\ thread' = [thread EXCEPT ![c].pc = "answered", ![c].id = s, ![c].exp = time + LeaseTtl,
                              ![c].server_time = time]
  /\ UNCHANGED <<time, skew, registered, active>>

ServeHeartbeat(c) ==
  LET s == thread[c].from.id IN
  /\ thread[c].pc = "sent" /\ thread[c].kind = "heartbeat"
  /\ ~lent[s].revoked /\ lent[s].exp > time
  /\ lent' = [lent EXCEPT ![s].exp = time + LeaseTtl]
  /\ thread' = [thread EXCEPT ![c].pc = "answered", ![c].id = s, ![c].exp = time + LeaseTtl,
                              ![c].server_time = time]
  /\ UNCHANGED <<time, skew, registered, active>>

\* Refused, unreachable, or the answer is lost: the command fails and stores nothing.
CallFails(c) ==
  /\ thread[c].pc \in {"sent", "answered"}
  /\ Finish(c)
  /\ UNCHANGED <<time, skew, registered, lent, active>>

\* complete_registration answered: the record is saved.
Registered(c) ==
  /\ thread[c].pc = "sent" /\ thread[c].kind = "register"
  /\ registered' = TRUE
  /\ Finish(c)
  /\ UNCHANGED <<time, skew, lent, active>>

\* verify_lease: the clock the lease is judged by must find it in force, and starts
\* from there; the session is stored whatever ACTIVE_SESSION holds by now.
StoreSession(c) ==
  LET r   == thread[c]
      now == lease_validation_now(r.server_time, LocalTime,
               IF r.kind = "heartbeat" THEN LeaseNow(r.from) ELSE 0) IN
  /\ r.pc = "answered"
  /\ active' = IF Verified(r, now)
               THEN [id |-> r.id, rights |-> r.rights, exp |-> r.exp, ahead |-> now - time,
                     delay |-> time - r.server_time]
               ELSE active
  /\ Finish(c)
  /\ UNCHANGED <<time, skew, registered, lent>>

Passes ==
  /\ time < LastTime
  /\ time' = time + 1
  /\ UNCHANGED <<skew, registered, lent, active, thread>>

\* The user or a time service sets the machine's clock.
ClockIsSet ==
  /\ skew' \in Skews \ {skew}
  /\ UNCHANGED <<time, registered, lent, active, thread>>

ClientNext ==
  \/ Passes \/ ClockIsSet \/ runtime_revoke_local
  \/ \E c \in Threads :
       \/ runtime_register(c) \/ runtime_heartbeat(c)
       \/ \E rights \in SUBSET Rights \ {{}} : runtime_acquire(c, rights) \/ runtime_ensure(c, rights)
       \/ (\E s \in Leases : ServeAcquire(c, s)) \/ ServeHeartbeat(c)
       \/ Registered(c) \/ StoreSession(c) \/ CallFails(c)

ClientSpec == ClientInit /\ [][ClientNext]_clientVars

-----------------------------------------------------------------------------
(* Properties.                                                             *)

\* With the machine's clock as wrong as it likes, a session that is reported ready has
\* a lease that is over at the service by no more than the time its answer was under way.
LeaseIsNotOvertrusted == Status = "ready" => time < active.exp + active.delay

=============================================================================
