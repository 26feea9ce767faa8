---------------------------- MODULE AuthSessions ----------------------------
(* Sessions of the authorization service: the handlers of /v1/sessions,       *)
(* heartbeat, close and the bearer check every protected request passes, over *)
(* the SQLite store.  Each store call takes the connection's mutex by itself, *)
(* so a handler is a sequence of steps that other handlers, and the separate  *)
(* rdc-auth-admin process, come between.  `now` is read once, on arrival.     *)
(* A client may send a signed request again when its answer is late.          *)
EXTENDS Integers, FiniteSets, Tables

CONSTANTS
  Clients, Versions, Capabilities,
  Handlers,             \* requests the service works on at the same time
  Nonces,               \* one per signed request
  SessionIds,           \* the uuids to come
  None,
  MaxAge, MaxSkew,      \* REQUEST_MAX_AGE_SECS, MAX_CLOCK_SKEW_SECS
  Retention, Lease,     \* NONCE_RETENTION_SECS, LEASE_MAX_SECS
  Horizon               \* the last second of the model

ASSUME AuthAssumption ==
  /\ {MaxAge, MaxSkew, Retention, Lease, Horizon} \subseteq Nat
  /\ Retention >= MaxAge + MaxSkew
  /\ None \notin SessionIds \cup Nonces
  /\ Clients \cap (Clients \X Capabilities) = {}

VARIABLES
  clock,
  client,     \* the clients table
  revoking,   \* clients whose revoke_client has yet to reach the sessions table
  entitled,   \* the enabled entitlements, one account per client
  sessions,   \* the sessions table
  used,       \* the used_nonces table
  request,    \* what each signed request says
  handler     \* the requests in progress

admin == <<client, revoking, entitled>>
vars  == <<clock, admin, sessions, used, request, handler>>

-----------------------------------------------------------------------------
Time == 0..Horizon

Client  == [registered : BOOLEAN, approved : BOOLEAN, revoked : BOOLEAN, version : Versions]
Session == [client : Clients, caps : SUBSET Capabilities, exp : 0..(Horizon + Lease),
            revoked : BOOLEAN]
Request == [kind : {"create", "heartbeat"}, client : Clients, version : Versions,
            session : SessionIds \cup {None}, caps : SUBSET Capabilities, iat : Time]
Kinds   == {"create", "heartbeat", "use", "close"}
Labels  == {"idle", "session", "client", "nonce", "entitled", "expel", "replace", "answer"}

Idle == [pc |-> "idle", kind |-> "use", now |-> 0, nonce |-> None, session |-> None,
         client |-> None, caps |-> {}, unchecked |-> {}, withdrawn |-> {}]

TypeOK ==
  /\ clock \in Time
  /\ client \in [Clients -> Client]
  /\ revoking \subseteq Clients
  /\ entitled \subseteq Clients \X Capabilities
  /\ DOMAIN sessions \subseteq SessionIds
  /\ \A s \in DOMAIN sessions : sessions[s] \in Session
  /\ DOMAIN used \subseteq Nonces /\ \A n \in DOMAIN used : used[n] \in Time
  /\ DOMAIN request \subseteq Nonces /\ \A n \in DOMAIN request : request[n] \in Request
  /\ handler \in [Handlers ->
       [pc : Labels, kind : Kinds, now : Time, nonce : Nonces \cup {None},
        session : SessionIds \cup {None}, client : Clients \cup {None},
        caps : SUBSET Capabilities, unchecked : SUBSET Capabilities,
        withdrawn : SUBSET ((Clients \X Capabilities) \cup Clients)]]

Init ==
  /\ clock = 0
  /\ client \in [Clients -> {c \in Client : ~c.registered /\ ~c.approved /\ ~c.revoked}]
  /\ revoking = {}
  /\ entitled = {}
  /\ sessions = <<>>
  /\ used = <<>>
  /\ request = <<>>
  /\ handler = [h \in Handlers |-> Idle]

\* ensure_client_usable.
Usable(c) == client[c].registered /\ ~client[c].revoked /\ client[c].approved

\* validate_request_time.
WithinWindow(iat, now) == iat >= now - MaxAge /\ iat <= now + MaxSkew

\* The rows consume_nonce deletes, and those it keeps.
Kept_OneTooFew(now) == {n \in DOMAIN used : used[n] > now - Retention}
Kept(now) == {n \in DOMAIN used : used[n] >= now - Retention}

Goto(h, pc) == handler' = [handler EXCEPT ![h].pc = pc]
Return(h)   == handler' = [handler EXCEPT ![h] = Idle]

-----------------------------------------------------------------------------
(* The world around the handlers.                                          *)

Tick ==
  /\ clock < Horizon
  /\ clock' = clock + 1
  /\ UNCHANGED <<admin, sessions, used, request, handler>>

\* register_client: a client that is not known yet becomes a pending one.
Register(c) ==
  /\ ~client[c].registered
  /\ client' = [client EXCEPT ![c].registered = TRUE]
  /\ UNCHANGED <<clock, revoking, entitled, sessions, used, request, handler>>

\* update_client_registration, at the end of complete_registration: one transaction
\* revokes the client's sessions and takes the new version.
CompleteRegistration(c, v) ==
  /\ client[c].registered
  /\ sessions' = [s \in DOMAIN sessions |->
       IF sessions[s].client = c THEN [sessions[s] EXCEPT !.revoked = TRUE] ELSE sessions[s]]
  /\ client' = IF client[c].revoked THEN client ELSE [client EXCEPT ![c].version = v]
  /\ UNCHANGED <<clock, revoking, entitled, used, request, handler>>

\* rdc-auth-admin client approve.
Approve(c) ==
  /\ client[c].registered
  /\ client' = [client EXCEPT ![c].approved = TRUE]
  /\ UNCHANGED <<clock, revoking, entitled, sessions, used, request, handler>>

\* rdc-auth-admin client revoke: two statements, each committed by itself.
RevokeClient(c) ==
  /\ client[c].registered /\ c \notin revoking
  /\ client' = [client EXCEPT ![c].revoked = TRUE]
  /\ revoking' = revoking \cup {c}
  /\ UNCHANGED <<clock, entitled, sessions, used, request, handler>>

RevokeClientSessions(c) ==
  /\ c \in revoking
  /\ revoking' = revoking \ {c}
  /\ sessions' = [s \in DOMAIN sessions |->
       IF sessions[s].client = c THEN [sessions[s] EXCEPT !.revoked = TRUE] ELSE sessions[s]]
  /\ UNCHANGED <<clock, client, entitled, used, request, handler>>

\* rdc-auth-admin entitlement grant and revoke.  A right granted again is no
\* longer withdrawn, for the requests in progress.
GrantEntitlement(c, cap) ==
  /\ entitled' = entitled \cup {<<c, cap>>}
  /\ handler' = [h \in Handlers |-> [handler[h] EXCEPT !.withdrawn = @ \ {<<c, cap>>}]]
  /\ UNCHANGED <<clock, client, revoking, sessions, used, request>>

RevokeEntitlement(c, cap) ==
  /\ entitled' = entitled \ {<<c, cap>>}
  /\ UNCHANGED <<clock, client, revoking, sessions, used, request, handler>>

-----------------------------------------------------------------------------
(* Arrival.  `withdrawn` remembers, for the properties only, the clients that  *)
(* were revoked and the rights that were missing when the request came in.     *)

Withdrawn == {c \in Clients : client[c].revoked} \cup ((Clients \X Capabilities) \ entitled)

Arrive(h, req, n) ==
  /\ handler[h].pc = "idle"
  /\ handler' = [handler EXCEPT ![h] =
       [Idle EXCEPT !.pc = IF req.kind = "create" THEN "client" ELSE "session",
                    !.kind = req.kind, !.now = clock, !.nonce = n,
                    !.session = req.session, !.client = req.client, !.caps = req.caps,
                    !.withdrawn = Withdrawn]]
  /\ UNCHANGED <<clock, admin, sessions, used>>

\* A signed request, sent for the first time or again.  A request with a time
\* outside the window is refused: at once, for a session, and after the session
\* has been read, which changes nothing, for a heartbeat.
Deliver(h, n) ==
  /\ n \in DOMAIN request
  /\ WithinWindow(request[n].iat, clock)
  /\ Arrive(h, request[n], n)
  /\ UNCHANGED request

Send(h, n, req) ==
  /\ n \notin DOMAIN request
  /\ request' = WithRow(request, n, req)
  /\ WithinWindow(req.iat, clock)
  /\ Arrive(h, req, n)

\* A request that carries the session id as its bearer token.
Bearer(h, kind, s) ==
  /\ s \in DOMAIN sessions
  /\ Arrive(h, [kind |-> kind, session |-> s, client |-> sessions[s].client, caps |-> {}], None)
  /\ UNCHANGED request

-----------------------------------------------------------------------------
(* The steps of a request, one store call each.                            *)

\* The session must be known, not revoked, not expired, and the client's own.
ReadSession(h) ==
  LET s == handler[h].session IN
  /\ handler[h].pc = "session"
  /\ IF /\ s \in DOMAIN sessions
        /\ ~sessions[s].revoked
        /\ sessions[s].exp > handler[h].now
        /\ sessions[s].client = handler[h].client
     THEN handler' = [handler EXCEPT ![h].pc = "client", ![h].caps = sessions[s].caps]
     ELSE Return(h)
  /\ UNCHANGED <<clock, admin, sessions, used, request>>

ReadClient_TrustsSession(h) ==
  /\ handler[h].pc = "client"
  /\ IF handler[h].kind # "create" \/ (/\ Usable(handler[h].client)
        /\ client[handler[h].client].version = request[handler[h].nonce].version)
     THEN handler' = [handler EXCEPT
            ![h].pc = IF handler[h].kind \in {"create", "heartbeat"} THEN "nonce" ELSE "entitled",
            ![h].unchecked = handler[h].caps]
     ELSE Return(h)
  /\ UNCHANGED <<clock, admin, sessions, used, request>>

ReadClient_EveryoneConsumes(h) ==
  /\ handler[h].pc = "client"
  /\ IF Usable(handler[h].client)
     THEN handler' = [handler EXCEPT ![h].pc = "nonce", ![h].unchecked = handler[h].caps]
     ELSE Return(h)
  /\ UNCHANGED <<clock, admin, sessions, used, request>>

\* The client must be usable; to open a session, in the registered version too.
ReadClient(h) ==
  /\ handler[h].pc = "client"
  /\ IF /\ Usable(handler[h].client)
        /\ handler[h].kind = "create" =>
             client[handler[h].client].version = request[handler[h].nonce].version
     THEN handler' = [handler EXCEPT
            ![h].pc = IF handler[h].kind \in {"create", "heartbeat"} THEN "nonce" ELSE "entitled",
            ![h].unchecked = handler[h].caps]
     ELSE Return(h)
  /\ UNCHANGED <<clock, admin, sessions, used, request>>

\* consume_nonce: prune what is old by this request's clock, then insert or ignore.
ConsumeNonce(h) ==
  LET n == handler[h].nonce   now == handler[h].now   kept == Kept(now) IN
  /\ handler[h].pc = "nonce"
  /\ used' = [m \in kept \cup {n} |-> IF m \in kept THEN used[m] ELSE now]
  /\ IF n \in kept THEN Return(h) ELSE Goto(h, "entitled")
  /\ UNCHANGED <<clock, admin, sessions, request>>

\* has_entitlement, for one capability after the other.
CheckEntitlement(h, cap) ==
  /\ handler[h].pc = "entitled" /\ cap \in handler[h].unchecked
  /\ IF <<handler[h].client, cap>> \in entitled
     THEN handler' = [handler EXCEPT ![h].unchecked = @ \ {cap}]
     ELSE IF handler[h].kind = "create" THEN Return(h) ELSE Goto(h, "expel")
  /\ UNCHANGED <<clock, admin, sessions, used, request>>

Entitled(h) ==
  /\ handler[h].pc = "entitled" /\ handler[h].unchecked = {}
  /\ Goto(h, IF handler[h].kind = "create" THEN "replace" ELSE "answer")
  /\ UNCHANGED <<clock, admin, sessions, used, request>>

\* A session that has lost a capability is revoked, and the request refused.
Expel(h) ==
  /\ handler[h].pc = "expel"
  /\ sessions' = [sessions EXCEPT ![handler[h].session].revoked = TRUE]
  /\ Return(h)
  /\ UNCHANGED <<clock, admin, used, request>>

\* revoke_active_sessions_for_client.
ReplaceOld(h) ==
  /\ handler[h].pc = "replace"
  /\ sessions' = [s \in DOMAIN sessions |->
       IF sessions[s].client = handler[h].client /\ sessions[s].exp > handler[h].now
       THEN [sessions[s] EXCEPT !.revoked = TRUE] ELSE sessions[s]]
  /\ Goto(h, "answer")
  /\ UNCHANGED <<clock, admin, used, request>>

\* AuthStore::create_session, and the lease.
CreateSession(h, s) ==
  /\ handler[h].pc = "answer" /\ handler[h].kind = "create"
  /\ s \in SessionIds \ DOMAIN sessions
  /\ sessions' = WithRow(sessions, s, [client |-> handler[h].client, caps |-> handler[h].caps,
                                       exp |-> handler[h].now + Lease, revoked |-> FALSE])
  /\ Return(h)
  /\ UNCHANGED <<clock, admin, used, request>>

RefreshSession_Revives(h) ==
  LET s == handler[h].session IN
  /\ handler[h].pc = "answer" /\ handler[h].kind = "heartbeat"
  /\ sessions' = [sessions EXCEPT ![s].exp = handler[h].now + Lease]
  /\ Return(h)
  /\ UNCHANGED <<clock, admin, used, request>>

\* refresh_session: only a session that is still not revoked gets a longer lease.
RefreshSession(h) ==
  LET s == handler[h].session IN
  /\ handler[h].pc = "answer" /\ handler[h].kind = "heartbeat"
  /\ sessions' = IF sessions[s].revoked THEN sessions
                 ELSE [sessions EXCEPT ![s].exp = handler[h].now + Lease]
  /\ Return(h)
  /\ UNCHANGED <<clock, admin, used, request>>

\* A bearer request passes; close revokes the session.
Serve(h) ==
  /\ handler[h].pc = "answer" /\ handler[h].kind \in {"use", "close"}
  /\ sessions' = IF handler[h].kind = "close"
                 THEN [sessions EXCEPT ![handler[h].session].revoked = TRUE] ELSE sessions
  /\ Return(h)
  /\ UNCHANGED <<clock, admin, used, request>>

-----------------------------------------------------------------------------
World ==
  \/ Tick
  \/ \E c \in Clients :
       \/ Register(c) \/ Approve(c) \/ RevokeClient(c) \/ RevokeClientSessions(c)
       \/ \E v \in Versions : CompleteRegistration(c, v)
       \/ \E cap \in Capabilities : GrantEntitlement(c, cap) \/ RevokeEntitlement(c, cap)

\* What the desktop client signs: capabilities for a new session, or the session
\* and client it wants to keep.
Signable ==
  {r \in Request : IF r.kind = "create" THEN r.session = None /\ r.caps # {}
                   ELSE /\ r.session \in DOMAIN sessions /\ r.caps = {}
                        /\ r.client = sessions[r.session].client
                        /\ r.version = client[r.client].version}

Arrival(h) ==
  \/ \E n \in Nonces : Deliver(h, n) \/ \E r \in Signable : Send(h, n, r)
  \/ \E s \in SessionIds, kind \in {"use", "close"} : Bearer(h, kind, s)

Handle(h) ==
  \/ ReadSession(h) \/ ReadClient(h) \/ ConsumeNonce(h)
  \/ (\E cap \in Capabilities : CheckEntitlement(h, cap))
  \/ Entitled(h) \/ Expel(h) \/ ReplaceOld(h)
  \/ (\E s \in SessionIds : CreateSession(h, s))
  \/ RefreshSession(h) \/ Serve(h)

Next == World \/ \E h \in Handlers : Arrival(h) \/ Handle(h)

Spec == Init /\ [][Next]_vars

-----------------------------------------------------------------------------
(* Properties.                                                             *)

Active(s) == s \in DOMAIN sessions /\ ~sessions[s].revoked /\ sessions[s].exp > clock

\* consume_nonce forgets a nonce only when no request with it can be accepted any
\* more: what is pruned, by whichever handler's clock, is outside the window of
\* every request that has yet to arrive.
PrunedNoncesAreTooOld ==
  [][\A n \in DOMAIN used \ DOMAIN used' : ~WithinWindow(request[n].iat, clock)]_vars

\* A revoked session stays as it is for good: a heartbeat that read it before it
\* was revoked does not renew its lease.
RevokedSessionsAreFrozen ==
  [][\A s \in DOMAIN sessions : sessions[s].revoked => sessions'[s] = sessions[s]]_vars

\* A request that came in after its client had been revoked, or after a capability
\* it counts on had been withdrawn and not given back since, is never answered,
\* also when a racing request has left a session behind that is not revoked.
NoServiceOnWithdrawnRights ==
  \A h \in Handlers : handler[h].pc \in {"replace", "answer"} =>
    /\ handler[h].client \notin handler[h].withdrawn
    /\ \A cap \in handler[h].caps : <<handler[h].client, cap>> \notin handler[h].withdrawn

\* What has been taken from a client, its session, one of its rights or a nonce it has
\* used, is not to be had again through a request that was on its way at the time.
WithdrawalIsFinal ==
  RevokedSessionsAreFrozen /\ [](/\ NoServiceOnWithdrawnRights) /\ PrunedNoncesAreTooOld
=============================================================================
