------------------------ MODULE AuthorizationProofs ------------------------
(* Theorems about AuthSessions, for all clients, capabilities, concurrent     *)
(* requests, nonces and windows, and about ExecutionGrants, for all sessions, *)
(* concurrent calls, nonces, contents, lifetimes and capacities.              *)
EXTENDS AuthSessions, ExecutionGrants, FiniteSetTheorems, TLAPS

HandlerType ==
  [pc : Labels, kind : Kinds, now : Time, nonce : Nonces \cup {None},
   session : SessionIds \cup {None}, client : Clients \cup {None},
   caps : SUBSET Capabilities, unchecked : SUBSET Capabilities,
   withdrawn : SUBSET ((Clients \X Capabilities) \cup Clients)]

SignedKinds == {"create", "heartbeat"}
PastClient == {"nonce", "entitled", "expel", "replace", "answer"}

\* What is known of a request in progress at time t, with these clients, entitlements
\* and requests: whose rights were missing when it came in still lacks them, and how
\* far it has come shows what it has been checked for.
HandlerRecord(r, t, clients, rights, requests) ==
  /\ r \in HandlerType /\ r.now <= t
  /\ r.pc # "idle" => r.client \in Clients
  /\ \A c \in Clients : c \in r.withdrawn => clients[c].revoked
  /\ \A c \in Clients, cap \in Capabilities : <<c, cap>> \in r.withdrawn => <<c, cap>> \notin rights
  /\ r.pc # "idle" /\ r.kind \in SignedKinds =>
       r.nonce \in DOMAIN requests /\ requests[r.nonce].iat <= r.now + MaxSkew
  /\ r.pc = "nonce" => r.kind \in SignedKinds /\ r.unchecked = r.caps
  /\ r.pc \in PastClient => r.client \notin r.withdrawn
  /\ r.pc = "entitled" => \A cap \in r.caps \ r.unchecked : <<r.client, cap>> \notin r.withdrawn
  /\ r.pc \in {"replace", "answer"} => \A cap \in r.caps : <<r.client, cap>> \notin r.withdrawn

InOrder(r) == HandlerRecord(r, clock, client, entitled, request)

StoreTypes ==
  /\ clock \in Time
  /\ client \in [Clients -> Client]
  /\ revoking \subseteq Clients
  /\ entitled \subseteq Clients \X Capabilities
  /\ DOMAIN sessions \subseteq SessionIds
  /\ \A s \in DOMAIN sessions : sessions[s] \in Session
  /\ DOMAIN used \subseteq Nonces /\ \A n \in DOMAIN used : used[n] \in Time
  /\ DOMAIN request \subseteq Nonces /\ \A n \in DOMAIN request : request[n] \in Request

\* A nonce was used no earlier than its request allows.
RowsAreTimely ==
  \A n \in DOMAIN used : n \in DOMAIN request /\ request[n].iat <= used[n] + MaxSkew

AuthInv ==
  /\ StoreTypes /\ RowsAreTimely
  /\ handler \in [Handlers -> HandlerType]
  /\ \A h \in Handlers : InOrder(handler[h])

-----------------------------------------------------------------------------
(* What keeps the requests in order.                                       *)

\* Times, clients and requests move one way: nobody's revocation is undone.
Onward ==
  /\ clock' \in Nat /\ clock <= clock'
  /\ \A c \in Clients : client[c].revoked => client'[c].revoked
  /\ \A n \in DOMAIN request : n \in DOMAIN request' /\ request'[n] = request[n]

\* A request in order stays so while rights are only withdrawn.
LEMMA OrderStays ==
  ASSUME AuthInv, Onward, entitled' \subseteq entitled, NEW r, InOrder(r)
  PROVE  HandlerRecord(r, clock', client', entitled', request')
<1>1. r.now \in Nat /\ clock \in Nat
  BY AuthAssumption DEF AuthInv, StoreTypes, InOrder, HandlerRecord, HandlerType, Time
<1>2. r.now <= clock'
  BY <1>1 DEF Onward, InOrder, HandlerRecord
<1> QED  BY <1>2 DEF InOrder, HandlerRecord, Onward

\* One handler moves, and the tables stay in order.
LEMMA OneHandler ==
  ASSUME AuthInv, Onward, entitled' \subseteq entitled, StoreTypes', RowsAreTimely',
         NEW h \in Handlers, NEW r, HandlerRecord(r, clock', client', entitled', request'),
         handler' = [handler EXCEPT ![h] = r]
  PROVE  AuthInv'
<1>1. r \in HandlerType /\ handler \in [Handlers -> HandlerType]
  BY DEF AuthInv, HandlerRecord
<1>2. ASSUME NEW g \in Handlers PROVE InOrder(handler[g])'
  <2>1. InOrder(handler[g])
    BY DEF AuthInv
  <2>2. HandlerRecord(handler[g], clock', client', entitled', request')
    BY <2>1, OrderStays
  <2>3. handler'[g] = IF g = h THEN r ELSE handler[g]
    BY <1>1
  <2>4. HandlerRecord(handler'[g], clock', client', entitled', request')
    BY <2>2, <2>3
  <2> QED  BY <2>4 DEF InOrder
<1> QED  BY <1>1, <1>2 DEF AuthInv

\* No handler moves.
LEMMA NoHandler ==
  ASSUME AuthInv, Onward, entitled' \subseteq entitled, StoreTypes', RowsAreTimely',
         handler' = handler
  PROVE  AuthInv'
<1>1. ASSUME NEW g \in Handlers PROVE InOrder(handler[g])'
  <2>1. InOrder(handler[g])
    BY DEF AuthInv
  <2>2. HandlerRecord(handler[g], clock', client', entitled', request')
    BY <2>1, OrderStays
  <2> QED  BY <2>2 DEF InOrder
<1> QED  BY <1>1 DEF AuthInv

\* A handler that has answered is in order.
LEMMA IdleInOrder ==
  ASSUME AuthInv
  PROVE  InOrder(Idle)
<1>1. 0 \in Time /\ 0 <= clock
  BY AuthAssumption DEF AuthInv, StoreTypes, Time
<1> QED  BY <1>1 DEF InOrder, HandlerRecord, HandlerType, Idle, Labels, Kinds, PastClient

\* A handler that moves while the tables keep their requests, clients and rights.
LEMMA HandlerMoves ==
  ASSUME AuthInv, UNCHANGED <<clock, admin, request>>, StoreTypes', RowsAreTimely',
         NEW h \in Handlers, NEW r, InOrder(r), handler' = [handler EXCEPT ![h] = r]
  PROVE  AuthInv'
<1>1. Onward /\ entitled' \subseteq entitled
  BY AuthAssumption DEF Onward, admin, AuthInv, StoreTypes, Time
<1>2. HandlerRecord(r, clock', client', entitled', request')
  BY <1>1, OrderStays
<1> QED  BY <1>1, <1>2, OneHandler

\* The same, of a step that leaves the tables alone.
LEMMA HandlerOnly ==
  ASSUME AuthInv, UNCHANGED <<clock, admin, sessions, used, request>>,
         NEW h \in Handlers, NEW r, InOrder(r), handler' = [handler EXCEPT ![h] = r]
  PROVE  AuthInv'
<1>1. StoreTypes' /\ RowsAreTimely'
  BY DEF AuthInv, StoreTypes, RowsAreTimely, admin
<1> QED  BY <1>1, HandlerMoves

-----------------------------------------------------------------------------
(* The steps of a request.                                                 *)

LEMMA ReadSessionStep ==
  ASSUME AuthInv, NEW h \in Handlers, ReadSession(h)
  PROVE  AuthInv'
<1> DEFINE s == handler[h].session
           r == [handler[h] EXCEPT !.pc = "client", !.caps = sessions[s].caps]
<1>1. /\ handler[h].pc = "session" /\ UNCHANGED <<clock, admin, sessions, used, request>>
      /\ \/ s \in DOMAIN sessions /\ handler' = [handler EXCEPT ![h] = r]
         \/ handler' = [handler EXCEPT ![h] = Idle]
  BY DEF ReadSession, Return
<1>2. s \in DOMAIN sessions => InOrder(r)
  <2> SUFFICES ASSUME s \in DOMAIN sessions PROVE InOrder(r)
    OBVIOUS
  <2>1. sessions[s].caps \in SUBSET Capabilities
    BY DEF AuthInv, StoreTypes, Session
  <2>2. InOrder(handler[h])
    BY DEF AuthInv
  <2> HIDE DEF s
  <2>3. r \in HandlerType
    BY <2>1, <2>2 DEF InOrder, HandlerRecord, HandlerType, Labels
  <2>4. /\ r.pc = "client" /\ r.now = handler[h].now /\ r.client = handler[h].client
        /\ r.withdrawn = handler[h].withdrawn /\ r.kind = handler[h].kind
        /\ r.nonce = handler[h].nonce
    BY <2>2 DEF InOrder, HandlerRecord, HandlerType
  <2> HIDE DEF r
  <2> QED  BY <1>1, <2>2, <2>3, <2>4 DEF InOrder, HandlerRecord, PastClient
<1> HIDE DEF r, s
<1> QED  BY <1>1, <1>2, IdleInOrder, HandlerOnly

\* A usable client is not revoked, so it was not when the request came in.
LEMMA ReadClientStep ==
  ASSUME AuthInv, NEW h \in Handlers, ReadClient(h)
  PROVE  AuthInv'
<1> DEFINE pc == IF handler[h].kind \in SignedKinds THEN "nonce" ELSE "entitled"
           r == [handler[h] EXCEPT !.pc = pc, !.unchecked = handler[h].caps]
<1>1. /\ handler[h].pc = "client" /\ UNCHANGED <<clock, admin, sessions, used, request>>
      /\ \/ Usable(handler[h].client) /\ handler' = [handler EXCEPT ![h] = r]
         \/ handler' = [handler EXCEPT ![h] = Idle]
  BY DEF ReadClient, Return, SignedKinds
<1>2. Usable(handler[h].client) => InOrder(r)
  <2> SUFFICES ASSUME Usable(handler[h].client) PROVE InOrder(r)
    OBVIOUS
  <2>1. InOrder(handler[h])
    BY DEF AuthInv
  <2>2. handler[h].client \in Clients /\ handler[h].client \notin handler[h].withdrawn
    BY <1>1, <2>1 DEF InOrder, HandlerRecord, Usable
  <2>3. r \in HandlerType
    BY <2>1 DEF InOrder, HandlerRecord, HandlerType, Labels
  <2>4. /\ r.pc = pc /\ r.now = handler[h].now /\ r.client = handler[h].client
        /\ r.withdrawn = handler[h].withdrawn /\ r.kind = handler[h].kind
        /\ r.nonce = handler[h].nonce /\ r.unchecked = r.caps
    BY <2>1 DEF InOrder, HandlerRecord, HandlerType
  <2> HIDE DEF r
  <2> QED  BY <1>1, <2>1, <2>2, <2>3, <2>4 DEF InOrder, HandlerRecord, PastClient
<1> HIDE DEF r, pc
<1> QED  BY <1>1, <1>2, IdleInOrder, HandlerOnly

\* A request whose nonce is new goes on to its entitlements, none of them checked.
LEMMA ConsumeNonceStep ==
  ASSUME AuthInv, NEW h \in Handlers, ConsumeNonce(h)
  PROVE  AuthInv'
<1> DEFINE n == handler[h].nonce
           kept == Kept(handler[h].now)
           r == [handler[h] EXCEPT !.pc = "entitled"]
<1>1. /\ handler[h].pc = "nonce" /\ UNCHANGED <<clock, admin, sessions, request>>
      /\ used' = [m \in kept \cup {n} |-> IF m \in kept THEN used[m] ELSE handler[h].now]
      /\ \/ handler' = [handler EXCEPT ![h] = r]
         \/ handler' = [handler EXCEPT ![h] = Idle]
  BY DEF ConsumeNonce, Return, Goto
<1>2. InOrder(handler[h])
  BY DEF AuthInv
<1>3. /\ n \in DOMAIN request /\ request[n].iat <= handler[h].now + MaxSkew
      /\ handler[h].now \in Time
  BY <1>1, <1>2 DEF InOrder, HandlerRecord, HandlerType
<1>4. kept \subseteq DOMAIN used
  BY DEF Kept
<1>5. InOrder(r)
  <2>1. r \in HandlerType
    BY <1>2 DEF InOrder, HandlerRecord, HandlerType, Labels
  <2>2. /\ r.pc = "entitled" /\ r.now = handler[h].now /\ r.client = handler[h].client
        /\ r.withdrawn = handler[h].withdrawn /\ r.kind = handler[h].kind
        /\ r.nonce = n /\ r.unchecked = handler[h].unchecked /\ r.caps = handler[h].caps
    BY <1>2 DEF InOrder, HandlerRecord, HandlerType
  <2> HIDE DEF r
  <2> QED  BY <1>1, <1>2, <2>1, <2>2 DEF InOrder, HandlerRecord, PastClient
<1> HIDE DEF n, kept, r
<1>6. StoreTypes' /\ RowsAreTimely'
  <2>1. DOMAIN used' = kept \cup {n}
    BY <1>1
  <2>2. \A m \in kept \cup {n} : used'[m] = IF m \in kept THEN used[m] ELSE handler[h].now
    BY <1>1
  <2>3. /\ DOMAIN request \subseteq Nonces
        /\ \A m \in DOMAIN used : m \in Nonces /\ used[m] \in Time
        /\ \A m \in DOMAIN used : m \in DOMAIN request /\ request[m].iat <= used[m] + MaxSkew
    BY DEF AuthInv, StoreTypes, RowsAreTimely
  <2>4. /\ DOMAIN used' \subseteq Nonces /\ \A m \in DOMAIN used' : used'[m] \in Time
        /\ \A m \in DOMAIN used' : m \in DOMAIN request /\ request[m].iat <= used'[m] + MaxSkew
    BY <1>3, <1>4, <2>1, <2>2, <2>3
  <2> QED  BY <1>1, <2>4 DEF AuthInv, StoreTypes, RowsAreTimely, admin
<1> QED  BY <1>1, <1>5, <1>6, IdleInOrder, HandlerMoves

\* A capability that is there when it is checked was not missing all along.
LEMMA CheckEntitlementStep ==
  ASSUME AuthInv, NEW h \in Handlers, NEW cap \in Capabilities, CheckEntitlement(h, cap)
  PROVE  AuthInv'
<1> DEFINE r == [handler[h] EXCEPT !.unchecked = @ \ {cap}]
           x == [handler[h] EXCEPT !.pc = "expel"]
<1>1. /\ handler[h].pc = "entitled" /\ UNCHANGED <<clock, admin, sessions, used, request>>
      /\ \/ <<handler[h].client, cap>> \in entitled /\ handler' = [handler EXCEPT ![h] = r]
         \/ handler' = [handler EXCEPT ![h] = Idle]
         \/ handler' = [handler EXCEPT ![h] = x]
  BY DEF CheckEntitlement, Return, Goto
<1>2. InOrder(handler[h])
  BY DEF AuthInv
<1>3. <<handler[h].client, cap>> \in entitled => InOrder(r)
  <2> SUFFICES ASSUME <<handler[h].client, cap>> \in entitled PROVE InOrder(r)
    OBVIOUS
  <2>1. r \in HandlerType
    BY <1>2 DEF InOrder, HandlerRecord, HandlerType, Labels
  <2>2. /\ r.pc = "entitled" /\ r.now = handler[h].now /\ r.client = handler[h].client
        /\ r.withdrawn = handler[h].withdrawn /\ r.kind = handler[h].kind
        /\ r.nonce = handler[h].nonce /\ r.caps = handler[h].caps
        /\ r.unchecked = handler[h].unchecked \ {cap}
    BY <1>1, <1>2 DEF InOrder, HandlerRecord, HandlerType
  <2>3. <<handler[h].client, cap>> \notin handler[h].withdrawn
    BY <1>1, <1>2 DEF InOrder, HandlerRecord
  <2> HIDE DEF r
  <2> QED  BY <1>1, <1>2, <2>1, <2>2, <2>3 DEF InOrder, HandlerRecord, PastClient
<1>4. InOrder(x)
  <2>1. x \in HandlerType
    BY <1>2 DEF InOrder, HandlerRecord, HandlerType, Labels
  <2>2. /\ x.pc = "expel" /\ x.now = handler[h].now /\ x.client = handler[h].client
        /\ x.withdrawn = handler[h].withdrawn /\ x.kind = handler[h].kind
        /\ x.nonce = handler[h].nonce
    BY <1>2 DEF InOrder, HandlerRecord, HandlerType
  <2> HIDE DEF x
  <2> QED  BY <1>1, <1>2, <2>1, <2>2 DEF InOrder, HandlerRecord, PastClient
<1> HIDE DEF r, x
<1> QED  BY <1>1, <1>3, <1>4, IdleInOrder, HandlerOnly

\* With nothing unchecked, every capability has been seen.
LEMMA EntitledStep ==
  ASSUME AuthInv, NEW h \in Handlers, Entitled(h)
  PROVE  AuthInv'
<1> DEFINE pc == IF handler[h].kind = "create" THEN "replace" ELSE "answer"
           r == [handler[h] EXCEPT !.pc = pc]
<1>1. /\ handler[h].pc = "entitled" /\ handler[h].unchecked = {}
      /\ UNCHANGED <<clock, admin, sessions, used, request>>
      /\ handler' = [handler EXCEPT ![h] = r]
  BY DEF Entitled, Goto
<1>2. InOrder(handler[h])
  BY DEF AuthInv
<1>3. InOrder(r)
  <2>1. r \in HandlerType
    BY <1>2 DEF InOrder, HandlerRecord, HandlerType, Labels
  <2>2. /\ r.pc = pc /\ r.now = handler[h].now /\ r.client = handler[h].client
        /\ r.withdrawn = handler[h].withdrawn /\ r.kind = handler[h].kind
        /\ r.nonce = handler[h].nonce /\ r.caps = handler[h].caps
    BY <1>2 DEF InOrder, HandlerRecord, HandlerType
  <2> HIDE DEF r
  <2> QED  BY <1>1, <1>2, <2>1, <2>2 DEF InOrder, HandlerRecord, PastClient
<1> HIDE DEF r, pc
<1> QED  BY <1>1, <1>3, HandlerOnly

-----------------------------------------------------------------------------
(* The sessions table.                                                     *)

\* The table keeps its rows' types, and its revoked rows.
SessionsKept ==
  /\ DOMAIN sessions' \subseteq SessionIds
  /\ \A s \in DOMAIN sessions' : sessions'[s] \in Session
  /\ \A s \in DOMAIN sessions : sessions[s].revoked => sessions'[s] = sessions[s]

\* Revoking a row keeps it a row, and changes nothing where it is revoked.
LEMMA RevokedRow ==
  ASSUME NEW row \in Session
  PROVE  /\ [row EXCEPT !.revoked = TRUE] \in Session
         /\ row.revoked => [row EXCEPT !.revoked = TRUE] = row
BY DEF Session

\* Revoking all the rows that some test picks.
LEMMA RevokeWhere ==
  ASSUME AuthInv, NEW D, D \subseteq DOMAIN sessions,
         sessions' = [s \in DOMAIN sessions |->
           IF s \in D THEN [sessions[s] EXCEPT !.revoked = TRUE] ELSE sessions[s]]
  PROVE  SessionsKept
<1>1. DOMAIN sessions \subseteq SessionIds /\ \A s \in DOMAIN sessions : sessions[s] \in Session
  BY DEF AuthInv, StoreTypes
<1>2. DOMAIN sessions' = DOMAIN sessions
  OBVIOUS
<1>3. ASSUME NEW s \in DOMAIN sessions
      PROVE  sessions'[s] \in Session /\ (sessions[s].revoked => sessions'[s] = sessions[s])
  <2>1. sessions'[s] = IF s \in D THEN [sessions[s] EXCEPT !.revoked = TRUE] ELSE sessions[s]
    OBVIOUS
  <2>2. sessions[s] \in Session
    BY <1>1
  <2>3. CASE s \in D
    BY <2>1, <2>2, <2>3, RevokedRow
  <2>4. CASE s \notin D
    BY <2>1, <2>2, <2>4
  <2> QED  BY <2>3, <2>4
<1> QED  BY <1>1, <1>2, <1>3 DEF SessionsKept

\* Revoking one row.
LEMMA RevokeOne ==
  ASSUME AuthInv, NEW x, sessions' = [sessions EXCEPT ![x].revoked = TRUE]
  PROVE  SessionsKept
<1>1. sessions' = [s \in DOMAIN sessions |->
        IF s \in {x} \cap DOMAIN sessions THEN [sessions[s] EXCEPT !.revoked = TRUE] ELSE sessions[s]]
  OBVIOUS
<1> QED  BY <1>1, RevokeWhere

LEMMA SessionsUnchanged ==
  ASSUME AuthInv, sessions' = sessions
  PROVE  SessionsKept
BY DEF AuthInv, StoreTypes, SessionsKept

\* The last steps of a request, and what they do to the table.
LEMMA LastStepsKeepSessions ==
  ASSUME AuthInv, NEW h \in Handlers,
         Expel(h) \/ ReplaceOld(h) \/ RefreshSession(h) \/ Serve(h)
           \/ \E s \in SessionIds : CreateSession(h, s)
  PROVE  SessionsKept
<1>0. InOrder(handler[h]) /\ handler[h].now \in Time /\ handler[h].caps \subseteq Capabilities
  BY DEF AuthInv, InOrder, HandlerRecord, HandlerType
<1>t. handler[h].now + Lease \in 0..(Horizon + Lease)
  BY <1>0, AuthAssumption DEF Time
<1>1. CASE Expel(h)
  BY <1>1, RevokeOne DEF Expel
<1>2. CASE ReplaceOld(h)
  <2> DEFINE D == {s \in DOMAIN sessions :
                     sessions[s].client = handler[h].client /\ sessions[s].exp > handler[h].now}
  <2>1. sessions' = [s \in DOMAIN sessions |->
          IF s \in D THEN [sessions[s] EXCEPT !.revoked = TRUE] ELSE sessions[s]]
    BY <1>2 DEF ReplaceOld
  <2> HIDE DEF D
  <2>2. D \subseteq DOMAIN sessions
    BY DEF D
  <2> QED  BY <2>1, <2>2, RevokeWhere
<1>3. CASE RefreshSession(h)
  <2> DEFINE x == handler[h].session
  <2>1. CASE sessions[x].revoked
    BY <1>3, <2>1, SessionsUnchanged DEF RefreshSession
  <2>2. CASE ~sessions[x].revoked
    <3>1. sessions' = [sessions EXCEPT ![x].exp = handler[h].now + Lease]
      BY <1>3, <2>2 DEF RefreshSession
    <3>2. DOMAIN sessions \subseteq SessionIds /\ \A s \in DOMAIN sessions : sessions[s] \in Session
      BY DEF AuthInv, StoreTypes
    <3> HIDE DEF x
    <3>3. DOMAIN sessions' = DOMAIN sessions
      BY <3>1
    <3>4. \A s \in DOMAIN sessions : s # x => sessions'[s] = sessions[s]
      BY <3>1
    <3>5. x \in DOMAIN sessions => sessions'[x] \in Session
      BY <1>t, <3>1, <3>2 DEF Session
    <3> QED  BY <2>2, <3>2, <3>3, <3>4, <3>5 DEF SessionsKept
  <2> QED  BY <2>1, <2>2
<1>4. CASE Serve(h)
  <2>1. CASE sessions' = sessions
    BY <2>1, SessionsUnchanged
  <2>2. CASE sessions' = [sessions EXCEPT ![handler[h].session].revoked = TRUE]
    BY <2>2, RevokeOne
  <2> QED  BY <1>4, <2>1, <2>2 DEF Serve
<1>5. ASSUME NEW s \in SessionIds, CreateSession(h, s) PROVE SessionsKept
  <2> DEFINE row == [client |-> handler[h].client, caps |-> handler[h].caps,
                     exp |-> handler[h].now + Lease, revoked |-> FALSE]
  <2>1. handler[h].client \in Clients
    BY <1>0, <1>5 DEF InOrder, HandlerRecord, CreateSession
  <2>2. row \in Session
    BY <1>0, <1>t, <2>1 DEF Session
  <2>3. sessions' = WithRow(sessions, s, row)
    BY <1>5 DEF CreateSession
  <2> HIDE DEF row
  <2>4. DOMAIN sessions' = DOMAIN sessions \cup {s}
    BY <2>3 DEF WithRow
  <2>5. \A x \in DOMAIN sessions \cup {s} :
          sessions'[x] = IF x \in DOMAIN sessions THEN sessions[x] ELSE row
    BY <2>3 DEF WithRow
  <2>6. DOMAIN sessions \subseteq SessionIds /\ \A x \in DOMAIN sessions : sessions[x] \in Session
    BY DEF AuthInv, StoreTypes
  <2> QED  BY <2>2, <2>4, <2>5, <2>6 DEF SessionsKept
<1> QED  BY <1>1, <1>2, <1>3, <1>4, <1>5

\* The last steps of a request leave it answered, or with what it was checked for.
LEMMA LastSteps ==
  ASSUME AuthInv, NEW h \in Handlers,
         Expel(h) \/ ReplaceOld(h) \/ RefreshSession(h) \/ Serve(h)
           \/ \E s \in SessionIds : CreateSession(h, s)
  PROVE  AuthInv'
<1> DEFINE r == [handler[h] EXCEPT !.pc = "answer"]
<1>1. /\ UNCHANGED <<clock, admin, used, request>>
      /\ \/ handler' = [handler EXCEPT ![h] = Idle]
         \/ handler[h].pc = "replace" /\ handler' = [handler EXCEPT ![h] = r]
  BY DEF Expel, ReplaceOld, RefreshSession, Serve, CreateSession, Return, Goto
<1>2. StoreTypes' /\ RowsAreTimely'
  BY <1>1, LastStepsKeepSessions DEF SessionsKept, AuthInv, StoreTypes, RowsAreTimely, admin
<1>3. handler[h].pc = "replace" => InOrder(r)
  <2>1. InOrder(handler[h])
    BY DEF AuthInv
  <2>2. r \in HandlerType
    BY <2>1 DEF InOrder, HandlerRecord, HandlerType, Labels
  <2>3. /\ r.pc = "answer" /\ r.now = handler[h].now /\ r.client = handler[h].client
        /\ r.withdrawn = handler[h].withdrawn /\ r.kind = handler[h].kind
        /\ r.nonce = handler[h].nonce /\ r.caps = handler[h].caps
    BY <2>1 DEF InOrder, HandlerRecord, HandlerType
  <2> HIDE DEF r
  <2> QED  BY <2>1, <2>2, <2>3 DEF InOrder, HandlerRecord, PastClient
<1> HIDE DEF r
<1> QED  BY <1>1, <1>2, <1>3, IdleInOrder, HandlerMoves

-----------------------------------------------------------------------------
(* Arrivals.                                                               *)

\* What was missing when a request came in, as the request remembers it.
LEMMA WithdrawnFacts ==
  ASSUME AuthInv
  PROVE  /\ Withdrawn \in SUBSET ((Clients \X Capabilities) \cup Clients)
         /\ \A c \in Clients : c \in Withdrawn => client[c].revoked
         /\ \A c \in Clients, cap \in Capabilities :
              <<c, cap>> \in Withdrawn => <<c, cap>> \notin entitled
BY AuthAssumption DEF Withdrawn

\* A request that has just come in has been checked for nothing.
LEMMA ArriveStep ==
  ASSUME AuthInv, Onward, UNCHANGED <<clock, admin>>, StoreTypes', RowsAreTimely',
         NEW h \in Handlers, NEW req, NEW n \in Nonces \cup {None}, Arrive(h, req, n),
         req.kind \in Kinds, req.session \in SessionIds \cup {None}, req.client \in Clients,
         req.caps \in SUBSET Capabilities,
         req.kind \in SignedKinds => n \in DOMAIN request' /\ request'[n].iat <= clock + MaxSkew
  PROVE  AuthInv'
<1> DEFINE pc == IF req.kind = "create" THEN "client" ELSE "session"
           r == [Idle EXCEPT !.pc = pc, !.kind = req.kind, !.now = clock, !.nonce = n,
                             !.session = req.session, !.client = req.client, !.caps = req.caps,
                             !.withdrawn = Withdrawn]
<1>1. handler' = [handler EXCEPT ![h] = r]
  BY DEF Arrive
<1>2. Idle \in HandlerType /\ clock \in Time /\ clock <= clock
  BY IdleInOrder, AuthAssumption DEF InOrder, HandlerRecord, AuthInv, StoreTypes, Time
<1>3. pc \in Labels /\ pc \notin PastClient
  BY DEF Labels, PastClient
<1>4. r \in HandlerType
  <2> HIDE DEF pc
  <2> QED  BY <1>2, <1>3, WithdrawnFacts DEF HandlerType
<1>5. /\ r.pc = pc /\ r.now = clock /\ r.client = req.client /\ r.withdrawn = Withdrawn
      /\ r.kind = req.kind /\ r.nonce = n
  <2> HIDE DEF pc
  <2> QED  BY <1>2 DEF HandlerType
<1> HIDE DEF r, pc
<1>6. HandlerRecord(r, clock', client', entitled', request')
  BY <1>2, <1>3, <1>4, <1>5, WithdrawnFacts DEF HandlerRecord, PastClient, admin
<1>7. entitled' \subseteq entitled
  BY DEF admin
<1> QED  BY <1>1, <1>6, <1>7, OneHandler

LEMMA ArrivalStep ==
  ASSUME AuthInv, NEW h \in Handlers, Arrival(h)
  PROVE  AuthInv'
<1>0. /\ clock \in Nat /\ MaxSkew \in Nat
      /\ \A n \in DOMAIN request : n \in Nonces /\ request[n] \in Request
  BY AuthAssumption DEF AuthInv, StoreTypes, Time
<1>1. ASSUME NEW n \in Nonces, Deliver(h, n) PROVE AuthInv'
  <2>1. /\ UNCHANGED <<clock, admin, sessions, used, request>> /\ n \in DOMAIN request
        /\ request[n].iat <= clock + MaxSkew /\ Arrive(h, request[n], n)
    BY <1>1 DEF Deliver, Arrive, WithinWindow
  <2>2. Onward /\ StoreTypes' /\ RowsAreTimely'
    BY <1>0, <2>1 DEF Onward, AuthInv, StoreTypes, RowsAreTimely, admin
  <2> DEFINE req == request[n]
  <2>3. /\ req.kind \in Kinds /\ req.session \in SessionIds \cup {None} /\ req.client \in Clients
        /\ req.caps \in SUBSET Capabilities /\ request'[n].iat <= clock + MaxSkew
        /\ n \in DOMAIN request' /\ Arrive(h, req, n)
    BY <1>0, <2>1 DEF Request, Kinds
  <2> HIDE DEF req
  <2> QED  BY <2>1, <2>2, <2>3, ArriveStep
<1>2. ASSUME NEW n \in Nonces, NEW req \in Signable, Send(h, n, req) PROVE AuthInv'
  <2>1. /\ UNCHANGED <<clock, admin, sessions, used>> /\ n \notin DOMAIN request
        /\ request' = WithRow(request, n, req) /\ req.iat <= clock + MaxSkew /\ Arrive(h, req, n)
    BY <1>2 DEF Send, Arrive, WithinWindow
  <2>2. req \in Request
    BY DEF Signable
  <2>3. DOMAIN request' = DOMAIN request \cup {n}
    BY <2>1 DEF WithRow
  <2>4. \A m \in DOMAIN request \cup {n} : request'[m] = IF m \in DOMAIN request THEN request[m] ELSE req
    BY <2>1 DEF WithRow
  <2>5. StoreTypes'
    BY <1>0, <2>1, <2>2, <2>3, <2>4 DEF AuthInv, StoreTypes, admin
  <2>6. Onward /\ RowsAreTimely'
    BY <1>0, <2>1, <2>3, <2>4 DEF Onward, AuthInv, RowsAreTimely, admin
  <2>7. n \in DOMAIN request' /\ request'[n].iat <= clock + MaxSkew
    BY <2>1, <2>3, <2>4
  <2>8. /\ req.kind \in Kinds /\ req.session \in SessionIds \cup {None} /\ req.client \in Clients
        /\ req.caps \in SUBSET Capabilities
    BY <2>2 DEF Request, Kinds
  <2> QED  BY <2>1, <2>5, <2>6, <2>7, <2>8, ArriveStep
<1>3. ASSUME NEW s \in SessionIds, NEW kind \in {"use", "close"}, Bearer(h, kind, s) PROVE AuthInv'
  <2> DEFINE req == [kind |-> kind, session |-> s, client |-> sessions[s].client, caps |-> {}]
  <2>1. /\ UNCHANGED <<clock, admin, sessions, used, request>> /\ s \in DOMAIN sessions
        /\ Arrive(h, req, None)
    BY <1>3 DEF Bearer, Arrive
  <2>2. Onward /\ StoreTypes' /\ RowsAreTimely'
    BY <1>0, <2>1 DEF Onward, AuthInv, StoreTypes, RowsAreTimely, admin
  <2>3. sessions[s].client \in Clients
    BY <2>1 DEF AuthInv, StoreTypes, Session
  <2>4. /\ req.kind \in Kinds /\ req.session \in SessionIds \cup {None} /\ req.client \in Clients
        /\ req.caps \in SUBSET Capabilities /\ req.kind \notin SignedKinds
    BY <2>3 DEF Kinds, SignedKinds
  <2> HIDE DEF req
  <2> QED  BY <2>1, <2>2, <2>4, ArriveStep
<1> QED  BY <1>1, <1>2, <1>3 DEF Arrival

-----------------------------------------------------------------------------
(* The world.                                                              *)

\* A right that is given back is no longer missing to any request in progress.
LEMMA GrantStep ==
  ASSUME AuthInv, NEW c \in Clients, NEW cap \in Capabilities, GrantEntitlement(c, cap)
  PROVE  AuthInv'
<1> DEFINE r(h) == [handler[h] EXCEPT !.withdrawn = @ \ {<<c, cap>>}]
<1>1. /\ UNCHANGED <<clock, client, revoking, sessions, used, request>>
      /\ entitled' = entitled \cup {<<c, cap>>} /\ handler' = [h \in Handlers |-> r(h)]
  BY DEF GrantEntitlement
<1>2. ASSUME NEW h \in Handlers PROVE r(h) \in HandlerType /\ InOrder(handler[h])'
  <2>1. InOrder(handler[h])
    BY DEF AuthInv
  <2>2. r(h) \in HandlerType
    BY <2>1 DEF InOrder, HandlerRecord, HandlerType
  <2>3. /\ r(h).pc = handler[h].pc /\ r(h).now = handler[h].now /\ r(h).client = handler[h].client
        /\ r(h).kind = handler[h].kind /\ r(h).nonce = handler[h].nonce
        /\ r(h).caps = handler[h].caps /\ r(h).unchecked = handler[h].unchecked
        /\ r(h).withdrawn = handler[h].withdrawn \ {<<c, cap>>}
    BY <2>1 DEF InOrder, HandlerRecord, HandlerType
  <2>4. handler'[h] = r(h)
    BY <1>1
  <2> HIDE DEF r
  <2>5. HandlerRecord(r(h), clock', client', entitled', request')
    BY <1>1, <2>1, <2>2, <2>3 DEF InOrder, HandlerRecord
  <2> QED  BY <2>2, <2>4, <2>5 DEF InOrder
<1>3. StoreTypes' /\ RowsAreTimely'
  BY <1>1 DEF AuthInv, StoreTypes, RowsAreTimely
<1> QED  BY <1>1, <1>2, <1>3 DEF AuthInv

\* The registration and the admin's commands keep the sessions' rows.
LEMMA WorldKeepsSessions ==
  ASSUME AuthInv, World
  PROVE  SessionsKept
<1>1. ASSUME NEW c, sessions' = [s \in DOMAIN sessions |->
               IF sessions[s].client = c THEN [sessions[s] EXCEPT !.revoked = TRUE] ELSE sessions[s]]
      PROVE  SessionsKept
  <2> DEFINE D == {s \in DOMAIN sessions : sessions[s].client = c}
  <2>1. sessions' = [s \in DOMAIN sessions |->
          IF s \in D THEN [sessions[s] EXCEPT !.revoked = TRUE] ELSE sessions[s]]
    BY <1>1
  <2> HIDE DEF D
  <2>2. D \subseteq DOMAIN sessions
    BY DEF D
  <2> QED  BY <2>1, <2>2, RevokeWhere
<1>2. ASSUME NEW c \in Clients, RevokeClientSessions(c) \/ \E v \in Versions : CompleteRegistration(c, v)
      PROVE  SessionsKept
  BY <1>1, <1>2 DEF RevokeClientSessions, CompleteRegistration
<1>3. CASE sessions' = sessions
  BY <1>3, SessionsUnchanged
<1> QED  BY <1>2, <1>3 DEF World, Tick, Register, Approve, RevokeClient, GrantEntitlement, RevokeEntitlement

\* Time goes on, clients come and are approved or revoked, and rights are withdrawn:
\* none of it undoes a revocation.
LEMMA WorldStep ==
  ASSUME AuthInv, World
  PROVE  AuthInv'
<1>0. /\ clock \in Nat /\ Horizon \in Nat /\ clock \in Time
      /\ client \in [Clients -> Client] /\ revoking \subseteq Clients
      /\ entitled \subseteq Clients \X Capabilities
  BY AuthAssumption DEF AuthInv, StoreTypes, Time
<1>1. CASE /\ clock' \in Time /\ clock <= clock' /\ UNCHANGED <<used, request, handler>>
           /\ client' \in [Clients -> Client] /\ revoking' \subseteq Clients /\ entitled' \subseteq entitled
           /\ \A c \in Clients : client[c].revoked => client'[c].revoked
  <2>1. StoreTypes' /\ RowsAreTimely'
    BY <1>0, <1>1, WorldKeepsSessions DEF SessionsKept, AuthInv, StoreTypes, RowsAreTimely
  <2>2. Onward
    BY <1>1, AuthAssumption DEF Onward, Time
  <2> QED  BY <1>1, <2>1, <2>2, NoHandler
<1>2. CASE Tick
  BY <1>0, <1>1, <1>2 DEF Tick, Time, admin
<1>3. ASSUME NEW c \in Clients, Register(c) \/ Approve(c) \/ RevokeClient(c) PROVE AuthInv'
  <2>1. UNCHANGED <<clock, entitled, used, request, handler>> /\ revoking' \subseteq Clients
    BY <1>0, <1>3 DEF Register, Approve, RevokeClient
  <2>2. /\ client' \in [Clients -> Client]
        /\ \A d \in Clients : client[d].revoked => client'[d].revoked
    <3>1. client[c] \in Client
      BY <1>0
    <3>2. PICK row : /\ client' = [client EXCEPT ![c] = row] /\ row \in Client
                     /\ client[c].revoked => row.revoked
      <4>1. CASE Register(c)
        <5> DEFINE row == [client[c] EXCEPT !.registered = TRUE]
        <5>1. row \in Client /\ (client[c].revoked => row.revoked)
          BY <3>1 DEF Client
        <5>2. client' = [client EXCEPT ![c] = row]
          BY <4>1 DEF Register
        <5> HIDE DEF row
        <5> QED  BY <5>1, <5>2
      <4>2. CASE Approve(c)
        <5> DEFINE row == [client[c] EXCEPT !.approved = TRUE]
        <5>1. row \in Client /\ (client[c].revoked => row.revoked)
          BY <3>1 DEF Client
        <5>2. client' = [client EXCEPT ![c] = row]
          BY <4>2 DEF Approve
        <5> HIDE DEF row
        <5> QED  BY <5>1, <5>2
      <4>3. CASE RevokeClient(c)
        <5> DEFINE row == [client[c] EXCEPT !.revoked = TRUE]
        <5>1. row \in Client /\ (client[c].revoked => row.revoked)
          BY <3>1 DEF Client
        <5>2. client' = [client EXCEPT ![c] = row]
          BY <4>3 DEF RevokeClient
        <5> HIDE DEF row
        <5> QED  BY <5>1, <5>2
      <4> QED  BY <1>3, <4>1, <4>2, <4>3
    <3> QED  BY <1>0, <3>2
  <2> QED  BY <1>0, <1>1, <2>1, <2>2
<1>4. ASSUME NEW c \in Clients, RevokeClientSessions(c) PROVE AuthInv'
  BY <1>0, <1>1, <1>4 DEF RevokeClientSessions
<1>5. ASSUME NEW c \in Clients, NEW v \in Versions, CompleteRegistration(c, v) PROVE AuthInv'
  BY <1>0, <1>1, <1>5 DEF CompleteRegistration, Client
<1>6. ASSUME NEW c \in Clients, NEW cap \in Capabilities, GrantEntitlement(c, cap) PROVE AuthInv'
  BY <1>6, GrantStep
<1>7. ASSUME NEW c \in Clients, NEW cap \in Capabilities, RevokeEntitlement(c, cap) PROVE AuthInv'
  BY <1>0, <1>1, <1>7 DEF RevokeEntitlement
<1> QED  BY <1>2, <1>3, <1>4, <1>5, <1>6, <1>7 DEF World

-----------------------------------------------------------------------------
(* The invariant, and what follows from it.                                *)

LEMMA AuthInvInit ==
  ASSUME Init
  PROVE  AuthInv
<1>1. 0 \in Time
  BY AuthAssumption DEF Time
<1>2. sessions = <<>> /\ used = <<>> /\ request = <<>> => StoreTypes /\ RowsAreTimely
  BY <1>1 DEF Init, StoreTypes, RowsAreTimely, Client
<1>3. Idle \in HandlerType /\ InOrder(Idle)
  BY <1>1 DEF Init, InOrder, HandlerRecord, HandlerType, Idle, Labels, Kinds, PastClient
<1> QED  BY <1>2, <1>3 DEF Init, AuthInv

LEMMA AuthInvStep ==
  ASSUME AuthInv, [Next]_vars
  PROVE  AuthInv'
<1>1. CASE World
  BY <1>1, WorldStep
<1>2. ASSUME NEW h \in Handlers, Arrival(h) PROVE AuthInv'
  BY <1>2, ArrivalStep
<1>3. ASSUME NEW h \in Handlers, Handle(h) PROVE AuthInv'
  BY <1>3, ReadSessionStep, ReadClientStep, ConsumeNonceStep, CheckEntitlementStep,
     EntitledStep, LastSteps DEF Handle
<1>4. CASE UNCHANGED vars
  BY <1>4, AuthAssumption, NoHandler
     DEF vars, admin, Onward, AuthInv, StoreTypes, RowsAreTimely, Time
<1> QED  BY <1>1, <1>2, <1>3, <1>4 DEF Next

\* A step keeps the sessions table, its revoked rows above all.
LEMMA SessionsKeptStep ==
  ASSUME AuthInv, [Next]_vars
  PROVE  SessionsKept
<1>1. CASE World
  BY <1>1, WorldKeepsSessions
<1>2. ASSUME NEW h \in Handlers, Arrival(h) PROVE SessionsKept
  <2>1. sessions' = sessions
    BY <1>2 DEF Arrival, Deliver, Send, Bearer, Arrive
  <2> QED  BY <2>1, SessionsUnchanged
<1>3. ASSUME NEW h \in Handlers, Handle(h) PROVE SessionsKept
  <2>1. CASE sessions' = sessions
    BY <2>1, SessionsUnchanged
  <2>2. CASE Expel(h) \/ ReplaceOld(h) \/ RefreshSession(h) \/ Serve(h)
               \/ \E s \in SessionIds : CreateSession(h, s)
    BY <2>2, LastStepsKeepSessions
  <2> QED  BY <1>3, <2>1, <2>2
           DEF Handle, ReadSession, ReadClient, ConsumeNonce, CheckEntitlement, Entitled
<1>4. CASE UNCHANGED vars
  BY <1>4, SessionsUnchanged DEF vars
<1> QED  BY <1>1, <1>2, <1>3, <1>4 DEF Next

\* Whoever's clock prunes the nonces, the retention is longer than the window.
LEMMA PruningStep ==
  ASSUME AuthInv, [Next]_vars, NEW n \in DOMAIN used \ DOMAIN used'
  PROVE  ~WithinWindow(request[n].iat, clock)
<1>1. used' # used
  OBVIOUS
<1>2. PICK h \in Handlers : ConsumeNonce(h)
  BY <1>1 DEF Next, vars, World, Arrival, Handle, Tick, Register, Approve, RevokeClient,
     RevokeClientSessions, CompleteRegistration, GrantEntitlement, RevokeEntitlement,
     Deliver, Send, Bearer, Arrive, ReadSession, ReadClient, CheckEntitlement, Entitled,
     Expel, ReplaceOld, CreateSession, RefreshSession, Serve
<1>3. used[n] < handler[h].now - Retention
  <2>1. n \notin Kept(handler[h].now)
    BY <1>2 DEF ConsumeNonce
  <2>2. used[n] \in Time /\ handler[h].now \in Time
    BY DEF AuthInv, StoreTypes, InOrder, HandlerRecord, HandlerType
  <2> QED  BY <2>1, <2>2, AuthAssumption DEF Kept, Time
<1>4. /\ handler[h].now <= clock /\ request[n].iat <= used[n] + MaxSkew
      /\ {clock, handler[h].now, used[n], request[n].iat} \subseteq Time
  BY DEF AuthInv, StoreTypes, RowsAreTimely, InOrder, HandlerRecord, HandlerType, Request
<1> QED  BY <1>3, <1>4, AuthAssumption DEF WithinWindow, Time

-----------------------------------------------------------------------------
\* The store and the handlers keep their types.
THEOREM AuthTypeCorrect == Spec => []TypeOK
<1>1. Init => AuthInv
  BY AuthInvInit
<1>2. AuthInv /\ [Next]_vars => AuthInv'
  BY AuthInvStep
<1>3. AuthInv => TypeOK
  BY DEF AuthInv, StoreTypes, HandlerType, TypeOK
<1> QED  BY <1>1, <1>2, <1>3, PTL DEF Spec

\* What has been taken from a client is final, also for the requests on their way: its
\* revoked sessions stay as they are, rights that were missing when a request came in
\* never let it through, and no nonce is forgotten while it could be used again.
THEOREM WithdrawalsAreFinal == Spec => WithdrawalIsFinal
<1>1. Init => AuthInv
  BY AuthInvInit
<1>2. AuthInv /\ [Next]_vars => AuthInv'
  BY AuthInvStep
<1>3. AuthInv => NoServiceOnWithdrawnRights
  BY DEF AuthInv, InOrder, HandlerRecord, HandlerType, PastClient, NoServiceOnWithdrawnRights
<1>4. AuthInv /\ [Next]_vars =>
        [\A s \in DOMAIN sessions : sessions[s].revoked => sessions'[s] = sessions[s]]_vars
  BY SessionsKeptStep DEF SessionsKept
<1>5. AuthInv /\ [Next]_vars =>
        [\A n \in DOMAIN used \ DOMAIN used' : ~WithinWindow(request[n].iat, clock)]_vars
  BY PruningStep
<1> QED  BY <1>1, <1>2, <1>3, <1>4, <1>5, PTL
         DEF Spec, WithdrawalIsFinal, RevokedSessionsAreFrozen, PrunedNoncesAreTooOld

-----------------------------------------------------------------------------
(* Grants, receipts and transfers.                                            *)

CallType == [pc : CallLabels, kind : CallKinds, now : Second, login : Logins \cup {Nothing},
             id : Asks \cup Jtis \cup {Nothing}, hash : Hashes \cup {Nothing}, exp : Until]

\* A call's clock is not ahead, and what the call still needs it has.
CallRecord(c) ==
  /\ c \in CallType /\ c.now <= second
  /\ c.pc \in {"prepare", "register", "chunk"} => c.login \in Logins
  /\ c.pc = "register" => c.hash \in Hashes
  /\ c.pc = "spend" => c.id \in Asks \cup Jtis
  /\ c.pc = "spend" /\ c.kind = "issue" => c.login \in Logins /\ c.hash \in Hashes
  /\ c.pc = "spend" /\ c.kind = "consume" => c.id \in DOMAIN grants

\* A row of used_nonces outlives every receipt its jti was spent for; so a jti that
\* can be spent again has no receipt that is still good.
RowsOutliveReceipts ==
  \A r \in receipts : r.exp > second => /\ r.jti \in DOMAIN spent
                                        /\ r.exp <= spent[r.jti] + GrantTtl

UsableIsUnique ==
  \A r, q \in receipts : r.jti = q.jti /\ r.exp > second /\ q.exp > second => r = q

GrantsInv ==
  /\ GrantsTypeOK
  /\ \A k \in Calls : CallRecord(call[k])
  /\ IsFiniteSet(receipts) /\ RowsOutliveReceipts /\ UsableIsUnique
  /\ IsFiniteSet(DOMAIN transfers) /\ TransfersWithinCapacity

-----------------------------------------------------------------------------
\* The earlier of two times is one of them, and neither is before it.
LEMMA EarlierFacts ==
  ASSUME NEW a \in Int, NEW b \in Int
  PROVE  /\ Earlier(a, b) \in {a, b}
         /\ Earlier(a, b) <= a /\ Earlier(a, b) <= b
BY DEF Earlier

\* A lifetime cut to a lease stays within the model's times.
LEMMA EarlierInUntil ==
  ASSUME NEW a \in Until, NEW b \in Nat
  PROVE  Earlier(a, b) \in Until
BY GrantAssumption DEF Earlier, Until

\* An idle call is in order, and so is every call when it comes back.
LEMMA NoCallRecord == ASSUME GrantsInv PROVE CallRecord(NoCall)
BY GrantAssumption DEF GrantsInv, GrantsTypeOK, CallRecord, CallType, NoCall, CallLabels, CallKinds,
   Second, Until

\* The calls that a step leaves alone stay in order while the clock does not go back
\* and no grant is unsigned.
LEMMA CallsStay ==
  ASSUME GrantsInv, second' \in Nat, second <= second', DOMAIN grants \subseteq DOMAIN grants',
         NEW c, CallRecord(c)
  PROVE  CallRecord(c)'
<1>1. c.now \in Nat /\ second \in Nat /\ c.now <= second
  BY GrantAssumption DEF GrantsInv, GrantsTypeOK, CallRecord, CallType, Second
<1>2. c.now <= second'
  BY <1>1
<1> QED  BY <1>2 DEF CallRecord, CallType

\* A call that ends leaves every call in order.
LEMMA AnswerKeepsCalls ==
  ASSUME GrantsInv, NEW k \in Calls, Answer(k), second' = second,
         DOMAIN grants \subseteq DOMAIN grants'
  PROVE  /\ call' \in [Calls -> CallType]
         /\ \A m \in Calls : CallRecord(call[m])'
<1>1. CallRecord(NoCall) /\ second \in Nat
  BY NoCallRecord, GrantAssumption DEF GrantsInv, GrantsTypeOK, Second
<1>2. call \in [Calls -> CallType] /\ NoCall \in CallType
  BY <1>1 DEF GrantsInv, GrantsTypeOK, CallType, CallRecord
<1>3. call' = [call EXCEPT ![k] = NoCall]
  BY DEF Answer
<1>4. ASSUME NEW m \in Calls PROVE CallRecord(call[m])'
  <2>1. CallRecord(call'[m])
    BY <1>1, <1>2, <1>3 DEF GrantsInv
  <2> DEFINE c == call'[m]
  <2> HIDE DEF c
  <2>2. CallRecord(c)
    BY <2>1 DEF c
  <2> QED  BY <1>1, <2>1 DEF CallRecord, CallType
<1> QED  BY <1>2, <1>3, <1>4

-----------------------------------------------------------------------------
(* Spending.                                                               *)

\* Pruning by a clock that is not ahead never drops the row of a receipt that is
\* still good: KeptFor is no shorter than GrantTtl.
LEMMA PruningIsSafe ==
  ASSUME GrantsInv, NEW now \in Second, now <= second, NEW r \in receipts, r.exp > second
  PROVE  r.jti \in Unpruned(now) /\ r.exp <= spent[r.jti] + GrantTtl
<1>1. r.jti \in DOMAIN spent /\ r.exp <= spent[r.jti] + GrantTtl
  BY DEF GrantsInv, RowsOutliveReceipts
<1>2. /\ spent[r.jti] \in Int /\ r.exp \in Int /\ second \in Int /\ now \in Int
      /\ GrantTtl \in Int /\ KeptFor \in Int /\ GrantTtl <= KeptFor
  BY <1>1, GrantAssumption DEF GrantsInv, GrantsTypeOK, Second, Until
<1>3. spent[r.jti] >= now - KeptFor
  BY <1>1, <1>2
<1> QED  BY <1>1, <1>3 DEF Unpruned

\* What a spent nonce does to the table.
LEMMA SpendFacts ==
  ASSUME GrantsInv, NEW k \in Calls, NEW n \in Asks \cup Jtis, Spend(k, n)
  PROVE  /\ DOMAIN spent' \subseteq Asks \cup Jtis
         /\ \A m \in DOMAIN spent' : spent'[m] \in Second
         /\ \A m \in Unpruned(call[k].now) : m \in DOMAIN spent' /\ spent'[m] = spent[m]
         /\ n \in DOMAIN spent'
         /\ Fresh(k, n) => spent'[n] = call[k].now
<1> DEFINE kept == Unpruned(call[k].now)
<1>1. spent' = [m \in kept \cup {n} |-> IF m \in kept THEN spent[m] ELSE call[k].now]
  BY DEF Spend
<1>2. kept \subseteq DOMAIN spent /\ call[k].now \in Second
  BY DEF Unpruned, GrantsInv, GrantsTypeOK
<1>3. DOMAIN spent \subseteq Asks \cup Jtis /\ \A m \in DOMAIN spent : spent[m] \in Second
  BY DEF GrantsInv, GrantsTypeOK
<1> HIDE DEF kept
<1>4. DOMAIN spent' = kept \cup {n}
  BY <1>1
<1>5. \A m \in kept \cup {n} : spent'[m] = IF m \in kept THEN spent[m] ELSE call[k].now
  BY <1>1
<1>6. n \notin kept => spent'[n] = call[k].now
  BY <1>5
<1> QED  BY <1>2, <1>3, <1>4, <1>5, <1>6 DEF kept, Fresh

\* Spending a nonce leaves the good receipts their rows.
LEMMA SpendKeepsRows ==
  ASSUME GrantsInv, NEW k \in Calls, NEW n \in Asks \cup Jtis, Spend(k, n),
         NEW r \in receipts, r.exp > second
  PROVE  r.jti \in DOMAIN spent' /\ r.exp <= spent'[r.jti] + GrantTtl
<1>1. call[k].now \in Second /\ call[k].now <= second
  BY DEF GrantsInv, CallRecord, CallType
<1>2. r.jti \in Unpruned(call[k].now) /\ r.exp <= spent[r.jti] + GrantTtl
  BY <1>1, PruningIsSafe
<1> QED  BY <1>2, SpendFacts

-----------------------------------------------------------------------------
(* The steps.                                                              *)

\* A grant is signed for a nonce that was spent; nothing signed before changes.
LEMMA IssueStep ==
  ASSUME GrantsInv, NEW k \in Calls, NEW j \in Jtis, IssueGrant(k, j)
  PROVE  GrantsInv'
<1> DEFINE c == call[k]
           exp == Earlier(c.exp, c.now + GrantTtl)
           g == [login |-> c.login, hash |-> c.hash, iat |-> c.now, exp |-> exp]
<1>1. /\ c \in CallType /\ c.now \in Second /\ c.exp \in Until /\ c.id \in Asks \cup Jtis
      /\ c.login \in Logins /\ c.hash \in Hashes
  BY DEF GrantsInv, CallRecord, CallType, IssueGrant
<1>2. g \in Grant
  <2>1. c.now + GrantTtl \in Nat
    BY <1>1, GrantAssumption DEF Second
  <2>2. exp \in Until
    BY <1>1, <2>1, EarlierInUntil
  <2> QED  BY <1>1, <2>2 DEF Grant
<1>3. /\ grants' = grants \/ (j \notin DOMAIN grants /\ grants' = WithRow(grants, j, g))
      /\ Spend(k, c.id) /\ Answer(k)
      /\ UNCHANGED <<second, login, content, receipts, transfers>>
  BY DEF IssueGrant
<1> HIDE DEF g, exp
<1>4. DOMAIN grants \subseteq DOMAIN grants' /\ DOMAIN grants' \subseteq Jtis
      /\ \A i \in DOMAIN grants' : grants'[i] \in Grant
  <2>1. DOMAIN grants \subseteq Jtis /\ \A i \in DOMAIN grants : grants[i] \in Grant
    BY DEF GrantsInv, GrantsTypeOK
  <2>2. CASE grants' = WithRow(grants, j, g)
    <3>1. DOMAIN grants' = DOMAIN grants \cup {j}
      BY <2>2 DEF WithRow
    <3>2. \A i \in DOMAIN grants' : grants'[i] = IF i \in DOMAIN grants THEN grants[i] ELSE g
      BY <2>2 DEF WithRow
    <3> QED  BY <1>2, <2>1, <3>1, <3>2
  <2> QED  BY <1>3, <2>1, <2>2
<1>5. /\ call' \in [Calls -> CallType] /\ \A m \in Calls : CallRecord(call[m])'
  BY <1>3, <1>4, AnswerKeepsCalls
<1>6. /\ DOMAIN spent' \subseteq Asks \cup Jtis
      /\ \A m \in DOMAIN spent' : spent'[m] \in Second
  BY <1>1, <1>3, SpendFacts
<1>7. GrantsTypeOK'
  BY <1>3, <1>4, <1>5, <1>6 DEF GrantsInv, GrantsTypeOK, CallType
<1>8. RowsOutliveReceipts'
  BY <1>1, <1>3, SpendKeepsRows DEF RowsOutliveReceipts
<1> QED  BY <1>3, <1>5, <1>7, <1>8 DEF GrantsInv, UsableIsUnique, TransfersWithinCapacity

\* A receipt is signed for a jti that was spent here, so none signed for it before is
\* still good.
LEMMA ConsumeStep ==
  ASSUME GrantsInv, NEW k \in Calls, ConsumeGrant(k)
  PROVE  GrantsInv'
<1> DEFINE c == call[k]
           exp == Earlier(grants[c.id].exp, c.now + GrantTtl)
           new == [no |-> Cardinality(receipts), jti |-> c.id, exp |-> exp]
<1>1. /\ c.now \in Second /\ c.now <= second /\ c.id \in DOMAIN grants /\ c.id \in Jtis
      /\ grants[c.id].exp \in Until
  BY DEF GrantsInv, GrantsTypeOK, CallRecord, CallType, ConsumeGrant, Grant
<1>2. c.now + GrantTtl \in Nat /\ exp \in Until /\ exp <= c.now + GrantTtl
  <2>1. c.now + GrantTtl \in Nat /\ grants[c.id].exp \in Int
    BY <1>1, GrantAssumption DEF Second, Until
  <2>2. exp \in Until
    BY <1>1, <2>1, EarlierInUntil
  <2>3. exp <= c.now + GrantTtl
    BY <2>1, EarlierFacts
  <2> QED  BY <2>1, <2>2, <2>3
<1>3. /\ receipts' = IF Fresh(k, c.id) THEN receipts \cup {new} ELSE receipts
      /\ Spend(k, c.id) /\ Answer(k)
      /\ UNCHANGED <<second, login, content, grants, transfers>>
  BY DEF ConsumeGrant
<1>4. new \in [no : Nat, jti : Jtis, exp : Until] /\ new.jti = c.id /\ new.exp = exp
  BY <1>1, <1>2, FS_CardinalityType DEF GrantsInv
<1> HIDE DEF new, exp
<1>5. call' \in [Calls -> CallType] /\ \A m \in Calls : CallRecord(call[m])'
  BY <1>3, AnswerKeepsCalls
<1>6. /\ DOMAIN spent' \subseteq Asks \cup Jtis
      /\ \A m \in DOMAIN spent' : spent'[m] \in Second
      /\ Fresh(k, c.id) => c.id \in DOMAIN spent' /\ spent'[c.id] = c.now
  BY <1>1, <1>3, SpendFacts
<1>7. receipts' \subseteq [no : Nat, jti : Jtis, exp : Until] /\ IsFiniteSet(receipts')
  BY <1>3, <1>4, FS_AddElement DEF GrantsInv, GrantsTypeOK
<1>8. GrantsTypeOK'
  BY <1>3, <1>5, <1>6, <1>7 DEF GrantsInv, GrantsTypeOK, CallType
<1>9. RowsOutliveReceipts'
  <2> SUFFICES ASSUME NEW r \in receipts', r.exp > second
               PROVE  r.jti \in DOMAIN spent' /\ r.exp <= spent'[r.jti] + GrantTtl
    BY <1>3 DEF RowsOutliveReceipts
  <2>1. CASE r \in receipts
    BY <1>1, <1>3, <2>1, SpendKeepsRows
  <2>2. CASE r \notin receipts
    BY <1>2, <1>3, <1>4, <1>6, <2>2
  <2> QED  BY <2>1, <2>2
<1>10. UsableIsUnique'
  <2>1. ASSUME Fresh(k, c.id), NEW r \in receipts, r.jti = c.id, r.exp > second PROVE FALSE
    BY <1>1, <2>1, PruningIsSafe DEF Fresh
  <2>2. \A r, q \in receipts : r.jti = q.jti /\ r.exp > second /\ q.exp > second => r = q
    BY DEF GrantsInv, UsableIsUnique
  <2>3. \A r, q \in receipts' : r.jti = q.jti /\ r.exp > second /\ q.exp > second => r = q
    BY <1>3, <1>4, <2>1, <2>2
  <2> QED  BY <1>3, <2>3 DEF UsableIsUnique
<1> QED  BY <1>3, <1>5, <1>7, <1>8, <1>9, <1>10 DEF GrantsInv, TransfersWithinCapacity

\* What is kept of the transfers is no more than there was.
LEMMA RetainedFacts ==
  ASSUME GrantsInv, NEW now
  PROVE  /\ DOMAIN Retained(now) \subseteq DOMAIN transfers
         /\ \A t \in DOMAIN Retained(now) : Retained(now)[t] = transfers[t]
         /\ IsFiniteSet(DOMAIN Retained(now))
         /\ Cardinality(DOMAIN Retained(now)) <= Cardinality(DOMAIN transfers)
         /\ Cardinality(DOMAIN Retained(now)) \in Nat /\ Cardinality(DOMAIN transfers) \in Nat
<1>1. /\ DOMAIN Retained(now) \subseteq DOMAIN transfers
      /\ \A t \in DOMAIN Retained(now) : Retained(now)[t] = transfers[t]
  BY DEF Retained, Live
<1>2. IsFiniteSet(DOMAIN transfers)
  BY DEF GrantsInv
<1> QED  BY <1>1, <1>2, FS_Subset, FS_CardinalityType

\* The last count is made under the lock the insertion is made under.
LEMMA RegisterStep ==
  ASSUME GrantsInv, NEW k \in Calls, NEW t \in Transfers, RegisterTransfer(k, t)
  PROVE  GrantsInv'
<1> DEFINE c == call[k]
           kept == Retained(c.now)
           exp == Earlier(c.exp, c.now + TransferTtl)
           row == [login |-> c.login, hash |-> c.hash, exp |-> exp]
<1>1. /\ c.now \in Second /\ c.exp \in Until /\ c.login \in Logins /\ c.hash \in Hashes
      /\ t \notin DOMAIN transfers
  BY DEF GrantsInv, CallRecord, CallType, RegisterTransfer
<1>2. row \in [login : Logins, hash : Hashes, exp : Until]
  <2>1. c.now + TransferTtl \in Nat
    BY <1>1, GrantAssumption DEF Second
  <2>2. exp \in Until
    BY <1>1, <2>1, EarlierInUntil
  <2> QED  BY <1>1, <2>2
<1>3. /\ \/ transfers' = kept
         \/ Cardinality(DOMAIN kept) < MaxTransfers /\ transfers' = WithRow(kept, t, row)
      /\ Answer(k)
      /\ UNCHANGED <<second, login, content, spent, grants, receipts>>
  <2>1. Cardinality(DOMAIN kept) \in Nat /\ MaxTransfers \in Nat
    BY RetainedFacts, GrantAssumption
  <2>2. ~(Cardinality(DOMAIN kept) >= MaxTransfers) => Cardinality(DOMAIN kept) < MaxTransfers
    BY <2>1
  <2> QED  BY <2>2 DEF RegisterTransfer
<1> HIDE DEF row, exp
<1>4. /\ DOMAIN kept \subseteq DOMAIN transfers /\ DOMAIN kept \subseteq Transfers
      /\ \A u \in DOMAIN kept : kept[u] \in [login : Logins, hash : Hashes, exp : Until]
      /\ IsFiniteSet(DOMAIN kept) /\ Cardinality(DOMAIN kept) \in Nat
      /\ Cardinality(DOMAIN kept) <= MaxTransfers
  <2>1. /\ DOMAIN transfers \subseteq Transfers
        /\ \A u \in DOMAIN transfers : transfers[u] \in [login : Logins, hash : Hashes, exp : Until]
        /\ Cardinality(DOMAIN transfers) <= MaxTransfers /\ MaxTransfers \in Nat
    BY GrantAssumption DEF GrantsInv, GrantsTypeOK, TransfersWithinCapacity
  <2> QED  BY <2>1, RetainedFacts
<1> HIDE DEF kept
<1>5. /\ DOMAIN transfers' \subseteq Transfers
      /\ \A u \in DOMAIN transfers' : transfers'[u] \in [login : Logins, hash : Hashes, exp : Until]
      /\ IsFiniteSet(DOMAIN transfers') /\ Cardinality(DOMAIN transfers') <= MaxTransfers
  <2>1. CASE transfers' = kept
    BY <1>4, <2>1
  <2>2. CASE Cardinality(DOMAIN kept) < MaxTransfers /\ transfers' = WithRow(kept, t, row)
    <3>1. DOMAIN transfers' = DOMAIN kept \cup {t}
      BY <2>2 DEF WithRow
    <3>2. \A u \in DOMAIN transfers' : transfers'[u] = IF u \in DOMAIN kept THEN kept[u] ELSE row
      BY <2>2 DEF WithRow
    <3>3. /\ IsFiniteSet(DOMAIN transfers')
          /\ Cardinality(DOMAIN transfers') <= Cardinality(DOMAIN kept) + 1
      <4>1. t \notin DOMAIN kept
        BY <1>1, <1>4
      <4>2. /\ IsFiniteSet(DOMAIN kept \cup {t})
            /\ Cardinality(DOMAIN kept \cup {t}) = Cardinality(DOMAIN kept) + 1
        BY <1>4, <4>1, FS_AddElement
      <4> QED  BY <1>4, <3>1, <4>2
    <3>4. Cardinality(DOMAIN transfers') \in Nat /\ MaxTransfers \in Nat
      BY <3>3, FS_CardinalityType, GrantAssumption
    <3> QED  BY <1>2, <1>4, <2>2, <3>1, <3>2, <3>3, <3>4
  <2> QED  BY <1>3, <2>1, <2>2
<1>6. call' \in [Calls -> CallType] /\ \A m \in Calls : CallRecord(call[m])'
  BY <1>3, AnswerKeepsCalls
<1>7. GrantsTypeOK'
  BY <1>3, <1>5, <1>6 DEF GrantsInv, GrantsTypeOK, CallType
<1> QED  BY <1>3, <1>5, <1>6, <1>7
         DEF GrantsInv, RowsOutliveReceipts, UsableIsUnique, TransfersWithinCapacity

\* Serving a chunk drops expired transfers.
LEMMA ChunkStep ==
  ASSUME GrantsInv, NEW k \in Calls, ServeChunk(k)
  PROVE  GrantsInv'
<1>1. /\ transfers' = Retained(call[k].now) /\ Answer(k)
      /\ UNCHANGED <<second, login, content, spent, grants, receipts>>
  BY DEF ServeChunk
<1>2. /\ DOMAIN transfers' \subseteq DOMAIN transfers
      /\ \A u \in DOMAIN transfers' : transfers'[u] = transfers[u]
      /\ IsFiniteSet(DOMAIN transfers')
      /\ Cardinality(DOMAIN transfers') <= Cardinality(DOMAIN transfers)
      /\ Cardinality(DOMAIN transfers) \in Nat /\ Cardinality(DOMAIN transfers') \in Nat
  BY <1>1, RetainedFacts
<1>3. call' \in [Calls -> CallType] /\ \A m \in Calls : CallRecord(call[m])'
  BY <1>1, AnswerKeepsCalls
<1>4. GrantsTypeOK'
  BY <1>1, <1>2, <1>3 DEF GrantsInv, GrantsTypeOK, CallType
<1>5. TransfersWithinCapacity'
  BY <1>2, GrantAssumption DEF GrantsInv, TransfersWithinCapacity
<1> QED  BY <1>1, <1>2, <1>3, <1>4, <1>5 DEF GrantsInv, RowsOutliveReceipts, UsableIsUnique

\* A step that touches one call, and the sessions at most, keeps the invariant if it
\* leaves the call in order.
LEMMA OneCall ==
  ASSUME GrantsInv, NEW k \in Calls, NEW c, CallRecord(c), call' = [call EXCEPT ![k] = c],
         login' \in [Logins -> [exp : Until, standing : Standings]],
         UNCHANGED <<second, content, spent, grants, receipts, transfers>>
  PROVE  GrantsInv'
<1>1. call \in [Calls -> CallType] /\ c \in CallType
  BY DEF GrantsInv, GrantsTypeOK, CallType, CallRecord
<1>2. \A m \in Calls : CallRecord(call'[m])
  BY <1>1 DEF GrantsInv
<1>3. \A m \in Calls : CallRecord(call[m])'
  <2> SUFFICES ASSUME NEW m \in Calls PROVE CallRecord(call[m])'
    OBVIOUS
  <2> DEFINE d == call'[m]
  <2>1. CallRecord(d)
    BY <1>2
  <2> QED  BY <2>1 DEF CallRecord
<1>4. call' \in [Calls -> CallType]
  BY <1>1
<1>5. GrantsTypeOK'
  BY <1>4 DEF GrantsInv, GrantsTypeOK, CallType
<1> QED  BY <1>3, <1>5
         DEF GrantsInv, RowsOutliveReceipts, UsableIsUnique, TransfersWithinCapacity

\* A session that a call revokes on its way stays a session.
LEMMA ExpelledType ==
  ASSUME GrantsInv, NEW s \in Logins
  PROVE  Expelled(s) \in [Logins -> [exp : Until, standing : Standings]]
BY DEF GrantsInv, GrantsTypeOK, Expelled, Standings

\* A call is admitted with its session, or turned away.
LEMMA AdmitStep ==
  ASSUME GrantsInv, NEW k \in Calls, NEW kind \in {"issue", "prepare", "chunk"}, NEW s \in Logins,
         NEW id, kind = "issue" => id \in Asks, kind # "issue" => id = Nothing,
         Admit(k, kind, s, id)
  PROVE  GrantsInv'
<1> DEFINE c == [NoCall EXCEPT !.pc = IF kind = "issue" THEN "spend" ELSE kind, !.kind = kind,
                               !.now = second, !.login = s, !.id = id,
                               !.exp = IF kind = "chunk" THEN 0 ELSE login[s].exp,
                               !.hash = IF kind = "issue" THEN content ELSE Nothing]
<1>1. /\ UNCHANGED <<second, content, spent, grants, receipts, transfers>>
      /\ \/ call' = [call EXCEPT ![k] = c] /\ login' = login
         \/ login' = Expelled(s) /\ call' = call
  BY DEF Admit
<1>2. /\ second \in Second /\ second <= second /\ content \in Hashes /\ 0 \in Until
      /\ login \in [Logins -> [exp : Until, standing : Standings]]
  BY GrantAssumption DEF GrantsInv, GrantsTypeOK, Second, Until
<1>3. CallRecord(c)
  <2>1. NoCall \in CallType
    BY NoCallRecord DEF CallRecord
  <2>2. /\ (IF kind = "issue" THEN "spend" ELSE kind) \in CallLabels /\ kind \in CallKinds
        /\ (IF kind = "chunk" THEN 0 ELSE login[s].exp) \in Until
        /\ (IF kind = "issue" THEN content ELSE Nothing) \in Hashes \cup {Nothing}
        /\ id \in Asks \cup Jtis \cup {Nothing}
    BY <1>2 DEF CallLabels, CallKinds
  <2> QED  BY <1>2, <2>1, <2>2 DEF CallRecord, CallType
<1> HIDE DEF c
<1>4. CASE call' = [call EXCEPT ![k] = c] /\ login' = login
  BY <1>1, <1>2, <1>3, <1>4, OneCall
<1>5. CASE login' = Expelled(s) /\ call' = call
  <2>1. call' = [call EXCEPT ![k] = call[k]] /\ CallRecord(call[k])
    BY <1>5 DEF GrantsInv, GrantsTypeOK
  <2> QED  BY <1>1, <1>5, <2>1, ExpelledType, OneCall
<1> QED  BY <1>1, <1>4, <1>5

\* A grant that is validated is one the service has signed.
LEMMA ValidateStep ==
  ASSUME GrantsInv, NEW k \in Calls, NEW kind \in {"consume", "release"}, NEW j \in Jtis,
         ValidateGrant(k, kind, j)
  PROVE  GrantsInv'
<1> DEFINE c == [NoCall EXCEPT !.pc = "spend", !.kind = kind, !.now = second, !.id = j]
<1>1. /\ UNCHANGED <<second, content, spent, grants, receipts, transfers>>
      /\ \/ kind = "consume" /\ call' = [call EXCEPT ![k] = c] /\ login' = login
         \/ login' = Expelled(grants[j].login) /\ call' = call
  BY DEF ValidateGrant
<1>2. /\ second \in Second /\ second <= second /\ 0 \in Until
      /\ j \in DOMAIN grants /\ grants[j].login \in Logins
      /\ login \in [Logins -> [exp : Until, standing : Standings]]
  BY GrantAssumption DEF GrantsInv, GrantsTypeOK, Second, Until, ValidateGrant, Signed, Grant
<1>3. kind = "consume" => CallRecord(c)
  <2>1. NoCall \in CallType
    BY NoCallRecord DEF CallRecord
  <2>2. "spend" \in CallLabels /\ (kind = "consume" => kind \in CallKinds)
    BY DEF CallLabels, CallKinds
  <2> QED  BY <1>2, <2>1, <2>2 DEF CallRecord, CallType
<1> HIDE DEF c
<1>4. CASE kind = "consume" /\ call' = [call EXCEPT ![k] = c] /\ login' = login
  BY <1>1, <1>2, <1>3, <1>4, OneCall
<1>5. CASE login' = Expelled(grants[j].login) /\ call' = call
  <2>1. call' = [call EXCEPT ![k] = call[k]] /\ CallRecord(call[k])
    BY <1>5 DEF GrantsInv, GrantsTypeOK
  <2> QED  BY <1>1, <1>2, <1>5, <2>1, ExpelledType, OneCall
<1> QED  BY <1>1, <1>4, <1>5

\* The second reading of the clock is no earlier than the first.
LEMMA HashStep ==
  ASSUME GrantsInv, NEW k \in Calls, HashForTransfer(k)
  PROVE  GrantsInv'
<1> DEFINE c == [call[k] EXCEPT !.pc = "register", !.now = second, !.hash = content]
<1>1. /\ UNCHANGED <<second, login, content, spent, grants, receipts, transfers>>
      /\ call' = [call EXCEPT ![k] = c] /\ call[k].pc = "prepare"
  BY DEF HashForTransfer
<1>2. /\ second \in Second /\ second <= second /\ content \in Hashes /\ CallRecord(call[k])
      /\ login \in [Logins -> [exp : Until, standing : Standings]]
  BY GrantAssumption DEF GrantsInv, GrantsTypeOK, Second
<1>3. CallRecord(c)
  BY <1>1, <1>2 DEF CallRecord, CallType, CallLabels
<1> HIDE DEF c
<1> QED  BY <1>1, <1>2, <1>3, OneCall

\* Time that passes makes receipts useless, and none good again.
LEMMA SecondStep ==
  ASSUME GrantsInv, NextSecond
  PROVE  GrantsInv'
<1>1. /\ second \in Nat /\ second' = second + 1 /\ second < LastSecond /\ LastSecond \in Nat
      /\ UNCHANGED <<login, content, spent, grants, receipts, transfers, call>>
  BY GrantAssumption DEF GrantsInv, GrantsTypeOK, Second, NextSecond
<1>2. \A r \in receipts : r.exp \in Int
  BY GrantAssumption DEF GrantsInv, GrantsTypeOK, Until
<1>3. \A m \in Calls : CallRecord(call[m])'
  <2> SUFFICES ASSUME NEW m \in Calls PROVE CallRecord(call[m])'
    OBVIOUS
  <2>1. CallRecord(call[m]) /\ call[m].now \in Int
    BY DEF GrantsInv, CallRecord, CallType, Second
  <2>2. call[m].now <= second'
    BY <1>1, <2>1 DEF CallRecord
  <2> QED  BY <1>1, <2>1, <2>2 DEF CallRecord
<1>4. GrantsTypeOK'
  BY <1>1 DEF GrantsInv, GrantsTypeOK, Second
<1>5. \A r \in receipts : r.exp > second' => r.exp > second
  BY <1>1, <1>2
<1>6. RowsOutliveReceipts' /\ UsableIsUnique'
  BY <1>1, <1>5 DEF GrantsInv, RowsOutliveReceipts, UsableIsUnique
<1> QED  BY <1>1, <1>3, <1>4, <1>6 DEF GrantsInv, TransfersWithinCapacity

\* What goes on around the calls touches the sessions and the file only.
LEMMA AroundStep ==
  ASSUME GrantsInv,
         \/ UNCHANGED grantVars
         \/ \E s \in Logins : LoginChanges(s)
         \/ \E h \in Hashes : PublishArtifact(h)
  PROVE  GrantsInv'
<1>1. /\ UNCHANGED <<second, spent, grants, receipts, transfers, call>>
      /\ content' \in Hashes /\ login' \in [Logins -> [exp : Until, standing : Standings]]
  BY DEF GrantsInv, GrantsTypeOK, grantVars, LoginChanges, PublishArtifact, Standings
<1>2. \A m \in Calls : CallRecord(call[m])'
  BY <1>1 DEF GrantsInv, CallRecord
<1> QED  BY <1>1, <1>2
         DEF GrantsInv, GrantsTypeOK, RowsOutliveReceipts, UsableIsUnique, TransfersWithinCapacity

LEMMA GrantsInvStep == GrantsInv /\ [GrantsNext]_grantVars => GrantsInv'
<1> SUFFICES ASSUME GrantsInv, [GrantsNext]_grantVars PROVE GrantsInv'
  OBVIOUS
<1>1. CASE \/ UNCHANGED grantVars
           \/ \E s \in Logins : LoginChanges(s)
           \/ \E h \in Hashes : PublishArtifact(h)
  BY <1>1, AroundStep
<1>2. CASE NextSecond
  BY <1>2, SecondStep
<1>3. ASSUME NEW k \in Calls, NEW s \in Logins, NEW n \in Asks, Admit(k, "issue", s, n)
      PROVE  GrantsInv'
  BY <1>3, AdmitStep
<1>4. ASSUME NEW k \in Calls, NEW s \in Logins, NEW kind \in {"prepare", "chunk"},
             Admit(k, kind, s, Nothing)
      PROVE  GrantsInv'
  BY <1>4, AdmitStep
<1>5. ASSUME NEW k \in Calls, NEW j \in Jtis, IssueGrant(k, j) PROVE GrantsInv'
  BY <1>5, IssueStep
<1>6. ASSUME NEW k \in Calls, NEW j \in Jtis, NEW kind \in {"consume", "release"},
             ValidateGrant(k, kind, j)
      PROVE  GrantsInv'
  BY <1>6, ValidateStep
<1>7. ASSUME NEW k \in Calls, ConsumeGrant(k) PROVE GrantsInv'
  BY <1>7, ConsumeStep
<1>8. ASSUME NEW k \in Calls, HashForTransfer(k) PROVE GrantsInv'
  BY <1>8, HashStep
<1>9. ASSUME NEW k \in Calls, NEW t \in Transfers, RegisterTransfer(k, t) PROVE GrantsInv'
  BY <1>9, RegisterStep
<1>10. ASSUME NEW k \in Calls, ServeChunk(k) PROVE GrantsInv'
  BY <1>10, ChunkStep
<1> QED  BY <1>1, <1>2, <1>3, <1>4, <1>5, <1>6, <1>7, <1>8, <1>9, <1>10 DEF GrantsNext

LEMMA GrantsInvInit == GrantsInit => GrantsInv
<1> SUFFICES ASSUME GrantsInit PROVE GrantsInv
  OBVIOUS
<1>1. /\ second = 0 /\ content \in Hashes /\ receipts = {}
      /\ login = [s \in Logins |-> [exp |-> LoginTtl, standing |-> "good"]]
      /\ spent = <<>> /\ grants = <<>> /\ transfers = <<>> /\ call = [k \in Calls |-> NoCall]
  BY DEF GrantsInit
<1>2. DOMAIN spent = {} /\ DOMAIN grants = {} /\ DOMAIN transfers = {}
  BY <1>1
<1>3. 0 \in Second /\ LoginTtl \in Until /\ 0 \in Until /\ 0 <= 0
  BY GrantAssumption DEF Second, Until
<1>4. NoCall \in CallType
  BY <1>3 DEF NoCall, CallType, CallLabels, CallKinds
<1>5. \A k \in Calls : CallRecord(call[k])
  BY <1>1, <1>3, <1>4 DEF CallRecord, NoCall
<1>6. GrantsTypeOK
  BY <1>1, <1>2, <1>3, <1>4 DEF GrantsTypeOK, CallType, Standings
<1>7. IsFiniteSet(receipts) /\ IsFiniteSet(DOMAIN transfers) /\ TransfersWithinCapacity
  BY <1>1, <1>2, FS_EmptySet, GrantAssumption DEF TransfersWithinCapacity
<1> QED  BY <1>1, <1>5, <1>6, <1>7 DEF GrantsInv, RowsOutliveReceipts, UsableIsUnique

-----------------------------------------------------------------------------
\* At most one of a grant's receipts is still good.
LEMMA UniqueIsCounted == GrantsInv => OneUsableReceiptPerGrant
<1> SUFFICES ASSUME GrantsInv, NEW j \in Jtis
             PROVE  Cardinality({r \in receipts : r.jti = j /\ r.exp > second}) <= 1
  BY DEF OneUsableReceiptPerGrant
<1> DEFINE usable == {r \in receipts : r.jti = j /\ r.exp > second}
<1>1. \A r, q \in usable : r = q
  BY DEF GrantsInv, UsableIsUnique
<1> HIDE DEF usable
<1>2. CASE usable = {}
  BY <1>2, FS_EmptySet DEF usable
<1>3. CASE usable # {}
  <2>1. PICK r \in usable : usable = {r}
    BY <1>1, <1>3
  <2>2. Cardinality({r}) = 1
    BY FS_Singleton
  <2> QED  BY <2>1, <2>2 DEF usable
<1> QED  BY <1>2, <1>3

\* Every reachable state is well typed: no grant outlives its session's lease, and no
\* call's clock runs past the service's.
THEOREM GrantsTypeCorrect == GrantsSpec => []GrantsTypeOK
<1>1. GrantsInv => GrantsTypeOK
  BY DEF GrantsInv
<1> QED  BY <1>1, GrantsInvInit, GrantsInvStep, PTL DEF GrantsSpec

\* However the calls that consume a grant overlap, whoever prunes the nonces they were
\* spent by, and however many hashes are computed at once: a grant has one receipt that
\* is good, and the registry holds no more transfers than it may.  It rests on nonces
\* being kept for no less than a grant lives.
THEOREM GrantsNotOverspent == GrantsSpec => []GrantsAreNotOverspent
<1>1. GrantsInv => GrantsAreNotOverspent
  BY UniqueIsCounted DEF GrantsInv, GrantsAreNotOverspent
<1> QED  BY <1>1, GrantsInvInit, GrantsInvStep, PTL DEF GrantsSpec
=============================================================================
