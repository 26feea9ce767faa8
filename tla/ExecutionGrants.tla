--------------------------- MODULE ExecutionGrants ---------------------------
(* Execution grants, authorization receipts and artifact transfers of the      *)
(* authorization service.  A grant is asked for with a signed request, handed  *)
(* to the guest's runner, and consumed there once for a receipt.  A call reads *)
(* its `now` when it arrives; between two of its store, file or lock accesses  *)
(* other calls, heartbeats, the admin tool and the clock go on.  The bearer    *)
(* check, which AuthSessions takes apart, is one step here.                    *)
EXTENDS Integers, FiniteSets, Tables

CONSTANTS
  Logins,               \* sessions, each of a client of its own
  Calls,                \* requests the service works on at the same time
  Asks,                 \* nonces of the requests for a grant
  Jtis,                 \* the ids of grants to come
  Transfers,            \* the ids of transfers to come
  Hashes,               \* contents of the artifact file
  Nothing,
  GrantTtl,             \* EXECUTION_GRANT_TTL_SECS
  GrantMaxAge,          \* REQUEST_MAX_AGE_SECS
  KeptFor,              \* NONCE_RETENTION_SECS
  TransferTtl,          \* ARTIFACT_TTL_SECS
  LoginTtl,             \* LEASE_MAX_SECS
  MaxTransfers,         \* max_active_transfers
  LastSecond            \* the last second of the model

ASSUME GrantAssumption ==
  /\ {GrantTtl, GrantMaxAge, KeptFor, TransferTtl, LoginTtl, LastSecond} \subseteq Nat
  /\ GrantTtl <= KeptFor
  /\ MaxTransfers \in Nat \ {0}

VARIABLES
  second,      \* the service's clock
  login,       \* the sessions table, with the client's and its rights' state
  content,     \* the hash of the artifact file
  spent,       \* the used_nonces table: nonces of requests, and consumed jtis
  grants,      \* the claims of every grant signed so far
  receipts,    \* the receipts signed so far, numbered
  transfers,   \* AppState.transfers
  call         \* the requests in progress

grantVars == <<second, login, content, spent, grants, receipts, transfers, call>>

Second == 0..LastSecond
Until  == 0..(LastSecond + LoginTtl)
Grant  == [login : Logins, hash : Hashes, iat : Second, exp : Until]
\* A right withdrawn, the client revoked, the session revoked: the later ones hide the
\* earlier ones from every check.
Standings == {"good", "unentitled", "unusable", "revoked"}
CallKinds  == {"issue", "consume", "prepare", "chunk"}
CallLabels == {"idle", "spend", "prepare", "register", "chunk"}

NoCall == [pc |-> "idle", kind |-> "chunk", now |-> 0, login |-> Nothing,
           id |-> Nothing, hash |-> Nothing, exp |-> 0]

GrantsTypeOK ==
  /\ second \in Second
  /\ login \in [Logins -> [exp : Until, standing : Standings]]
  /\ content \in Hashes
  /\ DOMAIN spent \subseteq Asks \cup Jtis /\ \A n \in DOMAIN spent : spent[n] \in Second
  /\ DOMAIN grants \subseteq Jtis /\ \A j \in DOMAIN grants : grants[j] \in Grant
  /\ receipts \subseteq [no : Nat, jti : Jtis, exp : Until]
  /\ DOMAIN transfers \subseteq Transfers
  /\ \A t \in DOMAIN transfers : transfers[t] \in [login : Logins, hash : Hashes, exp : Until]
  /\ call \in [Calls -> [pc : CallLabels, kind : CallKinds, now : Second,
                         login : Logins \cup {Nothing},
                         id : Asks \cup Jtis \cup {Nothing},
                         hash : Hashes \cup {Nothing}, exp : Until]]

\* The service has opened the sessions and knows no grant yet.
GrantsInit ==
  /\ second = 0
  /\ login = [s \in Logins |-> [exp |-> LoginTtl, standing |-> "good"]]
  /\ content \in Hashes
  /\ spent = <<>> /\ grants = <<>> /\ receipts = {} /\ transfers = <<>>
  /\ call = [k \in Calls |-> NoCall]

\* A signature of the service verifies on what the service has signed.
Signed(j) == j \in DOMAIN grants

Earlier(a, b) == IF a <= b THEN a ELSE b
Answer(k)  == call' = [call EXCEPT ![k] = NoCall]
Live(now)  == {t \in DOMAIN transfers : transfers[t].exp > now}
Retained(now) == [t \in Live(now) |-> transfers[t]]

-----------------------------------------------------------------------------
(* Around the calls.                                                       *)

NextSecond ==
  /\ second < LastSecond
  /\ second' = second + 1
  /\ UNCHANGED <<login, content, spent, grants, receipts, transfers, call>>

\* A close or a revocation, the admin's client revoke and entitlement revoke; each is
\* one statement on the store.  A lease that a heartbeat prolongs is a longer LoginTtl.
LoginChanges(s) ==
  /\ login[s].standing # "revoked"
  /\ \/ login[s].standing = "good" /\ login' = [login EXCEPT ![s].standing = "unentitled"]
     \/ \E new \in {"unusable", "revoked"} : login' = [login EXCEPT ![s].standing = new]
  /\ UNCHANGED <<second, content, spent, grants, receipts, transfers, call>>

\* publish_artifact, or publish-runner writing the file: the content is another.
PublishArtifact(h) ==
  /\ content # h /\ content' = h
  /\ UNCHANGED <<second, login, spent, grants, receipts, transfers, call>>

-----------------------------------------------------------------------------
(* Arrival: the bearer token of issue, prepare and chunk.                  *)

Known(s, now) == login[s].standing \notin {"unusable", "revoked"} /\ login[s].exp > now
Expelled(s)   == [login EXCEPT ![s].standing = "revoked"]

\* session_from_headers: a session whose right is gone is revoked on the way.  The
\* artifact's hash, which a request for a grant takes next, belongs to this step: no
\* other call can tell whether the file changed before it or after the session was read.
Admit(k, kind, s, id) ==
  /\ call[k].pc = "idle"
  /\ IF Known(s, second) /\ login[s].standing = "good"
     THEN /\ call' = [call EXCEPT ![k] =
               [NoCall EXCEPT !.pc = IF kind = "issue" THEN "spend" ELSE kind, !.kind = kind,
                              !.now = second, !.login = s, !.id = id,
                              !.exp = IF kind = "chunk" THEN 0 ELSE login[s].exp,
                              !.hash = IF kind = "issue" THEN content ELSE Nothing]]
          /\ UNCHANGED login
     ELSE /\ Known(s, second)
          /\ login' = Expelled(s)
          /\ UNCHANGED call
  /\ UNCHANGED <<second, content, spent, grants, receipts, transfers>>

-----------------------------------------------------------------------------
(* issue_execution_grant.                                                  *)

\* consume_nonce, for a request's nonce or for a grant's jti: rows too old by this
\* call's clock go, then the insert tells whether the nonce is new.
Unpruned(now) == {n \in DOMAIN spent : spent[n] >= now - KeptFor}
Spend(k, n) ==
  LET kept == Unpruned(call[k].now) IN
  spent' = [m \in kept \cup {n} |-> IF m \in kept THEN spent[m] ELSE call[k].now]
Fresh_RowCountIgnored(k, n) == TRUE
Fresh(k, n) == n \notin Unpruned(call[k].now)

\* The grant lives no longer than its session's lease as it was read on arrival.
IssueGrant(k, j) ==
  LET c == call[k]  exp == Earlier(c.exp, c.now + GrantTtl) IN
  /\ c.pc = "spend" /\ c.kind = "issue" /\ j \in Jtis \ DOMAIN grants
  /\ Spend(k, c.id)
  /\ grants' = IF Fresh(k, c.id) /\ exp > c.now
               THEN WithRow(grants, j, [login |-> c.login, hash |-> c.hash, iat |-> c.now,
                                        exp |-> exp])
               ELSE grants
  /\ Answer(k)
  /\ UNCHANGED <<second, login, content, receipts, transfers>>

-----------------------------------------------------------------------------
(* consume_execution_grant and release_execution_grant.                    *)

\* validate_execution_grant_for_artifact: the claims must be in force, the session and
\* its client usable, its rights unbroken (or the session is revoked), and the file
\* still what the grant names.  It only reads, each thing once, up to that revocation.
\* A release asks no more: it reads the file again, compares it with the grant and
\* answers with it, and spends nothing.
ValidateGrant(k, kind, j) ==
  LET g == grants[j] IN
  /\ call[k].pc = "idle" /\ Signed(j)
  /\ g.exp > second /\ g.iat >= second - GrantMaxAge /\ Known(g.login, second)
  /\ IF login[g.login].standing = "good"
     THEN /\ content = g.hash /\ kind = "consume"
          /\ call' = [call EXCEPT ![k] = [NoCall EXCEPT !.pc = "spend", !.kind = kind,
                       !.now = second, !.id = j]]
          /\ UNCHANGED login
     ELSE /\ login' = Expelled(g.login)
          /\ UNCHANGED call
  /\ UNCHANGED <<second, content, spent, grants, receipts, transfers>>

ConsumeGrant(k) ==
  LET c == call[k] IN
  /\ c.pc = "spend" /\ c.kind = "consume"
  /\ Spend(k, c.id)
  /\ receipts' = IF Fresh(k, c.id)
                 THEN receipts \cup {[no |-> Cardinality(receipts), jti |-> c.id,
                                      exp |-> Earlier(grants[c.id].exp, c.now + GrantTtl)]}
                 ELSE receipts
  /\ Answer(k)
  /\ UNCHANGED <<second, login, content, grants, transfers>>

-----------------------------------------------------------------------------
(* prepare_artifact and artifact_chunk.                                    *)

\* A second reading of the clock, and the hash, outside the lock on the transfers.
HashForTransfer(k) ==
  /\ call[k].pc = "prepare"
  /\ call' = [call EXCEPT ![k].pc = "register", ![k].now = second, ![k].hash = content]
  /\ UNCHANGED <<second, login, content, spent, grants, receipts, transfers>>

RegisterTransfer_CountedEarlier(k, t) ==
  /\ call[k].pc = "register" /\ t \notin DOMAIN transfers
  /\ transfers' = WithRow(Retained(call[k].now), t,
       [login |-> call[k].login, hash |-> call[k].hash,
        exp |-> Earlier(call[k].exp, call[k].now + TransferTtl)])
  /\ Answer(k)
  /\ UNCHANGED <<second, login, content, spent, grants, receipts>>

\* Under the lock: drop the expired ones, count again, insert or refuse.
RegisterTransfer(k, t) ==
  LET c == call[k]  kept == Retained(c.now) IN
  /\ c.pc = "register" /\ t \notin DOMAIN transfers
  /\ transfers' = IF Cardinality(DOMAIN kept) >= MaxTransfers THEN kept
                  ELSE WithRow(kept, t, [login |-> c.login, hash |-> c.hash,
                                         exp |-> Earlier(c.exp, c.now + TransferTtl)])
  /\ Answer(k)
  /\ UNCHANGED <<second, login, content, spent, grants, receipts>>

\* The chunk is read from the file as it is now and sealed with the transfer's key;
\* an unknown transfer, or one of another session, is refused.  Which one was asked
\* for changes nothing here.
ServeChunk(k) ==
  /\ call[k].pc = "chunk"
  /\ transfers' = Retained(call[k].now)
  /\ Answer(k)
  /\ UNCHANGED <<second, login, content, spent, grants, receipts>>

-----------------------------------------------------------------------------
GrantsNext ==
  \/ NextSecond
  \/ \E s \in Logins : LoginChanges(s)
  \/ \E h \in Hashes : PublishArtifact(h)
  \/ \E k \in Calls :
       \/ \E s \in Logins :
            \/ \E n \in Asks : Admit(k, "issue", s, n)
            \/ \E kind \in {"prepare", "chunk"} : Admit(k, kind, s, Nothing)
       \/ \E j \in Jtis : \/ IssueGrant(k, j)
                          \/ \E kind \in {"consume", "release"} : ValidateGrant(k, kind, j)
       \/ ConsumeGrant(k)
       \/ HashForTransfer(k) \/ (\E t \in Transfers : RegisterTransfer(k, t)) \/ ServeChunk(k)

GrantsSpec == GrantsInit /\ [][GrantsNext]_grantVars

-----------------------------------------------------------------------------
(* Properties.                                                             *)

\* A grant is good for one execution: however two calls of /consume overlap, and
\* although consume_nonce forgets old rows, no two receipts of it are usable.
OneUsableReceiptPerGrant ==
  \A j \in Jtis : Cardinality({r \in receipts : r.jti = j /\ r.exp > second}) <= 1

\* Concurrent hashing cannot overbook the registry of transfers.
TransfersWithinCapacity == Cardinality(DOMAIN transfers) <= MaxTransfers

\* What a grant and the registry allow is not exceeded.
GrantsAreNotOverspent == OneUsableReceiptPerGrant /\ TransfersWithinCapacity
=============================================================================
