---------------------------- MODULE Registration ----------------------------
(***************************************************************************)
(* The registration of a client (register_client, complete_registration    *)
(* and the rows of store.rs they work on): an application asks for a       *)
(* challenge, proves with it that it holds the device's key, and keeps the *)
(* client id it was given.  Every call of the store takes the connection's *)
(* lock by itself, so that handlers interleave between the calls; an       *)
(* answer may be lost and the application tries again.                     *)
(***************************************************************************)
EXTENDS Naturals, FiniteSets

CONSTANTS
  Registrants,    \* running applications that register
  DeviceOf,       \* [registrant -> device id]
  KeyOf,          \* [registrant -> device key]
  ClientVersions, \* versions an application registers as
  MaxTries,       \* bound: attempts of each
  NoRow

DeviceIds == {DeviceOf[r] : r \in Registrants}
Row == [key : {KeyOf[r] : r \in Registrants}, version : ClientVersions, approved : BOOLEAN, revoked : BOOLEAN]
ChallengeRow == [of : Registrants \X Nat, version : ClientVersions, lapsed : BOOLEAN]

ASSUME RegistrationAssumption ==
  /\ MaxTries \in Nat /\ DOMAIN DeviceOf = Registrants /\ DOMAIN KeyOf = Registrants
  /\ NoRow \notin Row \cup ChallengeRow

VARIABLES rows,        \* clients: [device -> its row, or NoRow]
          challenges,  \* registration_challenges: [device -> row, or NoRow]
          register,    \* [registrant -> its attempt]
          saved,       \* [registrant -> the device whose client id it has saved, or NoRow]
          proved       \* history: challenges whose proof was verified and which were taken
registrationVars == <<rows, challenges, register, saved, proved>>

Challenge(r) == <<r, register[r].tries>>
Mine(r) == DeviceOf[r]

RegistrationTypeOK ==
  /\ rows \in [DeviceIds -> Row \cup {NoRow}]
  /\ challenges \in [DeviceIds -> ChallengeRow \cup {NoRow}]
  /\ \A r \in Registrants : register[r].tries \in 0..MaxTries
  /\ saved \in [Registrants -> DeviceIds \cup {NoRow}]

RegistrationInit ==
  /\ rows = [d \in DeviceIds |-> NoRow] /\ challenges = rows
  /\ register = [r \in Registrants |-> [at |-> "idle", tries |-> 0]]
  /\ saved = [r \in Registrants |-> NoRow]
  /\ proved = {}

Goes(r, at) == register' = [register EXCEPT ![r].at = at]

-----------------------------------------------------------------------------
(* register_client.                                                        *)

\* client_by_device: the row of this device must be of this key and not revoked.
AskToRegister(r, v) ==
  LET row == rows[Mine(r)] IN
  /\ register[r].at = "idle" /\ register[r].tries < MaxTries
  /\ register' = [register EXCEPT ![r] =
       [at      |-> IF row = NoRow THEN "create" ELSE IF row.revoked \/ row.key # KeyOf[r] THEN "idle" ELSE "challenge",
        tries   |-> register[r].tries + 1,
        version |-> v]]
  /\ UNCHANGED <<rows, challenges, saved, proved>>

\* create_pending_client: the device id is unique; who comes second gets an error.
CreatePendingClient(r) ==
  /\ register[r].at = "create"
  /\ IF rows[Mine(r)] # NoRow
     THEN Goes(r, "idle") /\ UNCHANGED rows
     ELSE /\ rows' = [rows EXCEPT ![Mine(r)] =
               [key |-> KeyOf[r], version |-> register[r].version, approved |-> FALSE, revoked |-> FALSE]]
          /\ Goes(r, "challenge")
  /\ UNCHANGED <<challenges, saved, proved>>

\* set_registration_challenge: a client has one, the latest.
SetChallenge(r) ==
  /\ register[r].at = "challenge"
  /\ challenges' = [challenges EXCEPT ![Mine(r)] = [of |-> Challenge(r), version |-> register[r].version, lapsed |-> FALSE]]
  /\ Goes(r, "complete")
  /\ UNCHANGED <<rows, saved, proved>>

ChallengeLapses(d) ==
  /\ challenges[d] # NoRow /\ ~challenges[d].lapsed
  /\ challenges' = [challenges EXCEPT ![d].lapsed = TRUE]
  /\ UNCHANGED <<rows, register, saved, proved>>

-----------------------------------------------------------------------------
(* complete_registration.                                                  *)

ChallengeStands(r) ==
  LET c == challenges[Mine(r)] IN c # NoRow /\ c.of = Challenge(r) /\ ~c.lapsed

\* registration_challenge reads the challenge, and the proof is verified; a bad one
\* leaves the challenge as it is.
VerifyProof_TakesFirst(r) ==
  /\ register[r].at = "complete" /\ ChallengeStands(r)
  /\ \E valid \in BOOLEAN :
       /\ Goes(r, IF valid THEN "take" ELSE "idle")
       /\ challenges' = IF valid THEN challenges ELSE [challenges EXCEPT ![Mine(r)] = NoRow]
  /\ UNCHANGED <<rows, saved, proved>>
VerifyProof(r) ==
  /\ register[r].at = "complete" /\ ChallengeStands(r)
  /\ \E valid \in BOOLEAN : Goes(r, IF valid /\ rows[Mine(r)].key = KeyOf[r] THEN "take" ELSE "idle")
  /\ UNCHANGED <<rows, challenges, saved, proved>>

\* take_registration_challenge: what was read may have been replaced, taken or have lapsed.
TakeChallenge(r) ==
  /\ register[r].at = "take" /\ ChallengeStands(r)
  /\ challenges' = [challenges EXCEPT ![Mine(r)] = NoRow]
  /\ register' = [register EXCEPT ![r].at = "update", ![r].version = challenges[Mine(r)].version]
  /\ proved' = proved \cup {<<Mine(r), challenges[Mine(r)].version>>}
  /\ UNCHANGED <<rows, saved>>

RefuseCompletion(r) ==
  /\ register[r].at \in {"complete", "take"} /\ ~ChallengeStands(r)
  /\ Goes(r, "idle")
  /\ UNCHANGED <<rows, challenges, saved, proved>>

\* update_client_registration changes no revoked row; what it says of that is not looked at.
UpdateClient(r) ==
  /\ register[r].at = "update"
  /\ rows' = [rows EXCEPT ![Mine(r)].version = IF rows[Mine(r)].revoked THEN @ ELSE register[r].version]
  /\ Goes(r, "answered")
  /\ UNCHANGED <<challenges, saved, proved>>

\* The application saves the client id, or the answer is lost and it knows nothing.
SaveRegistration(r) ==
  /\ register[r].at = "answered"
  /\ saved' = [saved EXCEPT ![r] = Mine(r)]
  /\ Goes(r, "idle")
  /\ UNCHANGED <<rows, challenges, proved>>

\* An answer of register_client or of complete_registration does not arrive.
LoseAnswer(r) ==
  /\ register[r].at \in {"complete", "answered"}
  /\ Goes(r, "idle")
  /\ UNCHANGED <<rows, challenges, saved, proved>>

\* rdc-auth-admin client approve and revoke.
ApproveClient(d) ==
  /\ rows[d] # NoRow
  /\ rows' = [rows EXCEPT ![d].approved = TRUE]
  /\ UNCHANGED <<challenges, register, saved, proved>>
RevokeClientRow(d) ==
  /\ rows[d] # NoRow
  /\ rows' = [rows EXCEPT ![d].revoked = TRUE]
  /\ UNCHANGED <<challenges, register, saved, proved>>

RegistrationNext ==
  \/ \E r \in Registrants :
       \/ \E v \in ClientVersions : AskToRegister(r, v)
       \/ CreatePendingClient(r) \/ SetChallenge(r) \/ VerifyProof(r) \/ TakeChallenge(r)
       \/ RefuseCompletion(r) \/ UpdateClient(r) \/ SaveRegistration(r) \/ LoseAnswer(r)
  \/ \E d \in DeviceIds : ChallengeLapses(d) \/ ApproveClient(d) \/ RevokeClientRow(d)

RegistrationSpec == RegistrationInit /\ [][RegistrationNext]_registrationVars

-----------------------------------------------------------------------------
(* Property.                                                               *)

\* However two registrations of a device interleave, fail or are repeated: the device has
\* one row, for the key it was first registered with, and whoever has saved a client id has
\* that key; the version of the row changes only to one that was asked for together with a
\* challenge that was proved, and not after the client has been revoked; and a challenge
\* goes only to a proof or to a later challenge, never to a bad proof, which "could deny
\* the real device's registration".
RegistrationIsProved ==
  /\ [](\A r \in Registrants : saved[r] # NoRow => rows[saved[r]] # NoRow /\ rows[saved[r]].key = KeyOf[r])
  /\ [][\A d \in DeviceIds :
          /\ rows[d] # NoRow => rows'[d] # NoRow /\ rows'[d].key = rows[d].key
          /\ rows[d] # NoRow /\ rows'[d].version # rows[d].version =>
               ~rows[d].revoked /\ <<d, rows'[d].version>> \in proved
          /\ challenges[d] # NoRow /\ challenges'[d] = NoRow =>
               /\ <<d, challenges[d].version>> \in proved'
               /\ \E r \in Registrants : Mine(r) = d /\ KeyOf[r] = rows[d].key /\ register'[r].at = "update"]_registrationVars
=============================================================================
