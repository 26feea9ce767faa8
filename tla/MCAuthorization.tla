-------------------------- MODULE MCAuthorization ---------------------------
(* Small instances, for TLC, of the authorization service's sessions, grants  *)
(* and registrations, the desktop's client and its identity store, and the    *)
(* delivery of an artifact from one to the other.  Each is modelled with what *)
(* it needs of the others; a behaviour exercises one of them, chosen at the   *)
(* start, while the others rest.                                              *)
EXTENDS AuthSessions, ExecutionGrants, AuthClient, DeviceIdentity, ArtifactDelivery, Registration, TLC

VARIABLE tried    \* the part of the system this behaviour exercises

authVars == <<tried, vars, grantVars, clientVars, identityVars, deliveryVars, registrationVars>>

AuthTypeOK ==
  /\ tried = "sessions" => TypeOK
  /\ tried = "grants" => GrantsTypeOK
  /\ tried = "client" => ClientTypeOK
  /\ tried = "identity" => IdentityTypeOK
  /\ tried = "delivery" => DeliveryTypeOK
  /\ tried = "registration" => RegistrationTypeOK

\* Keys of the service, under an id each; a client may be built with several of them, and
\* not with two of one id.
SigningKeys == {[id |-> "old", key |-> "k1"], [id |-> "next", key |-> "k2"], [id |-> "old", key |-> "k3"]}
KeyRings == {<<[id |-> "old", key |-> "k1"], [id |-> "next", key |-> "k2"]>>,
             <<[id |-> "old", key |-> "k1"], [id |-> "old", key |-> "k3"]>>}
ChunkCount == [c \in Contents |-> IF c = "long" THEN 2 ELSE 1]

\* Two applications on one device with its key, and one that claims to be the device.
DeviceOfRegistrant == [r \in Registrants |-> "dev"]
KeyOfRegistrant == [r \in Registrants |-> IF r = "other" THEN "k2" ELSE "k1"]

AuthInit ==
  /\ tried \in {"sessions", "grants", "client", "identity", "delivery", "registration"}
  /\ Init /\ GrantsInit /\ ClientInit /\ IdentityInit /\ DeliveryInit /\ RegistrationInit
  /\ tried # "grants" => content = CHOOSE h \in Hashes : TRUE
  /\ tried # "client" => skew = 0
  /\ tried # "identity" => tpm /\ hardware
  /\ tried # "delivery" => ring # {} /\ authority.key = "k1" /\ shelf = "long"

AuthNext ==
  \/ /\ tried = "sessions" /\ Next
     /\ UNCHANGED <<tried, grantVars, clientVars, identityVars, deliveryVars, registrationVars>>
  \/ /\ tried = "grants" /\ GrantsNext
     /\ UNCHANGED <<tried, vars, clientVars, identityVars, deliveryVars, registrationVars>>
  \/ /\ tried = "client" /\ ClientNext
     /\ UNCHANGED <<tried, vars, grantVars, identityVars, deliveryVars, registrationVars>>
  \/ /\ tried = "identity" /\ IdentityNext
     /\ UNCHANGED <<tried, vars, grantVars, clientVars, deliveryVars, registrationVars>>
  \/ /\ tried = "delivery" /\ DeliveryNext
     /\ UNCHANGED <<tried, vars, grantVars, clientVars, identityVars, registrationVars>>
  \/ /\ tried = "registration" /\ RegistrationNext
     /\ UNCHANGED <<tried, vars, grantVars, clientVars, identityVars, deliveryVars>>

AuthSpec == AuthInit /\ [][AuthNext]_authVars

\* Requests in progress, and the uuids given to sessions, transfers and requests, are
\* interchangeable; the parts share their names, so that they share the permutations.
Symmetry == Permutations(Handlers) \cup Permutations(SessionIds) \cup Permutations(Nonces)
=============================================================================
