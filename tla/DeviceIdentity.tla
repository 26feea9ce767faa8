--------------------------- MODULE DeviceIdentity ---------------------------
(* The device's identity in the secure store: a private key and its metadata   *)
(* under DPAPI, or metadata that names a key of the platform's crypto provider *)
(* (CNG).  Every command of the desktop opens it anew; two commands of a first *)
(* start, or two windows, may both find nothing and create.  A save is atomic, *)
(* a temporary file renamed; a crash may come between any two of them.         *)
EXTENDS Naturals, FiniteSets

CONSTANTS
  Openers,      \* commands that open the identity
  Ids,          \* keys and device ids to come; one number serves for both
  Missing

\* Missing is neither an id nor what a metadata file holds.
ASSUME IdentityAssumption ==
  Missing \notin Ids /\ \A i \in Ids, k \in Ids \cup {Missing} : Missing # [device |-> i, cng |-> k]

VARIABLES
  keyFile,      \* device-private-key.dpapi: the key
  metaFile,     \* device-identity-metadata.dpapi: device and, for CNG, its key
  cngKeys,      \* keys persisted by the provider
  made,         \* ids given out
  tpm,          \* whether the provider can be used
  hardware,     \* RDC_REQUIRE_HARDWARE_BACKED_KEYS
  opener,       \* the openers' progress and what they were given
  blank         \* for the properties: openers in whose time the store was once empty

identityVars == <<keyFile, metaFile, cngKeys, made, tpm, hardware, opener, blank>>
machine == <<tpm, hardware>>

Key  == Ids \cup {Missing}
Meta == [device : Ids, cng : Key]
Pcs  == {"idle", "meta", "create", "cngSave", "cngOpen", "cngCheck", "legacy", "legacyMeta",
         "saveKey", "saveMeta", "signer", "done"}
Closed == [pc |-> "idle", key |-> Missing, device |-> Missing, public |-> Missing,
           signer |-> Missing]

IdentityTypeOK ==
  /\ keyFile \in Key /\ metaFile \in Meta \cup {Missing}
  /\ cngKeys \subseteq Ids /\ made \subseteq Ids
  /\ tpm \in BOOLEAN /\ hardware \in BOOLEAN
  /\ opener \in [Openers -> [pc : Pcs, key : Key, device : Key, public : Key, signer : Key]]
  /\ blank \subseteq Openers

IdentityInit ==
  /\ keyFile = Missing /\ metaFile = Missing /\ cngKeys = {} /\ made = {}
  /\ tpm \in BOOLEAN /\ hardware \in BOOLEAN
  /\ opener = [o \in Openers |-> Closed]
  /\ blank = {}

At(o, pc)     == opener[o].pc = pc
Move(o, pc)   == opener' = [opener EXCEPT ![o].pc = pc]
Refuse(o)     == opener' = [opener EXCEPT ![o] = Closed]
Fetched       == metaFile # Missing
IsCng         == Fetched /\ metaFile.cng # Missing

-----------------------------------------------------------------------------
(* load_or_create_device_material_with.                                    *)

LoadKey(o) ==
  /\ At(o, "idle") \/ At(o, "done")
  /\ opener' = [opener EXCEPT ![o] = [Closed EXCEPT !.pc = "meta", !.key = keyFile]]
  /\ UNCHANGED <<keyFile, metaFile, cngKeys, made, machine>>

\* What the two files say decides how to go on; nothing at all means a first start.
LoadMeta(o) ==
  /\ At(o, "meta")
  /\ IF IsCng THEN IF opener[o].key # Missing THEN Refuse(o)
                   ELSE opener' = [opener EXCEPT ![o].pc = "cngOpen", ![o].public = metaFile.cng,
                                                 ![o].device = metaFile.device]
     ELSE IF opener[o].key = Missing /\ ~Fetched
          THEN IF tpm THEN Move(o, "create") ELSE IF hardware THEN Refuse(o) ELSE Move(o, "legacy")
          ELSE Move(o, "legacy")
  /\ UNCHANGED <<keyFile, metaFile, cngKeys, made, machine>>

\* create_cng_device_material: a key of its own name, then the metadata.
CreateCngKey(o, i) ==
  /\ At(o, "create") /\ i \in Ids \ made
  /\ cngKeys' = cngKeys \cup {i} /\ made' = made \cup {i}
  /\ opener' = [opener EXCEPT ![o].pc = "cngSave", ![o].key = i]
  /\ UNCHANGED <<keyFile, metaFile, machine>>

SaveCngMeta(o) ==
  LET i == opener[o].key IN
  /\ At(o, "cngSave")
  /\ \/ /\ metaFile' = [device |-> i, cng |-> i]
        /\ opener' = [opener EXCEPT ![o] = [pc |-> "done", key |-> i, device |-> i,
                                            public |-> i, signer |-> i]]
        /\ UNCHANGED cngKeys
     \/ /\ cngKeys' = cngKeys \ {i}
        /\ Refuse(o)
        /\ UNCHANGED metaFile
  /\ UNCHANGED <<keyFile, made, machine>>

\* existing_cng_device_material, with the metadata as LoadMeta read it.
OpenCngKey(o) ==
  /\ At(o, "cngOpen")
  /\ IF tpm /\ opener[o].public \in cngKeys
     THEN opener' = [opener EXCEPT ![o].pc = "cngCheck", ![o].signer = opener[o].public]
     ELSE Refuse(o)
  /\ UNCHANGED <<keyFile, metaFile, cngKeys, made, machine>>

CheckNoKeyFile(o) ==
  /\ At(o, "cngCheck")
  /\ IF keyFile # Missing THEN Refuse(o) ELSE Move(o, "done")
  /\ UNCHANGED <<keyFile, metaFile, cngKeys, made, machine>>

-----------------------------------------------------------------------------
(* legacy_device_material: ensure_device_identity_with reads both files     *)
(* again, and creates them when both are missing.                          *)

LegacyLoadKey(o) ==
  /\ At(o, "legacy")
  /\ opener' = [opener EXCEPT ![o].pc = "legacyMeta", ![o].key = keyFile]
  /\ UNCHANGED <<keyFile, metaFile, cngKeys, made, machine>>

LegacyLoadMeta_Rotates(o) ==
  /\ At(o, "legacyMeta")
  /\ IF Fetched /\ opener[o].key # Missing
     THEN opener' = [opener EXCEPT ![o].pc = "signer", ![o].device = metaFile.device,
                                   ![o].public = opener[o].key]
     ELSE Move(o, "saveKey")
  /\ UNCHANGED <<keyFile, metaFile, cngKeys, made, machine>>

\* Half a pair is corruption: it is refused, not replaced.
LegacyLoadMeta(o) ==
  LET key == opener[o].key IN
  /\ At(o, "legacyMeta")
  /\ CASE key = Missing /\ ~Fetched -> Move(o, "saveKey")
       [] key # Missing /\ Fetched /\ ~IsCng ->
            opener' = [opener EXCEPT ![o].pc = "signer", ![o].device = metaFile.device,
                                     ![o].public = key]
       [] OTHER -> Refuse(o)
  /\ UNCHANGED <<keyFile, metaFile, cngKeys, made, machine>>

SaveKey(o, i) ==
  /\ At(o, "saveKey") /\ i \in Ids \ made
  /\ made' = made \cup {i}
  /\ \/ keyFile' = i /\ opener' = [opener EXCEPT ![o].pc = "saveMeta", ![o].key = i]
     \/ UNCHANGED keyFile /\ Refuse(o)
  /\ UNCHANGED <<metaFile, cngKeys, machine>>

\* A save that fails takes the key file away again, whoever's it is by now.
SaveMeta(o) ==
  LET i == opener[o].key IN
  /\ At(o, "saveMeta")
  /\ \/ /\ metaFile' = [device |-> i, cng |-> Missing]
        /\ opener' = [opener EXCEPT ![o].pc = "signer", ![o].device = i, ![o].public = i]
        /\ UNCHANGED keyFile
     \/ /\ keyFile' = Missing
        /\ Refuse(o)
        /\ UNCHANGED metaFile
  /\ UNCHANGED <<cngKeys, made, machine>>

LoadSigner_Unchecked(o) ==
  /\ At(o, "signer")
  /\ IF keyFile = Missing \/ hardware THEN Refuse(o)
     ELSE opener' = [opener EXCEPT ![o].pc = "done", ![o].signer = keyFile]
  /\ UNCHANGED <<keyFile, metaFile, cngKeys, made, machine>>

\* load_signing_key_with, the policy, and whether the key is still the identity's.
LoadSigner(o) ==
  /\ At(o, "signer")
  /\ IF keyFile = Missing \/ hardware \/ keyFile # opener[o].public THEN Refuse(o)
     ELSE opener' = [opener EXCEPT ![o].pc = "done", ![o].signer = keyFile]
  /\ UNCHANGED <<keyFile, metaFile, cngKeys, made, machine>>

-----------------------------------------------------------------------------
\* The window's process dies; nothing is undone.
IdentityCrash(o) ==
  /\ opener[o] # Closed
  /\ Refuse(o)
  /\ UNCHANGED <<keyFile, metaFile, cngKeys, made, machine>>

IdentitySteps ==
  \E o \in Openers :
    \/ LoadKey(o) \/ LoadMeta(o) \/ SaveCngMeta(o) \/ OpenCngKey(o) \/ CheckNoKeyFile(o)
    \/ LegacyLoadKey(o) \/ LegacyLoadMeta(o) \/ SaveMeta(o) \/ LoadSigner(o)
    \/ \E i \in Ids : CreateCngKey(o, i) \/ SaveKey(o, i)
    \/ IdentityCrash(o)

NothingStored == keyFile = Missing /\ metaFile = Missing

IdentityNext ==
  /\ IdentitySteps
  /\ blank' = {o \in Openers : /\ opener'[o].pc \notin {"idle", "done"}
                               /\ o \in blank \/ NothingStored'}

IdentitySpec == IdentityInit /\ [][IdentityNext]_identityVars

-----------------------------------------------------------------------------
(* Properties.                                                             *)

\* However the openers interleave, an identity is never handed out with the key of
\* another: a request would be signed with a key that is not the one it names.
SignerMatchesIdentity ==
  \A o \in Openers : At(o, "done") => opener[o].signer = opener[o].public

\* Start-up does not rotate the device binding: only a command in whose time the store
\* was empty writes to it.  What is stored of an identity, a half left by a crash or a
\* failed save too, is kept by every command that comes later.
IdentityIsNotRotated ==
  [][keyFile' # keyFile \/ metaFile' # metaFile =>
       \A o \in Openers : opener'[o] # opener[o] => o \in blank]_identityVars

\* One identity for good, and only ever with its own key.
IdentityEndures == [](/\ SignerMatchesIdentity) /\ IdentityIsNotRotated
=============================================================================
