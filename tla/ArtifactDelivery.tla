--------------------------- MODULE ArtifactDelivery ---------------------------
(***************************************************************************)
(* An artifact on its way from the authorization service to a file of the  *)
(* client (prepare_artifact, artifact_chunk, download_artifact_to): the    *)
(* manifest is signed, every chunk is sealed for one transfer and one      *)
(* index, and the digest decides.  Meanwhile the operator may replace the  *)
(* artifact or restart the service, with another signing key, and what     *)
(* lies between them may lose an answer or give one that was given before. *)
(***************************************************************************)
EXTENDS Integers, Sequences, FiniteSets

CONSTANTS
  Downloads,     \* calls of download_artifact_to; a transfer is named after its download
  Contents,      \* what the artifact's file may hold
  Length,        \* [content -> number of chunks]
  Authorities,   \* [id, key]: the service's signing keys, each under an id
  Rings,         \* key rings a build of the client may have: sequences of entries
  MaxChanges,    \* bound: replacements of the artifact and restarts of the service
  NoManifest
ASSUME DeliveryAssumption == Length \in [Contents -> Nat \ {0}] /\ MaxChanges \in Nat

VARIABLES ring,        \* trusted_keys: ids with their keys, or {} for a client that does not start
          authority,   \* the service's signing authority
          shelf,       \* content of the artifact's file
          changes,
          openTransfers,   \* AppState::transfers: [download -> manifest or NoManifest]
          sent,        \* chunks that were answered, as they were sealed
          stage,       \* where the download is
          manifest,    \* the manifest the client has verified
          part,        \* chunks in the temporary file, or NoPart
          delivered    \* the destination: its chunks, << >> while there is none
deliveryVars == <<ring, authority, shelf, changes, openTransfers, sent, stage, manifest, part, delivered>>

NoPart == <<"none">>
Piece(content, index) == <<content, index>>
Whole(content) == [i \in 1..Length[content] |-> Piece(content, i - 1)]
Manifests == [hash : Contents, count : Nat, signer : Authorities]

DeliveryTypeOK ==
  /\ authority \in Authorities /\ shelf \in Contents /\ changes \in 0..MaxChanges
  /\ \A d \in Downloads : openTransfers[d] = NoManifest \/ openTransfers[d] \in Manifests
  /\ \A d \in Downloads : manifest[d] = NoManifest \/ manifest[d] \in Manifests
  /\ stage \in [Downloads -> {"idle", "prepared", "fetching", "done", "failed", "crashed"}]

\* trusted_authorization_keys_from_env: entries are [id, key]; one that cannot be read,
\* or an id that comes twice, or no entry at all, and the client is not configured.
RingOf(entries) ==
  IF \/ entries = << >>
     \/ \E i \in DOMAIN entries : entries[i].key = "unreadable"
     \/ \E i, j \in DOMAIN entries : i # j /\ entries[i].id = entries[j].id
  THEN {} ELSE {entries[i] : i \in DOMAIN entries}

DeliveryInit ==
  /\ \E entries \in Rings : ring = RingOf(entries)
  /\ authority \in Authorities /\ shelf \in Contents
  /\ changes = 0
  /\ openTransfers = [d \in Downloads |-> NoManifest] /\ manifest = openTransfers
  /\ sent = {}
  /\ stage = [d \in Downloads |-> "idle"]
  /\ part = [d \in Downloads |-> NoPart]
  /\ delivered = << >>

-----------------------------------------------------------------------------
(* The service.                                                            *)

\* prepare_artifact: the file is hashed, the manifest registered and signed.
Prepared(d) ==
  [hash |-> shelf, count |-> Length[shelf], signer |-> authority]

\* Both ends make a new pair of keys for every transfer; what they share, with what the
\* manifest names, gives the key of the transfer.
ArtifactKey(d, m) == [shared |-> {<<"client", d>>, <<"service", d>>}, transfer |-> d, hash |-> m.hash]
ArtifactNonce(d, index) == [prefix |-> d, index |-> index]
ArtifactAad(d, index) == [transfer |-> d, index |-> index]
Sealed(d, m, index, piece) ==
  [index |-> index, key |-> ArtifactKey(d, m), nonce |-> ArtifactNonce(d, index), aad |-> ArtifactAad(d, index),
   piece |-> piece]

\* artifact_chunk reads the file as it is now, at the place the manifest says; a file
\* that has become shorter cannot be read there.
ChunkOf(d, index) ==
  IF openTransfers[d] = NoManifest \/ index >= openTransfers[d].count \/ index >= Length[shelf] THEN {}
  ELSE {Sealed(d, openTransfers[d], index, Piece(shelf, index))}

\* The operator replaces the file, or restarts the service: transfers are kept in memory.
ReplaceArtifact(content) ==
  /\ changes < MaxChanges /\ content # shelf
  /\ shelf' = content /\ changes' = changes + 1
  /\ UNCHANGED <<ring, authority, openTransfers, sent, stage, manifest, part, delivered>>

RestartService(next) ==
  /\ changes < MaxChanges
  /\ authority' = next /\ changes' = changes + 1
  /\ openTransfers' = [d \in Downloads |-> NoManifest]
  /\ UNCHANGED <<ring, shelf, sent, stage, manifest, part, delivered>>

\* A transfer is dropped when it has expired; whatever chunk is asked for, session_from_headers
\* may also have found the session revoked or over.
ExpireTransfer(d) ==
  /\ openTransfers[d] # NoManifest
  /\ openTransfers' = [openTransfers EXCEPT ![d] = NoManifest]
  /\ UNCHANGED <<ring, authority, shelf, changes, sent, stage, manifest, part, delivered>>

-----------------------------------------------------------------------------
(* The client.                                                             *)

\* The manifest must be signed by a key of the ring under the id it names, and have as
\* many chunks as its size makes.
Trusted(m) == m.signer \in ring
ManifestFits(m) == m.count # 0 /\ m.count = Length[m.hash]

\* An answer that is lost, or a manifest that is not trusted, ends the download.
Prepare(d) ==
  /\ ring # {} /\ stage[d] = "idle"
  /\ openTransfers' = [openTransfers EXCEPT ![d] = Prepared(d)]
  /\ \/ /\ Trusted(Prepared(d)) /\ ManifestFits(Prepared(d))
        /\ stage' = [stage EXCEPT ![d] = "prepared"]
        /\ manifest' = [manifest EXCEPT ![d] = Prepared(d)]
     \/ /\ stage' = [stage EXCEPT ![d] = "failed"]
        /\ UNCHANGED manifest
  /\ UNCHANGED <<ring, authority, shelf, changes, sent, part, delivered>>

OpenPart(d) ==
  /\ stage[d] = "prepared"
  /\ IF delivered # << >>
     THEN stage' = [stage EXCEPT ![d] = "failed"] /\ UNCHANGED part
     ELSE stage' = [stage EXCEPT ![d] = "fetching"] /\ part' = [part EXCEPT ![d] = << >>]
  /\ UNCHANGED <<ring, authority, shelf, changes, openTransfers, sent, manifest, delivered>>

\* The chunk says which index it is, and opens only with the key, the nonce and the
\* associated data of this transfer and this index.
Opens_AnyTransfer(d, chunk) == chunk.index = Len(part[d])
Opens(d, chunk) ==
  LET index == Len(part[d]) IN
  /\ chunk.index = index /\ chunk.key = ArtifactKey(d, manifest[d])
  /\ chunk.nonce = ArtifactNonce(d, index) /\ chunk.aad = ArtifactAad(d, index)

Complete_Undigested(d) == Len(part[d]) = manifest[d].count
Complete(d) == part[d] = Whole(manifest[d].hash)

\* The answer is the one just made or one made before; a wrong one ends the download.
FetchChunk(d) ==
  /\ stage[d] = "fetching" /\ Len(part[d]) < manifest[d].count
  /\ LET fresh == ChunkOf(d, Len(part[d])) IN
     /\ sent' = sent \cup fresh
     /\ \E chunk \in sent \cup fresh : Opens(d, chunk) /\ part' = [part EXCEPT ![d] = Append(@, chunk.piece)]
  /\ UNCHANGED <<ring, authority, shelf, changes, openTransfers, stage, manifest, delivered>>

\* The temporary file is renamed to the destination, over one that has come meanwhile.
FinishDownload(d) ==
  /\ stage[d] = "fetching" /\ Len(part[d]) = manifest[d].count
  /\ Complete(d)
  /\ delivered' = part[d]
  /\ part' = [part EXCEPT ![d] = NoPart]
  /\ stage' = [stage EXCEPT ![d] = "done"]
  /\ UNCHANGED <<ring, authority, shelf, changes, openTransfers, sent, manifest>>

\* No answer, a refusal, a chunk that does not open, a full disk or a wrong digest.
FailDownload(d) ==
  /\ stage[d] = "fetching"
  /\ stage' = [stage EXCEPT ![d] = "failed"]
  /\ part' = [part EXCEPT ![d] = NoPart]
  /\ UNCHANGED <<ring, authority, shelf, changes, openTransfers, sent, manifest, delivered>>

ClientCrashes(d) ==
  /\ stage[d] \in {"prepared", "fetching"}
  /\ stage' = [stage EXCEPT ![d] = "crashed"]
  /\ UNCHANGED <<ring, authority, shelf, changes, openTransfers, sent, manifest, part, delivered>>

DeliveryNext ==
  \/ \E content \in Contents : ReplaceArtifact(content)
  \/ \E next \in Authorities : RestartService(next)
  \/ \E d \in Downloads : \/ ExpireTransfer(d) \/ Prepare(d) \/ OpenPart(d) \/ FetchChunk(d)
                          \/ FinishDownload(d) \/ FailDownload(d) \/ ClientCrashes(d)

DeliverySpec == DeliveryInit /\ [][DeliveryNext]_deliveryVars

-----------------------------------------------------------------------------
(* Property.                                                               *)

\* What lies at the destination is, from its first chunk to its last, an artifact whose
\* manifest was signed by a key of the client's ring, however the file was replaced, the
\* service restarted, answers repeated or two downloads mixed on the way; and every chunk
\* of a transfer that has been written is a chunk of that transfer.  Outside a running
\* download a part of it lies about only where the client was killed.
DeliveredIsWhole ==
  /\ delivered # << >> =>
       \E d \in Downloads : /\ stage[d] = "done" /\ manifest[d].signer \in ring
                            /\ delivered = Whole(manifest[d].hash)
  /\ \A d \in Downloads : part[d] # NoPart =>
       /\ stage[d] \in {"fetching", "crashed"}
       /\ \A i \in DOMAIN part[d] : Sealed(d, manifest[d], i - 1, part[d][i]) \in sent
=============================================================================
