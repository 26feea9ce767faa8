----------------------------- MODULE MCServices -----------------------------
(* Small instances, for TLC, of the services of the desktop that share no     *)
(* state.  A behaviour exercises one of them, chosen at the start, while the  *)
(* others rest; the connection to a device is exercised with its waiting      *)
(* loops or with its installations.                                           *)
EXTENDS IdleRelease, DeviceProcesses, Caches, DeviceDetailPage,
        DeviceLink, DockerLifecycle, PresetImages, DeviceProfile

VARIABLE part

serviceVars == <<vars, deviceVars, cacheVars, pageVars, linkVars, lifecycleVars, imageVars, profileVars>>
servicesVars == <<part, serviceVars>>

ServicesTypeOK ==
  CASE part = "release" -> TypeOK
    [] part = "device" -> DeviceTypeOK
    [] part = "cache" -> CacheTypeOK
    [] part = "page" -> PageTypeOK
    [] part \in {"waits", "installs"} -> LinkTypeOK
    [] part = "lifecycle" -> LifecycleTypeOK
    [] part = "images" -> ImagesTypeOK
    [] part = "profile" -> ProfileTypeOK

\* A command of the library meets one on the device only where the latter reads its
\* profile, when it begins: commands of the two kinds are interleaved whole.
OneKind == \A c, d \in Callers : InCall(c) /\ InCall(d) => Kind(call[c].op) = Kind(call[d].op)

\* Two releases overlap, of the user's or with an automatic one, but not three.
InPairs ==
  Cardinality({r \in Releases : release[r].pc # "idle"} \cup {a \in AutoReleases : auto[a].pc # "idle"}) <= 2

\* Where the others rest, only the part that moves starts in each of its states.
ServicesInit ==
  /\ part \in {"release", "device", "cache", "page", "waits", "installs", "lifecycle", "images",
              "profile"}
  /\ Init /\ DeviceInit /\ CacheInit /\ PageInit /\ LinkInit /\ LifecycleInit /\ ImagesInit
  /\ ProfileInit
  /\ part # "release" => nodesUp = {}
  /\ part # "device" => service = "recording"
  /\ part \notin {"waits", "installs"} => transport = "none" /\ device = [listening |-> FALSE, booted |-> FALSE]
  /\ part # "profile" => tool /\ label = "none"
  /\ label # "false"
  /\ part # "images" => asset = [a \in Assets |-> 0]

ServicesNext ==
  \/ part = "release" /\ Next /\ InPairs'
       /\ UNCHANGED <<part, deviceVars, cacheVars, pageVars, linkVars, lifecycleVars, imageVars, profileVars>>
  \/ part = "device" /\ DeviceNext
       /\ UNCHANGED <<part, vars, cacheVars, pageVars, linkVars, lifecycleVars, imageVars, profileVars>>
  \/ part = "cache" /\ CacheNext
       /\ UNCHANGED <<part, vars, deviceVars, pageVars, linkVars, lifecycleVars, imageVars, profileVars>>
  \/ part = "page" /\ PageNext
       /\ UNCHANGED <<part, vars, deviceVars, cacheVars, linkVars, lifecycleVars, imageVars, profileVars>>
  \/ /\ \/ part = "waits" /\ (AdbNext \/ WaitNext)
        \/ part = "installs" /\ (AdbNext \/ InstallNext)
     /\ UNCHANGED <<part, vars, deviceVars, cacheVars, pageVars, lifecycleVars, imageVars, profileVars>>
  \/ part = "lifecycle" /\ LifecycleNext
       /\ UNCHANGED <<part, vars, deviceVars, cacheVars, pageVars, linkVars, imageVars, profileVars>>
  \/ part = "images" /\ ImagesNext
       /\ UNCHANGED <<part, vars, deviceVars, cacheVars, pageVars, linkVars, lifecycleVars, profileVars>>
  \/ part = "profile" /\ ProfileNext /\ OneKind'
       /\ UNCHANGED <<part, vars, deviceVars, cacheVars, pageVars, linkVars, lifecycleVars, imageVars>>

ServicesSpec == ServicesInit /\ [][ServicesNext]_servicesVars

\* The calls of a release and the builds are interchangeable in every property
\* checked here; the callers of the library of profiles bear the builds' names.
Symmetry == Permutations(Releases) \cup Permutations(Builds)
=============================================================================
