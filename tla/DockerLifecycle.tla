-------------------------- MODULE DockerLifecycle ---------------------------
(***************************************************************************)
(* What the application does to the containers it has created              *)
(* (services/docker.rs): clone, start, stop, restart, rename, remove, with *)
(* their volumes and images, each call a sequence of docker commands that  *)
(* others come between; and the choice of a host port, which goes by a     *)
(* listing that is put together from two commands.  docker is external.    *)
(***************************************************************************)
EXTENDS FiniteSets, FiniteSetsExt, Naturals

CONSTANTS Managed,  \* names of instances, as sanitize_name leaves them
          NoContainerName,
          LastPort,    \* bound: ports 1..LastPort (5555..5999 in the code)
          Clones       \* threads that may run clone_container
ASSUME LifecycleAssumption == LastPort \in Nat \ {0} /\ NoContainerName \notin Managed

Ports == 1..LastPort

VARIABLES container,   \* [Managed -> container or NoContainer]
          volume,      \* names with a data volume
          image,       \* names with an image rdc-clone-<name>
          clone        \* [Clones -> the call's locals and where it is]
lifecycleVars == <<container, volume, image, clone>>

NoContainer == [status |-> "none", port |-> 0]
Exists(n) == container[n].status # "none"
IsRunning(n) == container[n].status = "running"
Bound(p) == \E n \in Managed : IsRunning(n) /\ container[n].port = p
Mapped == {container[n].port : n \in {m \in Managed : Exists(m)}}

\* taken: the ports the listing shows; listed: the containers of docker ps.
\* blind: a listing failed, no port was left, or somebody made a container meanwhile.
NoClone == [at |-> "idle", source |-> NoContainerName, name |-> NoContainerName, listed |-> {}, taken |-> {},
            port |-> 0, blind |-> FALSE]

LifecycleTypeOK ==
  /\ container \in [Managed -> [status : {"none", "created", "running", "exited"}, port : 0..LastPort]]
  /\ volume \subseteq Managed
  /\ image \subseteq Managed
  /\ clone \in [Clones -> [at : {"idle", "naming", "committing", "listing", "inspecting", "running",
                                 "booting", "replaying", "undoing"},
                           source : Managed \cup {NoContainerName}, name : Managed \cup {NoContainerName},
                           listed : SUBSET Managed, taken : SUBSET Ports, port : 0..LastPort,
                           blind : BOOLEAN]]

LifecycleInit ==
  /\ container = [n \in Managed |-> NoContainer]
  /\ volume = {} /\ image = {}
  /\ clone = [c \in Clones |-> NoClone]

Moves(c, at) == clone' = [clone EXCEPT ![c].at = at]
Blinds(cs) == clone' = [c \in Clones |-> IF c \in cs /\ clone[c].at # "idle"
                                         THEN [clone[c] EXCEPT !.blind = TRUE] ELSE clone[c]]
Finish(c) == clone' = [clone EXCEPT ![c] = NoClone]

-----------------------------------------------------------------------------
(* clone_container.                                                        *)

BeginClone(c) ==
  /\ clone[c].at = "idle"
  /\ \E s, n \in Managed :
       /\ Exists(s)
       /\ clone' = [clone EXCEPT ![c] = [NoClone EXCEPT !.at = "naming", !.source = s, !.name = n]]
  /\ UNCHANGED <<container, volume, image>>

\* container_name_taken: a listing that fails twice is an empty one.
CheckName(c) ==
  /\ clone[c].at = "naming"
  /\ \/ ~Exists(clone[c].name) /\ Moves(c, "committing")
     \/ Exists(clone[c].name) /\ Finish(c)
     \/ Exists(clone[c].name) /\ clone' = [clone EXCEPT ![c].at = "committing", ![c].blind = TRUE]
  /\ UNCHANGED <<container, volume, image>>

\* docker commit, and docker volume create, which keeps a volume that is there and
\* whose failure nobody looks at.
Commit(c) ==
  /\ clone[c].at = "committing"
  /\ \/ /\ Exists(clone[c].source)
        /\ image' = image \cup {clone[c].name}
        /\ volume' \in {volume, volume \cup {clone[c].name}}
        /\ Moves(c, "listing")
     \/ Finish(c) /\ UNCHANGED <<image, volume>>
  /\ UNCHANGED container

\* list_containers(true): docker ps shows no port of a container that is not running.
ListForPorts(c) ==
  /\ clone[c].at = "listing"
  /\ \/ clone' = [clone EXCEPT ![c].at = "inspecting", ![c].listed = {n \in Managed : Exists(n)},
                               ![c].taken = {p \in Ports : Bound(p)}]
     \/ clone' = [clone EXCEPT ![c].at = "inspecting", ![c].listed = {}, ![c].blind = TRUE]
  /\ UNCHANGED <<container, volume, image>>

\* enrich_stopped_container_ports: one docker inspect for all that were listed without
\* ports.  It fails as a whole when one of them is gone.
BindingsOf_RunningOnly(c) == {container[n].port : n \in {m \in clone[c].listed : IsRunning(m)}}
BindingsOf(c) == {container[n].port : n \in {m \in clone[c].listed : Exists(m)}}

\* suggest_free_adb_port: the least port that is not shown and that can be bound now;
\* with none left, the first.
FreePorts(taken) == {p \in Ports : p \notin taken /\ ~Bound(p)}
ChosenPort(taken) == IF FreePorts(taken) = {} THEN 1 ELSE Min(FreePorts(taken))

InspectStopped(c) ==
  LET complete == \A n \in clone[c].listed : Exists(n) IN
  /\ clone[c].at = "inspecting"
  /\ \E works \in {complete, FALSE} :
       LET taken == clone[c].taken \cup (IF works THEN BindingsOf(c) ELSE {})
       IN clone' = [clone EXCEPT ![c].at = "running", ![c].taken = {}, ![c].listed = {},
                                 ![c].port = ChosenPort(taken), ![c].blind = @ \/ ~works \/ FreePorts(taken) = {}]
  /\ UNCHANGED <<container, volume, image>>

\* docker run: a port that is bound leaves a container that never started, a name that
\* is taken leaves nothing; a run that takes too long is given up and goes on.
RunClone(c) ==
  LET n == clone[c].name  p == clone[c].port IN
  /\ clone[c].at = "running"
  /\ \/ /\ ~Exists(n)
        /\ container' = [container EXCEPT ![n] = [status |-> IF Bound(p) THEN "created" ELSE "running",
                                                  port |-> p]]
        /\ volume' = volume \cup {n}
        /\ \E at \in IF Bound(p) THEN {"undoing"} ELSE {"booting", "undoing"} :
             clone' = [d \in Clones |->
               IF d = c THEN [clone[c] EXCEPT !.at = at]
               ELSE IF clone[d].at # "idle" THEN [clone[d] EXCEPT !.blind = TRUE] ELSE clone[d]]
     \/ Moves(c, "undoing") /\ UNCHANGED <<container, volume>>
  /\ UNCHANGED image

\* The wait for the clone, its first-boot settings and, with Magisk, the replay of
\* the source's configuration with a restart; a wait that fails is reported.
BootClone(c) ==
  /\ clone[c].at = "booting"
  /\ \/ Moves(c, "replaying") \/ Finish(c)
  /\ UNCHANGED <<container, volume, image>>

Replay(c) ==
  /\ clone[c].at = "replaying"
  /\ Finish(c)
  /\ UNCHANGED <<container, volume, image>>

\* docker rmi -f of the image, and of nothing else.
UndoClone(c) ==
  /\ clone[c].at = "undoing"
  /\ image' \in {image, image \ {clone[c].name}}
  /\ Finish(c)
  /\ UNCHANGED <<container, volume>>

-----------------------------------------------------------------------------
(* The single commands of the panel.                                       *)

BecomesStatus(n, status) == container' = [container EXCEPT ![n].status = status]

StartContainer(n) ==
  /\ Exists(n) /\ ~IsRunning(n) /\ ~Bound(container[n].port)
  /\ BecomesStatus(n, "running") /\ UNCHANGED <<volume, image, clone>>

StopContainer(n) ==
  /\ IsRunning(n)
  /\ BecomesStatus(n, "exited") /\ UNCHANGED <<volume, image, clone>>

\* With or without force: docker refuses to remove what runs without it.
RemoveContainer(n) ==
  /\ Exists(n)
  /\ container' = [container EXCEPT ![n] = NoContainer]
  /\ UNCHANGED <<volume, image, clone>>

\* The new name is looked up in a listing and docker refuses a name that is taken; the
\* volume keeps its name.
RenameContainer(n, m) ==
  /\ Exists(n) /\ ~Exists(m)
  /\ container' = [container EXCEPT ![m] = container[n], ![n] = NoContainer]
  /\ Blinds(Clones) /\ UNCHANGED <<volume, image>>

\* docker refuses a volume that a container uses.
RemoveVolume(n) ==
  /\ n \in volume /\ ~Exists(n)
  /\ volume' = volume \ {n}
  /\ UNCHANGED <<container, image, clone>>

\* An instance made by the creation command, or by docker itself.
CreateElsewhere(n, p) ==
  /\ ~Exists(n) /\ ~Bound(p)
  /\ container' = [container EXCEPT ![n] = [status |-> "running", port |-> p]]
  /\ volume' = volume \cup {n}
  /\ Blinds(Clones) /\ UNCHANGED image

RemoveImage(n) ==
  /\ n \in image
  /\ image' = image \ {n}
  /\ UNCHANGED <<container, volume, clone>>

CloneStep(c) == BeginClone(c) \/ CheckName(c) \/ Commit(c) \/ ListForPorts(c) \/ InspectStopped(c)
                  \/ RunClone(c) \/ BootClone(c) \/ Replay(c) \/ UndoClone(c)

LifecycleNext ==
  \/ \E c \in Clones : CloneStep(c)
  \/ \E n \in Managed : \/ StartContainer(n) \/ StopContainer(n) \/ RemoveContainer(n)
                      \/ RemoveVolume(n) \/ RemoveImage(n)
                      \/ \E m \in Managed : RenameContainer(n, m)
                      \/ \E p \in Ports : CreateElsewhere(n, p)

LifecycleSpec == LifecycleInit /\ [][LifecycleNext]_lifecycleVars

-----------------------------------------------------------------------------
(* Properties.                                                             *)

\* A clone never gets the port of another instance, also of one that is stopped and
\* would find it taken when it is started: unless no port was left, a listing failed,
\* or another instance was made or renamed while the clone was under way.
ClonesGetPortsOfTheirOwn ==
  [][\A c \in Clones :
       LET n == clone[c].name IN
       /\ clone[c].at = "running" /\ clone'[c].at # "running" /\ ~clone[c].blind
       /\ ~Exists(n) /\ container'[n].status # "none"
       => container'[n].port \notin Mapped]_lifecycleVars
=============================================================================
