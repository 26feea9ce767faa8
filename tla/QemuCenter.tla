----------------------------- MODULE QemuCenter -----------------------------
(***************************************************************************)
(* qemu-center: the commands of its command line that change a node (a     *)
(* QEMU virtual machine), and what they share: state.json, the nodes'      *)
(* directories and SSH keys, and the QEMU processes they start.            *)
(*                                                                         *)
(* A command is a process of its own: it loads the registry, asks over QMP *)
(* whether the node runs, acts on the host, and saves the registry it      *)
(* loaded.  Nothing is locked between those steps, QEMU processes boot,    *)
(* hang and exit when they like, and a command may be killed at any step.  *)
(***************************************************************************)
EXTENDS Integers, FiniteSets, FiniteSetsExt, Functions

CONSTANTS
  Names,        \* node names
  Procs,        \* qemu-center processes at once; one for a single operator
  Tags,         \* snapshot tags
  Memories,     \* memory sizes within set-memory's limits
  MaxPort,      \* 65535
  Reserved,     \* RESERVED_HOST_PORT_RANGES
  SshBase, QmpBase, AdbBase,   \* where the three port searches begin
  SshAsked,     \* --ssh-host-port: ports, and None for none given
  OwnKeys,      \* whether --ssh-pubkey may be given
  AdbAsked,     \* --adb-port-base and count, as <<base, count>>
  MaxKeys,      \* bound on the SSH keys ever made
  None

VARIABLES
  file,         \* state.json: the registered nodes' entries
  dir,          \* vms/<name>: the node's disk, seed image and QEMU pid record
  keys,         \* keys/<name>_ed25519
  made,         \* SSH keys made so far
  qemu,         \* the QEMU process on each node's disk
  cli           \* the command each process runs, and how far it is

vars == <<file, dir, keys, made, qemu, cli>>

-----------------------------------------------------------------------------
Operators == 0         \* the key given with --ssh-pubkey; minted keys follow
Ports     == 0..MaxPort
KeyIds    == 0..MaxKeys
Entry == [ssh : Ports, qmp : Ports, adb : SUBSET Ports, mem : Memories, snaps : SUBSET Tags]

\* A disk remembers which key its guest accepts, once cloud-init has run, and
\* its internal snapshots what it was then.
Disk == [key : KeyIds \cup {None}, snaps : UNION {[S -> KeyIds \cup {None}] : S \in SUBSET Tags}]
Node == [disk : Disk \cup {None}, seed : KeyIds \cup {None}, pid : {"none", "live", "dead"}]

\* Ports and counts are 16-bit numbers, the bounds are numbers, and a disk is there or not.
ASSUME QemuAssumption ==
  /\ MaxPort \in Nat /\ MaxKeys \in Nat
  /\ {SshBase, QmpBase, AdbBase} \subseteq Ports
  /\ SshAsked \subseteq Ports \cup {None}
  /\ AdbAsked \subseteq Ports \X Ports
  /\ None \notin Disk

Commands == {"create", "start", "set-memory", "delete", "snapshot", "restore", "clone"}
Labels   == {"launch", "qmp", "qemu-img", "key", "seed", "disk", "mkdir", "overlay",
             "identity", "ports", "save", "forget", "purge", "purgeKeys"}
Idle     == [pc |-> "idle"]
At(p, label) == cli[p].pc = label

TypeOK ==
  /\ DOMAIN file \subseteq Names /\ \A n \in DOMAIN file : file[n] \in Entry
  /\ DOMAIN dir \subseteq Names  /\ \A n \in DOMAIN dir : dir[n] \in Node
  /\ DOMAIN keys \subseteq Names /\ \A n \in DOMAIN keys : keys[n] \in KeyIds
  /\ made \in KeyIds
  /\ DOMAIN qemu \subseteq Names
  /\ \A n \in DOMAIN qemu : qemu[n] \in [state : {"spawned", "up"}, qmp : Ports, mem : Memories]
  /\ \A p \in Procs : At(p, "idle") \/ (cli[p].pc \in Labels /\ cli[p].cmd \in Commands)

Init ==
  /\ file = <<>> /\ dir = <<>> /\ keys = <<>> /\ made = 0
  /\ qemu = <<>> /\ cli = [p \in Procs |-> Idle]

With(f, x, v)  == [y \in DOMAIN f \cup {x} |-> IF y = x THEN v ELSE f[y]]
Without(f, x)  == Restrict(f, DOMAIN f \ {x})
Has(f, x)      == x \in DOMAIN f
GoTo(p, label) == cli' = [cli EXCEPT ![p].pc = label]
Exit(p)        == cli' = [cli EXCEPT ![p] = Idle]

-----------------------------------------------------------------------------
(* Ports.                                                                  *)

Least(S) == IF S = {} THEN None ELSE Min(S)

NextFreePort(used, base) == Least((base..MaxPort) \ (used \cup Reserved))

\* `start..start + count` in u16: in a release build the end of a block that
\* reaches the ceiling wraps to 0, and the range is empty.
Block(start, count) == IF start + count = MaxPort + 1 THEN {} ELSE start..(start + count - 1)

AllocatePortBlock_OffByOne(used, base, count) ==
  LET fits(s) == s + count - 2 <= MaxPort /\ Block(s, count) \cap (used \cup Reserved) = {}
      start   == Least({s \in base..MaxPort : fits(s)})
  IN IF count = 0 \/ start = None THEN None ELSE Block(start, count)
AllocatePortBlock(used, base, count) ==
  LET fits(s) == s + count - 1 <= MaxPort /\ Block(s, count) \cap (used \cup Reserved) = {}
      start   == Least({s \in base..MaxPort : fits(s)})
  IN IF count = 0 \/ start = None THEN None ELSE Block(start, count)

UsedPorts_SshAndQmp(reg) == UNION {{reg[n].ssh, reg[n].qmp} : n \in DOMAIN reg}
UsedPorts(reg) == UNION {{reg[n].ssh, reg[n].qmp} \cup reg[n].adb : n \in DOMAIN reg}

\* The entry of a new node, or None when a port is missing.
NewEntry(reg, ask, block, mem) ==
  LET used == UsedPorts(reg)
      ssh  == IF ask = None THEN NextFreePort(used, SshBase)
              ELSE IF ask \in used \cup Reserved THEN None ELSE ask
      qmp  == NextFreePort(used \cup {ssh}, QmpBase)
      adb  == AllocatePortBlock(used \cup {ssh, qmp}, block[1], block[2])
  IN IF None \in {ssh, qmp, adb} THEN None
     ELSE [ssh |-> ssh, qmp |-> qmp, adb |-> adb, mem |-> mem, snaps |-> {}]

-----------------------------------------------------------------------------
(* Liveness, as QMP and the host report it.                                *)

Listening(port) == \E n \in DOMAIN qemu : qemu[n].qmp = port /\ qemu[n].state # "spawned"

\* A QEMU that hangs, or serves another client, gives no greeting.  Without a
\* listener the port refuses, or a proxy swallows the refusal.
QmpProbe(port) ==
  (IF \E n \in DOMAIN qemu : qemu[n].qmp = port /\ qemu[n].state = "up" THEN {"Answered"} ELSE {})
    \cup (IF Listening(port) THEN {} ELSE {"Refused"}) \cup {"TimedOut"}

\* probe_vm_liveness: only a time-out asks for QEMU processes on the host, and
\* that question may fail.
VmLiveness_HostIgnored(port) ==
  UNION {CASE probe = "Answered" -> {"Running"} [] OTHER -> {"Stopped"} : probe \in QmpProbe(port)}
VmLiveness(port) ==
  UNION {CASE probe = "Answered" -> {"Running"}
           [] probe = "Refused"  -> {"Stopped"}
           [] probe = "TimedOut" -> {"Unknown"} \cup (IF qemu = <<>> THEN {"Stopped"} ELSE {})
         : probe \in QmpProbe(port)}

\* delete_plan_with_shutdown_proof.
DeletePlan_PidProves(n, port, live) == live = "Stopped" \/ (live = "Unknown" /\ dir[n].pid = "dead")
DeletePlan(n, port, live) ==
  \/ live = "Stopped"
  \/ live = "Unknown" /\ Has(dir, n) /\ dir[n].pid = "dead" /\ ~Listening(port)

-----------------------------------------------------------------------------
(* The registry file.                                                      *)

\* load_registry, with what the command was given.  A single operator follows
\* the advice `vm start` prints: the next command comes when the guest is up.
Load(p, cmd, n, arg, reg, label) ==
  /\ \A m \in DOMAIN qemu : qemu[m].state # "spawned"
  /\ cli' = [cli EXCEPT ![p] = [pc |-> label, cmd |-> cmd, vm |-> n, arg |-> arg, reg |-> reg]]

\* A command on a registered node that its liveness allows; refused, it ends.
Probed(p, cmd, n, arg, live, label) ==
  /\ Has(file, n)
  /\ live \in VmLiveness(file[n].qmp)
  /\ Load(p, cmd, n, arg, file, label)
  /\ UNCHANGED <<file, dir, keys, made, qemu>>

\* The registry a command has in memory, changed; the save comes next.
WithEntry(p, n, entry) ==
  cli' = [cli EXCEPT ![p] = [cli[p] EXCEPT !.pc = "save", !.reg = With(cli[p].reg, n, entry)]]

AfterSave(p) == IF cli[p].cmd # "delete" THEN "idle" ELSE IF cli[p].arg THEN "purge" ELSE "forget"

\* save_registry: a temporary file renamed over state.json, so a command that is
\* cut off leaves the old registry or the new one.
SaveRegistry(p) ==
  /\ At(p, "save")
  /\ file' = cli[p].reg
  /\ IF AfterSave(p) = "idle" THEN Exit(p) ELSE GoTo(p, AfterSave(p))
  /\ UNCHANGED <<dir, keys, made, qemu>>

\* A save that fails; only a clone has something to take back.
SaveFails(p) ==
  /\ At(p, "save") /\ cli[p].cmd = "clone"
  /\ GoTo(p, "purge")
  /\ UNCHANGED <<file, dir, keys, made, qemu>>

\* The command is killed, or a step of it fails that leaves nothing behind.
Killed(p) ==
  /\ ~At(p, "idle")
  /\ Exit(p)
  /\ UNCHANGED <<file, dir, keys, made, qemu>>

-----------------------------------------------------------------------------
(* vm create.                                                              *)

Create(p, n, own, ask, block, mem) ==
  /\ ~Has(file, n)
  /\ NewEntry(file, ask, block, mem) # None
  /\ Load(p, "create", n, [own |-> own, entry |-> NewEntry(file, ask, block, mem)], file, IF own THEN "seed" ELSE "key")
  /\ UNCHANGED <<file, dir, keys, made, qemu>>

\* A key that is there already, from an earlier node of this name, is kept.
CreateKey(p) ==
  LET n == cli[p].vm IN
  /\ At(p, "key")
  /\ IF Has(keys, n) THEN UNCHANGED <<keys, made>>
     ELSE made < MaxKeys /\ made' = made + 1 /\ keys' = With(keys, n, made + 1)
  /\ GoTo(p, "seed")
  /\ UNCHANGED <<file, dir, qemu>>

NewNode == [disk |-> None, seed |-> None, pid |-> "none"]
NodeAt(n) == IF Has(dir, n) THEN dir[n] ELSE NewNode

\* create_dir_all accepts the directory a forgotten node left behind.
CreateSeed(p) ==
  LET n == cli[p].vm IN
  /\ At(p, "seed")
  /\ dir' = With(dir, n, [NodeAt(n) EXCEPT !.seed = IF cli[p].arg.own THEN Operators ELSE keys[n]])
  /\ GoTo(p, "disk")
  /\ UNCHANGED <<file, keys, made, qemu>>

\* qemu-img create, over whatever disk was there.
CreateDisk(p) ==
  LET n == cli[p].vm IN
  /\ At(p, "disk")
  /\ Has(dir, n)
  /\ dir' = [dir EXCEPT ![n].disk = [key |-> None, snaps |-> <<>>]]
  /\ WithEntry(p, n, cli[p].arg.entry)
  /\ UNCHANGED <<file, keys, made, qemu>>

-----------------------------------------------------------------------------
(* vm start, and what becomes of the QEMU process.                         *)

Start(p, n) == Probed(p, "start", n, None, "Stopped", "launch")

\* The process is spawned detached.  It dies at once when its disk is missing
\* or another QEMU has its ports.  Recording its pid may fail, and then leaves
\* what was recorded before.
StartLaunch(p) ==
  LET n    == cli[p].vm
      e    == cli[p].reg[n]
      runs == dir[n].disk # None /\ \A m \in DOMAIN qemu : qemu[m].qmp # e.qmp
  IN
  /\ At(p, "launch")
  /\ Has(dir, n)
  /\ qemu' = IF runs THEN With(qemu, n, [state |-> "spawned", qmp |-> e.qmp, mem |-> e.mem]) ELSE qemu
  /\ \/ dir' = [dir EXCEPT ![n].pid = IF runs THEN "live" ELSE "dead"]
     \/ UNCHANGED dir
  /\ Exit(p)
  /\ UNCHANGED <<file, keys, made>>

\* QEMU listens; on the first boot cloud-init reads the seed image, which a
\* clone's directory does not have.
QemuBoots(n) ==
  /\ Has(qemu, n) /\ qemu[n].state = "spawned"
  /\ qemu' = [qemu EXCEPT ![n].state = "up"]
  /\ dir' = IF Has(dir, n) /\ dir[n].disk # None
            THEN [dir EXCEPT ![n].disk.key = IF @ = None THEN dir[n].seed ELSE @] ELSE dir
  /\ UNCHANGED <<file, keys, made, cli>>

\* The guest powers off, because `vm stop` asked it to or by itself.
QemuExits(n) ==
  /\ Has(qemu, n)
  /\ qemu' = Without(qemu, n)
  /\ dir' = IF Has(dir, n) /\ dir[n].pid = "live" THEN [dir EXCEPT ![n].pid = "dead"] ELSE dir
  /\ UNCHANGED <<file, keys, made, cli>>

-----------------------------------------------------------------------------
(* vm set-memory and vm delete.                                            *)

\* What these two save is decided here; the save is a step of its own.
Saving(p, cmd, n, arg, reg) ==
  Load(p, cmd, n, arg, reg, "save") /\ UNCHANGED <<file, dir, keys, made, qemu>>

\* A memory of any size the range allows; only of a node QMP shows to be down.
MemoryMayChange(n) == "Stopped" \in VmLiveness(file[n].qmp)

SetMemory(p, n, mem) ==
  /\ Has(file, n) /\ MemoryMayChange(n)
  /\ Saving(p, "set-memory", n, None, [file EXCEPT ![n].mem = mem])

Delete(p, n, purge) ==
  /\ Has(file, n)
  /\ \E live \in VmLiveness(file[n].qmp) : DeletePlan(n, file[n].qmp, live)
  /\ Saving(p, "delete", n, purge, Without(file, n))

\* Without --purge only the pid record goes.
DeleteForget(p) ==
  LET n == cli[p].vm IN
  /\ At(p, "forget")
  /\ dir' = IF Has(dir, n) THEN [dir EXCEPT ![n].pid = "none"] ELSE dir
  /\ Exit(p)
  /\ UNCHANGED <<file, keys, made, qemu>>

\* The node whose artifacts a command removes, or whose disk it writes.
Target(p) == IF cli[p].cmd = "clone" THEN cli[p].arg ELSE cli[p].vm

PurgeDir_OfSource(p) ==
  /\ At(p, "purge")
  /\ dir' = Without(dir, cli[p].vm)
  /\ GoTo(p, "purgeKeys")
  /\ UNCHANGED <<file, keys, made, qemu>>
\* purge_vm_artifacts: the directory, then the keys.
PurgeDir(p) ==
  /\ At(p, "purge")
  /\ dir' = Without(dir, Target(p))
  /\ GoTo(p, "purgeKeys")
  /\ UNCHANGED <<file, keys, made, qemu>>

PurgeKeys(p) ==
  /\ At(p, "purgeKeys")
  /\ keys' = Without(keys, Target(p))
  /\ Exit(p)
  /\ UNCHANGED <<file, dir, made, qemu>>

-----------------------------------------------------------------------------
(* vm snapshot and vm restore.                                             *)

\* snapshot_plan: who may write the disk.
Snapshot(p, n, tag) ==
  \/ Probed(p, "snapshot", n, tag, "Running", "qmp")
  \/ Probed(p, "snapshot", n, tag, "Stopped", "qemu-img")

RegisterSnapshot(p, n, tag) == WithEntry(p, n, [cli[p].reg[n] EXCEPT !.snaps = @ \cup {tag}])

Taken(n, tag) == [dir EXCEPT ![n].disk.snaps = With(@, tag, dir[n].disk.key)]

\* qemu-img snapshot -c.
SnapshotByQemuImg(p) ==
  LET n == cli[p].vm  tag == cli[p].arg IN
  /\ At(p, "qemu-img") /\ cli[p].cmd = "snapshot"
  /\ Has(dir, n) /\ dir[n].disk # None
  /\ dir' = Taken(n, tag)
  /\ RegisterSnapshot(p, n, tag)
  /\ UNCHANGED <<file, keys, made, qemu>>

\* The QMP client takes the first line that is not an error for the reply, and
\* an event is such a line: when one comes first, what QEMU then answers, be it
\* that it took no snapshot, is never read.
SnapshotByQmp(p) ==
  LET n == cli[p].vm  tag == cli[p].arg IN
  /\ At(p, "qmp") /\ Has(qemu, n) /\ qemu[n].state = "up"
  /\ \E taken, eventFirst \in BOOLEAN :
       /\ taken \/ eventFirst
       /\ dir' = IF taken THEN Taken(n, tag) ELSE dir
  /\ RegisterSnapshot(p, n, tag)
  /\ UNCHANGED <<file, keys, made, qemu>>

Restore(p, n, tag) ==
  /\ Has(file, n) /\ tag \in file[n].snaps
  /\ Probed(p, "restore", n, tag, "Stopped", "qemu-img")

RestoreApply(p) ==
  LET n == cli[p].vm  tag == cli[p].arg IN
  /\ At(p, "qemu-img") /\ cli[p].cmd = "restore"
  /\ Has(dir, n) /\ dir[n].disk # None /\ Has(dir[n].disk.snaps, tag)
  /\ dir' = [dir EXCEPT ![n].disk.key = dir[n].disk.snaps[tag]]
  /\ Exit(p)
  /\ UNCHANGED <<file, keys, made, qemu>>

-----------------------------------------------------------------------------
(* vm clone.                                                               *)

Clone(p, n, to) == ~Has(file, to) /\ Probed(p, "clone", n, to, "Stopped", "mkdir")

\* An artifact directory that is already there is refused.
CloneMkdir(p) ==
  /\ At(p, "mkdir")
  /\ ~Has(dir, Target(p))
  /\ dir' = With(dir, Target(p), NewNode)
  /\ GoTo(p, "overlay")
  /\ UNCHANGED <<file, keys, made, qemu>>

\* The overlay starts as what the source disk is; a failure removes the directory.
CloneOverlay(p) ==
  LET n == cli[p].vm  to == Target(p) IN
  /\ At(p, "overlay")
  /\ \/ /\ Has(dir, n) /\ dir[n].disk # None /\ Has(dir, to)
        /\ dir' = [dir EXCEPT ![to].disk = [key |-> dir[n].disk.key, snaps |-> <<>>]]
        /\ GoTo(p, "identity")
     \/ dir' = Without(dir, to) /\ Exit(p)
  /\ UNCHANGED <<file, keys, made, qemu>>

\* copy_clone_ssh_identity: a key of that name is never overwritten, and a copy
\* that fails is taken back.
CloneIdentity_KeptKey(p) ==
  LET n == cli[p].vm  to == Target(p) IN
  /\ At(p, "identity")
  /\ \/ /\ Has(keys, n)
        /\ keys' = With(keys, to, IF Has(keys, to) THEN keys[to] ELSE keys[n])
        /\ GoTo(p, "ports") /\ UNCHANGED dir
     \/ UNCHANGED keys /\ dir' = Without(dir, to) /\ Exit(p)
  /\ UNCHANGED <<file, made, qemu>>
CloneIdentity(p) ==
  LET n == cli[p].vm  to == Target(p) IN
  /\ At(p, "identity")
  /\ \/ /\ ~Has(keys, to) /\ Has(keys, n)
        /\ keys' = With(keys, to, keys[n])
        /\ GoTo(p, "ports") /\ UNCHANGED dir
     \/ UNCHANGED keys /\ dir' = Without(dir, to) /\ Exit(p)
  /\ UNCHANGED <<file, made, qemu>>

\* Ports of its own; a clone that gets none is purged.
ClonePorts(p) ==
  LET src   == cli[p].reg[cli[p].vm]
      size  == IF src.adb = {} THEN 1 ELSE Cardinality(src.adb)
      entry == NewEntry(cli[p].reg, None, <<AdbBase, size>>, src.mem)
  IN
  /\ At(p, "ports")
  /\ IF entry = None THEN GoTo(p, "purge") ELSE WithEntry(p, Target(p), entry)
  /\ UNCHANGED <<file, dir, keys, made, qemu>>

-----------------------------------------------------------------------------
\* A process that has no command begins one.
Begin(p) ==
  /\ At(p, "idle")
  /\ \E n \in Names :
       \/ \E own \in OwnKeys, ask \in SshAsked, block \in AdbAsked, mem \in Memories :
            Create(p, n, own, ask, block, mem)
       \/ Start(p, n)
       \/ \E mem \in Memories : SetMemory(p, n, mem)
       \/ \E purge \in BOOLEAN : Delete(p, n, purge)
       \/ \E tag \in Tags : Snapshot(p, n, tag) \/ Restore(p, n, tag)
       \/ \E to \in Names : Clone(p, n, to)

Step(p) ==
  \/ CreateKey(p) \/ CreateSeed(p) \/ CreateDisk(p) \/ StartLaunch(p)
  \/ DeleteForget(p) \/ PurgeDir(p) \/ PurgeKeys(p) \/ SnapshotByQemuImg(p) \/ SnapshotByQmp(p) \/ RestoreApply(p)
  \/ CloneMkdir(p) \/ CloneOverlay(p) \/ CloneIdentity(p) \/ ClonePorts(p)
  \/ SaveRegistry(p) \/ SaveFails(p) \/ Killed(p)

Next ==
  \/ \E p \in Procs : Begin(p) \/ Step(p)
  \/ \E n \in Names : QemuBoots(n) \/ QemuExits(n)

Spec == Init /\ [][Next]_vars

-----------------------------------------------------------------------------
(* Properties.                                                             *)

\* Bug A: a disk that a QEMU process owns is written only by that process.
\* qemu-img never writes it, and its directory is never removed, whatever the
\* probe could and could not find out and wherever an earlier command was cut off.
LiveDiskUntouched ==
  \A p \in Procs : cli[p].pc \in {"qemu-img", "disk", "purge"} => ~Has(qemu, Target(p))

\* No QEMU process runs untracked, and each runs as its entry says: the registry
\* changes a node's memory, or drops the node, only when no process is on its disk.
LiveNodesMatchRegistry ==
  \A n \in DOMAIN qemu : /\ Has(file, n)
                         /\ qemu[n].qmp = file[n].qmp
                         /\ qemu[n].mem = file[n].mem

\* Two nodes never share a host port, nor does one node use a port twice: both
\* would be bound when the second QEMU boots.
NodePorts(e) == {e.ssh, e.qmp} \cup e.adb
PortsAreDisjoint ==
  \A n \in DOMAIN file :
    /\ Cardinality(NodePorts(file[n])) = Cardinality(file[n].adb) + 2
    /\ NodePorts(file[n]) \cap Reserved = {}
    /\ \A m \in DOMAIN file \ {n} : NodePorts(file[n]) \cap NodePorts(file[m]) = {}

\* A registered node has its disk, however the commands that made, forgot, reused
\* or cloned it, and those that failed on another node's name, were cut off.
RegisteredNodesHaveDisks == \A n \in DOMAIN file : Has(dir, n) /\ dir[n].disk # None

\* A snapshot that the registry names is on the node's disk, for `vm restore` to
\* apply: "events ... are not the reply we are waiting for".
RegisteredSnapshotsExist ==
  \A n \in DOMAIN file :
    Has(dir, n) /\ dir[n].disk # None => file[n].snaps \subseteq DOMAIN dir[n].disk.snaps

\* A guest that accepts a key made here can be reached with the key kept under
\* its node's name: leftovers of an earlier node, snapshots from before the first
\* boot and clones included.
KeyOpensGuest ==
  \A n \in DOMAIN file :
    Has(dir, n) /\ dir[n].disk # None /\ dir[n].disk.key \notin {None, Operators}
      => Has(keys, n) /\ keys[n] = dir[n].disk.key

\* What the registry says of a node is so: of its live QEMU, of its ports, its disk
\* and its key.
RegistryIsTrue == LiveNodesMatchRegistry /\ PortsAreDisjoint /\ RegisteredNodesHaveDisks /\ KeyOpensGuest
=============================================================================
