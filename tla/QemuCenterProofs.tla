-------------------------- MODULE QemuCenterProofs --------------------------
(* Theorems about QemuCenter, for all nodes, ports, tags and memories, as     *)
(* long as one command runs at a time; it may be killed at any step: first    *)
(* what concerns the QEMU processes (NodesInv), then ports, disks and keys    *)
(* (TruthInv).  After them, the host set-up of HostSetup, for all numbers of  *)
(* releases, commands and directories (HostInv), and the inside of a node of  *)
(* GuestNode, for all containers, memories and numbers of commands (NodeInv). *)
EXTENDS MCQemuCenter, QemuPartsProofs, OrderFacts, FiniteSetTheorems, TLAPS

EntryFields   == {"ssh", "qmp", "adb", "mem", "snaps"}
CommandFields == {"pc", "cmd", "vm", "arg", "reg"}

Entries(reg) == \A n \in DOMAIN reg : DOMAIN reg[n] = EntryFields

\* A registry, with its entries, says of the QEMU processes what they are.
Agrees(reg, processes) ==
  \A n \in DOMAIN processes :
    n \in DOMAIN reg /\ reg[n].qmp = processes[n].qmp /\ reg[n].mem = processes[n].mem

Processes(f) == \A n \in DOMAIN f : DOMAIN f[n] = {"state", "qmp", "mem"}

TargetOf(c) == IF c.cmd = "clone" THEN c.arg ELSE c.vm

\* Where a command may be while a QEMU process has its node's disk.
BesideQemu(c) == c.pc \in {"launch", "qmp"} \/ (c.pc = "save" /\ c.cmd = "snapshot")

\* What a command that has begun knows: its registry is true, the disk it is about to
\* write is nobody else's, and what it starts is what the file says.
CommandRecord(c, reg, processes) ==
  c.pc # "idle" =>
    /\ DOMAIN c = CommandFields
    /\ Entries(c.reg) /\ Agrees(c.reg, processes)
    /\ BesideQemu(c) \/ TargetOf(c) \notin DOMAIN processes
    /\ c.pc = "launch" => c.reg = reg /\ c.vm \in DOMAIN reg
    /\ c.pc \in {"seed", "key", "disk"} => c.cmd = "create" /\ DOMAIN c.arg.entry = EntryFields
    /\ c.pc \in {"mkdir", "overlay", "identity", "ports"} => c.cmd = "clone"
    /\ c.pc = "qmp" => c.cmd = "snapshot"
    /\ c.pc \in {"qmp", "qemu-img"} => c.cmd # "clone" /\ c.vm \in DOMAIN c.reg

\* One operator, one command at a time.
NodesInv(p) ==
  /\ DOMAIN cli = {p}
  /\ Entries(file) /\ Agrees(file, qemu) /\ Processes(qemu)
  /\ CommandRecord(cli[p], file, qemu)

-----------------------------------------------------------------------------
(* What a command does to its record.                                      *)

\* It exits, or is killed.
LEMMA Exits ==
  ASSUME NEW p, NodesInv(p), cli' = [cli EXCEPT ![p] = Idle], Entries(file'), Agrees(file', qemu'),
         Processes(qemu')
  PROVE  NodesInv(p)'
<1>1. cli'[p].pc = "idle" /\ DOMAIN cli' = {p}
  BY DEF NodesInv, Idle
<1> QED  BY <1>1 DEF NodesInv, CommandRecord

\* It goes on from a place where its target is down.
LEMMA GoesOn ==
  ASSUME NEW p, NodesInv(p), NEW label, GoTo(p, label), UNCHANGED qemu,
         cli[p].pc # "idle", ~BesideQemu(cli[p]),
         label \notin {"launch", "qmp", "qemu-img"}, Entries(file'), Agrees(file', qemu'),
         label \in {"seed", "key", "disk"} => cli[p].pc \in {"seed", "key", "disk"},
         label \in {"mkdir", "overlay", "identity", "ports"} => cli[p].cmd = "clone"
  PROVE  NodesInv(p)'
<1> DEFINE c == cli[p]
           d == [c EXCEPT !.pc = label]
<1>1. cli' = [cli EXCEPT ![p] = d] /\ DOMAIN c = CommandFields
  BY DEF GoTo, NodesInv, CommandRecord
<1>2. /\ DOMAIN d = CommandFields /\ d.pc = label /\ d.cmd = c.cmd /\ d.vm = c.vm
      /\ d.arg = c.arg /\ d.reg = c.reg
  BY <1>1 DEF CommandFields
<1>3. cli'[p] = d /\ DOMAIN cli' = {p}
  BY <1>1 DEF NodesInv
<1> HIDE DEF d
<1>4. TargetOf(d) = TargetOf(c)
  BY <1>2 DEF TargetOf
<1>5. CommandRecord(d, file', qemu')
  BY <1>2, <1>4 DEF NodesInv, CommandRecord, BesideQemu
<1> QED  BY <1>3, <1>5 DEF NodesInv

\* It has its registry with a new entry, of a node that is down or as its process is.
LEMMA Records ==
  ASSUME NEW p, NodesInv(p), NEW n, NEW entry, WithEntry(p, n, entry), UNCHANGED <<file, qemu>>,
         cli[p].pc # "idle", DOMAIN entry = EntryFields,
         ~BesideQemu(cli[p]) \/ cli[p].cmd = "snapshot",
         n \in DOMAIN qemu => entry.qmp = qemu[n].qmp /\ entry.mem = qemu[n].mem
  PROVE  NodesInv(p)'
<1> DEFINE c == cli[p]
           reg == With(c.reg, n, entry)
           d == [c EXCEPT !.pc = "save", !.reg = reg]
<1>1. cli' = [cli EXCEPT ![p] = d] /\ DOMAIN c = CommandFields
  BY DEF WithEntry, NodesInv, CommandRecord
<1>2. DOMAIN reg = DOMAIN c.reg \cup {n} /\ \A m \in DOMAIN c.reg \cup {n} : reg[m] = IF m = n THEN entry ELSE c.reg[m]
  BY DEF With
<1> HIDE DEF reg
<1>3. /\ DOMAIN d = CommandFields /\ d.pc = "save" /\ d.cmd = c.cmd /\ d.vm = c.vm
      /\ d.arg = c.arg /\ d.reg = reg
  BY <1>1 DEF CommandFields
<1>4. cli'[p] = d /\ DOMAIN cli' = {p}
  BY <1>1 DEF NodesInv
<1> HIDE DEF d
<1>5. Entries(reg) /\ Agrees(reg, qemu)
  BY <1>2 DEF NodesInv, CommandRecord, Entries, Agrees
<1>6. TargetOf(d) = TargetOf(c)
  BY <1>3 DEF TargetOf
<1>7. CommandRecord(d, file', qemu')
  BY <1>3, <1>5, <1>6 DEF NodesInv, CommandRecord, BesideQemu
<1> QED  BY <1>4, <1>7 DEF NodesInv

-----------------------------------------------------------------------------
(* The beginning of a command.                                             *)

\* Nothing listens where it would, or there is no QEMU at all, and none is on its way
\* up: the node is down.
LEMMA ProvedDown ==
  ASSUME NEW p, NodesInv(p), NEW n \in DOMAIN file, \A m \in DOMAIN qemu : qemu[m].state # "spawned",
         ~Listening(file[n].qmp) \/ qemu = <<>>
  PROVE  n \notin DOMAIN qemu
BY DEF NodesInv, Agrees, Listening

LEMMA StoppedIsProved ==
  ASSUME NEW port, "Stopped" \in VmLiveness(port)
  PROVE  ~Listening(port) \/ qemu = <<>>
<1> DEFINE answer(probe) ==
      CASE probe = "Answered" -> {"Running"}
        [] probe = "Refused"  -> {"Stopped"}
        [] probe = "TimedOut" -> {"Unknown"} \cup (IF qemu = <<>> THEN {"Stopped"} ELSE {})
<1>1. PICK probe \in QmpProbe(port) : "Stopped" \in answer(probe)
  BY DEF VmLiveness
<1>2. probe \in {"Answered", "Refused", "TimedOut"} /\ (probe = "Refused" => ~Listening(port))
  BY DEF QmpProbe
<1>3. CASE probe = "Answered"
  <2>1. answer(probe) = {"Running"}
    BY <1>3
  <2> QED  BY <1>1, <2>1
<1>4. CASE probe = "TimedOut"
  <2>1. answer(probe) = {"Unknown"} \cup (IF qemu = <<>> THEN {"Stopped"} ELSE {})
    BY <1>4
  <2> QED  BY <1>1, <2>1
<1> QED  BY <1>2, <1>3, <1>4

\* A command begins with what it loads; its registry may be changed on the way.
LEMMA Begins ==
  ASSUME NEW p, NodesInv(p), NEW word, NEW n, NEW arg, NEW reg, NEW label,
         Load(p, word, n, arg, reg, label), UNCHANGED <<file, qemu>>,
         Entries(reg), Agrees(reg, qemu),
         \/ label \in {"launch", "qmp"}
         \/ (IF word = "clone" THEN arg ELSE n) \notin DOMAIN qemu,
         label = "launch" => reg = file /\ n \in DOMAIN file,
         label \in {"seed", "key", "disk"} => word = "create" /\ DOMAIN arg.entry = EntryFields,
         label \in {"mkdir", "overlay", "identity", "ports"} => word = "clone",
         label = "qmp" => word = "snapshot",
         label \in {"qmp", "qemu-img"} => word # "clone" /\ n \in DOMAIN reg
  PROVE  NodesInv(p)'
<1> DEFINE c == [pc |-> label, cmd |-> word, vm |-> n, arg |-> arg, reg |-> reg]
<1>1. cli' = [cli EXCEPT ![p] = c]
  BY DEF Load
<1>2. cli'[p] = c /\ DOMAIN cli' = {p}
  BY <1>1 DEF NodesInv
<1>3. /\ DOMAIN c = CommandFields /\ c.pc = label /\ c.cmd = word /\ c.vm = n
      /\ c.arg = arg /\ c.reg = reg
  BY DEF CommandFields
<1> HIDE DEF c
<1>4. CommandRecord(c, file', qemu')
  BY <1>3 DEF CommandRecord, BesideQemu, TargetOf
<1> QED  BY <1>2, <1>4 DEF NodesInv

\* A command on a node whose QEMU has been shown to be down.
LEMMA BeginsOnStopped ==
  ASSUME NEW p, NodesInv(p), NEW word, NEW n, NEW arg, NEW label,
         Probed(p, word, n, arg, "Stopped", label)
  PROVE  /\ n \in DOMAIN file /\ n \notin DOMAIN qemu /\ UNCHANGED <<file, qemu>>
         /\ Load(p, word, n, arg, file, label)
BY ProvedDown, StoppedIsProved DEF Probed, Load, Has

LEMMA NewEntryFields ==
  ASSUME NEW reg, NEW ask, NEW block, NEW mem, NewEntry(reg, ask, block, mem) # None
  PROVE  DOMAIN NewEntry(reg, ask, block, mem) = EntryFields
BY DEF NewEntry, EntryFields

LEMMA BeginStep ==
  ASSUME NEW p, NodesInv(p), Begin(p)
  PROVE  NodesInv(p)'
<1>0. Entries(file) /\ Agrees(file, qemu)
  BY DEF NodesInv
<1>1. ASSUME NEW n \in Names, NEW own \in OwnKeys, NEW ask \in SshAsked, NEW block \in AdbAsked,
             NEW mem \in Memories, Create(p, n, own, ask, block, mem)
      PROVE  NodesInv(p)'
  <2> DEFINE arg == [own |-> own, entry |-> NewEntry(file, ask, block, mem)]
             label == IF own THEN "seed" ELSE "key"
  <2>1. /\ n \notin DOMAIN file /\ Load(p, "create", n, arg, file, label) /\ UNCHANGED <<file, qemu>>
        /\ DOMAIN arg.entry = EntryFields
    BY <1>1, NewEntryFields DEF Create, Has
  <2>2. n \notin DOMAIN qemu
    BY <1>0, <2>1 DEF Agrees
  <2>3. label \in {"seed", "key"}
    OBVIOUS
  <2> HIDE DEF arg, label
  <2> QED  BY <1>0, <2>1, <2>2, <2>3, Begins
<1>2. ASSUME NEW n \in Names, Start(p, n) PROVE NodesInv(p)'
  BY <1>0, <1>2, BeginsOnStopped, Begins DEF Start
<1>3. ASSUME NEW n \in Names, NEW mem \in Memories, SetMemory(p, n, mem) PROVE NodesInv(p)'
  <2> DEFINE reg == [file EXCEPT ![n].mem = mem]
  <2>1. /\ n \in DOMAIN file /\ Load(p, "set-memory", n, None, reg, "save") /\ UNCHANGED <<file, qemu>>
    BY <1>3 DEF SetMemory, Saving, Has
  <2>2. n \notin DOMAIN qemu
    BY <1>3, <2>1, ProvedDown, StoppedIsProved DEF SetMemory, MemoryMayChange, Load
  <2>3. Entries(reg) /\ Agrees(reg, qemu)
    <3>1. /\ DOMAIN reg = DOMAIN file /\ DOMAIN reg[n] = DOMAIN file[n]
          /\ \A m \in DOMAIN file : m # n => reg[m] = file[m]
      BY <2>1
    <3> HIDE DEF reg
    <3> QED  BY <1>0, <2>1, <2>2, <3>1 DEF Entries, Agrees
  <2> HIDE DEF reg
  <2> QED  BY <2>1, <2>2, <2>3, Begins
<1>4. ASSUME NEW n \in Names, NEW purge \in BOOLEAN, Delete(p, n, purge) PROVE NodesInv(p)'
  <2> DEFINE reg == Without(file, n)
  <2>1. /\ n \in DOMAIN file /\ Load(p, "delete", n, purge, reg, "save") /\ UNCHANGED <<file, qemu>>
    BY <1>4 DEF Delete, Saving, Has
  <2>2. ~Listening(file[n].qmp) \/ qemu = <<>>
    <3>1. PICK probe \in VmLiveness(file[n].qmp) : DeletePlan(n, file[n].qmp, probe)
      BY <1>4 DEF Delete
    <3> QED  BY <3>1, StoppedIsProved DEF DeletePlan
  <2>3. n \notin DOMAIN qemu
    BY <2>1, <2>2, ProvedDown DEF Load
  <2>4. Entries(reg) /\ Agrees(reg, qemu)
    <3>1. DOMAIN reg = DOMAIN file \ {n} /\ \A m \in DOMAIN file \ {n} : reg[m] = file[m]
      BY DEF Without, Restrict
    <3> HIDE DEF reg
    <3> QED  BY <1>0, <2>3, <3>1 DEF Entries, Agrees
  <2> HIDE DEF reg
  <2> QED  BY <2>1, <2>3, <2>4, Begins
<1>5. ASSUME NEW n \in Names, NEW tag \in Tags, Snapshot(p, n, tag) PROVE NodesInv(p)'
  <2>1. CASE Probed(p, "snapshot", n, tag, "Running", "qmp")
    <3>1. n \in DOMAIN file /\ UNCHANGED <<file, qemu>> /\ Load(p, "snapshot", n, tag, file, "qmp")
      BY <2>1 DEF Probed, Has
    <3> QED  BY <1>0, <3>1, Begins
  <2>2. CASE Probed(p, "snapshot", n, tag, "Stopped", "qemu-img")
    BY <1>0, <2>2, BeginsOnStopped, Begins
  <2> QED  BY <1>5, <2>1, <2>2 DEF Snapshot
<1>6. ASSUME NEW n \in Names, NEW tag \in Tags, Restore(p, n, tag) PROVE NodesInv(p)'
  BY <1>0, <1>6, BeginsOnStopped, Begins DEF Restore
<1>7. ASSUME NEW n \in Names, NEW to \in Names, Clone(p, n, to) PROVE NodesInv(p)'
  <2>1. to \notin DOMAIN qemu
    BY <1>0, <1>7 DEF Clone, Has, Agrees
  <2> QED  BY <1>0, <1>7, <2>1, BeginsOnStopped, Begins DEF Clone
<1> QED  BY <1>1, <1>2, <1>3, <1>4, <1>5, <1>6, <1>7 DEF Begin

-----------------------------------------------------------------------------
(* The steps of a command, and the QEMU processes.                         *)

\* The steps that move on, or exit, with the registry they loaded and the QEMU
\* processes as they are.
LEMMA PlainStep ==
  ASSUME NEW p, NodesInv(p),
         \/ CreateKey(p) \/ CreateSeed(p) \/ DeleteForget(p) \/ PurgeDir(p) \/ PurgeKeys(p)
         \/ RestoreApply(p) \/ CloneMkdir(p) \/ CloneOverlay(p) \/ CloneIdentity(p)
         \/ SaveFails(p) \/ Killed(p)
  PROVE  NodesInv(p)'
<1>0. /\ UNCHANGED <<file, qemu>> /\ Entries(file') /\ Agrees(file', qemu') /\ Processes(qemu')
  BY DEF NodesInv, CreateKey, CreateSeed, DeleteForget, PurgeDir, PurgeKeys, RestoreApply,
     CloneMkdir, CloneOverlay, CloneIdentity, SaveFails, Killed
<1>1. CASE cli' = [cli EXCEPT ![p] = Idle]
  BY <1>0, <1>1, Exits
<1>2. CASE CreateKey(p)
  BY <1>0, <1>2, GoesOn DEF CreateKey, At, BesideQemu
<1>3. CASE CreateSeed(p)
  BY <1>0, <1>3, GoesOn DEF CreateSeed, At, BesideQemu
<1>4. CASE PurgeDir(p)
  BY <1>0, <1>4, GoesOn DEF PurgeDir, At, BesideQemu
<1>5. ASSUME At(p, "mkdir") \/ At(p, "overlay") \/ At(p, "identity"),
             GoTo(p, "overlay") \/ GoTo(p, "identity") \/ GoTo(p, "ports")
      PROVE  NodesInv(p)'
  <2>1. cli[p].cmd = "clone" /\ cli[p].pc # "idle" /\ ~BesideQemu(cli[p])
    BY <1>5 DEF At, NodesInv, CommandRecord, BesideQemu
  <2> QED  BY <1>0, <1>5, <2>1, GoesOn
<1>6. CASE SaveFails(p)
  BY <1>0, <1>6, GoesOn DEF SaveFails, At, BesideQemu
<1> QED  BY <1>1, <1>2, <1>3, <1>4, <1>5, <1>6
         DEF DeleteForget, PurgeKeys, RestoreApply, CloneMkdir, CloneOverlay, CloneIdentity,
             Killed, Exit

\* The steps that put an entry into the registry in memory.
LEMMA EntryStep ==
  ASSUME NEW p, NodesInv(p),
         CreateDisk(p) \/ SnapshotByQemuImg(p) \/ SnapshotByQmp(p) \/ ClonePorts(p)
  PROVE  NodesInv(p)'
<1>1. CASE CreateDisk(p)
  <2>1. /\ cli[p].pc = "disk" /\ UNCHANGED <<file, qemu>>
        /\ WithEntry(p, cli[p].vm, cli[p].arg.entry)
    BY <1>1 DEF CreateDisk, At
  <2>2. /\ DOMAIN cli[p].arg.entry = EntryFields /\ cli[p].vm \notin DOMAIN qemu
        /\ ~BesideQemu(cli[p])
    BY <2>1 DEF NodesInv, CommandRecord, BesideQemu, TargetOf
  <2> QED  BY <2>1, <2>2, Records
<1>2. CASE SnapshotByQemuImg(p) \/ SnapshotByQmp(p)
  <2> DEFINE n == cli[p].vm
             old == cli[p].reg[n]
             entry == [old EXCEPT !.snaps = @ \cup {cli[p].arg}]
  <2>1. /\ cli[p].pc \in {"qmp", "qemu-img"} /\ UNCHANGED <<file, qemu>>
        /\ cli[p].pc = "qemu-img" => cli[p].cmd = "snapshot"
        /\ WithEntry(p, n, entry)
    BY <1>2 DEF SnapshotByQemuImg, SnapshotByQmp, RegisterSnapshot, At
  <2>2. /\ n \in DOMAIN cli[p].reg /\ cli[p].cmd = "snapshot"
        /\ Entries(cli[p].reg) /\ Agrees(cli[p].reg, qemu)
    BY <2>1 DEF NodesInv, CommandRecord
  <2>3. DOMAIN old = EntryFields
    BY <2>2 DEF Entries
  <2>4. n \in DOMAIN qemu => old.qmp = qemu[n].qmp /\ old.mem = qemu[n].mem
    BY <2>2 DEF Agrees
  <2> HIDE DEF old
  <2>5. DOMAIN entry = EntryFields /\ entry.qmp = old.qmp /\ entry.mem = old.mem
    BY <2>3 DEF EntryFields
  <2> HIDE DEF entry, n
  <2> QED  BY <2>1, <2>2, <2>4, <2>5, Records
<1>3. CASE ClonePorts(p)
  <2>1. cli[p].pc = "ports" /\ UNCHANGED <<file, qemu>>
    BY <1>3 DEF ClonePorts, At
  <2>2. cli[p].cmd = "clone" /\ Target(p) \notin DOMAIN qemu /\ ~BesideQemu(cli[p])
    BY <2>1 DEF NodesInv, CommandRecord, BesideQemu, TargetOf, Target
  <2>3. CASE GoTo(p, "purge")
    BY <2>1, <2>2, <2>3, GoesOn DEF NodesInv
  <2>4. ASSUME NEW entry, DOMAIN entry = EntryFields, WithEntry(p, Target(p), entry)
        PROVE  NodesInv(p)'
    BY <2>1, <2>2, <2>4, Records
  <2> QED  BY <1>3, <2>3, <2>4, NewEntryFields DEF ClonePorts
<1> QED  BY <1>1, <1>2, <1>3

\* What is started is what the file says.
LEMMA StartLaunchStep ==
  ASSUME NEW p, NodesInv(p), StartLaunch(p)
  PROVE  NodesInv(p)'
<1> DEFINE n == cli[p].vm
           e == cli[p].reg[n]
           row == [state |-> "spawned", qmp |-> e.qmp, mem |-> e.mem]
<1>1. /\ cli[p].pc = "launch" /\ UNCHANGED file /\ cli' = [cli EXCEPT ![p] = Idle]
      /\ qemu' = With(qemu, n, row) \/ qemu' = qemu
  BY DEF StartLaunch, At, Exit
<1>2. e = file[n] /\ n \in DOMAIN file /\ Entries(file) /\ Agrees(file, qemu) /\ Processes(qemu)
  BY <1>1 DEF NodesInv, CommandRecord
<1>3. row.qmp = e.qmp /\ row.mem = e.mem /\ DOMAIN row = {"state", "qmp", "mem"}
  OBVIOUS
<1> HIDE DEF row, e, n
<1>4. CASE qemu' = With(qemu, n, row)
  <2>1. DOMAIN qemu' = DOMAIN qemu \cup {n} /\ \A m \in DOMAIN qemu \cup {n} : qemu'[m] = IF m = n THEN row ELSE qemu[m]
    BY <1>4 DEF With
  <2>2. Entries(file') /\ Agrees(file', qemu') /\ Processes(qemu')
    BY <1>1, <1>2, <1>3, <2>1 DEF Agrees, Processes
  <2> QED  BY <1>1, <2>2, Exits
<1>5. CASE qemu' = qemu
  BY <1>1, <1>2, <1>5, Exits
<1> QED  BY <1>1, <1>4, <1>5

\* What is saved is what the command has made of the registry.
LEMMA SaveStep ==
  ASSUME NEW p, NodesInv(p), SaveRegistry(p)
  PROVE  NodesInv(p)'
<1>1. /\ cli[p].pc = "save" /\ file' = cli[p].reg /\ UNCHANGED qemu
      /\ Entries(file') /\ Agrees(file', qemu') /\ Processes(qemu')
  BY DEF SaveRegistry, At, NodesInv, CommandRecord
<1>2. CASE cli' = [cli EXCEPT ![p] = Idle]
  BY <1>1, <1>2, Exits
<1>3. CASE cli[p].cmd = "delete" /\ (GoTo(p, "purge") \/ GoTo(p, "forget"))
  BY <1>1, <1>3, GoesOn DEF BesideQemu
<1> QED  BY <1>2, <1>3 DEF SaveRegistry, AfterSave, Exit

\* QEMU comes up, or goes.
LEMMA QemuStep ==
  ASSUME NEW p, NodesInv(p), NEW n, QemuBoots(n) \/ QemuExits(n)
  PROVE  NodesInv(p)'
<1>1. /\ UNCHANGED <<file, cli>> /\ DOMAIN qemu' \subseteq DOMAIN qemu
      /\ \A m \in DOMAIN qemu' : /\ DOMAIN qemu'[m] = {"state", "qmp", "mem"}
                                 /\ qemu'[m].qmp = qemu[m].qmp /\ qemu'[m].mem = qemu[m].mem
  <2>1. CASE QemuBoots(n)
    BY <2>1 DEF QemuBoots, Has, NodesInv, Processes
  <2>2. CASE QemuExits(n)
    BY <2>2 DEF QemuExits, Without, Restrict, NodesInv, Processes
  <2> QED  BY <2>1, <2>2
<1>2. ASSUME NEW reg, Agrees(reg, qemu) PROVE Agrees(reg, qemu')
  BY <1>1, <1>2 DEF Agrees
<1>3. CommandRecord(cli[p], file, qemu')
  BY <1>1, <1>2 DEF NodesInv, CommandRecord
<1> QED  BY <1>1, <1>2, <1>3 DEF NodesInv, Processes

-----------------------------------------------------------------------------
LEMMA NodesInvInit ==
  ASSUME NEW p, Procs = {p}, Init
  PROVE  NodesInv(p)
<1>1. cli[p].pc = "idle" /\ DOMAIN cli = {p} /\ file = <<>> /\ qemu = <<>>
  BY DEF Init, Idle
<1> QED  BY <1>1 DEF NodesInv, Entries, Agrees, Processes, CommandRecord

LEMMA NodesInvStep ==
  ASSUME NEW p, Procs = {p}, NodesInv(p), [Next]_vars
  PROVE  NodesInv(p)'
<1>1. CASE Begin(p)
  BY <1>1, BeginStep
<1>2. CASE Step(p)
  BY <1>2, PlainStep, EntryStep, StartLaunchStep, SaveStep DEF Step
<1>3. ASSUME NEW n \in Names, QemuBoots(n) \/ QemuExits(n) PROVE NodesInv(p)'
  BY <1>3, QemuStep
<1>4. CASE UNCHANGED vars
  BY <1>4 DEF vars, NodesInv
<1> QED  BY <1>1, <1>2, <1>3, <1>4 DEF Next

\* As long as one command runs at a time, and wherever one is killed: no qemu-img and no
\* removal comes upon a disk that a QEMU process has, and each such process is
\* registered, with the port and the memory it has.
THEOREM DisksUntouched ==
  ASSUME NEW p, Procs = {p}
  PROVE  Spec => [](LiveDiskUntouched /\ LiveNodesMatchRegistry)
<1>1. Init => NodesInv(p)
  BY NodesInvInit
<1>2. NodesInv(p) /\ [Next]_vars => NodesInv(p)'
  BY NodesInvStep
<1>3. NodesInv(p) => LiveDiskUntouched /\ LiveNodesMatchRegistry
  <2>1. ASSUME NodesInv(p), cli[p].pc \in {"qemu-img", "disk", "purge"} PROVE ~Has(qemu, Target(p))
    BY <2>1 DEF NodesInv, CommandRecord, BesideQemu, TargetOf, Target, Has
  <2> QED  BY <2>1 DEF NodesInv, Agrees, LiveDiskUntouched, LiveNodesMatchRegistry, Has
<1> QED  BY <1>1, <1>2, <1>3, PTL DEF Spec
-----------------------------------------------------------------------------
(* What the registry says of ports, disks and keys.                        *)

Typed(reg) == DOMAIN reg \subseteq Names /\ \A n \in DOMAIN reg : reg[n] \in Entry

\* The ports of an entry are all different, none is reserved, and none is a neighbour's.
Alone(e)     == e.ssh # e.qmp /\ {e.ssh, e.qmp} \cap e.adb = {} /\ NodePorts(e) \cap Reserved = {}
Fits(e, reg) == Alone(e) /\ \A m \in DOMAIN reg : NodePorts(e) \cap NodePorts(reg[m]) = {}
Apart(reg) ==
  \A n \in DOMAIN reg :
    Alone(reg[n]) /\ \A m \in DOMAIN reg \ {n} : NodePorts(reg[n]) \cap NodePorts(reg[m]) = {}

\* A guest that accepts the key k can be reached under the name n.
Opens(ks, n, k) == k \in {None, Operators} \/ (n \in DOMAIN ks /\ ks[n] = k)

\* A node with a disk, whose guest can be reached: as it is, after its first boot and with
\* any of its snapshots applied.
Sound(d, ks, n) ==
  /\ n \in DOMAIN d /\ d[n].disk # None
  /\ Opens(ks, n, d[n].seed) /\ Opens(ks, n, d[n].disk.key)
  /\ \A t \in DOMAIN d[n].disk.snaps : Opens(ks, n, d[n].disk.snaps[t])

Building == {"key", "seed", "disk"}
Cloning  == {"mkdir", "overlay", "identity", "ports"}
Purging  == {"purge", "purgeKeys"}

\* What a command has made so far of the node it is about, which nobody else has: it is
\* in no registry before the command's own is saved, and in none once it is purged.
Progress(c, reg, d, ks) ==
  /\ c.pc \in {"launch", "qmp", "qemu-img"} \cup Building \cup Cloning => c.reg = reg
  /\ c.pc \in Building \cup Cloning \cup Purging => TargetOf(c) \notin DOMAIN reg
  /\ c.pc = "save" =>
       /\ \A n \in DOMAIN c.reg : Sound(d, ks, n)
       /\ c.cmd = "clone" => c.arg \notin DOMAIN reg
       /\ c.cmd = "delete" => c.vm \notin DOMAIN c.reg
  /\ c.pc \in Building => c.arg.entry \in Entry /\ Fits(c.arg.entry, reg)
  /\ c.pc = "seed" => c.arg.own \/ c.vm \in DOMAIN ks
  /\ c.pc = "disk" => c.vm \in DOMAIN d /\ Opens(ks, c.vm, d[c.vm].seed)
  /\ c.pc \in Cloning => c.vm \in DOMAIN reg
  /\ c.pc \in {"overlay", "identity"} => c.arg \in DOMAIN d /\ d[c.arg].seed = None
  /\ c.pc = "identity" => /\ d[c.arg].disk # None /\ DOMAIN d[c.arg].disk.snaps = {}
                          /\ Opens(ks, c.vm, d[c.arg].disk.key)
  /\ c.pc = "ports" => Sound(d, ks, c.arg)

CommandTypes(c) ==
  /\ c.pc \in Labels /\ c.cmd \in Commands /\ c.vm \in Names
  /\ Typed(c.reg) /\ Apart(c.reg)
  /\ c.cmd = "clone" => c.arg \in Names
  /\ c.cmd = "snapshot" => c.arg \in Tags

HostTypes ==
  /\ DOMAIN dir \subseteq Names  /\ \A n \in DOMAIN dir : dir[n] \in Node
  /\ DOMAIN keys \subseteq Names /\ \A n \in DOMAIN keys : keys[n] \in KeyIds
  /\ made \in KeyIds
  /\ DOMAIN qemu \subseteq Names
  /\ \A n \in DOMAIN qemu : qemu[n] \in [state : {"spawned", "up"}, qmp : Ports, mem : Memories]

TruthInv(p) ==
  /\ HostTypes /\ Typed(file) /\ Apart(file)
  /\ \A n \in DOMAIN file : Sound(dir, keys, n)
  /\ cli[p].pc # "idle" => CommandTypes(cli[p]) /\ Progress(cli[p], file, dir, keys)

-----------------------------------------------------------------------------
(* Ports.                                                                  *)

LEMMA FreePortFacts ==
  ASSUME NEW used, NEW base \in Ports, NextFreePort(used, base) # None
  PROVE  NextFreePort(used, base) \in Ports \ (used \cup Reserved)
<1> DEFINE S == (base..MaxPort) \ (used \cup Reserved)
<1>1. S # {} /\ NextFreePort(used, base) = Min(S)
  BY DEF NextFreePort, Least
<1>2. S \in SUBSET Nat /\ S \subseteq Ports \ (used \cup Reserved)
  BY QemuAssumption DEF Ports
<1> HIDE DEF S
<1> QED  BY <1>1, <1>2, MinFacts

LEMMA PortBlockFacts ==
  ASSUME NEW used, NEW base \in Ports, NEW count \in Nat, AllocatePortBlock(used, base, count) # None
  PROVE  AllocatePortBlock(used, base, count) \in SUBSET (Ports \ (used \cup Reserved))
<1> DEFINE fits(s) == s + count - 1 <= MaxPort /\ Block(s, count) \cap (used \cup Reserved) = {}
           S == {s \in base..MaxPort : fits(s)}
<1>1. S # {} /\ count # 0 /\ AllocatePortBlock(used, base, count) = Block(Min(S), count)
  BY DEF AllocatePortBlock, Least
<1>2. S \in SUBSET Nat
  BY QemuAssumption DEF Ports
<1>3. PICK s \in S : s = Min(S)
  BY <1>1, <1>2, MinFacts
<1>4. s \in Nat /\ s + count - 1 <= MaxPort /\ Block(s, count) \cap (used \cup Reserved) = {}
  BY <1>2, <1>3
<1>5. Block(s, count) \in SUBSET Ports
  BY <1>1, <1>4, QemuAssumption DEF Block, Ports
<1> QED  BY <1>1, <1>3, <1>4, <1>5

LEMMA PortSets == \A S \in SUBSET Ports : IsFiniteSet(S) /\ Cardinality(S) \in Nat
<1>1. IsFiniteSet(Ports)
  BY QemuAssumption, FS_Interval DEF Ports
<1> QED  BY <1>1, FS_Subset, FS_CardinalityType

\* create and clone: the new entry has ports of its own.
LEMMA NewEntryFacts ==
  ASSUME NEW reg, Typed(reg), NEW ask \in Ports \cup {None}, NEW block, block[1] \in Ports,
         block[2] \in Nat, NEW mem \in Memories, NewEntry(reg, ask, block, mem) # None
  PROVE  LET e == NewEntry(reg, ask, block, mem) IN e \in Entry /\ Fits(e, reg)
<1>0. PICK base \in Ports, count \in Nat : base = block[1] /\ count = block[2]
  OBVIOUS
<1> DEFINE used == UsedPorts(reg)
           ssh  == IF ask = None THEN NextFreePort(used, SshBase)
                   ELSE IF ask \in used \cup Reserved THEN None ELSE ask
           qmp  == NextFreePort(used \cup {ssh}, QmpBase)
           adb  == AllocatePortBlock(used \cup {ssh, qmp}, base, count)
           e    == NewEntry(reg, ask, block, mem)
<1>1. /\ ssh # None /\ qmp # None /\ adb # None
      /\ e = [ssh |-> ssh, qmp |-> qmp, adb |-> adb, mem |-> mem, snaps |-> {}]
  BY <1>0 DEF NewEntry
<1>2. SshBase \in Ports /\ QmpBase \in Ports
  BY QemuAssumption
<1>3. ssh \in Ports \ (used \cup Reserved)
  BY <1>1, <1>2, FreePortFacts
<1>4. qmp \in Ports \ (used \cup {ssh} \cup Reserved)
  BY <1>1, <1>2, FreePortFacts
<1>5. adb \in SUBSET (Ports \ (used \cup {ssh, qmp} \cup Reserved))
  BY <1>1, PortBlockFacts
<1>6. \A m \in DOMAIN reg : NodePorts(reg[m]) \subseteq used
  BY DEF UsedPorts, NodePorts
<1> HIDE DEF used, ssh, qmp, adb, e
<1>7. e.ssh = ssh /\ e.qmp = qmp /\ e.adb = adb /\ e \in Entry
  BY <1>1, <1>3, <1>4, <1>5 DEF Entry
<1>8. NodePorts(e) = {ssh, qmp} \cup adb
  BY <1>7 DEF NodePorts
<1>9. Alone(e) /\ NodePorts(e) \cap used = {}
  BY <1>3, <1>4, <1>5, <1>7, <1>8 DEF Alone
<1>10. Fits(e, reg)
  BY <1>6, <1>9 DEF Fits
<1> QED  BY <1>7, <1>10 DEF e

LEMMA AloneIsCounted ==
  ASSUME NEW e \in Entry, Alone(e)
  PROVE  Cardinality(NodePorts(e)) = Cardinality(e.adb) + 2
<1>1. e.adb \in SUBSET Ports /\ e.ssh \in Ports /\ e.qmp \in Ports
  BY DEF Entry
<1>2. IsFiniteSet(e.adb) /\ Cardinality(e.adb) \in Nat
  BY <1>1, PortSets
<1>3. e.qmp \notin e.adb /\ e.ssh \notin e.adb \cup {e.qmp}
  BY DEF Alone
<1>4. IsFiniteSet(e.adb \cup {e.qmp}) /\ Cardinality(e.adb \cup {e.qmp}) = Cardinality(e.adb) + 1
  BY <1>2, <1>3, FS_AddElement
<1>5. Cardinality((e.adb \cup {e.qmp}) \cup {e.ssh}) = Cardinality(e.adb \cup {e.qmp}) + 1
  BY <1>3, <1>4, FS_AddElement
<1>6. NodePorts(e) = (e.adb \cup {e.qmp}) \cup {e.ssh}
  BY DEF NodePorts
<1> QED  BY <1>2, <1>4, <1>5, <1>6

\* A registry of fewer nodes, or with something else than ports changed, is as good.
LEMMA ApartSub ==
  ASSUME NEW reg, NEW less, Apart(reg), DOMAIN less \subseteq DOMAIN reg,
         \A n \in DOMAIN less : /\ less[n].ssh = reg[n].ssh /\ less[n].qmp = reg[n].qmp
                               /\ less[n].adb = reg[n].adb
  PROVE  Apart(less)
<1>1. \A n \in DOMAIN less : NodePorts(less[n]) = NodePorts(reg[n]) /\ Alone(less[n])
  BY DEF Apart, Alone, NodePorts
<1> QED  BY <1>1 DEF Apart

LEMMA ApartWith ==
  ASSUME NEW reg, NEW n, NEW e, n \notin DOMAIN reg, Apart(reg), Fits(e, reg)
  PROVE  Apart(With(reg, n, e))
<1> DEFINE more == With(reg, n, e)
<1>1. DOMAIN more = DOMAIN reg \cup {n} /\ more[n] = e /\ \A m \in DOMAIN reg : more[m] = reg[m]
  BY DEF With
<1> HIDE DEF more
<1>2. \A m \in DOMAIN reg : NodePorts(e) \cap NodePorts(reg[m]) = {}
  BY DEF Fits
<1>3. ASSUME NEW a \in DOMAIN more PROVE Alone(more[a])
  BY <1>1 DEF Apart, Fits
<1>4. ASSUME NEW a \in DOMAIN more, NEW b \in DOMAIN more \ {a}
      PROVE  NodePorts(more[a]) \cap NodePorts(more[b]) = {}
  <2>1. CASE a = n
    BY <1>1, <1>2, <2>1
  <2>2. CASE b = n
    BY <1>1, <1>2, <2>2
  <2>3. CASE a # n /\ b # n
    BY <1>1, <2>3 DEF Apart
  <2> QED  BY <2>1, <2>2, <2>3
<1> QED  BY <1>3, <1>4 DEF Apart, more

-----------------------------------------------------------------------------
(* Disks and keys.                                                         *)

\* A node stays sound while its disk and its key are left alone.
LEMMA SoundStays ==
  ASSUME NEW d, NEW ks, NEW d2, NEW ks2, NEW n, Sound(d, ks, n),
         n \in DOMAIN d2 /\ d2[n].disk = d[n].disk /\ d2[n].seed = d[n].seed,
         n \in DOMAIN ks => n \in DOMAIN ks2 /\ ks2[n] = ks[n]
  PROVE  Sound(d2, ks2, n)
BY DEF Sound, Opens

\* With every node of the file sound, nobody but a command that makes a node of its own, or
\* the guest, has to look at a disk.
LEMMA AllSoundStay ==
  ASSUME NEW names, NEW d2, NEW ks2, \A n \in names : Sound(dir, keys, n),
         \A n \in names : n \in DOMAIN dir => n \in DOMAIN d2 /\ d2[n].disk = dir[n].disk /\ d2[n].seed = dir[n].seed,
         \A n \in names : n \in DOMAIN keys => n \in DOMAIN ks2 /\ ks2[n] = keys[n]
  PROVE  \A n \in names : Sound(d2, ks2, n)
<1>1. ASSUME NEW n \in names PROVE Sound(d2, ks2, n)
  <2>1. Sound(dir, keys, n) /\ n \in DOMAIN dir
    BY DEF Sound
  <2> QED  BY <2>1, SoundStays
<1> QED  BY <1>1

LEMMA NodeFields ==
  ASSUME NEW d \in Node
  PROVE  /\ d.disk \in Disk \cup {None} /\ d.seed \in KeyIds \cup {None} /\ d.pid \in {"none", "live", "dead"}
         /\ DOMAIN d = {"disk", "seed", "pid"}
         /\ d.disk # None => /\ DOMAIN d.disk = {"key", "snaps"} /\ d.disk.key \in KeyIds \cup {None}
                             /\ DOMAIN d.disk.snaps \subseteq Tags
                             /\ \A t \in DOMAIN d.disk.snaps : d.disk.snaps[t] \in KeyIds \cup {None}
BY DEF Node, Disk

\* Another disk, seed image or pid record in a node's directory.
LEMMA NodeUpdates ==
  ASSUME NEW d \in Node
  PROVE  /\ \A x \in Disk \cup {None} : LET e == [d EXCEPT !.disk = x] IN
              e \in Node /\ e.disk = x /\ e.seed = d.seed
         /\ \A x \in KeyIds \cup {None} : LET e == [d EXCEPT !.seed = x] IN
              e \in Node /\ e.disk = d.disk /\ e.seed = x
         /\ \A x \in {"none", "live", "dead"} : LET e == [d EXCEPT !.pid = x] IN
              e \in Node /\ e.disk = d.disk /\ e.seed = d.seed
BY DEF Node

\* A disk is a disk: with nothing on it, with another key, and with another snapshot.
LEMMA DiskFacts ==
  /\ NewNode \in Node /\ NewNode.disk = None /\ NewNode.seed = None
  /\ \A k \in KeyIds \cup {None} : LET e == [key |-> k, snaps |-> <<>>] IN
       e \in Disk /\ e # None /\ e.key = k /\ DOMAIN e.snaps = {}
  /\ \A e \in Disk : e # None
<1>1. NewNode \in Node /\ NewNode.disk = None /\ NewNode.seed = None
  BY DEF NewNode, Node
<1>2. \A e \in Disk : e # None
  BY QemuAssumption
<1>3. <<>> \in [{} -> KeyIds \cup {None}] /\ DOMAIN <<>> = {}
  OBVIOUS
<1>4. <<>> \in UNION {[S -> KeyIds \cup {None}] : S \in SUBSET Tags}
  BY <1>3
<1>5. ASSUME NEW k \in KeyIds \cup {None}, NEW s \in UNION {[S -> KeyIds \cup {None}] : S \in SUBSET Tags}
      PROVE  LET e == [key |-> k, snaps |-> s] IN e \in Disk /\ e.key = k /\ e.snaps = s
  BY <1>5 DEF Disk
<1> QED  BY <1>1, <1>2, <1>3, <1>4, <1>5

LEMMA DiskKeyed ==
  ASSUME NEW e \in Disk, NEW k \in KeyIds \cup {None}
  PROVE  LET f == [e EXCEPT !.key = k] IN f \in Disk /\ f.key = k /\ f.snaps = e.snaps
BY DEF Disk

Snapshots == UNION {[S -> KeyIds \cup {None}] : S \in SUBSET Tags}

LEMMA DiskSnapped ==
  ASSUME NEW e \in Disk, NEW tag \in Tags, NEW k \in KeyIds \cup {None}
  PROVE  LET s == With(e.snaps, tag, k) IN
           /\ s \in Snapshots /\ DOMAIN s = DOMAIN e.snaps \cup {tag}
           /\ \A t \in DOMAIN s : s[t] = IF t = tag THEN k ELSE e.snaps[t]
<1>1. PICK S \in SUBSET Tags : e.snaps \in [S -> KeyIds \cup {None}]
  BY DEF Disk
<1> DEFINE s == With(e.snaps, tag, k)
<1>2. s \in [S \cup {tag} -> KeyIds \cup {None}]
  BY <1>1 DEF With
<1>3. s \in Snapshots
  BY <1>2 DEF Snapshots
<1>4. /\ DOMAIN s = DOMAIN e.snaps \cup {tag}
      /\ \A t \in DOMAIN s : s[t] = IF t = tag THEN k ELSE e.snaps[t]
  BY DEF With
<1> QED  BY <1>3, <1>4

LEMMA DiskResnapped ==
  ASSUME NEW e \in Disk, NEW s \in Snapshots
  PROVE  LET f == [e EXCEPT !.snaps = s] IN f \in Disk /\ f.key = e.key /\ f.snaps = s
BY DEF Disk, Snapshots

-----------------------------------------------------------------------------
(* The record of a command, after a step.                                  *)

LEMMA MovedOn ==
  ASSUME NEW p, NodesInv(p), cli[p].pc # "idle", NEW label, GoTo(p, label)
  PROVE  /\ cli'[p].pc = label /\ cli'[p].cmd = cli[p].cmd /\ cli'[p].vm = cli[p].vm
         /\ cli'[p].arg = cli[p].arg /\ cli'[p].reg = cli[p].reg /\ TargetOf(cli'[p]) = TargetOf(cli[p])
<1>1. DOMAIN cli[p] = CommandFields /\ DOMAIN cli = {p}
  BY DEF NodesInv, CommandRecord
<1>2. cli'[p] = [cli[p] EXCEPT !.pc = label]
  BY <1>1 DEF GoTo
<1> QED  BY <1>1, <1>2 DEF CommandFields, TargetOf

LEMMA Recorded ==
  ASSUME NEW p, NodesInv(p), cli[p].pc # "idle", NEW n, NEW entry, WithEntry(p, n, entry)
  PROVE  /\ cli'[p].pc = "save" /\ cli'[p].cmd = cli[p].cmd /\ cli'[p].vm = cli[p].vm
         /\ cli'[p].arg = cli[p].arg /\ cli'[p].reg = With(cli[p].reg, n, entry)
<1> DEFINE reg == With(cli[p].reg, n, entry)
<1>1. DOMAIN cli[p] = CommandFields /\ DOMAIN cli = {p}
  BY DEF NodesInv, CommandRecord
<1>2. cli'[p] = [cli[p] EXCEPT !.pc = "save", !.reg = reg]
  BY <1>1 DEF WithEntry
<1> HIDE DEF reg
<1>3. cli'[p].reg = reg
  BY <1>1, <1>2 DEF CommandFields
<1> QED  BY <1>1, <1>2, <1>3 DEF CommandFields, reg

LEMMA Loaded ==
  ASSUME NEW p, NodesInv(p), NEW word, NEW n, NEW arg, NEW reg, NEW label, Load(p, word, n, arg, reg, label)
  PROVE  /\ cli'[p].pc = label /\ cli'[p].cmd = word /\ cli'[p].vm = n
         /\ cli'[p].arg = arg /\ cli'[p].reg = reg /\ TargetOf(cli'[p]) = IF word = "clone" THEN arg ELSE n
<1>1. cli'[p] = [pc |-> label, cmd |-> word, vm |-> n, arg |-> arg, reg |-> reg]
  BY DEF Load, NodesInv
<1> QED  BY <1>1 DEF TargetOf

LEMMA Ended ==
  ASSUME NEW p, NodesInv(p), Exit(p)
  PROVE  cli'[p].pc = "idle"
BY DEF NodesInv, Exit, Idle

-----------------------------------------------------------------------------
(* A command begins.                                                       *)

LEMMA BeginsTruly ==
  ASSUME NEW p, NodesInv(p), TruthInv(p), NEW word \in Commands, NEW n \in Names, NEW arg, NEW reg,
         NEW label \in {"launch", "qmp", "qemu-img", "key", "seed", "mkdir", "save"},
         Load(p, word, n, arg, reg, label), UNCHANGED <<file, dir, keys, made, qemu>>,
         Typed(reg), Apart(reg), DOMAIN reg \subseteq DOMAIN file,
         word = "clone" => label = "mkdir" /\ arg \in Names,
         word = "snapshot" => arg \in Tags,
         label # "save" => reg = file,
         label \in {"key", "seed"} => word = "create" /\ n \notin DOMAIN file
                                       /\ arg.entry \in Entry /\ Fits(arg.entry, file),
         label = "seed" => arg.own,
         label = "mkdir" => word = "clone" /\ n \in DOMAIN file /\ arg \notin DOMAIN file,
         word = "delete" => n \notin DOMAIN reg
  PROVE  TruthInv(p)'
<1>1. /\ cli'[p].pc = label /\ cli'[p].cmd = word /\ cli'[p].vm = n
      /\ cli'[p].arg = arg /\ cli'[p].reg = reg /\ TargetOf(cli'[p]) = IF word = "clone" THEN arg ELSE n
  BY Loaded
<1>2. HostTypes /\ Typed(file) /\ Apart(file) /\ \A m \in DOMAIN file : Sound(dir, keys, m)
  BY DEF TruthInv
<1>3. HostTypes' /\ Typed(file') /\ Apart(file') /\ \A m \in DOMAIN file' : Sound(dir', keys', m)
  BY <1>2 DEF HostTypes
<1>4. CommandTypes(cli'[p])
  BY <1>1 DEF CommandTypes, Labels
<1>5. Progress(cli'[p], file', dir', keys')
  BY <1>1, <1>2 DEF Progress, Building, Cloning, Purging
<1> QED  BY <1>3, <1>4, <1>5 DEF TruthInv

LEMMA BeginTruth ==
  ASSUME NEW p, NodesInv(p), TruthInv(p), Begin(p)
  PROVE  TruthInv(p)'
<1>0. Typed(file) /\ Apart(file) /\ DOMAIN file \subseteq Names
  BY DEF TruthInv, Typed
<1>1. ASSUME NEW n \in Names, NEW own \in OwnKeys, NEW ask \in SshAsked, NEW block \in AdbAsked,
             NEW mem \in Memories, Create(p, n, own, ask, block, mem)
      PROVE  TruthInv(p)'
  <2> DEFINE entry == NewEntry(file, ask, block, mem)
             arg == [own |-> own, entry |-> entry]
             label == IF own THEN "seed" ELSE "key"
  <2>1. /\ n \notin DOMAIN file /\ Load(p, "create", n, arg, file, label)
        /\ UNCHANGED <<file, dir, keys, made, qemu>> /\ entry # None
    BY <1>1 DEF Create, Has
  <2>2. ask \in Ports \cup {None} /\ block[1] \in Ports /\ block[2] \in Nat
    BY QemuAssumption DEF Ports
  <2>3. entry \in Entry /\ Fits(entry, file)
    BY <1>0, <2>1, <2>2, NewEntryFacts
  <2> HIDE DEF entry
  <2>4. arg.entry = entry /\ arg.own = own /\ label \in {"seed", "key"} /\ (label = "seed" => own)
    OBVIOUS
  <2> HIDE DEF arg, label
  <2>5. "create" \in Commands
    BY DEF Commands
  <2> QED  BY <1>0, <2>1, <2>3, <2>4, <2>5, BeginsTruly
<1>2. ASSUME NEW n \in Names, Start(p, n) PROVE TruthInv(p)'
  <2>1. Load(p, "start", n, None, file, "launch") /\ UNCHANGED <<file, dir, keys, made, qemu>> /\ "start" \in Commands
    BY <1>2 DEF Start, Probed, Commands
  <2> QED  BY <1>0, <2>1, BeginsTruly
<1>3. ASSUME NEW n \in Names, NEW mem \in Memories, SetMemory(p, n, mem) PROVE TruthInv(p)'
  <2> DEFINE reg == [file EXCEPT ![n].mem = mem]
  <2>1. /\ n \in DOMAIN file /\ Load(p, "set-memory", n, None, reg, "save")
        /\ UNCHANGED <<file, dir, keys, made, qemu>> /\ "set-memory" \in Commands
    BY <1>3 DEF SetMemory, Saving, Has, Commands
  <2>2. file[n] \in Entry
    BY <1>0, <2>1 DEF Typed
  <2> DEFINE e == [file[n] EXCEPT !.mem = mem]
  <2>3. e \in Entry /\ e.ssh = file[n].ssh /\ e.qmp = file[n].qmp /\ e.adb = file[n].adb
    BY <2>2 DEF Entry
  <2>4. DOMAIN reg = DOMAIN file /\ \A m \in DOMAIN file : reg[m] = IF m = n THEN e ELSE file[m]
    BY <2>1
  <2> HIDE DEF reg, e
  <2>5. Typed(reg)
    BY <1>0, <2>3, <2>4 DEF Typed
  <2>6. Apart(reg)
    BY <1>0, <2>3, <2>4, ApartSub
  <2> QED  BY <2>1, <2>4, <2>5, <2>6, BeginsTruly
<1>4. ASSUME NEW n \in Names, NEW purge \in BOOLEAN, Delete(p, n, purge) PROVE TruthInv(p)'
  <2> DEFINE reg == Without(file, n)
  <2>1. /\ Load(p, "delete", n, purge, reg, "save")
        /\ UNCHANGED <<file, dir, keys, made, qemu>> /\ "delete" \in Commands
    BY <1>4 DEF Delete, Saving, Has, Commands
  <2>2. DOMAIN reg = DOMAIN file \ {n} /\ \A m \in DOMAIN file \ {n} : reg[m] = file[m]
    BY DEF Without, Restrict
  <2> HIDE DEF reg
  <2>3. Typed(reg)
    BY <1>0, <2>2 DEF Typed
  <2>4. Apart(reg)
    BY <1>0, <2>2, ApartSub
  <2> QED  BY <2>1, <2>2, <2>3, <2>4, BeginsTruly
<1>5. ASSUME NEW n \in Names, NEW tag \in Tags, Snapshot(p, n, tag) PROVE TruthInv(p)'
  <2>1. PICK label \in {"qmp", "qemu-img"} : /\ Load(p, "snapshot", n, tag, file, label)
                                             /\ UNCHANGED <<file, dir, keys, made, qemu>>
    BY <1>5 DEF Snapshot, Probed
  <2> QED  BY <1>0, <2>1, BeginsTruly DEF Commands
<1>6. ASSUME NEW n \in Names, NEW tag \in Tags, Restore(p, n, tag) PROVE TruthInv(p)'
  <2>1. Load(p, "restore", n, tag, file, "qemu-img") /\ UNCHANGED <<file, dir, keys, made, qemu>>
    BY <1>6 DEF Restore, Probed
  <2> QED  BY <1>0, <2>1, BeginsTruly DEF Commands
<1>7. ASSUME NEW n \in Names, NEW to \in Names, Clone(p, n, to) PROVE TruthInv(p)'
  <2>1. /\ to \notin DOMAIN file /\ n \in DOMAIN file
        /\ Load(p, "clone", n, to, file, "mkdir") /\ UNCHANGED <<file, dir, keys, made, qemu>>
    BY <1>7 DEF Clone, Probed, Has
  <2> QED  BY <1>0, <2>1, BeginsTruly DEF Commands
<1> QED  BY <1>1, <1>2, <1>3, <1>4, <1>5, <1>6, <1>7 DEF Begin

-----------------------------------------------------------------------------
(* vm create, step by step.                                                *)

LEMMA CreateKeyTruth ==
  ASSUME NEW p, NodesInv(p), TruthInv(p), CreateKey(p)
  PROVE  TruthInv(p)'
<1> DEFINE n == cli[p].vm
<1>1. /\ cli[p].pc = "key" /\ GoTo(p, "seed") /\ UNCHANGED <<file, dir, qemu>>
      /\ \/ n \in DOMAIN keys /\ UNCHANGED <<keys, made>>
         \/ /\ n \notin DOMAIN keys /\ made < MaxKeys /\ made' = made + 1
            /\ keys' = With(keys, n, made + 1)
  BY DEF CreateKey, At, Has
<1>2. /\ HostTypes /\ Typed(file) /\ Apart(file) /\ \A m \in DOMAIN file : Sound(dir, keys, m)
      /\ CommandTypes(cli[p]) /\ Progress(cli[p], file, dir, keys)
  BY <1>1 DEF TruthInv
<1>3. /\ cli'[p].pc = "seed" /\ cli'[p].cmd = cli[p].cmd /\ cli'[p].vm = n
      /\ cli'[p].arg = cli[p].arg /\ cli'[p].reg = cli[p].reg /\ TargetOf(cli'[p]) = TargetOf(cli[p])
  BY <1>1, MovedOn
<1>4. n \in Names /\ made \in 0..MaxKeys /\ MaxKeys \in Nat
  BY <1>2, QemuAssumption DEF CommandTypes, HostTypes, KeyIds
<1> HIDE DEF n
<1>5. /\ DOMAIN keys' = DOMAIN keys \cup {n}
      /\ \A m \in DOMAIN keys : keys'[m] = keys[m]
      /\ \A m \in DOMAIN keys' : m \in DOMAIN keys \/ keys'[m] = made'
      /\ made' \in KeyIds
  <2>1. CASE n \in DOMAIN keys /\ UNCHANGED <<keys, made>>
    BY <1>4, <2>1 DEF KeyIds
  <2>2. CASE made < MaxKeys /\ made' = made + 1 /\ keys' = With(keys, n, made + 1) /\ n \notin DOMAIN keys
    BY <1>4, <2>2 DEF With, KeyIds
  <2> QED  BY <1>1, <2>1, <2>2
<1>6. HostTypes'
  <2>1. DOMAIN keys' \subseteq Names /\ \A m \in DOMAIN keys' : keys'[m] \in KeyIds
    BY <1>2, <1>4, <1>5 DEF HostTypes
  <2> QED  BY <1>1, <1>2, <1>5, <2>1 DEF HostTypes
<1>7. ASSUME NEW m \in DOMAIN file PROVE Sound(dir, keys', m)
  <2>1. Sound(dir, keys, m) /\ m \in DOMAIN dir
    BY <1>2 DEF Sound
  <2>2. m \in DOMAIN keys => m \in DOMAIN keys' /\ keys'[m] = keys[m]
    BY <1>5
  <2> QED  BY <2>1, <2>2, SoundStays
<1>8. CommandTypes(cli'[p])
  BY <1>2, <1>3 DEF CommandTypes, Labels, n
<1>9. Progress(cli'[p], file, dir, keys')
  BY <1>1, <1>2, <1>3, <1>5 DEF Progress, Building, Cloning, Purging
<1> QED  BY <1>1, <1>2, <1>6, <1>7, <1>8, <1>9 DEF TruthInv

\* A directory is changed or made; the others are as they were.
LEMMA DirTypes ==
  ASSUME HostTypes, NEW n \in Names, NEW d \in Node, UNCHANGED <<keys, made, qemu>>,
         dir' = With(dir, n, d)
  PROVE  HostTypes' /\ n \in DOMAIN dir' /\ dir'[n] = d
         /\ DOMAIN dir' = DOMAIN dir \cup {n} /\ \A m \in DOMAIN dir : m # n => dir'[m] = dir[m]
<1>1. DOMAIN dir' = DOMAIN dir \cup {n} /\ \A m \in DOMAIN dir \cup {n} : dir'[m] = IF m = n THEN d ELSE dir[m]
  BY DEF With
<1>2. DOMAIN dir' \subseteq Names /\ \A m \in DOMAIN dir' : dir'[m] \in Node
  BY <1>1 DEF HostTypes
<1> QED  BY <1>1, <1>2 DEF HostTypes

LEMMA DirUpdate ==
  ASSUME NEW n \in DOMAIN dir, NEW d, dir' = [dir EXCEPT ![n] = d]
  PROVE  dir' = With(dir, n, d)
BY DEF With

LEMMA CreateSeedTruth ==
  ASSUME NEW p, NodesInv(p), TruthInv(p), CreateSeed(p)
  PROVE  TruthInv(p)'
<1> DEFINE n == cli[p].vm
           s == IF cli[p].arg.own THEN Operators ELSE keys[n]
           d == [NodeAt(n) EXCEPT !.seed = s]
<1>1. /\ cli[p].pc = "seed" /\ GoTo(p, "disk") /\ UNCHANGED <<file, keys, made, qemu>>
      /\ dir' = With(dir, n, d)
  BY DEF CreateSeed, At
<1>2. /\ HostTypes /\ Typed(file) /\ Apart(file) /\ \A m \in DOMAIN file : Sound(dir, keys, m)
      /\ CommandTypes(cli[p]) /\ Progress(cli[p], file, dir, keys)
  BY <1>1 DEF TruthInv
<1>3. /\ cli'[p].pc = "disk" /\ cli'[p].cmd = cli[p].cmd /\ cli'[p].vm = n
      /\ cli'[p].arg = cli[p].arg /\ cli'[p].reg = cli[p].reg /\ TargetOf(cli'[p]) = TargetOf(cli[p])
  BY <1>1, MovedOn
<1>4. n \in Names /\ n \notin DOMAIN file /\ (cli[p].arg.own \/ n \in DOMAIN keys)
  BY <1>1, <1>2 DEF CommandTypes, Progress, Building, NodesInv, CommandRecord, TargetOf
<1>5. s \in KeyIds /\ Opens(keys, n, s)
  BY <1>2, <1>4, QemuAssumption DEF HostTypes, Opens, KeyIds, Operators
<1>6. NodeAt(n) \in Node
  BY <1>2, DiskFacts DEF NodeAt, Has, HostTypes
<1> HIDE DEF s
<1>7. d \in Node /\ d.seed = s
  BY <1>5, <1>6, NodeUpdates
<1> HIDE DEF n, d
<1>8. /\ HostTypes' /\ n \in DOMAIN dir' /\ dir'[n] = d
      /\ DOMAIN dir' = DOMAIN dir \cup {n} /\ \A m \in DOMAIN dir : m # n => dir'[m] = dir[m]
  BY <1>1, <1>2, <1>4, <1>7, DirTypes
<1>9. \A m \in DOMAIN file : Sound(dir', keys, m)
  BY <1>2, <1>4, <1>8, AllSoundStay
<1>10. CommandTypes(cli'[p])
  BY <1>2, <1>3 DEF CommandTypes, Labels, n
<1>11. Progress(cli'[p], file, dir', keys)
  BY <1>1, <1>2, <1>3, <1>5, <1>7, <1>8 DEF Progress, Building, Cloning, Purging
<1> QED  BY <1>1, <1>2, <1>8, <1>9, <1>10, <1>11 DEF TruthInv

LEMMA CreateDiskTruth ==
  ASSUME NEW p, NodesInv(p), TruthInv(p), CreateDisk(p)
  PROVE  TruthInv(p)'
<1> DEFINE n == cli[p].vm
           entry == cli[p].arg.entry
           disk == [key |-> None, snaps |-> <<>>]
           d == [dir[n] EXCEPT !.disk = disk]
           reg == With(file, n, entry)
<1>1. /\ cli[p].pc = "disk" /\ WithEntry(p, n, entry) /\ UNCHANGED <<file, keys, made, qemu>>
      /\ n \in DOMAIN dir /\ dir' = [dir EXCEPT ![n] = d]
  BY DEF CreateDisk, At, Has
<1>2. /\ HostTypes /\ Typed(file) /\ Apart(file) /\ \A m \in DOMAIN file : Sound(dir, keys, m)
      /\ CommandTypes(cli[p]) /\ Progress(cli[p], file, dir, keys)
  BY <1>1 DEF TruthInv
<1>3. /\ cli'[p].pc = "save" /\ cli'[p].cmd = "create" /\ cli'[p].vm = n
      /\ cli'[p].arg = cli[p].arg /\ cli'[p].reg = reg
  BY <1>1, <1>2, Recorded DEF Progress, Building, NodesInv, CommandRecord
<1>4. /\ n \in Names /\ n \notin DOMAIN file /\ Opens(keys, n, dir[n].seed)
      /\ entry \in Entry /\ Fits(entry, file)
  BY <1>1, <1>2 DEF CommandTypes, Progress, Building, NodesInv, CommandRecord, TargetOf
<1>5. disk \in Disk /\ disk # None /\ disk.key = None /\ DOMAIN disk.snaps = {} /\ dir[n] \in Node
  BY <1>1, <1>2, DiskFacts DEF HostTypes
<1> HIDE DEF disk, entry
<1>6. d \in Node /\ d.disk = disk /\ d.seed = dir[n].seed
  BY <1>5, NodeUpdates
<1> HIDE DEF n, d
<1>7. /\ HostTypes' /\ n \in DOMAIN dir' /\ dir'[n] = d
      /\ DOMAIN dir' = DOMAIN dir \cup {n} /\ \A m \in DOMAIN dir : m # n => dir'[m] = dir[m]
  BY <1>1, <1>2, <1>4, <1>6, DirTypes, DirUpdate
<1>8. \A m \in DOMAIN file : Sound(dir', keys, m)
  BY <1>2, <1>4, <1>7, AllSoundStay
<1>9. Sound(dir', keys, n)
  BY <1>4, <1>5, <1>6, <1>7 DEF Sound, Opens
<1>10. Typed(reg) /\ Apart(reg) /\ DOMAIN reg = DOMAIN file \cup {n}
  <2>1. DOMAIN reg = DOMAIN file \cup {n} /\ reg[n] = entry /\ \A m \in DOMAIN file : m # n => reg[m] = file[m]
    BY DEF With
  <2>2. Apart(reg)
    BY <1>2, <1>4, ApartWith
  <2> HIDE DEF reg
  <2>3. Typed(reg)
    BY <1>2, <1>4, <2>1 DEF Typed
  <2> QED  BY <2>1, <2>2, <2>3
<1> HIDE DEF reg
<1>11. CommandTypes(cli'[p])
  BY <1>2, <1>3, <1>4, <1>10 DEF CommandTypes, Labels, Commands
<1>12. Progress(cli'[p], file, dir', keys)
  BY <1>3, <1>8, <1>9, <1>10 DEF Progress, Building, Cloning, Purging
<1> QED  BY <1>1, <1>2, <1>7, <1>8, <1>11, <1>12 DEF TruthInv

-----------------------------------------------------------------------------
(* vm start and what comes of it, and the end of a deletion.               *)

\* A directory's pid record says nothing that the registry's truth rests on.
LEMMA PidRecorded ==
  ASSUME HostTypes, NEW n \in DOMAIN dir, NEW pid \in {"none", "live", "dead"},
         dir' = [dir EXCEPT ![n].pid = pid]
  PROVE  /\ DOMAIN dir' = DOMAIN dir /\ DOMAIN dir' \subseteq Names
         /\ \A m \in DOMAIN dir' : /\ dir'[m] \in Node
                                   /\ dir'[m].disk = dir[m].disk /\ dir'[m].seed = dir[m].seed
<1>1. dir[n] \in Node /\ DOMAIN dir \subseteq Names /\ \A m \in DOMAIN dir : dir[m] \in Node
  BY DEF HostTypes
<1> DEFINE d == [dir[n] EXCEPT !.pid = pid]
<1>2. d \in Node /\ d.disk = dir[n].disk /\ d.seed = dir[n].seed
  BY <1>1, NodeUpdates
<1>3. DOMAIN dir' = DOMAIN dir /\ \A m \in DOMAIN dir : dir'[m] = IF m = n THEN d ELSE dir[m]
  OBVIOUS
<1> HIDE DEF d
<1> QED  BY <1>1, <1>2, <1>3

LEMMA StartLaunchTruth ==
  ASSUME NEW p, NodesInv(p), TruthInv(p), StartLaunch(p)
  PROVE  TruthInv(p)'
<1> DEFINE n == cli[p].vm
           e == cli[p].reg[n]
           row == [state |-> "spawned", qmp |-> e.qmp, mem |-> e.mem]
<1>1. /\ cli[p].pc = "launch" /\ Exit(p) /\ UNCHANGED <<file, keys, made>>
      /\ qemu' = With(qemu, n, row) \/ qemu' = qemu
      /\ n \in DOMAIN dir
      /\ UNCHANGED dir \/ \E pid \in {"live", "dead"} : dir' = [dir EXCEPT ![n].pid = pid]
  BY DEF StartLaunch, At, Has
<1>2. /\ HostTypes /\ Typed(file) /\ Apart(file) /\ \A m \in DOMAIN file : Sound(dir, keys, m)
      /\ CommandTypes(cli[p])
  BY <1>1 DEF TruthInv
<1>3. n \in Names /\ e \in Entry
  BY <1>1, <1>2 DEF CommandTypes, Typed, NodesInv, CommandRecord
<1>4. row \in [state : {"spawned", "up"}, qmp : Ports, mem : Memories]
  BY <1>3 DEF Entry
<1>5. /\ DOMAIN dir' = DOMAIN dir /\ DOMAIN dir' \subseteq Names
      /\ \A m \in DOMAIN dir' : /\ dir'[m] \in Node
                                /\ dir'[m].disk = dir[m].disk /\ dir'[m].seed = dir[m].seed
  BY <1>1, <1>2, PidRecorded DEF HostTypes
<1> HIDE DEF n, row, e
<1>6. /\ DOMAIN qemu' \subseteq Names
      /\ \A m \in DOMAIN qemu' : qemu'[m] \in [state : {"spawned", "up"}, qmp : Ports, mem : Memories]
  <2>1. CASE qemu' = qemu
    BY <1>2, <2>1 DEF HostTypes
  <2>2. CASE qemu' = With(qemu, n, row)
    <3>1. DOMAIN qemu' = DOMAIN qemu \cup {n} /\ \A m \in DOMAIN qemu \cup {n} : qemu'[m] = IF m = n THEN row ELSE qemu[m]
      BY <2>2 DEF With
    <3> QED  BY <1>2, <1>3, <1>4, <3>1 DEF HostTypes
  <2> QED  BY <1>1, <2>1, <2>2
<1>7. HostTypes'
  BY <1>1, <1>2, <1>5, <1>6 DEF HostTypes
<1>8. \A m \in DOMAIN file : Sound(dir', keys, m)
  BY <1>2, <1>5, AllSoundStay
<1> QED  BY <1>1, <1>2, <1>7, <1>8, Ended DEF TruthInv

LEMMA DeleteForgetTruth ==
  ASSUME NEW p, NodesInv(p), TruthInv(p), DeleteForget(p)
  PROVE  TruthInv(p)'
<1> DEFINE n == cli[p].vm
<1>1. /\ Exit(p) /\ UNCHANGED <<file, keys, made, qemu>>
      /\ UNCHANGED dir \/ (n \in DOMAIN dir /\ dir' = [dir EXCEPT ![n].pid = "none"])
  BY DEF DeleteForget, Has
<1>2. HostTypes /\ Typed(file) /\ Apart(file) /\ \A m \in DOMAIN file : Sound(dir, keys, m)
  BY DEF TruthInv
<1>3. /\ DOMAIN dir' = DOMAIN dir /\ DOMAIN dir' \subseteq Names
      /\ \A m \in DOMAIN dir' : /\ dir'[m] \in Node
                                /\ dir'[m].disk = dir[m].disk /\ dir'[m].seed = dir[m].seed
  BY <1>1, <1>2, PidRecorded DEF HostTypes
<1>4. HostTypes'
  BY <1>1, <1>2, <1>3 DEF HostTypes
<1>5. \A m \in DOMAIN file : Sound(dir', keys, m)
  BY <1>2, <1>3, AllSoundStay
<1> QED  BY <1>1, <1>2, <1>4, <1>5, Ended DEF TruthInv

\* What is purged is no registered node's.
LEMMA PurgeTruth ==
  ASSUME NEW p, NodesInv(p), TruthInv(p), PurgeDir(p) \/ PurgeKeys(p)
  PROVE  TruthInv(p)'
<1> DEFINE n == TargetOf(cli[p])
<1>1. /\ cli[p].pc \in Purging /\ UNCHANGED <<file, made, qemu>>
      /\ \/ cli[p].pc = "purge" /\ dir' = Without(dir, n) /\ UNCHANGED keys /\ GoTo(p, "purgeKeys")
         \/ keys' = Without(keys, n) /\ UNCHANGED dir /\ Exit(p)
  BY DEF PurgeDir, PurgeKeys, At, Purging, Target, TargetOf
<1>2. /\ HostTypes /\ Typed(file) /\ Apart(file) /\ \A m \in DOMAIN file : Sound(dir, keys, m)
      /\ CommandTypes(cli[p]) /\ Progress(cli[p], file, dir, keys)
  BY <1>1 DEF TruthInv, Purging
<1>3. n \notin DOMAIN file
  BY <1>1, <1>2 DEF Progress
<1> HIDE DEF n
<1>4. /\ DOMAIN dir' \subseteq DOMAIN dir /\ \A m \in DOMAIN dir' : dir'[m] = dir[m]
      /\ DOMAIN dir \ {n} \subseteq DOMAIN dir'
      /\ DOMAIN keys' \subseteq DOMAIN keys /\ \A m \in DOMAIN keys' : keys'[m] = keys[m]
      /\ DOMAIN keys \ {n} \subseteq DOMAIN keys'
  BY <1>1 DEF Without, Restrict
<1>5. HostTypes'
  BY <1>1, <1>2, <1>4 DEF HostTypes
<1>6. \A m \in DOMAIN file : Sound(dir', keys', m)
  BY <1>2, <1>3, <1>4, AllSoundStay
<1>7. CASE Exit(p)
  BY <1>1, <1>2, <1>5, <1>6, <1>7, Ended DEF TruthInv
<1>8. CASE cli[p].pc = "purge" /\ GoTo(p, "purgeKeys")
  <2>1. /\ cli'[p].pc = "purgeKeys" /\ cli'[p].cmd = cli[p].cmd /\ cli'[p].vm = cli[p].vm
        /\ cli'[p].arg = cli[p].arg /\ cli'[p].reg = cli[p].reg /\ TargetOf(cli'[p]) = n
    BY <1>8, MovedOn DEF n
  <2>2. CommandTypes(cli'[p])
    BY <1>2, <2>1 DEF CommandTypes, Labels
  <2>3. Progress(cli'[p], file, dir', keys')
    BY <1>3, <2>1 DEF Progress, Building, Cloning, Purging
  <2> QED  BY <1>1, <1>2, <1>5, <1>6, <2>2, <2>3 DEF TruthInv
<1> QED  BY <1>1, <1>7, <1>8

\* A command that ends, whatever it had begun, and a clone whose save fails.
LEMMA KilledTruth ==
  ASSUME NEW p, NodesInv(p), TruthInv(p), Killed(p) \/ SaveFails(p)
  PROVE  TruthInv(p)'
<1>1. /\ UNCHANGED <<file, dir, keys, made, qemu>>
      /\ Exit(p) \/ (cli[p].pc = "save" /\ cli[p].cmd = "clone" /\ GoTo(p, "purge"))
  BY DEF Killed, SaveFails, At
<1>2. HostTypes /\ Typed(file) /\ Apart(file) /\ \A m \in DOMAIN file : Sound(dir, keys, m)
  BY DEF TruthInv
<1>3. HostTypes'
  BY <1>1, <1>2 DEF HostTypes
<1>4. CASE Exit(p)
  BY <1>1, <1>2, <1>3, <1>4, Ended DEF TruthInv
<1>5. CASE cli[p].pc = "save" /\ cli[p].cmd = "clone" /\ GoTo(p, "purge")
  <2>1. /\ cli'[p].pc = "purge" /\ cli'[p].cmd = cli[p].cmd /\ cli'[p].vm = cli[p].vm
        /\ cli'[p].arg = cli[p].arg /\ cli'[p].reg = cli[p].reg /\ TargetOf(cli'[p]) = TargetOf(cli[p])
    BY <1>5, MovedOn
  <2>2. CommandTypes(cli[p]) /\ cli[p].arg \notin DOMAIN file
    BY <1>5 DEF TruthInv, Progress
  <2>3. CommandTypes(cli'[p])
    BY <2>1, <2>2 DEF CommandTypes, Labels
  <2>4. Progress(cli'[p], file, dir, keys)
    BY <1>5, <2>1, <2>2 DEF Progress, Building, Cloning, Purging, TargetOf
  <2> QED  BY <1>1, <1>2, <1>3, <2>3, <2>4 DEF TruthInv
<1> QED  BY <1>1, <1>4, <1>5

\* What a command saves is sound: it has seen to the one node that is new.
LEMMA SaveTruth ==
  ASSUME NEW p, NodesInv(p), TruthInv(p), SaveRegistry(p)
  PROVE  TruthInv(p)'
<1>1. /\ cli[p].pc = "save" /\ file' = cli[p].reg /\ UNCHANGED <<dir, keys, made, qemu>>
      /\ Exit(p) \/ (cli[p].cmd = "delete" /\ \E label \in {"purge", "forget"} : GoTo(p, label))
  BY DEF SaveRegistry, At, AfterSave
<1>2. HostTypes /\ CommandTypes(cli[p]) /\ Progress(cli[p], file, dir, keys)
  BY <1>1 DEF TruthInv
<1>3. HostTypes' /\ Typed(file') /\ Apart(file') /\ \A m \in DOMAIN file' : Sound(dir, keys, m)
  BY <1>1, <1>2 DEF HostTypes, CommandTypes, Progress
<1>4. CASE Exit(p)
  BY <1>1, <1>3, <1>4, Ended DEF TruthInv
<1>5. ASSUME cli[p].cmd = "delete", NEW label \in {"purge", "forget"}, GoTo(p, label)
      PROVE  TruthInv(p)'
  <2>1. /\ cli'[p].pc = label /\ cli'[p].cmd = cli[p].cmd /\ cli'[p].vm = cli[p].vm
        /\ cli'[p].arg = cli[p].arg /\ cli'[p].reg = cli[p].reg /\ TargetOf(cli'[p]) = cli[p].vm
    BY <1>1, <1>5, MovedOn DEF TargetOf
  <2>2. cli[p].vm \notin DOMAIN file'
    BY <1>1, <1>2, <1>5 DEF Progress
  <2>3. CommandTypes(cli'[p])
    BY <1>2, <1>5, <2>1 DEF CommandTypes, Labels
  <2>4. Progress(cli'[p], file', dir, keys)
    BY <1>5, <2>1, <2>2 DEF Progress, Building, Cloning, Purging
  <2> QED  BY <1>1, <1>3, <2>3, <2>4 DEF TruthInv
<1> QED  BY <1>1, <1>4, <1>5

-----------------------------------------------------------------------------
(* vm snapshot and vm restore.                                             *)

\* A snapshot keeps the key that the guest accepts now.
LEMMA TakenTruth ==
  ASSUME HostTypes, UNCHANGED <<keys, made, qemu>>, NEW n \in Names, NEW tag \in Tags, Sound(dir, keys, n),
         dir' = Taken(n, tag)
  PROVE  /\ HostTypes' /\ Sound(dir', keys, n)
         /\ DOMAIN dir' = DOMAIN dir /\ \A m \in DOMAIN dir : m # n => dir'[m] = dir[m]
<1> DEFINE disk == dir[n].disk
           disk2 == [disk EXCEPT !.snaps = With(disk.snaps, tag, disk.key)]
           d == [dir[n] EXCEPT !.disk = disk2]
<1>1. n \in DOMAIN dir /\ disk # None /\ dir' = [dir EXCEPT ![n] = d]
  BY DEF Sound, Taken
<1>2. dir[n] \in Node /\ disk \in Disk
  BY <1>1, NodeFields DEF HostTypes
<1>3. disk.key \in KeyIds \cup {None}
  BY <1>2 DEF Disk
<1>4. /\ disk2 \in Disk /\ disk2.key = disk.key
      /\ \A t \in DOMAIN disk2.snaps : disk2.snaps[t] = IF t = tag THEN disk.key ELSE disk.snaps[t]
      /\ DOMAIN disk2.snaps = DOMAIN disk.snaps \cup {tag}
  <2> DEFINE s == With(disk.snaps, tag, disk.key)
  <2>1. /\ s \in Snapshots /\ DOMAIN s = DOMAIN disk.snaps \cup {tag}
        /\ \A t \in DOMAIN s : s[t] = IF t = tag THEN disk.key ELSE disk.snaps[t]
    <3>1. PICK e \in Disk, k \in KeyIds \cup {None} : e = disk /\ k = disk.key
      BY <1>2, <1>3
    <3>2. With(e.snaps, tag, k) = s
      BY <3>1
    <3> HIDE DEF disk, s
    <3>3. s \in Snapshots /\ DOMAIN s = DOMAIN e.snaps \cup {tag}
      BY <3>2, DiskSnapped
    <3>4. \A t \in DOMAIN s : s[t] = IF t = tag THEN k ELSE e.snaps[t]
      BY <3>2 DEF With
    <3> QED  BY <3>1, <3>3, <3>4
  <2>2. disk2 = [disk EXCEPT !.snaps = s]
    OBVIOUS
  <2> HIDE DEF s, disk
  <2>3. disk2 \in Disk /\ disk2.key = disk.key /\ disk2.snaps = s
    BY <1>2, <2>1, <2>2, DiskResnapped
  <2> QED  BY <2>1, <2>3
<1> HIDE DEF disk2
<1>5. d \in Node /\ d.disk = disk2 /\ d.seed = dir[n].seed
  BY <1>2, <1>4, NodeUpdates
<1> HIDE DEF d
<1>6. /\ HostTypes' /\ n \in DOMAIN dir' /\ dir'[n] = d
      /\ DOMAIN dir' = DOMAIN dir \cup {n} /\ \A m \in DOMAIN dir : m # n => dir'[m] = dir[m]
  BY <1>1, <1>5, DirTypes, DirUpdate
<1>7. disk2 # None
  BY <1>4, DiskFacts
<1>8. Sound(dir', keys, n)
  BY <1>4, <1>5, <1>6, <1>7 DEF Sound
<1> QED  BY <1>1, <1>6, <1>8

LEMMA SnapshotTruth ==
  ASSUME NEW p, NodesInv(p), TruthInv(p), SnapshotByQemuImg(p) \/ SnapshotByQmp(p)
  PROVE  TruthInv(p)'
<1> DEFINE n == cli[p].vm
           tag == cli[p].arg
           old == cli[p].reg[n]
           entry == [old EXCEPT !.snaps = @ \cup {tag}]
           reg == With(cli[p].reg, n, entry)
<1>1. /\ cli[p].pc \in {"qmp", "qemu-img"} /\ WithEntry(p, n, entry) /\ UNCHANGED <<file, keys, made, qemu>>
      /\ dir' = Taken(n, tag) \/ UNCHANGED dir
      /\ cli[p].pc = "qemu-img" => cli[p].cmd = "snapshot"
  BY DEF SnapshotByQemuImg, SnapshotByQmp, RegisterSnapshot, At
<1>2. /\ HostTypes /\ Typed(file) /\ Apart(file) /\ \A m \in DOMAIN file : Sound(dir, keys, m)
      /\ CommandTypes(cli[p]) /\ Progress(cli[p], file, dir, keys)
  BY <1>1 DEF TruthInv
<1>3. /\ cli[p].cmd = "snapshot" /\ cli[p].reg = file /\ n \in DOMAIN file
  BY <1>1, <1>2 DEF Progress, NodesInv, CommandRecord
<1>4. /\ cli'[p].pc = "save" /\ cli'[p].cmd = "snapshot" /\ cli'[p].vm = n
      /\ cli'[p].arg = tag /\ cli'[p].reg = reg
  BY <1>1, <1>3, Recorded
<1>5. n \in Names /\ tag \in Tags /\ old \in Entry
  BY <1>2, <1>3 DEF CommandTypes, Typed
<1>6. entry \in Entry /\ entry.ssh = old.ssh /\ entry.qmp = old.qmp /\ entry.adb = old.adb
  BY <1>5 DEF Entry
<1>7. DOMAIN reg = DOMAIN file /\ \A m \in DOMAIN file : reg[m] = IF m = n THEN entry ELSE file[m]
  BY <1>3 DEF With
<1> HIDE DEF reg, entry
<1>8. Typed(reg)
  BY <1>2, <1>6, <1>7 DEF Typed
<1>9. Apart(reg)
  BY <1>2, <1>3, <1>6, <1>7, ApartSub
<1>10. Sound(dir, keys, n)
  BY <1>2, <1>3
<1> HIDE DEF n, tag
<1>11. HostTypes' /\ \A m \in DOMAIN file : Sound(dir', keys, m)
  <2>1. CASE dir' = Taken(n, tag)
    <3>1. /\ HostTypes' /\ Sound(dir', keys, n)
          /\ DOMAIN dir' = DOMAIN dir /\ \A m \in DOMAIN dir : m # n => dir'[m] = dir[m]
      BY <1>1, <1>2, <1>5, <1>10, <2>1, TakenTruth
    <3>2. \A m \in DOMAIN file \ {n} : Sound(dir', keys, m)
      BY <1>2, <3>1, AllSoundStay
    <3> QED  BY <3>1, <3>2
  <2>2. CASE UNCHANGED dir
    BY <1>1, <1>2, <2>2 DEF HostTypes
  <2> QED  BY <1>1, <2>1, <2>2
<1>12. CommandTypes(cli'[p])
  BY <1>4, <1>5, <1>8, <1>9 DEF CommandTypes, Labels, Commands
<1>13. Progress(cli'[p], file, dir', keys)
  BY <1>4, <1>7, <1>11 DEF Progress, Building, Cloning, Purging
<1> QED  BY <1>1, <1>2, <1>11, <1>12, <1>13 DEF TruthInv

LEMMA RestoreTruth ==
  ASSUME NEW p, NodesInv(p), TruthInv(p), RestoreApply(p)
  PROVE  TruthInv(p)'
<1> DEFINE n == cli[p].vm
           disk == dir[n].disk
           k == disk.snaps[cli[p].arg]
           disk2 == [disk EXCEPT !.key = k]
           d == [dir[n] EXCEPT !.disk = disk2]
<1>1. /\ cli[p].pc = "qemu-img" /\ Exit(p) /\ UNCHANGED <<file, keys, made, qemu>>
      /\ n \in DOMAIN dir /\ disk # None /\ cli[p].arg \in DOMAIN disk.snaps
      /\ dir' = [dir EXCEPT ![n] = d]
  BY DEF RestoreApply, At, Has
<1>2. /\ HostTypes /\ Typed(file) /\ Apart(file) /\ \A m \in DOMAIN file : Sound(dir, keys, m)
      /\ CommandTypes(cli[p]) /\ Progress(cli[p], file, dir, keys)
  BY <1>1 DEF TruthInv
<1>3. n \in Names /\ n \in DOMAIN file
  BY <1>1, <1>2 DEF CommandTypes, Progress, NodesInv, CommandRecord
<1>4. Sound(dir, keys, n) /\ dir[n] \in Node
  BY <1>1, <1>2, <1>3 DEF HostTypes
<1>5. disk \in Disk /\ k \in KeyIds \cup {None}
  BY <1>1, <1>4, NodeFields
<1>6. Opens(keys, n, k)
  BY <1>1, <1>4 DEF Sound
<1> HIDE DEF k
<1>7. disk2 \in Disk /\ disk2.key = k /\ disk2.snaps = disk.snaps /\ disk2 # None
  BY <1>5, DiskKeyed, DiskFacts
<1> HIDE DEF disk2
<1>8. d \in Node /\ d.disk = disk2 /\ d.seed = dir[n].seed
  BY <1>4, <1>7, NodeUpdates
<1> HIDE DEF n, d
<1>9. /\ HostTypes' /\ n \in DOMAIN dir' /\ dir'[n] = d
      /\ DOMAIN dir' = DOMAIN dir \cup {n} /\ \A m \in DOMAIN dir : m # n => dir'[m] = dir[m]
  BY <1>1, <1>2, <1>3, <1>8, DirTypes, DirUpdate
<1>10. Sound(dir', keys, n)
  BY <1>4, <1>6, <1>7, <1>8, <1>9 DEF Sound
<1>11. \A m \in DOMAIN file \ {n} : Sound(dir', keys, m)
  BY <1>2, <1>9, AllSoundStay
<1> QED  BY <1>1, <1>2, <1>9, <1>10, <1>11, Ended DEF TruthInv

-----------------------------------------------------------------------------
(* vm clone, step by step.                                                 *)

\* A clone that fails takes its directory back.
LEMMA CloneFails ==
  ASSUME NEW p, NodesInv(p), TruthInv(p), cli[p].pc \in Cloning, cli[p].cmd = "clone",
         dir' = Without(dir, cli[p].arg), Exit(p), UNCHANGED <<file, keys, made, qemu>>
  PROVE  TruthInv(p)'
<1>1. /\ HostTypes /\ Typed(file) /\ Apart(file) /\ \A m \in DOMAIN file : Sound(dir, keys, m)
      /\ Progress(cli[p], file, dir, keys)
  BY DEF TruthInv, Cloning
<1>2. cli[p].arg \notin DOMAIN file
  BY <1>1 DEF Progress, TargetOf
<1>3. DOMAIN dir' = DOMAIN dir \ {cli[p].arg} /\ \A m \in DOMAIN dir' : dir'[m] = dir[m]
  BY DEF Without, Restrict
<1>4. HostTypes'
  BY <1>1, <1>3 DEF HostTypes
<1>5. \A m \in DOMAIN file : Sound(dir', keys, m)
  BY <1>1, <1>2, <1>3, AllSoundStay
<1> QED  BY <1>1, <1>4, <1>5, Ended DEF TruthInv

LEMMA CloneMkdirTruth ==
  ASSUME NEW p, NodesInv(p), TruthInv(p), CloneMkdir(p)
  PROVE  TruthInv(p)'
<1> DEFINE to == cli[p].arg
<1>1. cli[p].pc = "mkdir" /\ GoTo(p, "overlay") /\ UNCHANGED <<file, keys, made, qemu>> /\ cli[p].cmd = "clone"
  BY DEF CloneMkdir, At, NodesInv, CommandRecord
<1>2. /\ HostTypes /\ Typed(file) /\ Apart(file) /\ \A m \in DOMAIN file : Sound(dir, keys, m)
      /\ CommandTypes(cli[p]) /\ Progress(cli[p], file, dir, keys)
  BY <1>1 DEF TruthInv
<1>3. to \in Names /\ to \notin DOMAIN file /\ dir' = With(dir, to, NewNode)
  BY <1>1, <1>2 DEF CommandTypes, Progress, Cloning, TargetOf, CloneMkdir, Target
<1>4. /\ cli'[p].pc = "overlay" /\ cli'[p].cmd = cli[p].cmd /\ cli'[p].vm = cli[p].vm
      /\ cli'[p].arg = to /\ cli'[p].reg = cli[p].reg /\ TargetOf(cli'[p]) = TargetOf(cli[p])
  BY <1>1, MovedOn
<1>5. /\ HostTypes' /\ to \in DOMAIN dir' /\ dir'[to] = NewNode
      /\ DOMAIN dir' = DOMAIN dir \cup {to} /\ \A m \in DOMAIN dir : m # to => dir'[m] = dir[m]
  BY <1>1, <1>2, <1>3, DiskFacts, DirTypes
<1>6. \A m \in DOMAIN file : Sound(dir', keys, m)
  BY <1>2, <1>3, <1>5, AllSoundStay
<1>7. CommandTypes(cli'[p])
  BY <1>2, <1>4 DEF CommandTypes, Labels
<1>8. Progress(cli'[p], file, dir', keys)
  BY <1>1, <1>2, <1>4, <1>5, DiskFacts DEF Progress, Building, Cloning, Purging
<1> QED  BY <1>1, <1>2, <1>5, <1>6, <1>7, <1>8 DEF TruthInv

\* The overlay is what the source's disk is, whose guest the source's key opens.
LEMMA CloneOverlayTruth ==
  ASSUME NEW p, NodesInv(p), TruthInv(p), CloneOverlay(p)
  PROVE  TruthInv(p)'
<1> DEFINE n == cli[p].vm
           to == cli[p].arg
           k == dir[n].disk.key
           disk == [key |-> k, snaps |-> <<>>]
           d == [dir[to] EXCEPT !.disk = disk]
<1>1. /\ cli[p].pc = "overlay" /\ UNCHANGED <<file, keys, made, qemu>> /\ cli[p].cmd = "clone"
      /\ \/ /\ n \in DOMAIN dir /\ dir[n].disk # None /\ to \in DOMAIN dir
            /\ dir' = [dir EXCEPT ![to] = d] /\ GoTo(p, "identity")
         \/ dir' = Without(dir, to) /\ Exit(p)
  BY DEF CloneOverlay, At, NodesInv, CommandRecord, Has, Target
<1>2. /\ HostTypes /\ Typed(file) /\ Apart(file) /\ \A m \in DOMAIN file : Sound(dir, keys, m)
      /\ CommandTypes(cli[p]) /\ Progress(cli[p], file, dir, keys)
  BY <1>1 DEF TruthInv
<1>3. CASE dir' = Without(dir, to) /\ Exit(p)
  BY <1>1, <1>3, CloneFails DEF Cloning
<1>4. CASE /\ n \in DOMAIN dir /\ dir[n].disk # None /\ to \in DOMAIN dir
           /\ dir' = [dir EXCEPT ![to] = d] /\ GoTo(p, "identity")
  <2>1. to \in Names /\ to \notin DOMAIN file /\ n \in DOMAIN file /\ dir[to].seed = None
    BY <1>1, <1>2 DEF CommandTypes, Progress, Cloning, TargetOf
  <2>2. /\ cli'[p].pc = "identity" /\ cli'[p].cmd = cli[p].cmd /\ cli'[p].vm = n
        /\ cli'[p].arg = to /\ cli'[p].reg = cli[p].reg /\ TargetOf(cli'[p]) = TargetOf(cli[p])
    BY <1>1, <1>4, MovedOn
  <2>3. dir[n] \in Node /\ dir[to] \in Node /\ Sound(dir, keys, n)
    BY <1>2, <1>4, <2>1 DEF HostTypes
  <2>4. k \in KeyIds \cup {None} /\ Opens(keys, n, k)
    BY <1>4, <2>3, NodeFields DEF Sound
  <2> HIDE DEF k
  <2>5. disk \in Disk /\ disk # None /\ disk.key = k /\ DOMAIN disk.snaps = {}
    BY <2>4, DiskFacts
  <2> HIDE DEF disk
  <2>6. d \in Node /\ d.disk = disk /\ d.seed = dir[to].seed
    BY <2>3, <2>5, NodeUpdates
  <2> HIDE DEF n, to, d
  <2>7. /\ HostTypes' /\ to \in DOMAIN dir' /\ dir'[to] = d
        /\ DOMAIN dir' = DOMAIN dir \cup {to} /\ \A m \in DOMAIN dir : m # to => dir'[m] = dir[m]
    BY <1>1, <1>2, <1>4, <2>1, <2>6, DirTypes, DirUpdate
  <2>8. \A m \in DOMAIN file : Sound(dir', keys, m)
    BY <1>2, <2>1, <2>7, AllSoundStay
  <2>9. CommandTypes(cli'[p])
    BY <1>2, <2>2 DEF CommandTypes, Labels, n, to
  <2>10. Progress(cli'[p], file, dir', keys)
    BY <1>1, <1>2, <2>1, <2>2, <2>4, <2>5, <2>6, <2>7 DEF Progress, Building, Cloning, Purging
  <2> QED  BY <1>1, <1>2, <2>7, <2>8, <2>9, <2>10 DEF TruthInv
<1> QED  BY <1>1, <1>3, <1>4

\* The clone's key is its source's.
LEMMA CloneIdentityTruth ==
  ASSUME NEW p, NodesInv(p), TruthInv(p), CloneIdentity(p)
  PROVE  TruthInv(p)'
<1> DEFINE n == cli[p].vm
           to == cli[p].arg
<1>1. /\ cli[p].pc = "identity" /\ UNCHANGED <<file, made, qemu>> /\ cli[p].cmd = "clone"
      /\ \/ /\ n \in DOMAIN keys /\ to \notin DOMAIN keys /\ UNCHANGED dir
            /\ keys' = With(keys, to, keys[n]) /\ GoTo(p, "ports")
         \/ dir' = Without(dir, to) /\ Exit(p) /\ UNCHANGED keys
  BY DEF CloneIdentity, At, NodesInv, CommandRecord, Has, Target
<1>2. /\ HostTypes /\ Typed(file) /\ Apart(file) /\ \A m \in DOMAIN file : Sound(dir, keys, m)
      /\ CommandTypes(cli[p]) /\ Progress(cli[p], file, dir, keys)
  BY <1>1 DEF TruthInv
<1>3. CASE dir' = Without(dir, to) /\ Exit(p) /\ UNCHANGED keys
  BY <1>1, <1>3, CloneFails DEF Cloning
<1>4. CASE /\ n \in DOMAIN keys /\ to \notin DOMAIN keys /\ UNCHANGED dir
           /\ keys' = With(keys, to, keys[n]) /\ GoTo(p, "ports")
  <2>1. /\ to \in Names /\ to \notin DOMAIN file /\ n \in DOMAIN file
        /\ to \in DOMAIN dir /\ dir[to].seed = None /\ dir[to].disk # None
        /\ DOMAIN dir[to].disk.snaps = {} /\ Opens(keys, n, dir[to].disk.key)
    BY <1>1, <1>2 DEF CommandTypes, Progress, Cloning, TargetOf
  <2>2. /\ cli'[p].pc = "ports" /\ cli'[p].cmd = cli[p].cmd /\ cli'[p].vm = n
        /\ cli'[p].arg = to /\ cli'[p].reg = cli[p].reg /\ TargetOf(cli'[p]) = TargetOf(cli[p])
    BY <1>1, <1>4, MovedOn
  <2> HIDE DEF n, to
  <2>3. /\ DOMAIN keys' = DOMAIN keys \cup {to} /\ keys'[to] = keys[n]
        /\ \A m \in DOMAIN keys : keys'[m] = keys[m]
    BY <1>4 DEF With
  <2>4. HostTypes'
    <3>1. DOMAIN keys' \subseteq Names /\ \A m \in DOMAIN keys' : keys'[m] \in KeyIds
      BY <1>2, <1>4, <2>1, <2>3 DEF HostTypes
    <3> QED  BY <1>1, <1>2, <1>4, <3>1 DEF HostTypes
  <2>5. ASSUME NEW m \in DOMAIN file PROVE Sound(dir, keys', m)
    <3>1. Sound(dir, keys, m) /\ m \in DOMAIN dir
      BY <1>2 DEF Sound
    <3>2. m \in DOMAIN keys => m \in DOMAIN keys' /\ keys'[m] = keys[m]
      BY <2>3
    <3> QED  BY <3>1, <3>2, SoundStays
  <2>6. Sound(dir, keys', to)
    <3>1. Opens(keys', to, dir[to].disk.key)
      BY <2>1, <2>3 DEF Opens
    <3>2. Opens(keys', to, dir[to].seed)
      BY <2>1 DEF Opens
    <3> QED  BY <2>1, <3>1, <3>2 DEF Sound
  <2>7. CommandTypes(cli'[p])
    BY <1>2, <2>2 DEF CommandTypes, Labels, n, to
  <2>8. Progress(cli'[p], file, dir, keys')
    BY <1>1, <1>2, <2>1, <2>2, <2>6 DEF Progress, Building, Cloning, Purging, n, to
  <2> QED  BY <1>1, <1>2, <1>4, <2>4, <2>5, <2>7, <2>8 DEF TruthInv
<1> QED  BY <1>1, <1>3, <1>4

\* And its ports are nobody's.
LEMMA ClonePortsTruth ==
  ASSUME NEW p, NodesInv(p), TruthInv(p), ClonePorts(p)
  PROVE  TruthInv(p)'
<1> DEFINE to == cli[p].arg
           src == file[cli[p].vm]
           size == IF src.adb = {} THEN 1 ELSE Cardinality(src.adb)
           block == <<AdbBase, size>>
           entry == NewEntry(file, None, block, src.mem)
<1>1. cli[p].pc = "ports" /\ UNCHANGED <<file, dir, keys, made, qemu>> /\ cli[p].cmd = "clone"
  BY DEF ClonePorts, At, NodesInv, CommandRecord
<1>2. /\ HostTypes /\ Typed(file) /\ Apart(file) /\ \A m \in DOMAIN file : Sound(dir, keys, m)
      /\ CommandTypes(cli[p]) /\ Progress(cli[p], file, dir, keys)
  BY <1>1 DEF TruthInv
<1>3. /\ to \in Names /\ to \notin DOMAIN file /\ cli[p].vm \in DOMAIN file /\ cli[p].reg = file
      /\ Sound(dir, keys, to)
  BY <1>1, <1>2 DEF CommandTypes, Progress, Cloning, TargetOf
<1>4. IF entry = None THEN GoTo(p, "purge") ELSE WithEntry(p, to, entry)
  BY <1>1, <1>3 DEF ClonePorts, Target
<1>5. HostTypes'
  BY <1>1, <1>2 DEF HostTypes
<1>6. CASE GoTo(p, "purge")
  <2>1. /\ cli'[p].pc = "purge" /\ cli'[p].cmd = cli[p].cmd /\ cli'[p].vm = cli[p].vm
        /\ cli'[p].arg = to /\ cli'[p].reg = cli[p].reg /\ TargetOf(cli'[p]) = to
    BY <1>1, <1>6, MovedOn DEF TargetOf
  <2>2. CommandTypes(cli'[p])
    BY <1>2, <2>1 DEF CommandTypes, Labels
  <2>3. Progress(cli'[p], file, dir, keys)
    BY <1>3, <2>1 DEF Progress, Building, Cloning, Purging
  <2> QED  BY <1>1, <1>2, <1>5, <2>2, <2>3 DEF TruthInv
<1>7. CASE entry # None /\ WithEntry(p, to, entry)
  <2> DEFINE reg == With(file, to, entry)
  <2>1. /\ cli'[p].pc = "save" /\ cli'[p].cmd = "clone" /\ cli'[p].vm = cli[p].vm
        /\ cli'[p].arg = to /\ cli'[p].reg = reg
    BY <1>1, <1>3, <1>7, Recorded
  <2>2. src \in Entry
    BY <1>2, <1>3 DEF Typed
  <2>3. src.mem \in Memories /\ src.adb \in SUBSET Ports
    BY <2>2 DEF Entry
  <2>4. size \in Nat /\ AdbBase \in Ports
    BY <2>3, PortSets, QemuAssumption
  <2> HIDE DEF size
  <2>5. block[1] \in Ports /\ block[2] \in Nat
    BY <2>4
  <2> HIDE DEF src, block
  <2>6. entry \in Entry /\ Fits(entry, file)
    BY <1>2, <1>7, <2>3, <2>5, NewEntryFacts
  <2> HIDE DEF entry, to
  <2>7. DOMAIN reg = DOMAIN file \cup {to} /\ reg[to] = entry /\ \A m \in DOMAIN file : m # to => reg[m] = file[m]
    BY DEF With
  <2>8. Apart(reg)
    BY <1>2, <1>3, <2>6, ApartWith
  <2> HIDE DEF reg
  <2>9. Typed(reg)
    BY <1>2, <1>3, <2>6, <2>7 DEF Typed
  <2>10. CommandTypes(cli'[p])
    BY <1>2, <1>3, <2>1, <2>8, <2>9 DEF CommandTypes, Labels, Commands
  <2>11. Progress(cli'[p], file, dir, keys)
    BY <1>2, <1>3, <2>1, <2>7 DEF Progress, Building, Cloning, Purging
  <2> QED  BY <1>1, <1>2, <1>5, <2>10, <2>11 DEF TruthInv
<1> QED  BY <1>4, <1>6, <1>7

-----------------------------------------------------------------------------
(* The guests.                                                             *)

\* What a QEMU process does to the disk of its node, which is registered, does not concern
\* the node that a command is making.
LEMMA GuestActs ==
  ASSUME NEW p, NodesInv(p), TruthInv(p), UNCHANGED <<file, keys, cli>>, HostTypes',
         \A m \in Names : Sound(dir, keys, m) => Sound(dir', keys, m),
         \A m \in DOMAIN dir \ DOMAIN file :
           m \in DOMAIN dir' /\ dir'[m].disk = dir[m].disk /\ dir'[m].seed = dir[m].seed
  PROVE  TruthInv(p)'
<1>1. Typed(file) /\ Apart(file) /\ \A m \in DOMAIN file : Sound(dir, keys, m)
  BY DEF TruthInv
<1>2. \A m \in DOMAIN file : Sound(dir', keys, m)
  BY <1>1 DEF Typed
<1>3. CASE cli[p].pc = "idle"
  BY <1>1, <1>2, <1>3 DEF TruthInv
<1>4. CASE cli[p].pc # "idle"
  <2> DEFINE c == cli[p]
  <2>1. CommandTypes(c) /\ Progress(c, file, dir, keys)
    BY <1>4 DEF TruthInv
  <2>2. c.pc = "save" => \A m \in DOMAIN c.reg : Sound(dir', keys, m)
    BY <2>1 DEF Progress, CommandTypes, Typed
  <2>3. c.pc = "disk" => c.vm \in DOMAIN dir' /\ Opens(keys, c.vm, dir'[c.vm].seed)
    BY <2>1 DEF Progress, Building, TargetOf, NodesInv, CommandRecord
  <2>4. c.pc \in Cloning => c.cmd = "clone" /\ c.arg \notin DOMAIN file /\ c.arg \in Names
    BY <2>1 DEF Progress, Cloning, TargetOf, NodesInv, CommandRecord, CommandTypes
  <2>5. c.pc \in {"overlay", "identity"} =>
          /\ c.arg \in DOMAIN dir /\ c.arg \in DOMAIN dir'
          /\ dir'[c.arg].disk = dir[c.arg].disk /\ dir'[c.arg].seed = dir[c.arg].seed
    BY <2>1, <2>4 DEF Progress, Cloning
  <2>6. c.pc = "ports" => Sound(dir', keys, c.arg)
    BY <2>1, <2>4 DEF Progress, Cloning
  <2> HIDE DEF c
  <2>7. Progress(c, file, dir', keys)
    BY <2>1, <2>2, <2>3, <2>5, <2>6 DEF Progress
  <2> QED  BY <1>1, <1>2, <2>1, <2>7 DEF TruthInv, c
<1> QED  BY <1>3, <1>4

LEMMA QemuBootsTruth ==
  ASSUME NEW p, NodesInv(p), TruthInv(p), NEW n, QemuBoots(n)
  PROVE  TruthInv(p)'
<1>1. /\ n \in DOMAIN qemu /\ n \in DOMAIN file /\ UNCHANGED <<file, keys, made, cli>>
      /\ qemu' = [qemu EXCEPT ![n].state = "up"]
  BY DEF QemuBoots, Has, NodesInv, Agrees
<1>2. HostTypes /\ n \in Names /\ n \in DOMAIN dir /\ Sound(dir, keys, n)
  BY <1>1 DEF TruthInv, Typed, Sound
<1> DEFINE disk == dir[n].disk
           k == IF disk.key = None THEN dir[n].seed ELSE disk.key
           disk2 == [disk EXCEPT !.key = k]
           d == [dir[n] EXCEPT !.disk = disk2]
<1>3. dir' = [dir EXCEPT ![n] = d]
  BY <1>2 DEF QemuBoots, Has, Sound
<1>4. dir[n] \in Node /\ disk \in Disk /\ dir[n].seed \in KeyIds \cup {None} /\ disk.key \in KeyIds \cup {None}
  BY <1>2, NodeFields DEF HostTypes, Sound
<1>5. k \in KeyIds \cup {None} /\ Opens(keys, n, k)
  BY <1>2, <1>4 DEF Sound
<1> HIDE DEF k
<1>6. disk2 \in Disk /\ disk2.key = k /\ disk2.snaps = disk.snaps /\ disk2 # None
  BY <1>4, <1>5, DiskKeyed, DiskFacts
<1> HIDE DEF disk2
<1>7. d \in Node /\ d.disk = disk2 /\ d.seed = dir[n].seed
  BY <1>4, <1>6, NodeUpdates
<1> HIDE DEF d
<1>8. dir' = With(dir, n, d)
  BY <1>2, <1>3, DirUpdate
<1>9. /\ DOMAIN dir' = DOMAIN dir /\ dir'[n] = d /\ \A m \in DOMAIN dir : m # n => dir'[m] = dir[m]
  BY <1>2, <1>3
<1>10. HostTypes'
  <2>1. DOMAIN dir' \subseteq Names /\ \A m \in DOMAIN dir' : dir'[m] \in Node
    BY <1>2, <1>7, <1>9 DEF HostTypes
  <2>2. \A m \in DOMAIN qemu : qemu[m] \in [state : {"spawned", "up"}, qmp : Ports, mem : Memories]
    BY <1>2 DEF HostTypes
  <2>3. /\ DOMAIN qemu' = DOMAIN qemu
        /\ \A m \in DOMAIN qemu' : qemu'[m] \in [state : {"spawned", "up"}, qmp : Ports, mem : Memories]
    BY <1>1, <2>2
  <2> QED  BY <1>1, <1>2, <2>1, <2>3 DEF HostTypes
<1>11. Sound(dir', keys, n)
  BY <1>2, <1>5, <1>6, <1>7, <1>9 DEF Sound
<1>12. ASSUME NEW m \in Names, Sound(dir, keys, m) PROVE Sound(dir', keys, m)
  <2>1. CASE m = n
    BY <1>11, <2>1
  <2>2. CASE m # n
    BY <1>9, <1>12, <2>2, SoundStays DEF Sound
  <2> QED  BY <2>1, <2>2
<1> QED  BY <1>1, <1>9, <1>10, <1>12, GuestActs

LEMMA QemuExitsTruth ==
  ASSUME NEW p, NodesInv(p), TruthInv(p), NEW n, QemuExits(n)
  PROVE  TruthInv(p)'
<1>1. /\ UNCHANGED <<file, keys, made, cli>> /\ qemu' = Without(qemu, n)
      /\ UNCHANGED dir \/ (n \in DOMAIN dir /\ dir' = [dir EXCEPT ![n].pid = "dead"])
  BY DEF QemuExits, Has
<1>2. HostTypes
  BY DEF TruthInv
<1>3. /\ DOMAIN dir' = DOMAIN dir /\ DOMAIN dir' \subseteq Names
      /\ \A m \in DOMAIN dir' : /\ dir'[m] \in Node
                                /\ dir'[m].disk = dir[m].disk /\ dir'[m].seed = dir[m].seed
  BY <1>1, <1>2, PidRecorded DEF HostTypes
<1>4. DOMAIN qemu' \subseteq DOMAIN qemu /\ \A m \in DOMAIN qemu' : qemu'[m] = qemu[m]
  BY <1>1 DEF Without, Restrict
<1>5. HostTypes'
  BY <1>1, <1>2, <1>3, <1>4 DEF HostTypes
<1>6. ASSUME NEW m \in Names, Sound(dir, keys, m) PROVE Sound(dir', keys, m)
  BY <1>3, <1>6, SoundStays DEF Sound
<1> QED  BY <1>1, <1>3, <1>5, <1>6, GuestActs

-----------------------------------------------------------------------------
LEMMA TruthInvInit ==
  ASSUME NEW p, Procs = {p}, Init
  PROVE  TruthInv(p)
<1>1. cli[p].pc = "idle" /\ file = <<>> /\ dir = <<>> /\ keys = <<>> /\ qemu = <<>> /\ made = 0
  BY DEF Init, Idle
<1>2. made \in KeyIds
  BY <1>1, QemuAssumption DEF KeyIds
<1> QED  BY <1>1, <1>2 DEF TruthInv, HostTypes, Typed, Apart

LEMMA TruthInvStep ==
  ASSUME NEW p, Procs = {p}, NodesInv(p), TruthInv(p), [Next]_vars
  PROVE  TruthInv(p)'
<1>1. CASE Begin(p)
  BY <1>1, BeginTruth
<1>2. CASE Step(p)
  BY <1>2, CreateKeyTruth, CreateSeedTruth, CreateDiskTruth, StartLaunchTruth, DeleteForgetTruth,
     PurgeTruth, SnapshotTruth, RestoreTruth, CloneMkdirTruth, CloneOverlayTruth, CloneIdentityTruth,
     ClonePortsTruth, SaveTruth, KilledTruth DEF Step
<1>3. ASSUME NEW n \in Names, QemuBoots(n) \/ QemuExits(n) PROVE TruthInv(p)'
  BY <1>3, QemuBootsTruth, QemuExitsTruth
<1>4. CASE UNCHANGED vars
  BY <1>4 DEF vars, TruthInv, HostTypes
<1> QED  BY <1>1, <1>2, <1>3, <1>4 DEF Next

\* The registry, a single operator's: of the QEMU processes, of ports that no two nodes
\* share, of disks that are there and of keys that open their guests, through every
\* creation, clone, snapshot, restore and removal, cut off anywhere.
THEOREM RegistryTrue ==
  ASSUME NEW p, Procs = {p}
  PROVE  Spec => []RegistryIsTrue
<1>1. Init => NodesInv(p) /\ TruthInv(p)
  BY NodesInvInit, TruthInvInit
<1>2. (NodesInv(p) /\ TruthInv(p)) /\ [Next]_vars => (NodesInv(p) /\ TruthInv(p))'
  BY NodesInvStep, TruthInvStep
<1>3. NodesInv(p) /\ TruthInv(p) => RegistryIsTrue
  <2> SUFFICES ASSUME NodesInv(p), TruthInv(p) PROVE RegistryIsTrue
    OBVIOUS
  <2>1. LiveNodesMatchRegistry
    BY DEF NodesInv, Agrees, LiveNodesMatchRegistry, Has
  <2>2. PortsAreDisjoint
    BY AloneIsCounted DEF TruthInv, Typed, Apart, Alone, PortsAreDisjoint
  <2>3. RegisteredNodesHaveDisks /\ KeyOpensGuest
    BY DEF TruthInv, Sound, Opens, RegisteredNodesHaveDisks, KeyOpensGuest, Has
  <2> QED  BY <2>1, <2>2, <2>3 DEF RegistryIsTrue
<1> QED  BY <1>1, <1>2, <1>3, PTL DEF Spec

\* The types of what qemu-center keeps, and of its commands.
THEOREM NodeTypes ==
  ASSUME NEW p, Procs = {p}
  PROVE  Spec => []TypeOK
<1>1. Init => NodesInv(p) /\ TruthInv(p)
  BY NodesInvInit, TruthInvInit
<1>2. (NodesInv(p) /\ TruthInv(p)) /\ [Next]_vars => (NodesInv(p) /\ TruthInv(p))'
  BY NodesInvStep, TruthInvStep
<1>3. TruthInv(p) => TypeOK
  BY DEF TruthInv, HostTypes, Typed, CommandTypes, TypeOK, At
<1> QED  BY <1>1, <1>2, <1>3, PTL DEF Spec

-----------------------------------------------------------------------------
(* A host that is being set up, for all numbers of releases, commands and     *)
(* directories.                                                               *)

HostPlaces == {"begin", "lay", "hash", "download", "verify", "direct", "check", "install", "wait"}

HostShapes ==
  /\ feature \in FeatureStates /\ accelerated \in BOOLEAN /\ holds \in [PlaceSet -> SUBSET {"system", "img"}]
  /\ published \in 1..LastRelease /\ sums \in 0..LastRelease /\ imagesDir \in BOOLEAN
  /\ marker \in {"none", "done", "already", "error"} /\ child \in BOOLEAN
  /\ installer \in {"none", "pinned", "other"}
  /\ commands \in 0..MaxCommands
  /\ work \in [todo : Seq(Steps), pc : HostPlaces, auto : BOOLEAN]

\* How far a step has come shows what was checked: the installer that is run is the pinned
\* one, a disk is laid when there is an image, and while the elevated child is waited for,
\* "done" is what it wrote, with the feature on.
StepsInv ==
  /\ work.pc = "install" => installer = "pinned"
  /\ work.pc = "lay" => image # << >>
  /\ work.pc = "wait" => work.todo # << >> /\ (marker = "done" => feature = "Enabled")

SaidTruly ==
  /\ told.step \in Steps \cup Checks \cup {"none"}
  /\ told.step \in Checks =>
       /\ told.code = "ok" => told.truth \/ told.said = "slow"
       /\ told.code = "fail" => ~told.truth \/ told.said \in {"empty", "timeout"}

HostInv == HostShapes /\ StepsInv /\ SaidTruly /\ executed \subseteq {"pinned"} /\ << >> \notin bases

\* What a report that all is well has to be backed by.
ToldTruly ==
  told'.code = "ok" /\ told' # told =>
    /\ told'.step = "image" => image' = <<sums'>>
    /\ told'.step = "qemu" => \E p \in PlaceSet : "system" \in holds'[p]
    /\ told'.step = "whpx" => feature' = "Enabled" \/ told'.said = "already"

WorkOK(w) == w \in [todo : Seq(Steps), pc : HostPlaces, auto : BOOLEAN]

LEMMA FirstStep == ASSUME HostShapes, work.todo # << >> PROVE Head(work.todo) \in Steps /\ WorkOK(work)
<1>1. work.todo \in Seq(Steps) /\ WorkOK(work)
  BY DEF HostShapes, WorkOK
<1> QED
  BY <1>1

\* A step that ends is reported under its own name, and nothing is under way any more.
LEMMA EndsFacts ==
  ASSUME HostShapes, work.todo # << >>, NEW code, NEW claim, Ends(code, claim)
  PROVE  /\ WorkOK(work') /\ StepsInv' /\ SaidTruly'
         /\ told'.step = Head(work.todo) /\ told'.code = code /\ told'.said = claim
<1>1. Head(work.todo) \in Steps /\ WorkOK(work)
  BY FirstStep
<1>2. told'.step = Head(work.todo) /\ told'.code = code /\ told'.said = claim
  BY DEF Ends
<1>3. WorkOK(work') /\ work'.pc = "begin"
  <2>1. CASE work' = Resting0
    BY <2>1 DEF Resting0, WorkOK, HostPlaces
  <2>2. CASE work' = [work EXCEPT !.todo = Tail(@), !.pc = "begin"]
    <3>1. Tail(work.todo) \in Seq(Steps)
      BY <1>1 DEF WorkOK
    <3>2. "begin" \in HostPlaces
      BY DEF HostPlaces
    <3>3. work' = [work EXCEPT !.todo = Tail(work.todo), !.pc = "begin"]
      BY <2>2
    <3> HIDE <2>2
    <3>4. WorkOK(work')
      BY <1>1, <3>1, <3>2, <3>3 DEF WorkOK
    <3>5. work'.pc = "begin"
      BY <1>1, <3>3 DEF WorkOK
    <3> QED
      BY <3>4, <3>5
  <2> QED
    BY <2>1, <2>2 DEF Ends
<1>4. StepsInv'
  BY <1>3 DEF StepsInv
<1>5. SaidTruly'
  BY <1>1, <1>2 DEF SaidTruly, Steps, Checks
<1> QED
  BY <1>2, <1>3, <1>4, <1>5

LEMMA GoOnFacts ==
  ASSUME HostShapes, NEW pc \in HostPlaces, GoOn(pc)
  PROVE  WorkOK(work') /\ work'.todo = work.todo /\ work'.pc = pc
<1>1. WorkOK(work)
  BY DEF HostShapes, WorkOK
<1>2. WorkOK(work')
  BY <1>1 DEF WorkOK, GoOn
<1>3. work'.todo = work.todo /\ work'.pc = pc
  BY <1>1 DEF WorkOK, GoOn
<1> QED
  BY <1>2, <1>3

\* A command begins with its steps, and with nothing said.
LEMMA RunFacts ==
  ASSUME HostInv, NEW todo \in Seq(Steps), NEW pc \in {"begin", "lay"}, NEW auto \in BOOLEAN, Run(todo, pc, auto),
         pc = "lay" => image # << >>
  PROVE  HostInv' /\ ToldTruly
<1>1. HostShapes /\ StepsInv /\ executed \subseteq {"pinned"} /\ << >> \notin bases
  BY DEF HostInv
<1>2. UNCHANGED <<imagesDir, image, sums, holds, pin, installer, executed, feature, accelerated, marker, child, published, bases>>
  BY DEF Run, fileVars, programVars, whpxVars
<1>3. work' = [todo |-> todo, pc |-> pc, auto |-> auto] /\ told' = Silent /\ commands' = commands + 1 /\ commands < MaxCommands
  BY DEF Run
<1>4. commands' \in 0..MaxCommands
  BY <1>1, <1>3, HostAssumption DEF HostShapes
<1>5. WorkOK(work') /\ work'.pc = pc
  BY <1>3 DEF WorkOK, HostPlaces
<1>6. HostShapes'
  BY <1>1, <1>2, <1>4, <1>5 DEF HostShapes, WorkOK
<1>7. StepsInv'
  BY <1>2, <1>5 DEF StepsInv
<1>8. SaidTruly' /\ ToldTruly
  BY <1>3 DEF SaidTruly, ToldTruly, Silent, Checks
<1> QED
  BY <1>1, <1>2, <1>6, <1>7, <1>8 DEF HostInv

\* What is missing is a list of steps that would put it right.
LEMMA MissingFacts ==
  ASSUME NEW answer
  PROVE  /\ MissingPrereqs(answer) \o <<"node">> \in Seq(Steps)
         /\ MissingPrereqs(answer) = << >> => image # << >>
<1>1. ASSUME NEW name \in Steps, NEW there PROVE Missing(name, there) \in Seq(Steps)
  BY DEF Missing
<1> DEFINE a == Missing("whpx", ParseInstallState(answer) = "Enabled")
           b == Missing("qemu", Found("system"))
           c == Missing("image", image # << >>)
<1>2. a \in Seq(Steps) /\ b \in Seq(Steps) /\ c \in Seq(Steps)
  <2>1. "whpx" \in Steps /\ "qemu" \in Steps /\ "image" \in Steps
    BY DEF Steps
  <2> QED
    BY <1>1, <2>1
<1>3. image = << >> => c = <<"image">>
  BY DEF Missing
<1>4. MissingPrereqs(answer) = a \o b \o c
  BY DEF MissingPrereqs
<1> HIDE DEF a, b, c
<1>5. a \o b \o c \in Seq(Steps) /\ <<"node">> \in Seq(Steps)
  BY <1>2 DEF Steps
<1>6. a \o b \o c = << >> => Len(c) = 0
  BY <1>2
<1>7. c = <<"image">> => Len(c) = 1
  OBVIOUS
<1>8. MissingPrereqs(answer) \o <<"node">> \in Seq(Steps)
  <2>1. \A p \in Seq(Steps), q \in Seq(Steps) : p \o q \in Seq(Steps)
    OBVIOUS
  <2> QED
    BY <1>4, <1>5, <2>1
<1>9. MissingPrereqs(answer) = << >> => image # << >>
  <2>1. SUFFICES ASSUME MissingPrereqs(answer) = << >>, image = << >> PROVE FALSE
    OBVIOUS
  <2>2. Len(c) = 0
    BY <1>4, <1>6, <2>1
  <2>3. Len(c) = 1
    BY <1>3, <1>7, <2>1
  <2> QED
    BY <2>2, <2>3
<1> QED
  BY <1>8, <1>9

-----------------------------------------------------------------------------
LEMMA CommandSteps ==
  ASSUME HostInv,
         \/ SetupCommand \/ \E answer \in {"state", "timeout"}, auto \in BOOLEAN : CreateNode(answer, auto)
         \/ \E answer \in {"state", "timeout"} : CheckAgain(answer)
         \/ LayDisk \/ CloseWindow
  PROVE  HostInv' /\ ToldTruly
<1>1. HostShapes /\ StepsInv /\ SaidTruly /\ executed \subseteq {"pinned"} /\ << >> \notin bases
  BY DEF HostInv
<1>2. CASE SetupCommand
  <2>1. PICK todo \in {<<"image">>, <<"qemu">>, <<"machine">>, <<"whpx">>, <<"image", "qemu", "whpx">>} :
          Run(todo, "begin", FALSE)
    BY <1>2 DEF SetupCommand
  <2>2. todo \in Seq(Steps)
    <3>1. {"image", "qemu", "machine", "whpx"} \subseteq Steps
      BY DEF Steps
    <3>2. \A step \in Steps : <<step>> \in Seq(Steps)
      OBVIOUS
    <3>3. <<"image", "qemu", "whpx">> \in Seq(Steps)
      BY <3>1
    <3> QED
      BY <2>1, <3>1, <3>2, <3>3
  <2>3. "begin" \in {"begin", "lay"} /\ FALSE \in BOOLEAN /\ "begin" # "lay"
    OBVIOUS
  <2> QED
    BY <2>1, <2>2, <2>3, RunFacts
<1>3. ASSUME NEW answer, NEW auto \in BOOLEAN, CreateNode(answer, auto) PROVE HostInv' /\ ToldTruly
  <2>1. PICK missing : missing = MissingPrereqs(answer)
    OBVIOUS
  <2>2. PICK todo : todo = missing \o <<"node">>
    OBVIOUS
  <2>3. todo \in Seq(Steps) /\ (missing = << >> => image # << >>)
    BY <2>1, <2>2, MissingFacts
  <2>4. PICK pc \in {"begin", "lay"} : pc = (IF missing = << >> THEN "lay" ELSE "begin")
    OBVIOUS
  <2>5. Run(todo, pc, TRUE)
    BY <1>3, <2>1, <2>2, <2>4 DEF CreateNode
  <2>6. pc = "lay" => image # << >>
    BY <2>3, <2>4
  <2> QED
    BY <2>3, <2>5, <2>6, RunFacts
<1>4. ASSUME NEW answer, CheckAgain(answer) PROVE HostInv' /\ ToldTruly
  <2>1. UNCHANGED <<imagesDir, image, sums, holds, pin, installer, executed, feature, accelerated, marker, child, published, commands, bases>>
    BY <1>4 DEF CheckAgain, fileVars, programVars, whpxVars
  <2>2. work.todo # << >> /\ Head(work.todo) = "node"
    BY <1>4 DEF CheckAgain, Doing
  <2>3. CASE MissingPrereqs(answer) # << >> /\ Ends("missing", "still missing")
    <3>1. WorkOK(work') /\ StepsInv' /\ SaidTruly' /\ told'.code = "missing"
      BY <1>1, <2>2, <2>3, EndsFacts
    <3> QED
      BY <1>1, <2>1, <3>1 DEF HostInv, HostShapes, WorkOK, ToldTruly
  <2>4. CASE MissingPrereqs(answer) = << >> /\ GoOn("lay") /\ UNCHANGED told
    <3>1. "lay" \in HostPlaces
      BY DEF HostPlaces
    <3>2. WorkOK(work') /\ work'.pc = "lay"
      BY <1>1, <2>4, <3>1, GoOnFacts
    <3>3. image # << >>
      BY <2>4, MissingFacts
    <3> QED
      BY <1>1, <2>1, <2>4, <3>2, <3>3 DEF HostInv, HostShapes, WorkOK, ToldTruly, StepsInv, SaidTruly
  <2> QED
    BY <1>4, <2>3, <2>4 DEF CheckAgain
<1>5. CASE LayDisk
  <2>1. UNCHANGED <<imagesDir, image, sums, holds, pin, installer, executed, feature, accelerated, marker, child, published, commands>>
    BY <1>5 DEF LayDisk, fileVars, programVars, whpxVars
  <2>2. work.todo # << >> /\ Head(work.todo) = "node" /\ work.pc = "lay"
    BY <1>5 DEF LayDisk, Doing
  <2>3. PICK code, claim : Ends(code, claim)
    BY <1>5 DEF LayDisk
  <2>4. WorkOK(work') /\ StepsInv' /\ SaidTruly' /\ told'.step = "node"
    BY <1>1, <2>2, <2>3, EndsFacts
  <2>5. << >> \notin bases'
    BY <1>1, <1>5, <2>2 DEF LayDisk, StepsInv
  <2> QED
    BY <1>1, <2>1, <2>4, <2>5 DEF HostInv, HostShapes, WorkOK, ToldTruly
<1>6. CASE CloseWindow
  <2>1. UNCHANGED <<imagesDir, image, sums, holds, pin, installer, executed, feature, accelerated, marker, child, published, commands, told, bases>>
    BY <1>6 DEF CloseWindow, fileVars, programVars, whpxVars
  <2>2. WorkOK(work') /\ work'.pc = "begin"
    BY <1>6 DEF CloseWindow, Resting0, WorkOK, HostPlaces
  <2> QED
    BY <1>1, <2>1, <2>2 DEF HostInv, HostShapes, WorkOK, ToldTruly, StepsInv, SaidTruly
<1> QED
  BY <1>2, <1>3, <1>4, <1>5, <1>6

LEMMA ImageSteps ==
  ASSUME HostInv, FetchSums \/ HashExisting \/ DownloadImage \/ VerifyImage
  PROVE  HostInv' /\ ToldTruly
<1>1. HostShapes /\ StepsInv /\ SaidTruly /\ executed \subseteq {"pinned"} /\ << >> \notin bases
  BY DEF HostInv
<1>2. UNCHANGED <<holds, pin, installer, executed, feature, accelerated, marker, child, published, commands, bases>>
  BY DEF FetchSums, HashExisting, DownloadImage, VerifyImage, fileVars, programVars, whpxVars
<1>3. work.todo # << >> /\ Head(work.todo) = "image" /\ work.pc \notin {"install", "lay", "wait"}
  BY DEF FetchSums, HashExisting, DownloadImage, VerifyImage, Doing
<1>4. sums' \in 0..LastRelease /\ imagesDir' \in BOOLEAN
  <2>1. published \in 0..LastRelease
    BY <1>1, HostAssumption DEF HostShapes
  <2> QED
    BY <1>1, <2>1 DEF HostShapes, FetchSums, HashExisting, DownloadImage, VerifyImage, fileVars
<1>5. ASSUME NEW pc, pc \in {"hash", "download", "verify"}, GoOn(pc), UNCHANGED told PROVE HostInv' /\ ToldTruly
  <2>1. pc \in HostPlaces
    BY <1>5 DEF HostPlaces
  <2>2. WorkOK(work') /\ work'.pc = pc
    BY <1>1, <1>5, <2>1, GoOnFacts
  <2> QED
    BY <1>1, <1>2, <1>4, <1>5, <2>2 DEF HostInv, HostShapes, WorkOK, ToldTruly, StepsInv, SaidTruly
<1>6. ASSUME NEW code, NEW claim, Ends(code, claim), code = "ok" => image' = <<sums'>>
      PROVE  HostInv' /\ ToldTruly
  <2>1. WorkOK(work') /\ StepsInv' /\ SaidTruly' /\ told'.step = "image" /\ told'.code = code
    BY <1>1, <1>3, <1>6, EndsFacts
  <2>2. ToldTruly
    BY <1>6, <2>1 DEF ToldTruly
  <2> QED
    BY <1>1, <1>2, <1>4, <2>1, <2>2 DEF HostInv, HostShapes, WorkOK
<1>7. CASE FetchSums
  BY <1>5, <1>6, <1>7 DEF FetchSums
<1>8. CASE HashExisting
  <2>1. UNCHANGED <<image, sums>>
    BY <1>8 DEF HashExisting, fileVars
  <2> QED
    BY <1>5, <1>6, <1>8, <2>1 DEF HashExisting, ShaMatches
<1>9. CASE DownloadImage
  BY <1>5, <1>6, <1>9 DEF DownloadImage
<1>10. CASE VerifyImage
  <2>1. UNCHANGED <<image, sums>>
    BY <1>10 DEF VerifyImage, fileVars
  <2> QED
    BY <1>5, <1>6, <1>10, <2>1 DEF VerifyImage, ShaMatches
<1> QED
  BY <1>7, <1>8, <1>9, <1>10

\* The portable directory and the machine's are directories.
LEMMA PlacesAre == Portable \in PlaceSet /\ Places[1] \in PlaceSet
<1>1. Len(Places) \in DOMAIN Places /\ 1 \in DOMAIN Places
  <2>1. \A n \in Nat \ {0} : n \in 1..n /\ 1 \in 1..n
    OBVIOUS
  <2> QED
    BY <2>1, HostAssumption
<1> QED
  BY <1>1 DEF Portable, PlaceSet

\* A program that is found is in one of the directories.
LEMMA FoundIsThere ==
  ASSUME NEW program, Found(program)
  PROVE  \E p \in PlaceSet : program \in holds[p]
BY DEF Found, Discover, PlaceSet

LEMMA PutFacts ==
  ASSUME HostShapes, NEW p \in PlaceSet, NEW put \in SUBSET {"system", "img"}, holds' = [holds EXCEPT ![p] = @ \cup put]
  PROVE  holds' \in [PlaceSet -> SUBSET {"system", "img"}]
BY DEF HostShapes

LEMMA QemuSteps ==
  ASSUME HostInv, FetchInstaller \/ CheckInstaller \/ RunPortable \/ MachineInstall
  PROVE  HostInv' /\ ToldTruly
<1>1. HostShapes /\ StepsInv /\ SaidTruly /\ executed \subseteq {"pinned"} /\ << >> \notin bases
  BY DEF HostInv
<1>2. UNCHANGED <<imagesDir, image, sums, pin, feature, accelerated, marker, child, published, commands, bases>>
  BY DEF FetchInstaller, CheckInstaller, RunPortable, MachineInstall, fileVars, programVars, whpxVars
<1>3. /\ work.todo # << >> /\ Head(work.todo) \in {"qemu", "machine"}
      /\ work.pc \notin {"lay", "wait"}
  BY DEF FetchInstaller, CheckInstaller, RunPortable, MachineInstall, Doing
<1>4. installer' \in {"none", "pinned", "other"}
  BY <1>1 DEF FetchInstaller, CheckInstaller, RunPortable, MachineInstall, HostShapes, programVars
<1>5. executed' \subseteq {"pinned"}
  <2>1. work.pc = "install" => installer = "pinned"
    BY <1>1 DEF StepsInv
  <2> QED
    BY <1>1, <2>1 DEF FetchInstaller, CheckInstaller, RunPortable, MachineInstall, programVars, Doing
<1>6. holds' \in [PlaceSet -> SUBSET {"system", "img"}]
  <2>1. CASE UNCHANGED holds
    BY <1>1, <2>1 DEF HostShapes
  <2>2. CASE RunPortable
    <3>1. PICK put \in SUBSET {"system", "img"} : holds' = [holds EXCEPT ![Portable] = @ \cup put]
      BY <2>2 DEF RunPortable
    <3> QED
      BY <1>1, <3>1, PlacesAre, PutFacts
  <2>3. CASE MachineInstall /\ holds' # holds
    <3>1. PICK put \in SUBSET {"system", "img"} : holds' = [holds EXCEPT ![Places[1]] = @ \cup put]
      BY <2>3 DEF MachineInstall
    <3> QED
      BY <1>1, <3>1, PlacesAre, PutFacts
  <2> QED
    BY <2>1, <2>2, <2>3 DEF FetchInstaller, CheckInstaller, programVars
<1>7. ASSUME NEW pc, pc \in {"check", "install", "direct"}, GoOn(pc), UNCHANGED told, pc = "install" => installer' = "pinned"
      PROVE  HostInv' /\ ToldTruly
  <2>1. pc \in HostPlaces
    BY <1>7 DEF HostPlaces
  <2>2. WorkOK(work') /\ work'.pc = pc
    BY <1>1, <1>7, <2>1, GoOnFacts
  <2> QED
    BY <1>1, <1>2, <1>4, <1>5, <1>6, <1>7, <2>2 DEF HostInv, HostShapes, WorkOK, ToldTruly, StepsInv, SaidTruly
<1>8. ASSUME NEW code, NEW claim, Ends(code, claim),
             code = "ok" /\ Head(work.todo) = "qemu" => \E p \in PlaceSet : "system" \in holds'[p]
      PROVE  HostInv' /\ ToldTruly
  <2>1. WorkOK(work') /\ StepsInv' /\ SaidTruly' /\ told'.step = Head(work.todo) /\ told'.code = code
    BY <1>1, <1>3, <1>8, EndsFacts
  <2>2. ToldTruly
    BY <1>3, <1>8, <2>1 DEF ToldTruly
  <2> QED
    BY <1>1, <1>2, <1>4, <1>5, <1>6, <2>1, <2>2 DEF HostInv, HostShapes, WorkOK
<1>9. CASE FetchInstaller
  <2>1. UNCHANGED holds
    BY <1>9 DEF FetchInstaller
  <2>2. CASE Found("system") /\ Doing("qemu", "begin") /\ Ends("ok", "present")
    BY <1>8, <2>1, <2>2, FoundIsThere
  <2>3. CASE \E claim : Ends("failed", claim)
    BY <1>8, <2>3
  <2>4. CASE GoOn("check") /\ UNCHANGED told
    BY <1>7, <2>4
  <2> QED
    BY <1>9, <2>2, <2>3, <2>4 DEF FetchInstaller
<1>10. CASE CheckInstaller
  <2>1. UNCHANGED installer
    BY <1>10 DEF CheckInstaller, programVars
  <2>2. CASE Pinned /\ GoOn("install") /\ UNCHANGED told
    BY <1>7, <2>1, <2>2 DEF Pinned
  <2>3. CASE Ends("failed", "digest")
    BY <1>8, <2>3
  <2> QED
    BY <1>10, <2>2, <2>3 DEF CheckInstaller
<1>11. CASE RunPortable
  <2>1. CASE "system" \in holds'[Portable] /\ Ends("ok", "installed")
    BY <1>8, <2>1, PlacesAre
  <2>2. CASE Ends("failed", "not there")
    BY <1>8, <2>2
  <2> QED
    BY <1>11, <2>1, <2>2 DEF RunPortable
<1>12. CASE MachineInstall
  <2>1. Head(work.todo) = "machine"
    BY <1>12 DEF MachineInstall, Doing
  <2>2. CASE GoOn("direct") /\ UNCHANGED told
    BY <1>7, <2>2
  <2>3. CASE \E code, claim : Ends(code, claim)
    BY <1>8, <2>1, <2>3
  <2> QED
    BY <1>12, <2>2, <2>3 DEF MachineInstall
<1> QED
  BY <1>9, <1>10, <1>11, <1>12

LEMMA WhpxSteps ==
  ASSUME HostInv, AskElevation \/ TurnOff \/ Dism \/ ReadMarker
  PROVE  HostInv' /\ ToldTruly
<1>1. HostShapes /\ StepsInv /\ SaidTruly /\ executed \subseteq {"pinned"} /\ << >> \notin bases
  BY DEF HostInv
<1>2. UNCHANGED <<imagesDir, image, sums, holds, pin, installer, executed, accelerated, published, commands, bases>>
  BY DEF AskElevation, TurnOff, Dism, ReadMarker, fileVars, programVars, whpxVars
<1>3. CASE AskElevation
  <2>1. work.todo # << >> /\ Head(work.todo) = "whpx" /\ UNCHANGED feature
    BY <1>3 DEF AskElevation, Doing
  <2>2. CASE feature = "Enabled" /\ Ends("ok", "already") /\ UNCHANGED <<marker, child>>
    <3>1. WorkOK(work') /\ StepsInv' /\ SaidTruly' /\ told'.step = "whpx" /\ told'.said = "already"
      BY <1>1, <2>1, <2>2, EndsFacts
    <3> QED
      BY <1>1, <1>2, <2>1, <2>2, <3>1 DEF HostInv, HostShapes, WorkOK, ToldTruly
  <2>3. CASE marker' = ClearedMarker /\ GoOn("wait") /\ UNCHANGED told /\ child' \in {child, TRUE}
    <3>1. "wait" \in HostPlaces
      BY DEF HostPlaces
    <3>2. WorkOK(work') /\ work'.todo = work.todo /\ work'.pc = "wait"
      BY <1>1, <2>3, <3>1, GoOnFacts
    <3>3. StepsInv'
      BY <2>1, <2>3, <3>2 DEF StepsInv, ClearedMarker
    <3> QED
      BY <1>1, <1>2, <2>1, <2>3, <3>2, <3>3 DEF HostInv, HostShapes, WorkOK, ToldTruly, SaidTruly, ClearedMarker
  <2> QED
    BY <1>3, <2>2, <2>3 DEF AskElevation
<1>4. CASE TurnOff
  <2>1. work.todo = << >> /\ feature' = "Disabled" /\ UNCHANGED <<marker, child, work, told>>
    BY <1>4 DEF TurnOff
  <2> QED
    BY <1>1, <1>2, <2>1 DEF HostInv, HostShapes, ToldTruly, SaidTruly, StepsInv, FeatureStates
<1>5. CASE Dism
  <2>1. /\ child' = FALSE /\ UNCHANGED <<work, told>>
        /\ \/ feature' = "Enabled" /\ marker' = "done"
           \/ feature' = feature /\ marker' \in {"already", "error"}
    BY <1>5 DEF Dism
  <2>2. /\ feature' \in FeatureStates /\ marker' \in {"none", "done", "already", "error"}
        /\ marker' = "done" => feature' = "Enabled"
    BY <1>1, <2>1 DEF HostShapes, FeatureStates
  <2>3. HostShapes'
    BY <1>1, <1>2, <2>1, <2>2 DEF HostShapes
  <2>4. StepsInv'
    BY <1>1, <1>2, <2>1, <2>2 DEF StepsInv
  <2>5. SaidTruly' /\ ToldTruly
    BY <1>1, <2>1 DEF SaidTruly, ToldTruly
  <2> QED
    BY <1>1, <1>2, <2>3, <2>4, <2>5 DEF HostInv
<1>6. CASE ReadMarker
  <2>1. work.todo # << >> /\ Head(work.todo) = "whpx" /\ work.pc = "wait" /\ UNCHANGED <<feature, marker, child>>
    BY <1>6 DEF ReadMarker, Doing, whpxVars
  <2>2. PICK code, claim : /\ Ends(code, claim)
                           /\ code = "ok" => claim = marker /\ marker \in {"done", "already"}
    <3>1. CASE Ends("failed", "timed out")
      <4>1. Ends("failed", "timed out") /\ ("failed" = "ok" => "timed out" = marker /\ marker \in {"done", "already"})
        BY <3>1
      <4> QED
        BY <4>1, Zenon
    <3>2. CASE marker \in {"none", "error"} /\ Ends("failed", marker)
      BY <3>2
    <3>3. CASE marker \notin {"none", "error"} /\ Ends("ok", marker)
      <4>1. marker \in {"done", "already"}
        BY <1>1, <3>3 DEF HostShapes
      <4> QED
        BY <3>3, <4>1
    <3> QED
      BY <1>6, <3>1, <3>2, <3>3 DEF ReadMarker
  <2>3. WorkOK(work') /\ StepsInv' /\ SaidTruly' /\ told'.step = "whpx" /\ told'.code = code /\ told'.said = claim
    <3>1. HostShapes /\ work.todo # << >> /\ Head(work.todo) = "whpx" /\ Ends(code, claim)
      BY <1>1, <2>1, <2>2
    <3>2. /\ WorkOK(work') /\ StepsInv' /\ SaidTruly'
          /\ told'.step = Head(work.todo) /\ told'.code = code /\ told'.said = claim
      BY <3>1, EndsFacts
    <3> QED
      BY <3>1, <3>2
  <2>4. ToldTruly
    BY <1>1, <2>1, <2>2, <2>3 DEF ToldTruly, StepsInv
  <2> QED
    BY <1>1, <1>2, <2>1, <2>3, <2>4 DEF HostInv, HostShapes, WorkOK
<1> QED
  BY <1>3, <1>4, <1>5, <1>6

\* The free bytes are in the first line, whatever the language.
LEMMA FreeBytes ==
  ASSUME NEW answer, NEW free \in 0..Roomy
  PROVE  ParseFsutil(FsutilLines(answer, free)) \in {<< >>, <<free>>}
<1>1. Roomy \in Nat /\ free \in Nat
  BY HostAssumption
<1>2. PICK numbers : numbers = {free, 0}
  OBVIOUS
<1>3. LargestOf(numbers) = free
  <2>1. free \in numbers /\ \A m \in numbers : m <= free
    BY <1>1, <1>2
  <2>2. \A n \in numbers : (\A m \in numbers : m <= n) => n = free
    BY <1>1, <1>2
  <2> QED
    BY <2>1, <2>2 DEF LargestOf
<1>4. ASSUME NEW known \in BOOLEAN, NEW other,
             FsutilLines(answer, free) = <<[label |-> known, numbers |-> numbers], [label |-> FALSE, numbers |-> other]>>
      PROVE  ParseFsutil(FsutilLines(answer, free)) = <<free>>
  <2>1. PICK a, b : a = [label |-> known, numbers |-> numbers] /\ b = [label |-> FALSE, numbers |-> other]
    OBVIOUS
  <2>2. PICK lines : lines = <<a, b>>
    OBVIOUS
  <2>3. a.label = known /\ a.numbers = numbers /\ b.label = FALSE
    BY <2>1
  <2>4. DOMAIN lines = {1, 2} /\ lines[1] = a /\ lines[2] = b /\ lines # << >>
    BY <2>2
  <2>5. LineOfFree(lines) = 1
    <3>1. PICK labelled : labelled = {i \in DOMAIN lines : lines[i].label}
      OBVIOUS
    <3>2. labelled = {} \/ labelled = {1}
      BY <2>3, <2>4, <3>1
    <3>3. (CHOOSE i \in {1} : \A j \in {1} : i <= j) = 1
      OBVIOUS
    <3> QED
      BY <3>1, <3>2, <3>3 DEF LineOfFree
  <2>6. FsutilLines(answer, free) = lines
    BY <1>4, <2>1, <2>2
  <2> QED
    BY <1>3, <2>3, <2>4, <2>5, <2>6 DEF ParseFsutil
<1>5. CASE answer = "labelled"
  BY <1>2, <1>4, <1>5 DEF FsutilLines
<1>6. CASE answer = "localized"
  BY <1>2, <1>4, <1>6 DEF FsutilLines
<1>7. CASE answer # "labelled" /\ answer # "localized"
  <2>1. FsutilLines(answer, free) = << >>
    BY <1>7 DEF FsutilLines
  <2> QED
    BY <2>1 DEF ParseFsutil
<1> QED
  BY <1>5, <1>6, <1>7

LEMMA DoctorStep ==
  ASSUME HostInv, Doctor
  PROVE  HostInv' /\ ToldTruly
<1>1. HostShapes /\ StepsInv /\ SaidTruly /\ executed \subseteq {"pinned"} /\ << >> \notin bases
  BY DEF HostInv
<1>2. ASSUME NEW check, check \in Checks, NEW status, NEW answer, NEW truth, Tell(check, status, answer, truth),
             status = "ok" => truth \/ answer = "slow",
             status = "fail" => ~truth \/ answer \in {"empty", "timeout"}
      PROVE  HostInv' /\ ToldTruly
  <2>1. UNCHANGED <<imagesDir, image, sums, holds, pin, installer, executed, feature, accelerated, marker, child, published, work, commands, bases>>
    BY <1>2 DEF Tell, fileVars, programVars, whpxVars
  <2>2. told'.step = check /\ told'.code = status /\ told'.said = answer /\ told'.truth = truth
    BY <1>2 DEF Tell
  <2>3. SaidTruly'
    BY <1>2, <2>2 DEF SaidTruly
  <2>4. ToldTruly
    BY <1>2, <2>2 DEF ToldTruly, Checks
  <2> QED
    BY <1>1, <2>1, <2>3, <2>4 DEF HostInv, HostShapes, StepsInv
<1>3. ASSUME NEW answer, CheckFeature(answer) PROVE HostInv' /\ ToldTruly
  <2>1. PICK state : state = ParseInstallState(answer)
    OBVIOUS
  <2>2. PICK status : /\ status = CASE state = "Enabled" -> "ok" [] state = "Unknown" -> "unknown" [] OTHER -> "fail"
    OBVIOUS
  <2>3. Tell("feature", status, answer, feature = "Enabled")
    BY <1>3, <2>1, <2>2 DEF CheckFeature
  <2>4. state = "Enabled" => feature = "Enabled"
    BY <2>1 DEF ParseInstallState
  <2>5. state \notin {"Enabled", "Unknown"} => feature # "Enabled" \/ answer = "empty"
    BY <2>1 DEF ParseInstallState
  <2>6. (status = "ok" => state = "Enabled") /\ (status = "fail" => state \notin {"Enabled", "Unknown"})
    BY <2>2
  <2>7. "feature" \in Checks
    BY DEF Checks
  <2> QED
    BY <1>2, <2>3, <2>4, <2>5, <2>6, <2>7
<1>4. ASSUME NEW answer, CheckAccel(answer) PROVE HostInv' /\ ToldTruly
  <2>1. PICK status : status = CASE ~Found("system") -> "unknown"
                                 [] accelerated \/ answer = "slow" -> "ok"
                                 [] answer = "other" -> "unknown"
                                 [] OTHER -> "fail"
    OBVIOUS
  <2>2. Tell("accel", status, answer, accelerated)
    BY <1>4, <2>1 DEF CheckAccel
  <2>3. (status = "ok" => accelerated \/ answer = "slow") /\ (status = "fail" => ~accelerated)
    BY <2>1
  <2>4. "accel" \in Checks
    BY DEF Checks
  <2> QED
    BY <1>2, <2>2, <2>3, <2>4
<1>5. ASSUME NEW answer, NEW free \in 0..Roomy, CheckDisk(answer, free) PROVE HostInv' /\ ToldTruly
  <2>1. PICK bytes : bytes = (IF answer = "number" THEN <<free>> ELSE ParseFsutil(FsutilLines(answer, free)))
    OBVIOUS
  <2>2. bytes \in {<< >>, <<free>>}
    BY <2>1, FreeBytes
  <2>3. Tell("disk", JudgeFree(bytes), answer, free >= Roomy)
    BY <1>5, <2>1 DEF CheckDisk
  <2>4. (JudgeFree(bytes) = "ok" => free >= Roomy) /\ (JudgeFree(bytes) = "fail" => ~(free >= Roomy))
    BY <2>2 DEF JudgeFree
  <2>5. "disk" \in Checks
    BY DEF Checks
  <2> QED
    BY <1>2, <2>3, <2>4, <2>5
<1>6. ASSUME NEW check, NEW present \in BOOLEAN, NEW answer \in {"path", "timeout"}, CheckTool(check, present, answer)
      PROVE  HostInv' /\ ToldTruly
  <2>1. PICK status : status = IF present /\ answer = "path" THEN "ok" ELSE IF check = "ssh" THEN "fail" ELSE "unknown"
    OBVIOUS
  <2>2. Tell(check, status, answer, present) /\ check \in Checks
    BY <1>6, <2>1 DEF CheckTool, Checks
  <2>3. (status = "ok" => present) /\ (status = "fail" => ~present \/ answer = "timeout")
    BY <2>1
  <2> QED
    BY <1>2, <2>2, <2>3
<1>7. CASE CheckPrograms
  <2>1. \/ Tell("binary", IF Found("system") THEN "ok" ELSE "fail", "files", Found("system"))
        \/ Tell("img", IF Found("img") THEN "ok" ELSE "unknown", "files", Found("img"))
    BY <1>7 DEF CheckPrograms
  <2>2. "binary" \in Checks /\ "img" \in Checks
    BY DEF Checks
  <2> QED
    BY <1>2, <2>1, <2>2
<1> QED
  BY <1>3, <1>4, <1>5, <1>6, <1>7 DEF Doctor

LEMMA WorldSteps ==
  ASSUME HostInv, Publish \/ Reboot \/ UNCHANGED hostVars
  PROVE  HostInv' /\ ToldTruly
<1>1. HostShapes /\ StepsInv /\ SaidTruly /\ executed \subseteq {"pinned"} /\ << >> \notin bases
  BY DEF HostInv
<1>2. /\ UNCHANGED <<imagesDir, image, sums, holds, pin, installer, executed, feature, marker, child, work, commands, told, bases>>
      /\ published' \in 1..LastRelease /\ accelerated' \in BOOLEAN
  <2>1. published \in 1..LastRelease /\ LastRelease \in Nat /\ accelerated \in BOOLEAN
    BY <1>1, HostAssumption DEF HostShapes
  <2>2. CASE Publish
    <3>1. published < LastRelease /\ published' = published + 1
      BY <2>2 DEF Publish
    <3>2. published' \in 1..LastRelease
      BY <2>1, <3>1
    <3> QED
      BY <2>1, <2>2, <3>2 DEF Publish, fileVars, programVars, whpxVars
  <2>3. CASE Reboot
    <3>1. accelerated' \in BOOLEAN
      BY <2>3 DEF Reboot
    <3> QED
      BY <2>1, <2>3, <3>1 DEF Reboot, fileVars, programVars
  <2>4. CASE UNCHANGED hostVars
    BY <2>1, <2>4 DEF hostVars, fileVars, programVars, whpxVars
  <2> QED
    BY <2>2, <2>3, <2>4
<1> QED
  BY <1>1, <1>2 DEF HostInv, HostShapes, StepsInv, SaidTruly, ToldTruly

LEMMA HostInit_Inv == HostInit => HostInv
<1> SUFFICES ASSUME HostInit PROVE HostInv
  OBVIOUS
<1>1. 1 \in 1..LastRelease /\ 0 \in 0..LastRelease /\ 0 \in 0..MaxCommands
  BY HostAssumption
<1>2. WorkOK(work) /\ work.pc = "begin"
  BY DEF HostInit, Resting0, WorkOK, HostPlaces
<1>3. HostShapes
  BY <1>1, <1>2 DEF HostInit, HostShapes, WorkOK
<1>4. StepsInv /\ SaidTruly
  BY <1>2 DEF HostInit, StepsInv, SaidTruly, Silent, Checks
<1> QED
  BY <1>3, <1>4 DEF HostInit, HostInv

\* What setup and doctor say of a host is so (setup.rs, whpx.rs, doctor.rs).
THEOREM SetupTruthful == HostSpec => SetupIsTruthful
<1>1. HostInit => HostInv
  BY HostInit_Inv
<1>2. HostInv /\ [HostNext]_hostVars => HostInv' /\ ToldTruly
  BY CommandSteps, ImageSteps, QemuSteps, WhpxSteps, DoctorStep, WorldSteps DEF HostNext
<1>3. HostInv =>
        /\ executed \subseteq {"pinned"} /\ << >> \notin bases
        /\ told.step \in Checks =>
             /\ told.code = "ok" => told.truth \/ told.said = "slow"
             /\ told.code = "fail" => ~told.truth \/ told.said \in {"empty", "timeout"}
  BY DEF HostInv, SaidTruly
<1>4. ToldTruly =>
        [told'.code = "ok" /\ told' # told =>
          /\ told'.step = "image" => image' = <<sums'>>
          /\ told'.step = "qemu" => \E p \in PlaceSet : "system" \in holds'[p]
          /\ told'.step = "whpx" => feature' = "Enabled" \/ told'.said = "already"]_hostVars
  BY DEF ToldTruly
<1> QED
  BY <1>1, <1>2, <1>3, <1>4, PTL DEF HostSpec, SetupIsTruthful

\* The types of what a set-up keeps.
THEOREM SetupTypes == HostSpec => []HostTypeOK
<1>1. HostInit => HostInv
  BY HostInit_Inv
<1>2. HostInv /\ [HostNext]_hostVars => HostInv'
  BY CommandSteps, ImageSteps, QemuSteps, WhpxSteps, DoctorStep, WorldSteps DEF HostNext
<1>3. HostInv => HostTypeOK
  BY DEF HostInv, HostShapes, SaidTruly, HostTypeOK
<1> QED
  BY <1>1, <1>2, <1>3, PTL DEF HostSpec

-----------------------------------------------------------------------------
(* The inside of a node, for all sets of containers, memories and commands.    *)

GuestRecord == [on : BOOLEAN, keyed : BOOLEAN, extra : BOOLEAN, autoload : BOOLEAN, binder : BOOLEAN,
                docker : {"none", "off", "on"}]
BoxRecord == [status : Statuses, uses : {0} \cup Uses]
NodeCommands == {"none", "wait", "provision", "create", "reclaim", "verify"}
NodePlaces == {"none", "ssh", "ready", "run", "report", "count", "save", "stats", "balloon",
               "check", "probe", "qmp", "qemu-img", "clone"}
InsideCommand == [name : NodeCommands, pc : NodePlaces, left : Nat, steady : BOOLEAN,
                  seen : {"none", "failure", "moved"} \cup Redroids]

NodeShapes ==
  /\ guest \in GuestRecord /\ init \in 1..5 /\ box \in [Redroids -> BoxRecord]
  /\ assigned \subseteq Redroids /\ balloon \in 0..NodeMemory /\ damaged \in BOOLEAN
  /\ cmd \in InsideCommand /\ runs \in 0..MaxRuns
  /\ said \in [name : NodeCommands, ok : BOOLEAN, true : BOOLEAN]

\* A guest that is up has what is switched on; the module is loaded only where the next
\* boot would load it, too.
GuestInv(g) ==
  /\ g.binder => g.on /\ g.extra /\ g.autoload
  /\ g.docker = "on" => g.on
  /\ g.docker = "off" => ~g.on

\* Ready, and to be ready again after every restart.
Settled(g) ==
  /\ g.extra /\ g.autoload /\ g.docker # "none"
  /\ g.on => g.binder /\ g.docker = "on"

\* Both runs of the set-up load the module after they have seen to the next boot.
SetUpInv ==
  /\ init \in {3, 4} => guest.autoload
  /\ Within("provision", "run") => cmd.left \in 1..4
  /\ Within("provision", "run") /\ cmd.left <= 2 => guest.autoload

Beside == {b \in assigned : Up(b)}
Works == Ssh /\ Ready(guest) /\ \E b \in assigned : Up(b)
Clean == cmd.steady /\ cmd.seen = "none"

\* What verify saw of a node that nothing has happened to since.
VerifyInv ==
  cmd.name = "verify" =>
    /\ cmd.seen \in {"none", "failure", "moved"}
    /\ cmd.pc \in {"check", "probe"} => cmd.seen # "moved"
    /\ cmd.pc = "check" => cmd.left \in 1..6
    /\ cmd.pc = "check" /\ Clean => \A k \in 1..6 : k < cmd.left => Passes(VerifyChecks[k])
    /\ cmd.pc \in {"probe", "qmp", "qemu-img", "clone"} /\ Clean => Works
    /\ cmd.pc = "qemu-img" /\ cmd.steady => ~guest.on

\* h gives the sums of what the containers beside use.
InUse(h) == Sums(h, [b \in Beside |-> box[b].uses], Beside)

\* What a creation counted, and what a reclaim measured.
MemoryInv ==
  /\ Within("create", "run") => cmd.seen \in Redroids
  /\ Within("create", "save") => cmd.seen \in Redroids
  /\ Within("create", "run") /\ cmd.steady => BoxMemory * (Cardinality(Beside) + 1) <= NodeMemory - Headroom
  /\ Within("reclaim", "balloon") => Floor <= cmd.left /\ cmd.left <= NodeMemory - Quantum
  /\ Within("reclaim", "balloon") /\ cmd.steady => \A h : InUse(h) => cmd.left >= h[Beside] + BaseReserve

SaidInv ==
  /\ said.ok => said.true
  /\ said.ok /\ said.name \in {"wait", "provision"} => Settled(guest)

NodeInv == NodeShapes /\ GuestInv(guest) /\ SetUpInv /\ VerifyInv /\ MemoryInv /\ SaidInv

-----------------------------------------------------------------------------
LEMMA MaxOfTwo ==
  ASSUME NEW a \in Int, NEW b \in Int
  PROVE  Max({a, b}) \in {a, b} /\ Max({a, b}) >= a /\ Max({a, b}) >= b
<1>1. \E x \in {a, b} : \A y \in {a, b} : x >= y
  <2>1. CASE a >= b
    BY <2>1
  <2>2. CASE ~(a >= b)
    BY <2>2
  <2> QED
    BY <2>1, <2>2
<1> QED
  BY <1>1 DEF Max

LEMMA MinOfTwo ==
  ASSUME NEW a \in Int, NEW b \in Int
  PROVE  Min({a, b}) \in {a, b} /\ Min({a, b}) <= a /\ Min({a, b}) <= b
<1>1. \E x \in {a, b} : \A y \in {a, b} : x <= y
  <2>1. CASE a <= b
    BY <2>1
  <2>2. CASE ~(a <= b)
    BY <2>2
  <2> QED
    BY <2>1, <2>2
<1> QED
  BY <1>1 DEF Min

LEMMA RuncmdFacts ==
  /\ Len(Runcmd) = 4
  /\ Runcmd[1] = "extra" /\ Runcmd[2] = "autoload" /\ Runcmd[3] = "modprobe" /\ Runcmd[4] = "docker"
BY DEF Runcmd, BinderPrep

\* What a step of the set-up leaves of a guest that is up.
Stepped(step, g, h) ==
  /\ h \in GuestRecord /\ h.on = g.on /\ h.keyed = g.keyed
  /\ g.extra => h.extra
  /\ g.autoload => h.autoload
  /\ step = "autoload" => h.autoload
  /\ g.binder => h.binder
  /\ h.binder => g.binder \/ (step = "modprobe" /\ h.extra)
  /\ h.docker = g.docker \/ h.docker = "on"

LEMMA ApplyFacts ==
  ASSUME NEW g \in GuestRecord, NEW fetched \in BOOLEAN,
         NEW step \in {"extra", "autoload", "modprobe", "docker"}
  PROVE  Stepped(step, g, ApplyStep(step, g, fetched))
<1>1. CASE step = "extra"
  <2>1. ApplyStep(step, g, fetched) = [g EXCEPT !.extra = g.extra \/ fetched]
    BY <1>1 DEF ApplyStep
  <2> QED
    BY <1>1, <2>1 DEF Stepped, GuestRecord
<1>2. CASE step = "autoload"
  <2>1. ApplyStep(step, g, fetched) = [g EXCEPT !.autoload = TRUE]
    BY <1>2 DEF ApplyStep
  <2> QED
    BY <1>2, <2>1 DEF Stepped, GuestRecord
<1>3. CASE step = "modprobe"
  <2>1. ApplyStep(step, g, fetched) = [g EXCEPT !.binder = g.binder \/ g.extra]
    BY <1>3 DEF ApplyStep
  <2> QED
    BY <1>3, <2>1 DEF Stepped, GuestRecord
<1>4. CASE step = "docker"
  <2>1. ApplyStep(step, g, fetched)
          = [g EXCEPT !.docker = IF g.docker = "none" /\ ~fetched THEN "none" ELSE "on"]
    BY <1>4 DEF ApplyStep
  <2> QED
    BY <1>4, <2>1 DEF Stepped, GuestRecord
<1> QED
  BY <1>1, <1>2, <1>3, <1>4

\* A step keeps what is known of a guest that is up, if the module is not loaded before
\* the next boot is seen to.
LEMMA SteppedKeeps ==
  ASSUME NEW g \in GuestRecord, NEW h, NEW step, Stepped(step, g, h), GuestInv(g), g.on,
         step = "modprobe" => g.autoload
  PROVE  GuestInv(h) /\ (Settled(g) => Settled(h))
BY DEF Stepped, GuestInv, Settled, GuestRecord

-----------------------------------------------------------------------------
LEMMA DisturbedFacts ==
  ASSUME NodeInv, cmd' = Disturbed
  PROVE  /\ cmd' \in InsideCommand /\ VerifyInv' /\ MemoryInv'
         /\ cmd'.name = cmd.name /\ cmd'.pc = cmd.pc /\ cmd'.left = cmd.left
<1>1. cmd \in InsideCommand
  BY DEF NodeInv, NodeShapes
<1>2. /\ cmd' \in InsideCommand /\ ~cmd'.steady
      /\ cmd'.name = cmd.name /\ cmd'.pc = cmd.pc /\ cmd'.left = cmd.left /\ cmd'.seen = cmd.seen
  BY <1>1 DEF Disturbed, InsideCommand
<1>3. VerifyInv'
  BY <1>2 DEF NodeInv, VerifyInv, Clean
<1>4. MemoryInv'
  BY <1>2 DEF NodeInv, MemoryInv, Within
<1> QED
  BY <1>2, <1>3, <1>4

LEMMA NodeDisturbances ==
  ASSUME NodeInv, CloudInit \/ PowerOff \/ PowerOn \/ \E b \in Redroids : BoxChanges(b)
  PROVE  NodeInv'
<1>1. NodeShapes /\ GuestInv(guest) /\ SetUpInv /\ SaidInv /\ guest \in GuestRecord
  BY DEF NodeInv, NodeShapes
<1>2. cmd' = Disturbed /\ UNCHANGED <<assigned, damaged, runs, said>>
  BY DEF CloudInit, PowerOff, PowerOn, BoxChanges, boxVars, guestVars
<1>3. /\ cmd' \in InsideCommand /\ VerifyInv' /\ MemoryInv'
      /\ cmd'.name = cmd.name /\ cmd'.pc = cmd.pc /\ cmd'.left = cmd.left
  BY <1>2, DisturbedFacts
<1>4. CASE CloudInit
  <2>1. guest.on /\ init <= 4 /\ init' = init + 1 /\ UNCHANGED <<box, balloon>>
        /\ \E fetched \in BOOLEAN : guest' = ApplyStep(Runcmd[init], guest, fetched)
    BY <1>4, RuncmdFacts DEF CloudInit, boxVars
  <2>2. init \in 1..4 /\ init' \in 1..5
    BY <1>1, <2>1 DEF NodeShapes
  <2>3. Runcmd[init] \in {"extra", "autoload", "modprobe", "docker"}
        /\ (Runcmd[init] = "modprobe" => init = 3) /\ (init = 2 => Runcmd[init] = "autoload")
    BY <2>2, RuncmdFacts
  <2>4. Stepped(Runcmd[init], guest, guest')
    BY <1>1, <2>1, <2>3, ApplyFacts
  <2>5. GuestInv(guest') /\ (Settled(guest) => Settled(guest'))
    <3>1. Runcmd[init] = "modprobe" => guest.autoload
      BY <1>1, <2>3 DEF SetUpInv
    <3> QED
      BY <1>1, <2>1, <2>4, <3>1, SteppedKeeps
  <2>6. guest' \in GuestRecord /\ (guest.autoload => guest'.autoload)
        /\ (init = 2 => guest'.autoload)
    BY <2>3, <2>4 DEF Stepped
  <2>7. NodeShapes'
    BY <1>1, <1>2, <1>3, <2>1, <2>2, <2>6 DEF NodeShapes
  <2>8. SetUpInv'
    BY <1>1, <1>3, <2>1, <2>2, <2>6 DEF SetUpInv, Within
  <2>9. SaidInv'
    BY <1>1, <1>2, <2>5 DEF SaidInv
  <2> QED
    BY <1>3, <2>5, <2>7, <2>8, <2>9 DEF NodeInv
<1>5. CASE PowerOff
  <2>1. /\ guest.on /\ init' = 5 /\ balloon' = NodeMemory /\ UNCHANGED box
        /\ guest' = [guest EXCEPT !.on = FALSE, !.binder = FALSE,
                                  !.docker = IF guest.docker = "on" THEN "off" ELSE guest.docker]
    BY <1>5, RuncmdFacts DEF PowerOff, boxVars
  <2>2. /\ guest' \in GuestRecord /\ ~guest'.on /\ ~guest'.binder
        /\ guest'.extra = guest.extra /\ guest'.autoload = guest.autoload
        /\ guest'.docker = IF guest.docker = "on" THEN "off" ELSE guest.docker
    BY <1>1, <2>1 DEF GuestRecord
  <2>3. GuestInv(guest') /\ (Settled(guest) => Settled(guest'))
    BY <1>1, <2>2 DEF GuestInv, Settled, GuestRecord
  <2>4. balloon' \in 0..NodeMemory
    BY <2>1, NodeAssumption
  <2>5. NodeShapes'
    BY <1>1, <1>2, <1>3, <2>1, <2>2, <2>4 DEF NodeShapes
  <2>6. SetUpInv'
    BY <1>1, <1>3, <2>1, <2>2 DEF SetUpInv, Within
  <2>7. SaidInv'
    BY <1>1, <1>2, <2>3 DEF SaidInv
  <2> QED
    BY <1>3, <2>3, <2>5, <2>6, <2>7 DEF NodeInv
<1>6. CASE PowerOn
  <2>1. /\ ~guest.on /\ UNCHANGED <<init, box, balloon>>
        /\ guest' = [guest EXCEPT !.on = TRUE, !.binder = guest.autoload /\ guest.extra,
                                  !.docker = IF guest.docker = "off" THEN "on" ELSE guest.docker]
    BY <1>6 DEF PowerOn, boxVars
  <2>2. /\ guest' \in GuestRecord /\ guest'.on /\ (guest'.binder <=> guest.autoload /\ guest.extra)
        /\ guest'.extra = guest.extra /\ guest'.autoload = guest.autoload
        /\ guest'.docker = IF guest.docker = "off" THEN "on" ELSE guest.docker
    BY <1>1, <2>1 DEF GuestRecord
  <2>3. GuestInv(guest') /\ (Settled(guest) => Settled(guest'))
    BY <1>1, <2>1, <2>2 DEF GuestInv, Settled, GuestRecord
  <2>5. NodeShapes'
    BY <1>1, <1>2, <1>3, <2>1, <2>2 DEF NodeShapes
  <2>6. SetUpInv'
    BY <1>1, <1>3, <2>1, <2>2 DEF SetUpInv, Within
  <2>7. SaidInv'
    BY <1>1, <1>2, <2>3 DEF SaidInv
  <2> QED
    BY <1>3, <2>3, <2>5, <2>6, <2>7 DEF NodeInv
<1>7. CASE \E b \in Redroids : BoxChanges(b)
  <2>1. UNCHANGED <<guest, init, balloon>>
    BY <1>7 DEF BoxChanges, guestVars
  <2>2. box' \in [Redroids -> BoxRecord]
    <3>1. PICK b \in Redroids, status \in {"running", "restarting", "exited"}, uses \in Uses :
            box' = [box EXCEPT ![b] = [status |-> status, uses |-> IF status = "running" THEN uses ELSE 0]]
      BY <1>7 DEF BoxChanges
    <3>2. [status |-> status, uses |-> IF status = "running" THEN uses ELSE 0] \in BoxRecord
      BY DEF BoxRecord, Statuses
    <3> QED
      BY <1>1, <3>1, <3>2 DEF NodeShapes
  <2>3. NodeShapes'
    BY <1>1, <1>2, <1>3, <2>1, <2>2 DEF NodeShapes
  <2>4. GuestInv(guest') /\ SetUpInv' /\ SaidInv'
    BY <1>1, <1>2, <1>3, <2>1 DEF SetUpInv, SaidInv, Within
  <2> QED
    BY <1>3, <2>3, <2>4 DEF NodeInv
<1> QED
  BY <1>4, <1>5, <1>6, <1>7

LEMMA NodeInitially == NodeInit => NodeInv
<1> SUFFICES ASSUME NodeInit PROVE NodeInv
  OBVIOUS
<1>1. PICK keyed \in BOOLEAN :
        guest = [on |-> TRUE, keyed |-> keyed, extra |-> FALSE, autoload |-> FALSE, binder |-> FALSE, docker |-> "none"]
  BY DEF NodeInit
<1>2. guest \in GuestRecord /\ ~guest.binder /\ guest.docker = "none"
  BY <1>1 DEF GuestRecord
<1>3. cmd \in InsideCommand /\ cmd.name = "none"
  BY DEF NodeInit, NoCommand, InsideCommand, NodeCommands, NodePlaces
<1>4. box \in [Redroids -> BoxRecord]
  BY DEF NodeInit, Gone, BoxRecord, Statuses
<1>5. said \in [name : NodeCommands, ok : BOOLEAN, true : BOOLEAN] /\ ~said.ok
  BY DEF NodeInit, Nothing, NodeCommands
<1>6. NodeShapes
  <2>1. init = 1 /\ assigned = {} /\ balloon = NodeMemory /\ damaged = FALSE /\ runs = 0
    BY DEF NodeInit
  <2>2. balloon \in 0..NodeMemory /\ runs \in 0..MaxRuns /\ init \in 1..5
    BY <2>1, NodeAssumption
  <2> QED
    BY <1>2, <1>3, <1>4, <1>5, <2>1, <2>2 DEF NodeShapes
<1>7. SetUpInv /\ VerifyInv /\ MemoryInv /\ SaidInv /\ GuestInv(guest)
  BY <1>2, <1>3, <1>5 DEF NodeInit, SetUpInv, VerifyInv, MemoryInv, SaidInv, GuestInv, Within
<1> QED
  BY <1>6, <1>7 DEF NodeInv

-----------------------------------------------------------------------------
\* A command is over, or another one may begin, in a guest as it was.
LEMMA IdleFacts ==
  ASSUME NodeInv, cmd' = NoCommand, UNCHANGED guestVars
  PROVE  /\ cmd' \in InsideCommand /\ SetUpInv' /\ VerifyInv' /\ MemoryInv' /\ GuestInv(guest)'
<1>1. cmd' \in InsideCommand /\ cmd'.name = "none"
  BY DEF NoCommand, InsideCommand, NodeCommands, NodePlaces
<1> QED
  BY <1>1 DEF NodeInv, SetUpInv, VerifyInv, MemoryInv, Within, guestVars

\* A command that says that it failed, or something that is so.
LEMMA FinishFacts ==
  ASSUME NodeInv, NEW ok \in BOOLEAN, NEW true \in BOOLEAN, Finish(ok, true), UNCHANGED guestVars,
         ok => true, ok /\ cmd.name \in {"wait", "provision"} => Settled(guest)
  PROVE  /\ cmd' \in InsideCommand /\ SetUpInv' /\ VerifyInv' /\ MemoryInv' /\ GuestInv(guest)'
         /\ said' \in [name : NodeCommands, ok : BOOLEAN, true : BOOLEAN] /\ SaidInv'
<1>1. cmd' = NoCommand /\ said' = [name |-> cmd.name, ok |-> ok, true |-> true]
  BY DEF Finish
<1>2. cmd.name \in NodeCommands
  BY DEF NodeInv, NodeShapes, InsideCommand
<1>3. /\ said' \in [name : NodeCommands, ok : BOOLEAN, true : BOOLEAN]
      /\ said'.name = cmd.name /\ said'.ok = ok /\ said'.true = true
  BY <1>1, <1>2
<1>4. SaidInv'
  BY <1>3 DEF SaidInv, guestVars
<1> QED
  BY <1>1, <1>3, <1>4, IdleFacts

LEMMA FinishFails ==
  ASSUME NodeInv, NEW true \in BOOLEAN, Finish(FALSE, true), UNCHANGED guestVars
  PROVE  /\ cmd' \in InsideCommand /\ SetUpInv' /\ VerifyInv' /\ MemoryInv' /\ GuestInv(guest)'
         /\ said' \in [name : NodeCommands, ok : BOOLEAN, true : BOOLEAN] /\ SaidInv'
BY FinishFacts

\* A command begins.
LEMMA NodeCommandBegins ==
  ASSUME NodeInv, NEW name \in NodeCommands, NEW pc \in NodePlaces, NEW polls \in Nat,
         BeginCommand(name, pc, polls),
         name = "provision" => polls = 4,
         name = "verify" => pc = "check" /\ polls = 1,
         name = "create" => pc = "count",
         name = "reclaim" => pc = "stats"
  PROVE  NodeInv'
<1>1. /\ cmd' = [NoCommand EXCEPT !.name = name, !.pc = pc, !.left = polls]
      /\ runs < MaxRuns /\ runs' = runs + 1 /\ said' = Nothing /\ UNCHANGED <<guest, init, box, assigned, balloon, damaged>>
  BY DEF BeginCommand, guestVars, boxVars
<1>2. /\ cmd' \in InsideCommand /\ cmd'.name = name /\ cmd'.pc = pc /\ cmd'.left = polls
      /\ cmd'.seen = "none"
  BY <1>1 DEF NoCommand, InsideCommand
<1>3. said' \in [name : NodeCommands, ok : BOOLEAN, true : BOOLEAN] /\ ~said'.ok
  BY <1>1 DEF Nothing, NodeCommands
<1>4. runs' \in 0..MaxRuns
  BY <1>1, NodeAssumption DEF NodeInv, NodeShapes
<1>5. NodeShapes'
  BY <1>1, <1>2, <1>3, <1>4 DEF NodeInv, NodeShapes
<1>6. SetUpInv' /\ GuestInv(guest)'
  BY <1>1, <1>2 DEF NodeInv, SetUpInv, Within
<1>7. VerifyInv'
  <2>1. CASE name # "verify"
    BY <1>2, <2>1 DEF VerifyInv
  <2>2. CASE name = "verify"
    BY <1>2, <2>2 DEF VerifyInv
  <2> QED
    BY <2>1, <2>2
<1>8. MemoryInv' /\ SaidInv'
  BY <1>2, <1>3 DEF MemoryInv, SaidInv, Within
<1> QED
  BY <1>5, <1>6, <1>7, <1>8 DEF NodeInv

LEMMA NodeTerminalCloses ==
  ASSUME NodeInv, CloseTerminal
  PROVE  NodeInv'
<1>1. cmd' = NoCommand /\ UNCHANGED <<guestVars, guest, init, box, assigned, balloon, damaged, runs, said>>
  BY DEF CloseTerminal, guestVars, boxVars
<1>2. cmd' \in InsideCommand /\ SetUpInv' /\ VerifyInv' /\ MemoryInv' /\ GuestInv(guest)'
  BY <1>1, IdleFacts
<1> QED
  BY <1>1, <1>2 DEF NodeInv, NodeShapes, SaidInv

-----------------------------------------------------------------------------
(* guest wait and guest provision.                                             *)

\* What is ready stays so, or becomes so again.
LEMMA ReadySettles ==
  ASSUME NodeInv, Ready(guest)
  PROVE  Settled(guest)
BY DEF NodeInv, GuestInv, Settled, Ready, BinderReady, DockerReady

LEMMA WaitSteps ==
  ASSUME NodeInv, WaitForSsh \/ WaitUntilReady
  PROVE  NodeInv'
<1>1. /\ cmd.name = "wait" /\ UNCHANGED guestVars
      /\ UNCHANGED <<guest, init, box, assigned, balloon, damaged, runs>>
  BY DEF WaitForSsh, WaitUntilReady, Poll, Within, guestVars, boxVars
<1>2. NodeShapes /\ SaidInv /\ GuestInv(guest) /\ cmd \in InsideCommand
  BY DEF NodeInv, NodeShapes
<1>3. CASE Finish(FALSE, TRUE)
  <2>1. /\ cmd' \in InsideCommand /\ SetUpInv' /\ VerifyInv' /\ MemoryInv' /\ GuestInv(guest)'
        /\ said' \in [name : NodeCommands, ok : BOOLEAN, true : BOOLEAN] /\ SaidInv'
    BY <1>1, <1>3, FinishFails
  <2> QED
    BY <1>1, <1>2, <2>1 DEF NodeInv, NodeShapes
<1>4. CASE Ready(guest) /\ Finish(TRUE, Ready(guest))
  <2>1. Settled(guest)
    BY <1>4, ReadySettles
  <2>2. Ready(guest) = TRUE
    BY <1>4 DEF Ready, BinderReady, DockerReady
  <2>3. Finish(TRUE, TRUE)
    BY <1>4, <2>2 DEF Finish
  <2>4. /\ cmd' \in InsideCommand /\ SetUpInv' /\ VerifyInv' /\ MemoryInv' /\ GuestInv(guest)'
        /\ said' \in [name : NodeCommands, ok : BOOLEAN, true : BOOLEAN] /\ SaidInv'
    BY <1>1, <2>1, <2>3, FinishFacts
  <2> QED
    BY <1>1, <1>2, <2>4 DEF NodeInv, NodeShapes
<1>5. CASE UNCHANGED said /\ (cmd' = [cmd EXCEPT !.pc = "ready"] \/ (cmd.left # 0 /\ cmd' = [cmd EXCEPT !.left = cmd.left - 1]))
  <2>1. cmd' \in InsideCommand /\ cmd'.name = "wait"
    BY <1>1, <1>2, <1>5 DEF InsideCommand, NodePlaces
  <2>2. SetUpInv' /\ VerifyInv' /\ MemoryInv' /\ SaidInv' /\ GuestInv(guest)'
    BY <1>1, <1>2, <1>5, <2>1 DEF NodeInv, SetUpInv, VerifyInv, MemoryInv, SaidInv, Within
  <2> QED
    BY <1>1, <1>2, <1>5, <2>1, <2>2 DEF NodeInv, NodeShapes
<1> QED
  BY <1>3, <1>4, <1>5 DEF WaitForSsh, WaitUntilReady, Poll

LEMMA ProvisionSteps ==
  ASSUME NodeInv, Provision
  PROVE  NodeInv'
<1>1. /\ Within("provision", "run") /\ UNCHANGED <<init, box, assigned, balloon, damaged, runs>>
  BY DEF Provision, boxVars
<1>2. /\ NodeShapes /\ SaidInv /\ GuestInv(guest) /\ SetUpInv /\ cmd \in InsideCommand /\ guest \in GuestRecord
      /\ cmd.name = "provision" /\ cmd.pc = "run" /\ cmd.left \in 1..4
  BY <1>1 DEF NodeInv, NodeShapes, SetUpInv, Within
<1>3. CASE Finish(FALSE, TRUE) /\ UNCHANGED guest
  <2>1. UNCHANGED guestVars
    BY <1>1, <1>3 DEF guestVars
  <2>2. /\ cmd' \in InsideCommand /\ SetUpInv' /\ VerifyInv' /\ MemoryInv' /\ GuestInv(guest)'
        /\ said' \in [name : NodeCommands, ok : BOOLEAN, true : BOOLEAN] /\ SaidInv'
    BY <1>3, <2>1, FinishFails
  <2> QED
    BY <1>1, <1>2, <1>3, <2>2 DEF NodeInv, NodeShapes
<1>4. ASSUME Ssh, NEW fetched \in BOOLEAN, guest' = ApplyStep(Runcmd[5 - cmd.left], guest, fetched),
             cmd' = [cmd EXCEPT !.left = cmd.left - 1, !.pc = IF cmd.left = 1 THEN "report" ELSE "run"],
             UNCHANGED said
      PROVE  NodeInv'
  <2> DEFINE step == Runcmd[5 - cmd.left]
  <2>1. /\ step \in {"extra", "autoload", "modprobe", "docker"}
        /\ (step = "modprobe" => cmd.left = 2) /\ (cmd.left = 3 => step = "autoload")
    BY <1>2, RuncmdFacts
  <2> HIDE DEF step
  <2>2. Stepped(step, guest, guest')
    BY <1>2, <1>4, <2>1, ApplyFacts DEF step
  <2>3. guest.on
    BY <1>4 DEF Ssh
  <2>4. GuestInv(guest') /\ (Settled(guest) => Settled(guest'))
    <3>1. step = "modprobe" => guest.autoload
      BY <1>1, <1>2, <2>1 DEF SetUpInv
    <3> QED
      BY <1>2, <2>2, <2>3, <3>1, SteppedKeeps
  <2>5. guest' \in GuestRecord /\ (guest.autoload => guest'.autoload)
        /\ (step = "autoload" => guest'.autoload)
    BY <2>2 DEF Stepped
  <2>6. /\ cmd' \in InsideCommand /\ cmd'.name = "provision" /\ cmd'.left = cmd.left - 1
        /\ cmd'.pc = IF cmd.left = 1 THEN "report" ELSE "run"
    <3>1. cmd.left - 1 \in Nat
      BY <1>2
    <3>2. PICK pc \in {"report", "run"} : pc = IF cmd.left = 1 THEN "report" ELSE "run"
      OBVIOUS
    <3>3. cmd' = [cmd EXCEPT !.left = cmd.left - 1, !.pc = pc]
      BY <1>4, <3>2
    <3> QED
      BY <1>2, <3>1, <3>2, <3>3 DEF InsideCommand, NodePlaces
  <2>7. NodeShapes'
    BY <1>1, <1>2, <1>4, <2>5, <2>6 DEF NodeShapes
  <2>8. SetUpInv'
    <3>1. init' \in {3, 4} => guest'.autoload
      BY <1>1, <1>2, <2>5 DEF SetUpInv
    <3>2. Within("provision", "run")' => cmd'.left \in 1..4
      BY <1>2, <2>6 DEF Within
    <3>3. cmd'.left <= 2 /\ Within("provision", "run")' => guest'.autoload
      <4>1. cmd.left \in 1..3 \/ cmd.left = 4
        BY <1>2
      <4>2. cmd.left <= 2 => guest.autoload
        BY <1>1, <1>2 DEF SetUpInv
      <4> QED
        BY <1>2, <2>1, <2>5, <2>6, <4>1, <4>2
    <3> QED
      BY <3>1, <3>2, <3>3 DEF SetUpInv
  <2>9. VerifyInv' /\ MemoryInv' /\ SaidInv'
    BY <1>2, <1>4, <2>4, <2>6 DEF VerifyInv, MemoryInv, SaidInv, Within
  <2> QED
    BY <2>4, <2>7, <2>8, <2>9 DEF NodeInv
<1> QED
  <2>1. Len(Runcmd) + 1 - cmd.left = 5 - cmd.left
    BY <1>2, RuncmdFacts
  <2> QED
    BY <1>3, <1>4, <2>1 DEF Provision

LEMMA ReadinessStep ==
  ASSUME NodeInv, Readiness
  PROVE  NodeInv'
<1>1. PICK answered \in BOOLEAN : Finish(answered /\ Ssh /\ Ready(guest), Ready(guest))
  BY DEF Readiness
<1>2. UNCHANGED guestVars /\ UNCHANGED <<guest, init, box, assigned, balloon, damaged, runs>>
  BY DEF Readiness, guestVars, boxVars
<1>3. NodeShapes /\ guest \in GuestRecord
  BY DEF NodeInv, NodeShapes
<1>4. (answered /\ Ssh /\ Ready(guest)) \in BOOLEAN /\ Ready(guest) \in BOOLEAN
  BY DEF Ssh, Ready, BinderReady, DockerReady
<1>5. Ready(guest) => Settled(guest)
  BY ReadySettles
<1>6. /\ cmd' \in InsideCommand /\ SetUpInv' /\ VerifyInv' /\ MemoryInv' /\ GuestInv(guest)'
      /\ said' \in [name : NodeCommands, ok : BOOLEAN, true : BOOLEAN] /\ SaidInv'
  <2> DEFINE ok == answered /\ Ssh /\ Ready(guest)
  <2>1. ok \in BOOLEAN /\ (ok => Ready(guest)) /\ Finish(ok, Ready(guest))
    BY <1>1, <1>4
  <2> HIDE DEF ok
  <2> QED
    BY <1>2, <1>4, <1>5, <2>1, FinishFacts
<1> QED
  BY <1>2, <1>3, <1>6 DEF NodeInv, NodeShapes

-----------------------------------------------------------------------------
(* redroid create.                                                             *)

\* A container fits beside fewer, too.
LEMMA FitsBesideFewer ==
  ASSUME NEW n \in Nat, NEW m \in Nat, n <= m, FitsNode(m + 1)
  PROVE  BoxMemory * (n + 1) <= NodeMemory - Headroom
<1>1. BoxMemory \in Nat /\ NodeMemory \in Nat
  BY NodeAssumption
<1>2. Headroom \in Int
  BY <1>1 DEF Headroom
<1>3. PICK d \in Nat : m = n + d
  <2>1. m - n \in Nat /\ m = n + (m - n)
    OBVIOUS
  <2> QED
    BY <2>1
<1>4. BoxMemory * (m + 1) = BoxMemory * (n + 1) + BoxMemory * d
  BY <1>1, <1>3
<1>5. BoxMemory * d >= 0 /\ BoxMemory * d \in Int /\ BoxMemory * (n + 1) \in Int
  BY <1>1, <1>3
<1>6. BoxMemory * (m + 1) <= NodeMemory - Headroom
  BY DEF FitsNode
<1> QED
  BY <1>1, <1>2, <1>4, <1>5, <1>6

LEMMA CreateChecks ==
  ASSUME NodeInv, NEW b \in Redroids, CreateChecked(b)
  PROVE  NodeInv'
<1>1. /\ Within("create", "count") /\ UNCHANGED guestVars
      /\ UNCHANGED <<guest, init, box, assigned, balloon, damaged, runs>>
  BY DEF CreateChecked, guestVars, boxVars
<1>2. NodeShapes /\ SaidInv /\ GuestInv(guest) /\ cmd \in InsideCommand /\ assigned \subseteq Redroids
  BY DEF NodeInv, NodeShapes
<1>3. PICK count \in {Cardinality(assigned), CountRunning} :
        IF FitsNode(count + 1) THEN Sees("run", b) /\ UNCHANGED said ELSE Finish(FALSE, TRUE)
  BY DEF CreateChecked
<1>4. CASE Finish(FALSE, TRUE)
  <2>1. /\ cmd' \in InsideCommand /\ SetUpInv' /\ VerifyInv' /\ MemoryInv' /\ GuestInv(guest)'
        /\ said' \in [name : NodeCommands, ok : BOOLEAN, true : BOOLEAN] /\ SaidInv'
    BY <1>1, <1>4, FinishFails
  <2> QED
    BY <1>1, <1>2, <2>1 DEF NodeInv, NodeShapes
<1>5. CASE FitsNode(count + 1) /\ Sees("run", b) /\ UNCHANGED said
  <2>1. /\ cmd' \in InsideCommand /\ cmd'.name = "create" /\ cmd'.pc = "run" /\ cmd'.seen = b
    BY <1>1, <1>2, <1>5 DEF Sees, Within, InsideCommand, NodePlaces
  <2>2. BoxMemory * (Cardinality(Beside) + 1) <= NodeMemory - Headroom
    <3>1. /\ IsFiniteSet(assigned) /\ IsFiniteSet({c \in Redroids : Up(c)})
      BY <1>2, FS_Subset, NodeAssumption
    <3>2. /\ Cardinality(Beside) <= Cardinality(assigned)
          /\ Cardinality(Beside) <= CountRunning
      <4>1. Beside \in SUBSET assigned /\ Beside \in SUBSET {c \in Redroids : Up(c)}
        BY <1>2 DEF Beside
      <4>2. Cardinality(Beside) <= Cardinality(assigned)
        BY <3>1, <4>1, FS_Subset
      <4>3. Cardinality(Beside) <= Cardinality({c \in Redroids : Up(c)})
        BY <3>1, <4>1, FS_Subset
      <4> QED
        BY <4>2, <4>3 DEF CountRunning
    <3>3. Cardinality(Beside) \in Nat /\ count \in Nat
      <4>1. IsFiniteSet(Beside)
        BY <3>1, FS_Subset DEF Beside
      <4> QED
        BY <1>3, <3>1, <4>1, FS_CardinalityType DEF CountRunning
    <3>4. Cardinality(Beside) <= count
      BY <1>3, <3>2
    <3> HIDE DEF Beside
    <3> QED
      BY <1>5, <3>3, <3>4, FitsBesideFewer
  <2>3. Beside' = Beside
    BY <1>1 DEF Beside, Up
  <2>4. MemoryInv'
    <3>1. Headroom' = Headroom
      BY DEF Headroom
    <3> QED
      BY <2>1, <2>2, <2>3 DEF MemoryInv, Within
  <2>5. SetUpInv' /\ VerifyInv' /\ SaidInv' /\ GuestInv(guest)'
    BY <1>1, <1>2, <1>5, <2>1 DEF NodeInv, SetUpInv, VerifyInv, SaidInv, Within
  <2> QED
    BY <1>1, <1>2, <1>5, <2>1, <2>4, <2>5 DEF NodeInv, NodeShapes
<1> QED
  BY <1>3, <1>4, <1>5

LEMMA CreateRuns ==
  ASSUME NodeInv, CreateRun
  PROVE  NodeInv'
<1>1. /\ Within("create", "run") /\ UNCHANGED guestVars
      /\ UNCHANGED <<guest, init, assigned, balloon, damaged, runs>>
  BY DEF CreateRun, guestVars, boxVars
<1>2. NodeShapes /\ SaidInv /\ GuestInv(guest) /\ cmd \in InsideCommand /\ cmd.seen \in Redroids
  BY <1>1 DEF NodeInv, NodeShapes, MemoryInv
<1>3. CASE UNCHANGED box /\ Finish(FALSE, TRUE)
  <2>1. /\ cmd' \in InsideCommand /\ SetUpInv' /\ VerifyInv' /\ MemoryInv' /\ GuestInv(guest)'
        /\ said' \in [name : NodeCommands, ok : BOOLEAN, true : BOOLEAN] /\ SaidInv'
    BY <1>1, <1>3, FinishFails
  <2> QED
    BY <1>1, <1>2, <1>3, <2>1 DEF NodeInv, NodeShapes
<1>4. ASSUME NEW uses \in Uses, box' = [box EXCEPT ![cmd.seen] = [status |-> "running", uses |-> uses]],
             Sees("save", cmd.seen), UNCHANGED said
      PROVE  NodeInv'
  <2>1. box' \in [Redroids -> BoxRecord]
    <3>1. [status |-> "running", uses |-> uses] \in BoxRecord
      BY DEF BoxRecord, Statuses
    <3> QED
      BY <1>2, <1>4, <3>1 DEF NodeShapes
  <2>2. /\ cmd' \in InsideCommand /\ cmd'.name = "create" /\ cmd'.pc = "save" /\ cmd'.seen = cmd.seen
    BY <1>1, <1>2, <1>4 DEF Sees, Within, InsideCommand, NodePlaces
  <2>3. SetUpInv' /\ VerifyInv' /\ SaidInv' /\ GuestInv(guest)' /\ MemoryInv'
    BY <1>1, <1>2, <1>4, <2>2 DEF NodeInv, SetUpInv, VerifyInv, SaidInv, MemoryInv, Within
  <2> QED
    BY <1>1, <1>2, <1>4, <2>1, <2>2, <2>3 DEF NodeInv, NodeShapes
<1> QED
  BY <1>3, <1>4 DEF CreateRun

LEMMA CreateSaves ==
  ASSUME NodeInv, CreateSave
  PROVE  NodeInv'
<1>1. /\ Within("create", "save") /\ assigned' = assigned \cup {cmd.seen} /\ Finish(TRUE, TRUE)
      /\ UNCHANGED guestVars /\ UNCHANGED <<guest, init, box, balloon, damaged, runs>>
  BY DEF CreateSave, guestVars, boxVars
<1>2. NodeShapes /\ cmd.name = "create" /\ cmd.seen \in Redroids
  BY <1>1 DEF NodeInv, MemoryInv, Within
<1>3. /\ cmd' \in InsideCommand /\ SetUpInv' /\ VerifyInv' /\ MemoryInv' /\ GuestInv(guest)'
      /\ said' \in [name : NodeCommands, ok : BOOLEAN, true : BOOLEAN] /\ SaidInv'
  BY <1>1, <1>2, FinishFacts
<1> QED
  BY <1>1, <1>2, <1>3 DEF NodeInv, NodeShapes

LEMMA RowSum ==
  ASSUME NEW A, IsFiniteSet(A)
  PROVE  \E f : Sums(f, [r \in A |-> r.current[1]], A) /\ MapThenSumSet(LAMBDA r : r.current[1], A) = f[A]
<1> DEFINE w == [r \in A |-> r.current[1]]
           Eq(f) == f = [s \in SUBSET A |-> IF s = {} THEN 0 ELSE Picked(s).current[1] + f[s \ {Picked(s)}]]
           it == CHOOSE f : Eq(f)
<1>1. MapThenSumSet(LAMBDA r : r.current[1], A) = it[A]
  BY DEF MapThenSumSet, MapThenFoldSet, Picked
<1>2. \A f : Sums(f, w, A) <=> Eq(f)
  <2> SUFFICES ASSUME NEW f PROVE Sums(f, w, A) <=> Eq(f)
    OBVIOUS
  <2>1. \A s \in SUBSET A : (IF s = {} THEN 0 ELSE w[Picked(s)] + f[s \ {Picked(s)}])
                            = (IF s = {} THEN 0 ELSE Picked(s).current[1] + f[s \ {Picked(s)}])
    BY PickedIn
  <2> HIDE DEF w
  <2> QED
    BY <2>1 DEF Sums
<1>3. PICK f : Eq(f)
  BY <1>2, SumsExist
<1>4. Eq(it)
  <2> HIDE DEF Eq
  <2> QED  BY <1>3
<1> HIDE DEF it, Eq
<1> QED
  BY <1>1, <1>2, <1>4

-----------------------------------------------------------------------------
(* vm memory-reclaim.                                                          *)

\* The row of a container that runs and was measured.
MarkOf(b) == [box |-> b, status |-> "running", current |-> <<box[b].uses>>]

LEMMA StatRowFacts ==
  ASSUME NEW b, NEW listed \in BOOLEAN, NEW measured \in BOOLEAN,
         NEW i \in DOMAIN StatRow(b, listed, measured), NEW r, r = StatRow(b, listed, measured)[i]
  PROVE  /\ r.box = b
         /\ r.current # << >> => Up(b) /\ r = MarkOf(b)
         /\ Up(b) => r.status = "running"
<1>1. CASE ~listed
  <2>1. StatRow(b, listed, measured) = << >>
    BY <1>1 DEF StatRow
  <2> QED
    BY <2>1
<1>2. CASE listed /\ Up(b)
  <2>1. StatRow(b, listed, measured)
          = <<[box |-> b, status |-> "running", current |-> IF measured THEN <<box[b].uses>> ELSE << >>]>>
    BY <1>2 DEF StatRow
  <2>2. r = [box |-> b, status |-> "running", current |-> IF measured THEN <<box[b].uses>> ELSE << >>]
    BY <2>1
  <2>3. CASE measured
    <3>1. r = [box |-> b, status |-> "running", current |-> <<box[b].uses>>]
      BY <2>2, <2>3
    <3>2. r = MarkOf(b)
      BY <3>1, Zenon DEF MarkOf
    <3>3. r.box = b /\ r.status = "running"
      BY <3>1
    <3> QED
      BY <1>2, <3>2, <3>3
  <2>4. CASE ~measured
    <3>1. r = [box |-> b, status |-> "running", current |-> << >>]
      BY <2>2, <2>4
    <3> QED
      BY <3>1
  <2> QED
    BY <2>3, <2>4
<1>3. CASE listed /\ ~Up(b)
  <2>1. StatRow(b, listed, measured) = <<[box |-> b, status |-> box[b].status, current |-> << >>]>>
    BY <1>3 DEF StatRow
  <2>2. r = [box |-> b, status |-> box[b].status, current |-> << >>]
    BY <2>1
  <2>3. r.box = b /\ r.current = << >>
    BY <2>2
  <2> QED
    BY <1>3, <2>3
<1> QED
  BY <1>1, <1>2, <1>3

LEMMA GuestStatsFacts ==
  ASSUME NEW listed, NEW measured, NEW r \in GuestStats(listed, measured)
  PROVE  /\ r.box \in Redroids
         /\ r.current # << >> => Up(r.box) /\ r = MarkOf(r.box)
         /\ Up(r.box) => r.status = "running"
<1>1. PICK b \in {c \in Redroids : box[c].status # "absent"} :
        \E i \in DOMAIN StatRow(b, b \in listed, b \in measured) : r = StatRow(b, b \in listed, b \in measured)[i]
  BY DEF GuestStats
<1>2. /\ r.box = b
      /\ r.current # << >> => Up(b) /\ r = MarkOf(b)
      /\ Up(b) => r.status = "running"
  <2>1. (b \in listed) \in BOOLEAN /\ (b \in measured) \in BOOLEAN
    OBVIOUS
  <2> QED
    <3>1. PICK i \in DOMAIN StatRow(b, b \in listed, b \in measured) : r = StatRow(b, b \in listed, b \in measured)[i]
      BY <1>1
    <3> DEFINE l == b \in listed
               m == b \in measured
    <3>2. l \in BOOLEAN /\ m \in BOOLEAN /\ i \in DOMAIN StatRow(b, l, m) /\ r = StatRow(b, l, m)[i]
      BY <2>1, <3>1
    <3> HIDE DEF l, m
    <3> QED
      BY <3>2, StatRowFacts
<1> QED
  BY <1>1, <1>2

LEMMA BesideFacts ==
  ASSUME NodeInv
  PROVE  /\ Beside \subseteq Redroids /\ IsFiniteSet(Beside)
         /\ \A b \in Redroids : box[b].uses \in Nat
<1>1. Beside \in SUBSET Redroids /\ IsFiniteSet(Redroids)
  BY NodeAssumption DEF NodeInv, NodeShapes, Beside
<1>2. IsFiniteSet(Beside)
  BY <1>1, FS_Subset
<1>3. ASSUME NEW b \in Redroids PROVE box[b].uses \in Nat
  <2>1. box[b] \in BoxRecord
    BY DEF NodeInv, NodeShapes
  <2>2. box[b].uses \in {0} \cup Uses
    BY <2>1 DEF BoxRecord
  <2>3. Uses \subseteq Nat
    BY NodeAssumption
  <2>4. CASE box[b].uses = 0
    BY <2>4
  <2>5. CASE box[b].uses \in Uses
    BY <2>3, <2>5
  <2> QED
    BY <2>2, <2>4, <2>5
<1> QED
  BY <1>1, <1>2, <1>3

\* A plan's rows: each container beside the others has its own, with what it uses.
LEMMA PlanRows ==
  ASSUME NodeInv, NEW listed, NEW measured, NEW rows, rows = StatRows(GuestStats(listed, measured)),
         \A r \in rows : Inactive(r) \/ (Active(r) /\ r.current # << >>),
         NEW active, active = {r \in rows : Active(r)}
  PROVE  /\ IsFiniteSet(active)
         /\ \A r \in active : r.current[1] \in Nat
         /\ \A b \in Beside : MarkOf(b) \in active
<1>1. /\ box \in [Redroids -> BoxRecord] /\ assigned \subseteq Redroids
      /\ IsFiniteSet(Redroids) /\ Uses \subseteq Nat
  BY NodeAssumption DEF NodeInv, NodeShapes
<1>2. ASSUME NEW r \in active
      PROVE  r.box \in Redroids /\ r = MarkOf(r.box)
  <2>1. r \in rows /\ r.status = "running"
    BY DEF Active
  <2>2. ~Inactive(r)
    BY <2>1 DEF Inactive
  <2>3. r.current # << >>
    BY <2>1, <2>2
  <2>4. r \in GuestStats(listed, measured)
    <3>1. CASE \E b \in {c \in assigned : \A q \in GuestStats(listed, measured) : q.box # c} :
                 r = [box |-> b, status |-> "unknown", current |-> << >>]
      BY <2>1, <3>1
    <3> QED
      BY <2>1, <3>1 DEF StatRows
  <2> QED
    BY <2>3, <2>4, GuestStatsFacts
<1>3. IsFiniteSet(active)
  <2> DEFINE S == {b \in Redroids : MarkOf(b) \in active}
             m == [b \in S |-> MarkOf(b)]
  <2>1. IsFiniteSet(S)
    BY <1>1, FS_Subset
  <2>2. m \in Surjection(S, active)
    <3>1. m \in [S -> active]
      OBVIOUS
    <3>2. \A r \in active : \E b \in S : m[b] = r
      <4> TAKE r \in active
      <4>1. r.box \in S /\ m[r.box] = r
        BY <1>2
      <4> QED
        BY <4>1
    <3> HIDE DEF S, m
    <3> QED
      BY <3>1, <3>2 DEF Surjection
  <2> HIDE DEF S, m
  <2> QED
    BY <2>1, <2>2, FS_Surjection
<1>4. \A r \in active : r.current[1] \in Nat
  <2> TAKE r \in active
  <2>1. r.box \in Redroids /\ r = MarkOf(r.box)
    BY <1>2
  <2>2. box[r.box].uses \in Nat
    BY <2>1, BesideFacts
  <2>3. MarkOf(r.box).current[1] = box[r.box].uses
    BY DEF MarkOf
  <2> QED
    BY <2>1, <2>2, <2>3
<1>5. ASSUME NEW b \in Beside PROVE MarkOf(b) \in active
  <2>1. b \in assigned /\ b \in Redroids /\ Up(b)
    BY <1>1 DEF Beside
  <2>2. PICK r \in GuestStats(listed, measured) : r.box = b
    <3>1. CASE \A q \in GuestStats(listed, measured) : q.box # b
      <4> DEFINE u == [box |-> b, status |-> "unknown", current |-> << >>]
      <4>1. u \in rows
        BY <2>1, <3>1 DEF StatRows
      <4>2. ~Inactive(u) /\ ~Active(u)
        BY DEF Inactive, Active
      <4> QED
        BY <4>1, <4>2
    <3> QED
      BY <3>1
  <2>3. r.status = "running" /\ r \in rows
    BY <2>1, <2>2, GuestStatsFacts DEF StatRows
  <2>4. Active(r) /\ ~Inactive(r)
    BY <2>3 DEF Active, Inactive
  <2>5. r.current # << >>
    BY <2>3, <2>4
  <2>6. r = MarkOf(b)
    BY <2>2, <2>5, GuestStatsFacts
  <2> QED
    BY <2>3, <2>4, <2>6
<1> QED
  BY <1>3, <1>4, <1>5

\* A plan leaves what the containers beside use, and the reserve.
LEMMA PlanFacts ==
  ASSUME NodeInv, NEW listed, NEW measured,
         NEW plan, plan = PlanReclaim(StatRows(GuestStats(listed, measured))), plan # << >>
  PROVE  /\ plan[1] \in Nat /\ Floor <= plan[1] /\ plan[1] <= NodeMemory - Quantum
         /\ \A h : InUse(h) => plan[1] >= h[Beside] + BaseReserve
<1> DEFINE rows == StatRows(GuestStats(listed, measured))
           active == {r \in rows : Active(r)}
           used == MapThenSumSet(LAMBDA r : r.current[1], active)
           reserve == Max({BaseReserve, PerBoxReserve * Cardinality(active)})
           raw == Max({Floor, used + reserve})
           aligned == ((raw + Quantum - 1) \div Quantum) * Quantum
           target == Min({aligned, NodeMemory})
           useless == \/ NodeMemory <= Floor \/ (\E r \in rows : ~Inactive(r) /\ (Active(r) => r.current = << >>))
                      \/ target + Quantum > NodeMemory
<1>1. plan = IF useless THEN << >> ELSE <<target>>
  BY DEF PlanReclaim
<1>2. ~useless /\ plan[1] = target
  <2> HIDE DEF useless, target
  <2> QED  BY <1>1
<1>3. /\ \A r \in rows : Inactive(r) \/ (Active(r) /\ r.current # << >>)
      /\ ~(target + Quantum > NodeMemory)
  <2> HIDE DEF target, rows
  <2> QED  BY <1>2
<1>4. /\ IsFiniteSet(active) /\ \A r \in active : r.current[1] \in Nat
      /\ \A b \in Beside : MarkOf(b) \in active
  BY <1>3, PlanRows
<1> HIDE DEF active, rows
<1>5. PICK f : Sums(f, [r \in active |-> r.current[1]], active) /\ used = f[active]
  BY <1>4, RowSum
<1>6. used \in Nat
  <2> DEFINE w == [r \in active |-> r.current[1]]
  <2>1. \A r \in active : w[r] \in Nat
    BY <1>4
  <2>2. Sums(f, w, active)
    BY <1>5
  <2> HIDE DEF w, used
  <2>3. \A s \in SUBSET active : f[s] \in Nat
    BY <1>4, <2>1, <2>2, SumsType
  <2> QED
    BY <1>5, <2>3
<1>7. ASSUME NEW h, InUse(h) PROVE h[Beside] <= used
  <2> DEFINE w == [r \in active |-> r.current[1]]
             v == [b \in Beside |-> box[b].uses]
             m == [b \in Beside |-> MarkOf(b)]
  <2>1. \A r \in active : w[r] \in Nat
    BY <1>4
  <2>2. Sums(f, w, active) /\ Sums(h, v, Beside)
    BY <1>5, <1>7 DEF InUse
  <2>3. IsFiniteSet(Beside)
    BY BesideFacts
  <2>4. \A b \in Beside : v[b] \in Nat
    BY BesideFacts
  <2>5. \A b \in Beside : m[b] \in active /\ w[m[b]] = v[b]
    BY <1>4 DEF MarkOf
  <2>6. \A b, c \in Beside : m[b] = m[c] => b = c
    <3>1. \A b \in Beside : m[b].box = b
      BY DEF MarkOf
    <3> HIDE DEF m
    <3> QED
      BY <3>1
  <2> HIDE DEF w, v, m, used
  <2>7. h[Beside] <= f[active]
    BY <1>4, <2>1, <2>2, <2>3, <2>4, <2>5, <2>6, SumsOfSome
  <2> QED
    BY <1>5, <2>7
<1>8. Cardinality(active) \in Nat
  BY <1>4, FS_CardinalityType
<1> HIDE DEF used
<1>9. reserve \in Nat /\ reserve >= BaseReserve
  <2>1. BaseReserve \in Int /\ PerBoxReserve * Cardinality(active) \in Int
    BY <1>8 DEF BaseReserve, PerBoxReserve
  <2>2. reserve \in {BaseReserve, PerBoxReserve * Cardinality(active)} /\ reserve >= BaseReserve
    BY <2>1, MaxOfTwo
  <2> HIDE DEF reserve
  <2> QED
    BY <1>8, <2>2 DEF BaseReserve, PerBoxReserve
<1> HIDE DEF reserve
<1>10. raw \in Nat /\ raw >= Floor /\ raw >= used + reserve
  <2>1. Floor \in Int /\ used + reserve \in Int
    BY <1>6, <1>9 DEF Floor
  <2>2. raw \in {Floor, used + reserve} /\ raw >= Floor /\ raw >= used + reserve
    BY <2>1, MaxOfTwo
  <2> HIDE DEF raw
  <2> QED
    BY <1>6, <1>9, <2>2 DEF Floor
<1> HIDE DEF raw
<1>11. aligned \in Nat /\ aligned >= raw
  BY <1>10 DEF Quantum
<1> HIDE DEF aligned
<1>12. NodeMemory \in Nat
  BY NodeAssumption
<1>13. target \in {aligned, NodeMemory} /\ target <= NodeMemory
  <2>1. aligned \in Int /\ NodeMemory \in Int
    BY <1>11, <1>12
  <2>2. target \in {aligned, NodeMemory} /\ target <= aligned /\ target <= NodeMemory
    BY <2>1, MinOfTwo
  <2> QED
    BY <2>2
<1> HIDE DEF target
<1>14. target = aligned /\ target <= NodeMemory - Quantum
  BY <1>3, <1>11, <1>12, <1>13 DEF Quantum
<1>15. target \in Nat /\ Floor <= target /\ target >= used + BaseReserve
  BY <1>6, <1>9, <1>10, <1>11, <1>14 DEF Floor, BaseReserve
<1>16. ASSUME NEW h, InUse(h) PROVE target >= h[Beside] + BaseReserve
  <2>1. h[Beside] <= used /\ h[Beside] \in Nat
    <3>1. h[Beside] <= used
      BY <1>7, <1>16
    <3>2. h[Beside] \in Nat
      <4> DEFINE v == [b \in Beside |-> box[b].uses]
      <4>1. IsFiniteSet(Beside)
        BY BesideFacts
      <4>2. \A b \in Beside : v[b] \in Nat
        BY BesideFacts
      <4>3. Sums(h, v, Beside)
        BY <1>16 DEF InUse
      <4> HIDE DEF v
      <4>4. \A s \in SUBSET Beside : h[s] \in Nat
        BY <4>1, <4>2, <4>3, SumsType
      <4> QED
        BY <4>4
    <3> QED
      BY <3>1, <3>2
  <2> QED
    BY <1>6, <1>15, <2>1 DEF BaseReserve
<1> QED
  BY <1>2, <1>14, <1>15, <1>16

LEMMA ReclaimPlans ==
  ASSUME NodeInv, ReclaimPlanned
  PROVE  NodeInv'
<1>1. /\ cmd.name = "reclaim" /\ cmd.pc = "stats" /\ UNCHANGED guestVars
      /\ UNCHANGED <<guest, init, box, assigned, balloon, damaged, runs>>
  BY DEF ReclaimPlanned, Within, guestVars, boxVars
<1>2. NodeShapes /\ SaidInv /\ GuestInv(guest) /\ cmd \in InsideCommand
  BY DEF NodeInv, NodeShapes
<1>3. CASE Finish(FALSE, TRUE)
  <2>1. /\ cmd' \in InsideCommand /\ SetUpInv' /\ VerifyInv' /\ MemoryInv' /\ GuestInv(guest)'
        /\ said' \in [name : NodeCommands, ok : BOOLEAN, true : BOOLEAN] /\ SaidInv'
    BY <1>1, <1>3, FinishFails
  <2> QED
    BY <1>1, <1>2, <2>1 DEF NodeInv, NodeShapes
<1> DEFINE Planned(plan) ==
             cmd' = [cmd EXCEPT !.pc = "balloon", !.left = plan[1], !.steady = TRUE] /\ UNCHANGED said
<1>4. ASSUME NEW listed, NEW measured, NEW plan, plan = PlanReclaim(StatRows(GuestStats(listed, measured))),
             plan # << >>, Planned(plan)
      PROVE  NodeInv'
  <2>1. /\ plan[1] \in Nat /\ Floor <= plan[1] /\ plan[1] <= NodeMemory - Quantum
        /\ \A h : InUse(h) => plan[1] >= h[Beside] + BaseReserve
    BY <1>4, PlanFacts
  <2>2. /\ cmd' \in InsideCommand /\ cmd'.name = "reclaim" /\ cmd'.pc = "balloon" /\ cmd'.left = plan[1]
    BY <1>1, <1>2, <1>4, <2>1 DEF InsideCommand, NodePlaces
  <2>3. Beside' = Beside
    BY <1>1 DEF Beside, Up
  <2>4. ASSUME NEW h PROVE InUse(h)' <=> InUse(h)
    BY <1>1, <2>3 DEF InUse
  <2>5. MemoryInv'
    BY <2>1, <2>2, <2>3, <2>4 DEF MemoryInv, Within
  <2>6. SetUpInv' /\ VerifyInv' /\ SaidInv' /\ GuestInv(guest)'
    BY <1>1, <1>2, <1>4, <2>2 DEF NodeInv, SetUpInv, VerifyInv, SaidInv, Within
  <2> QED
    BY <1>1, <1>2, <1>4, <2>2, <2>5, <2>6 DEF NodeInv, NodeShapes
<1>5. CASE \E listed, measured \in SUBSET Redroids :
             LET plan == PlanReclaim(StatRows(GuestStats(listed, measured)))
             IN  IF plan = << >> THEN Finish(FALSE, TRUE)
                 ELSE cmd' = [cmd EXCEPT !.pc = "balloon", !.left = plan[1], !.steady = TRUE] /\ UNCHANGED said
  <2>1. PICK listed, measured \in SUBSET Redroids :
             LET plan == PlanReclaim(StatRows(GuestStats(listed, measured)))
             IN  IF plan = << >> THEN Finish(FALSE, TRUE)
                 ELSE cmd' = [cmd EXCEPT !.pc = "balloon", !.left = plan[1], !.steady = TRUE] /\ UNCHANGED said
    BY <1>5
  <2>2. PICK plan : plan = PlanReclaim(StatRows(GuestStats(listed, measured)))
    OBVIOUS
  <2>3. IF plan = << >> THEN Finish(FALSE, TRUE)
        ELSE cmd' = [cmd EXCEPT !.pc = "balloon", !.left = plan[1], !.steady = TRUE] /\ UNCHANGED said
    BY <2>1, <2>2
  <2>4. CASE plan = << >>
    BY <1>3, <2>3, <2>4
  <2>5. CASE plan # << >>
    <3>1. Planned(plan)
      BY <2>3, <2>5
    <3> HIDE DEF Planned
    <3> QED
      BY <1>4, <2>2, <2>5, <3>1
  <2> QED
    BY <2>4, <2>5
<1> QED
  BY <1>3, <1>5 DEF ReclaimPlanned

LEMMA BalloonSets ==
  ASSUME NodeInv, SetBalloon
  PROVE  NodeInv'
<1>1. /\ cmd.name = "reclaim" /\ cmd.pc = "balloon" /\ UNCHANGED guestVars
      /\ UNCHANGED <<guest, init, box, assigned, damaged, runs>>
      /\ balloon' \in {balloon, cmd.left} /\ (Finish(TRUE, TRUE) \/ Finish(FALSE, TRUE))
  BY DEF SetBalloon, Within, guestVars, boxVars
<1>2. NodeShapes /\ cmd \in InsideCommand
  BY DEF NodeInv, NodeShapes
<1>3. balloon' \in 0..NodeMemory
  <2>1. cmd.left \in Nat /\ cmd.left <= NodeMemory - Quantum /\ NodeMemory \in Nat
    BY <1>1, <1>2, NodeAssumption DEF NodeInv, MemoryInv, Within, InsideCommand
  <2>2. cmd.left \in 0..NodeMemory
    BY <2>1 DEF Quantum
  <2> QED
    BY <1>1, <1>2, <2>2 DEF NodeShapes
<1>4. /\ cmd' \in InsideCommand /\ SetUpInv' /\ VerifyInv' /\ MemoryInv' /\ GuestInv(guest)'
      /\ said' \in [name : NodeCommands, ok : BOOLEAN, true : BOOLEAN] /\ SaidInv'
  <2>1. CASE Finish(TRUE, TRUE)
    BY <1>1, <2>1, FinishFacts
  <2>2. CASE Finish(FALSE, TRUE)
    BY <1>1, <2>2, FinishFails
  <2> QED
    BY <1>1, <2>1, <2>2
<1> QED
  BY <1>1, <1>2, <1>3, <1>4 DEF NodeInv, NodeShapes

-----------------------------------------------------------------------------
(* verify.                                                                     *)

\* What all six checks say.
LEMMA ChecksAll ==
  ASSUME \A k \in 1..6 : Passes(VerifyChecks[k])
  PROVE  Works
<1>1. Passes("ssh") /\ Passes("binderfs") /\ Passes("docker") /\ Passes("boot-completed")
  <2>1. /\ VerifyChecks[2] = "ssh" /\ VerifyChecks[3] = "binderfs" /\ VerifyChecks[4] = "docker"
        /\ VerifyChecks[5] = "boot-completed"
    BY DEF VerifyChecks
  <2>2. Passes(VerifyChecks[2]) /\ Passes(VerifyChecks[3]) /\ Passes(VerifyChecks[4]) /\ Passes(VerifyChecks[5])
    OBVIOUS
  <2> QED
    BY <2>1, <2>2
<1>2. Ssh
  BY <1>1 DEF Passes
<1>3. BinderReady(guest)
  BY <1>1 DEF Passes
<1>4. DockerReady(guest)
  BY <1>1 DEF Passes
<1>5. \E b \in assigned : Up(b)
  BY <1>1 DEF Passes
<1> QED
  BY <1>2, <1>3, <1>4, <1>5 DEF Works, Ready

LEMMA VerifyChecksStep ==
  ASSUME NodeInv, VerifyCheck
  PROVE  NodeInv'
<1>1. /\ cmd.name = "verify" /\ cmd.pc = "check" /\ UNCHANGED guestVars
      /\ UNCHANGED <<guest, init, box, assigned, balloon, damaged, runs, said>>
  BY DEF VerifyCheck, Within, guestVars, boxVars
<1>2. NodeShapes /\ SaidInv /\ GuestInv(guest) /\ cmd \in InsideCommand /\ VerifyInv
  BY DEF NodeInv, NodeShapes
<1>3. cmd.left \in 1..6 /\ cmd.seen \in {"none", "failure"}
  BY <1>1, <1>2 DEF VerifyInv
<1>4. PICK passed \in IF Passes(VerifyChecks[cmd.left]) THEN BOOLEAN ELSE {FALSE} :
        cmd' = [cmd EXCEPT !.left = cmd.left + 1, !.pc = IF cmd.left = Len(VerifyChecks) THEN "probe" ELSE "check",
                           !.seen = IF passed THEN cmd.seen ELSE "failure"]
  BY DEF VerifyCheck
<1>5. passed \in BOOLEAN /\ (passed => Passes(VerifyChecks[cmd.left]))
  BY <1>4
<1>6. Len(VerifyChecks) = 6
  BY DEF VerifyChecks
<1>7. PICK pc \in {"probe", "check"}, seen \in {cmd.seen, "failure"} :
        /\ pc = IF cmd.left = 6 THEN "probe" ELSE "check"
        /\ seen = IF passed THEN cmd.seen ELSE "failure"
  OBVIOUS
<1>8. cmd' = [cmd EXCEPT !.left = cmd.left + 1, !.pc = pc, !.seen = seen]
  BY <1>4, <1>6, <1>7
<1>9. /\ cmd' \in InsideCommand /\ cmd'.name = "verify" /\ cmd'.pc = pc /\ cmd'.left = cmd.left + 1
      /\ cmd'.seen = seen /\ cmd'.steady = cmd.steady
  <2>1. cmd.left + 1 \in Nat /\ seen \in {"none", "failure"} /\ pc \in NodePlaces
    BY <1>3, <1>7 DEF NodePlaces
  <2> QED
    BY <1>1, <1>2, <1>8, <2>1 DEF InsideCommand
<1>10. ASSUME NEW check PROVE Passes(check)' <=> Passes(check)
  BY <1>1 DEF Passes, Ssh, BinderReady, DockerReady, Up
<1>11. Clean' => \A k \in 1..6 : k < cmd.left + 1 => Passes(VerifyChecks[k])
  <2> SUFFICES ASSUME Clean', NEW k \in 1..6, k < cmd.left + 1 PROVE Passes(VerifyChecks[k])
    OBVIOUS
  <2>1. passed /\ Clean
    BY <1>7, <1>9 DEF Clean
  <2>2. CASE k = cmd.left
    BY <1>5, <2>1, <2>2
  <2>3. CASE k < cmd.left
    BY <1>1, <1>2, <2>1, <2>3 DEF VerifyInv
  <2> QED
    BY <1>3, <2>2, <2>3
<1>12. Works' <=> Works
  BY <1>1 DEF Works, Ssh, Ready, BinderReady, DockerReady, Up
<1>13. VerifyInv'
  <2>1. cmd'.pc = "check" => cmd'.left \in 1..6
    BY <1>3, <1>7, <1>9
  <2>2. cmd'.pc = "check" /\ Clean' => \A k \in 1..6 : k < cmd'.left => Passes(VerifyChecks[k])'
    BY <1>9, <1>10, <1>11 DEF VerifyChecks
  <2>3. cmd'.pc = "probe" /\ Clean' => Works'
    <3>1. pc = "probe" => cmd.left = 6
      BY <1>7
    <3>2. pc = "probe" /\ Clean' => \A k \in 1..6 : Passes(VerifyChecks[k])
      BY <1>11, <3>1
    <3> QED
      BY <1>9, <1>12, <3>2, ChecksAll
  <2> QED
    BY <1>3, <1>7, <1>9, <2>1, <2>2, <2>3 DEF VerifyInv
<1>14. SetUpInv' /\ SaidInv' /\ GuestInv(guest)' /\ MemoryInv'
  BY <1>1, <1>2, <1>9 DEF NodeInv, SetUpInv, SaidInv, MemoryInv, Within
<1> QED
  BY <1>1, <1>2, <1>9, <1>13, <1>14 DEF NodeInv, NodeShapes

LEMMA ProbesLiveness ==
  ASSUME NodeInv, ProbeLiveness
  PROVE  NodeInv'
<1>1. /\ cmd.name = "verify" /\ cmd.pc = "probe" /\ UNCHANGED guestVars
      /\ UNCHANGED <<guest, init, box, assigned, balloon, damaged, runs>>
  BY DEF ProbeLiveness, Within, guestVars, boxVars
<1>2. NodeShapes /\ SaidInv /\ GuestInv(guest) /\ cmd \in InsideCommand /\ VerifyInv
  BY DEF NodeInv, NodeShapes
<1>3. cmd.seen \in {"none", "failure"} /\ (Clean => Works)
  BY <1>1, <1>2 DEF VerifyInv
<1>4. PICK probe \in {IF guest.on THEN "answered" ELSE "refused", "timeout"} :
        IF SnapshotPlan(probe) = "skip" THEN Verdict(FALSE)
        ELSE /\ cmd' = [cmd EXCEPT !.pc = SnapshotPlan(probe), !.steady = TRUE,
                                  !.seen = IF ~cmd.steady /\ cmd.seen = "none" THEN "moved" ELSE cmd.seen]
             /\ UNCHANGED said
  BY DEF ProbeLiveness
<1>5. CASE Verdict(FALSE)
  <2> DEFINE true == cmd.steady /\ cmd.seen # "moved" => Ssh /\ Ready(guest) /\ \E b \in assigned : Up(b)
             ok == FALSE /\ cmd.seen # "failure"
  <2>1. Finish(ok, true) /\ ok = FALSE /\ true \in BOOLEAN
    BY <1>5 DEF Verdict
  <2>2. Finish(FALSE, true)
    BY <2>1
  <2> HIDE DEF true, ok
  <2>3. /\ cmd' \in InsideCommand /\ SetUpInv' /\ VerifyInv' /\ MemoryInv' /\ GuestInv(guest)'
        /\ said' \in [name : NodeCommands, ok : BOOLEAN, true : BOOLEAN] /\ SaidInv'
    BY <1>1, <2>1, <2>2, FinishFails
  <2> QED
    BY <1>1, <1>2, <2>3 DEF NodeInv, NodeShapes
<1>6. CASE /\ SnapshotPlan(probe) # "skip" /\ UNCHANGED said
           /\ cmd' = [cmd EXCEPT !.pc = SnapshotPlan(probe), !.steady = TRUE,
                                 !.seen = IF ~cmd.steady /\ cmd.seen = "none" THEN "moved" ELSE cmd.seen]
  <2>1. SnapshotPlan(probe) \in {"qmp", "qemu-img"} /\ (SnapshotPlan(probe) = "qemu-img" => ~guest.on)
    BY <1>4, <1>6 DEF SnapshotPlan
  <2>2. PICK seen \in {"none", "failure", "moved"} :
          seen = IF ~cmd.steady /\ cmd.seen = "none" THEN "moved" ELSE cmd.seen
    BY <1>3
  <2>3. PICK pc \in {"qmp", "qemu-img"} : pc = SnapshotPlan(probe)
    BY <2>1
  <2>4. cmd' = [cmd EXCEPT !.pc = pc, !.steady = TRUE, !.seen = seen]
    BY <1>6, <2>2, <2>3
  <2>5. /\ cmd' \in InsideCommand /\ cmd'.name = "verify" /\ cmd'.pc = pc /\ cmd'.steady /\ cmd'.seen = seen
    BY <1>1, <1>2, <2>4 DEF InsideCommand, NodePlaces
  <2>6. Works' <=> Works
    BY <1>1 DEF Works, Ssh, Ready, BinderReady, DockerReady, Up
  <2>7. seen = "none" => Clean
    BY <2>2 DEF Clean
  <2>8. VerifyInv'
    BY <1>1, <1>3, <2>1, <2>3, <2>5, <2>6, <2>7 DEF VerifyInv, Clean
  <2>9. SetUpInv' /\ SaidInv' /\ GuestInv(guest)' /\ MemoryInv'
    BY <1>1, <1>2, <1>6, <2>5 DEF NodeInv, SetUpInv, SaidInv, MemoryInv, Within
  <2> QED
    BY <1>1, <1>2, <1>6, <2>5, <2>8, <2>9 DEF NodeInv, NodeShapes
<1> QED
  BY <1>4, <1>5, <1>6

LEMMA SnapshotsTaken ==
  ASSUME NodeInv, NEW by \in {"qmp", "qemu-img"}, TakeSnapshot(by)
  PROVE  NodeInv' /\ (damaged' /\ ~damaged => ~cmd.steady)
<1>1. /\ cmd.name = "verify" /\ cmd.pc = by /\ UNCHANGED guestVars
      /\ UNCHANGED <<guest, init, box, assigned, balloon, runs, said>>
      /\ damaged' = (damaged \/ (by = "qemu-img" /\ guest.on))
  BY DEF TakeSnapshot, Within, guestVars, boxVars
<1>2. NodeShapes /\ SaidInv /\ GuestInv(guest) /\ cmd \in InsideCommand /\ VerifyInv
  BY DEF NodeInv, NodeShapes
<1>3. cmd.seen \in {"none", "failure", "moved"} /\ (Clean => Works)
      /\ (by = "qemu-img" /\ cmd.steady => ~guest.on)
  BY <1>1, <1>2 DEF VerifyInv
<1>4. PICK seen \in {cmd.seen, "failure"} : cmd' = [cmd EXCEPT !.pc = "clone", !.seen = seen]
  <2>1. PICK taken \in BOOLEAN :
          cmd' = [cmd EXCEPT !.pc = "clone", !.seen = IF taken THEN cmd.seen ELSE "failure"]
    BY DEF TakeSnapshot
  <2> QED
    BY <2>1
<1>5. /\ cmd' \in InsideCommand /\ cmd'.name = "verify" /\ cmd'.pc = "clone" /\ cmd'.seen = seen
      /\ cmd'.steady = cmd.steady
  <2>1. seen \in {"none", "failure", "moved"}
    BY <1>3
  <2> QED
    BY <1>1, <1>2, <1>4, <2>1 DEF InsideCommand, NodePlaces
<1>6. Works' <=> Works
  BY <1>1 DEF Works, Ssh, Ready, BinderReady, DockerReady, Up
<1>7. VerifyInv'
  <2>1. Clean' => Clean
    BY <1>4, <1>5 DEF Clean
  <2> QED
    BY <1>3, <1>5, <1>6, <2>1 DEF VerifyInv
<1>8. SetUpInv' /\ SaidInv' /\ GuestInv(guest)' /\ MemoryInv'
  BY <1>1, <1>2, <1>5 DEF NodeInv, SetUpInv, SaidInv, MemoryInv, Within
<1>9. damaged' \in BOOLEAN /\ (damaged' /\ ~damaged => ~cmd.steady)
  <2>1. damaged \in BOOLEAN /\ guest \in GuestRecord
    BY <1>2 DEF NodeShapes
  <2> QED
    BY <1>1, <1>3, <2>1 DEF GuestRecord
<1> QED
  BY <1>1, <1>2, <1>5, <1>7, <1>8, <1>9 DEF NodeInv, NodeShapes

LEMMA ClonesTimed ==
  ASSUME NodeInv, TimeClone
  PROVE  NodeInv'
<1>1. /\ cmd.name = "verify" /\ cmd.pc = "clone" /\ UNCHANGED guestVars
      /\ UNCHANGED <<guest, init, box, assigned, balloon, damaged, runs>>
  BY DEF TimeClone, Within, guestVars, boxVars
<1>2. NodeShapes /\ VerifyInv
  BY DEF NodeInv
<1>3. PICK passed \in BOOLEAN : Verdict(passed)
  BY DEF TimeClone
<1> DEFINE true == cmd.steady /\ cmd.seen # "moved" => Ssh /\ Ready(guest) /\ \E b \in assigned : Up(b)
           ok == passed /\ cmd.seen # "failure"
<1>4. Finish(ok, true) /\ ok \in BOOLEAN /\ true \in BOOLEAN
  BY <1>3 DEF Verdict
<1>5. ok => true
  <2> SUFFICES ASSUME ok, cmd.steady, cmd.seen # "moved" PROVE Works
    BY DEF Works
  <2>1. cmd.seen = "none"
    BY <1>1, <1>2 DEF VerifyInv
  <2> QED
    BY <1>1, <1>2, <2>1 DEF VerifyInv, Clean
<1> HIDE DEF ok, true
<1>6. /\ cmd' \in InsideCommand /\ SetUpInv' /\ VerifyInv' /\ MemoryInv' /\ GuestInv(guest)'
      /\ said' \in [name : NodeCommands, ok : BOOLEAN, true : BOOLEAN] /\ SaidInv'
  BY <1>1, <1>4, <1>5, FinishFacts
<1> QED
  BY <1>1, <1>2, <1>6 DEF NodeInv, NodeShapes

-----------------------------------------------------------------------------
\* All that happens to a node keeps what is known of it.
LEMMA NodeInvStep == NodeInv /\ [NodeNext]_nodeVars => NodeInv'
<1> SUFFICES ASSUME NodeInv, [NodeNext]_nodeVars PROVE NodeInv'
  OBVIOUS
<1>1. CASE UNCHANGED nodeVars
  <2>1. UNCHANGED <<guest, init, box, assigned, balloon, damaged, cmd, runs, said>>
    BY <1>1 DEF nodeVars
  <2>2. NodeShapes' /\ GuestInv(guest)' /\ SetUpInv' /\ SaidInv'
    BY <2>1 DEF NodeInv, NodeShapes, SetUpInv, SaidInv, Within
  <2>3. VerifyInv'
    <3>1. ASSUME NEW check PROVE Passes(check)' <=> Passes(check)
      BY <2>1 DEF Passes, Ssh, BinderReady, DockerReady, Up
    <3>2. (Works' <=> Works) /\ (Clean' <=> Clean)
      BY <2>1 DEF Works, Clean, Ssh, Ready, BinderReady, DockerReady, Up
    <3>3. \A k \in 1..6 : Passes(VerifyChecks[k])' <=> Passes(VerifyChecks[k])
      BY <3>1 DEF VerifyChecks
    <3> QED
      BY <2>1, <3>2, <3>3 DEF NodeInv, VerifyInv
  <2>4. MemoryInv'
    <3>1. Beside' = Beside
      BY <2>1 DEF Beside, Up
    <3>2. ASSUME NEW h PROVE InUse(h)' <=> InUse(h)
      BY <2>1, <3>1 DEF InUse
    <3> QED
      BY <2>1, <3>1, <3>2 DEF NodeInv, MemoryInv, Within
  <2> QED
    BY <2>2, <2>3, <2>4 DEF NodeInv
<1>2. CASE \/ BeginCommand("wait", "ssh", MaxPolls) \/ BeginCommand("provision", "run", Len(Runcmd))
           \/ BeginCommand("create", "count", 0) \/ BeginCommand("reclaim", "stats", 0)
           \/ BeginCommand("verify", "check", 1)
  <2>1. MaxPolls \in Nat /\ Len(Runcmd) = 4
    BY NodeAssumption, RuncmdFacts
  <2>2. {"wait", "provision", "create", "reclaim", "verify"} \subseteq NodeCommands
        /\ {"ssh", "run", "count", "stats", "check"} \subseteq NodePlaces
    BY DEF NodeCommands, NodePlaces
  <2>3. CASE BeginCommand("wait", "ssh", MaxPolls)
    BY <2>1, <2>2, <2>3, NodeCommandBegins
  <2>4. CASE BeginCommand("provision", "run", Len(Runcmd))
    <3>1. BeginCommand("provision", "run", 4)
      BY <2>1, <2>4
    <3> QED
      BY <2>2, <3>1, NodeCommandBegins
  <2>5. CASE BeginCommand("create", "count", 0)
    BY <2>2, <2>5, NodeCommandBegins
  <2>6. CASE BeginCommand("reclaim", "stats", 0)
    BY <2>2, <2>6, NodeCommandBegins
  <2>7. CASE BeginCommand("verify", "check", 1)
    BY <2>2, <2>7, NodeCommandBegins
  <2> QED
    BY <1>2, <2>3, <2>4, <2>5, <2>6, <2>7
<1>3. CASE CloudInit \/ PowerOff \/ PowerOn \/ \E b \in Redroids : BoxChanges(b)
  BY <1>3, NodeDisturbances
<1>4. CASE CloseTerminal \/ WaitForSsh \/ WaitUntilReady \/ Provision \/ Readiness
  BY <1>4, NodeTerminalCloses, WaitSteps, ProvisionSteps, ReadinessStep
<1>5. CASE (\E b \in Redroids : CreateChecked(b)) \/ CreateRun \/ CreateSave
  BY <1>5, CreateChecks, CreateRuns, CreateSaves
<1>6. CASE ReclaimPlanned \/ SetBalloon
  BY <1>6, ReclaimPlans, BalloonSets
<1>7. CASE VerifyCheck \/ ProbeLiveness \/ (\E by \in {"qmp", "qemu-img"} : TakeSnapshot(by)) \/ TimeClone
  BY <1>7, VerifyChecksStep, ProbesLiveness, SnapshotsTaken, ClonesTimed
<1> QED
  BY <1>1, <1>2, <1>3, <1>4, <1>5, <1>6, <1>7 DEF NodeNext

\* What the containers beside use is what the sums say.
LEMMA BesideSum ==
  ASSUME IsFiniteSet(Beside)
  PROVE  \E h : InUse(h) /\ MapThenSumSet(LAMBDA b : box[b].uses, Beside) = h[Beside]
<1> DEFINE S == Beside
           w == [b \in S |-> box[b].uses]
           Eq(f) == f = [s \in SUBSET S |-> IF s = {} THEN 0 ELSE box[Picked(s)].uses + f[s \ {Picked(s)}]]
           it == CHOOSE f : Eq(f)
<1>1. MapThenSumSet(LAMBDA b : box[b].uses, S) = it[S]
  BY DEF MapThenSumSet, MapThenFoldSet, Picked
<1>2. \A f : Sums(f, w, S) <=> Eq(f)
  <2> SUFFICES ASSUME NEW f PROVE Sums(f, w, S) <=> Eq(f)
    OBVIOUS
  <2>1. \A s \in SUBSET S : (IF s = {} THEN 0 ELSE w[Picked(s)] + f[s \ {Picked(s)}])
                            = (IF s = {} THEN 0 ELSE box[Picked(s)].uses + f[s \ {Picked(s)}])
    <3> HIDE DEF S
    <3> QED  BY PickedIn
  <2> HIDE DEF w, S
  <2> QED
    BY <2>1 DEF Sums
<1>3. \E f : Sums(f, w, S)
  <2> HIDE DEF w
  <2> QED  BY SumsExist
<1>4. Eq(it)
  <2>1. \E f : Eq(f)
    <3> HIDE DEF Eq, w, S
    <3> QED  BY <1>2, <1>3
  <2> HIDE DEF Eq
  <2> QED  BY <2>1
<1>5. Sums(it, w, S)
  <2> HIDE DEF Eq, it, w, S
  <2> QED  BY <1>2, <1>4
<1> HIDE DEF it, Eq
<1> QED
  BY <1>1, <1>5 DEF InUse

\* What a step may do to the disk and the memory of a node.
BalloonFits ==
  Within("reclaim", "balloon") /\ cmd.steady /\ cmd'.name = "none" /\ balloon' # balloon =>
    LET used == {b \in assigned : Up(b)} IN
    /\ balloon' >= Max({Floor, MapThenSumSet(LAMBDA b : box[b].uses, used) + BaseReserve})
    /\ balloon' <= NodeMemory - Quantum

CreationFits ==
  Within("create", "run") /\ cmd.steady /\ cmd'.pc = "save" =>
    LET beside == {b \in assigned : Up(b)} IN
    BoxMemory * (Cardinality(beside) + 1) <= NodeMemory - Headroom

LEMMA CreationsFit == NodeInv => CreationFits
BY DEF NodeInv, MemoryInv, CreationFits, Beside

LEMMA BalloonsFit == NodeInv /\ [NodeNext]_nodeVars => BalloonFits
<1> SUFFICES ASSUME NodeInv, [NodeNext]_nodeVars, Within("reclaim", "balloon"), cmd.steady,
                    cmd'.name = "none", balloon' # balloon
             PROVE  /\ balloon' >= Max({Floor, MapThenSumSet(LAMBDA b : box[b].uses, Beside) + BaseReserve})
                    /\ balloon' <= NodeMemory - Quantum
  BY DEF BalloonFits, Beside
<1>1. cmd.name = "reclaim" /\ cmd \in InsideCommand
  BY DEF Within, NodeInv, NodeShapes
<1>2. SetBalloon
  <2>1. ~UNCHANGED nodeVars
    BY DEF nodeVars
  <2>2. ~PowerOff
    <3> SUFFICES ASSUME cmd' = Disturbed PROVE FALSE
      BY DEF PowerOff
    <3> QED
      BY <1>1, DisturbedFacts
  <2> QED
    BY <2>1, <2>2 DEF NodeNext, CloudInit, PowerOn, BoxChanges, CreateChecked, BeginCommand, CloseTerminal,
       WaitForSsh, WaitUntilReady, Poll, Provision, Readiness, CreateRun, CreateSave, ReclaimPlanned,
       VerifyCheck, ProbeLiveness, TakeSnapshot, TimeClone
<1>3. balloon' = cmd.left
  BY <1>2 DEF SetBalloon
<1>4. /\ Floor <= cmd.left /\ cmd.left <= NodeMemory - Quantum
      /\ \A h : InUse(h) => cmd.left >= h[Beside] + BaseReserve
  BY DEF NodeInv, MemoryInv
<1>5. /\ Beside \subseteq Redroids /\ IsFiniteSet(Beside)
      /\ \A b \in Redroids : box[b].uses \in Nat
  BY BesideFacts
<1>6. PICK h : InUse(h) /\ MapThenSumSet(LAMBDA b : box[b].uses, Beside) = h[Beside]
  BY <1>5, BesideSum
<1>7. h[Beside] \in Nat
  <2> DEFINE v == [b \in Beside |-> box[b].uses]
  <2>1. \A b \in Beside : v[b] \in Nat
    BY <1>5
  <2>2. Sums(h, v, Beside)
    BY <1>6 DEF InUse
  <2> HIDE DEF v
  <2>3. \A s \in SUBSET Beside : h[s] \in Nat
    BY <1>5, <2>1, <2>2, SumsType
  <2> QED
    BY <2>3
<1>8. Max({Floor, h[Beside] + BaseReserve}) \in {Floor, h[Beside] + BaseReserve}
  <2>1. Floor \in Int /\ h[Beside] + BaseReserve \in Int
    BY <1>7 DEF Floor, BaseReserve
  <2> QED
    BY <2>1, MaxOfTwo
<1>9. cmd.left >= Max({Floor, h[Beside] + BaseReserve})
  <2>1. cmd.left >= h[Beside] + BaseReserve /\ cmd.left \in Nat
    BY <1>1, <1>4, <1>6 DEF InsideCommand
  <2>2. CASE Max({Floor, h[Beside] + BaseReserve}) = Floor
    BY <1>4, <2>1, <2>2 DEF Floor
  <2>3. CASE Max({Floor, h[Beside] + BaseReserve}) = h[Beside] + BaseReserve
    BY <2>1, <2>3
  <2> QED
    BY <1>8, <2>2, <2>3
<1> QED
  BY <1>3, <1>4, <1>6, <1>9

LEMMA DisksAreWhole == NodeInv /\ [NodeNext]_nodeVars => (damaged' /\ ~damaged => ~cmd.steady)
<1> SUFFICES ASSUME NodeInv, [NodeNext]_nodeVars, damaged', ~damaged PROVE ~cmd.steady
  OBVIOUS
<1>1. \E by \in {"qmp", "qemu-img"} : TakeSnapshot(by)
  BY DEF nodeVars, NodeNext, CloudInit, PowerOff, PowerOn, BoxChanges, CreateChecked, BeginCommand, CloseTerminal,
     WaitForSsh, WaitUntilReady, Poll, Provision, Readiness, CreateRun, CreateSave, ReclaimPlanned, SetBalloon,
     VerifyCheck, ProbeLiveness, TimeClone
<1> QED
  BY <1>1, SnapshotsTaken

\* What qemu-center says or does about the inside of a node stands up to what the node does
\* meanwhile: readiness, verify, the balloon, a creation's budget, the disk (guest.rs,
\* verify.rs, redroid.rs, vm.rs).
THEOREM NodeAsTold == NodeSpec => NodeIsAsTold
<1>1. NodeInit => NodeInv
  BY NodeInitially
<1>2. NodeInv /\ [NodeNext]_nodeVars => NodeInv'
  BY NodeInvStep
<1>3. NodeInv =>
        /\ said.ok => said.true
        /\ said.ok /\ said.name \in {"wait", "provision"} /\ guest.on => Ready(guest)
  BY DEF NodeInv, SaidInv, Settled, Ready, BinderReady, DockerReady
<1>4. NodeInv /\ [NodeNext]_nodeVars =>
        [/\ damaged' /\ ~damaged => ~cmd.steady
         /\ Within("reclaim", "balloon") /\ cmd.steady /\ cmd'.name = "none" /\ balloon' # balloon =>
              LET used == {b \in assigned : Up(b)} IN
              /\ balloon' >= Max({Floor, MapThenSumSet(LAMBDA b : box[b].uses, used) + BaseReserve})
              /\ balloon' <= NodeMemory - Quantum
         /\ Within("create", "run") /\ cmd.steady /\ cmd'.pc = "save" =>
              LET beside == {b \in assigned : Up(b)} IN
              BoxMemory * (Cardinality(beside) + 1) <= NodeMemory - Headroom]_nodeVars
  <2> SUFFICES ASSUME NodeInv, [NodeNext]_nodeVars
               PROVE  (damaged' /\ ~damaged => ~cmd.steady) /\ BalloonFits /\ CreationFits
    BY DEF BalloonFits, CreationFits
  <2> QED
    BY DisksAreWhole, BalloonsFit, CreationsFit
<1> QED
  BY <1>1, <1>2, <1>3, <1>4, PTL DEF NodeSpec, NodeIsAsTold

\* The types of a node seen from inside.
THEOREM NodeInsideTypes == NodeSpec => []NodeTypeOK
<1>1. NodeInit => NodeInv
  BY NodeInitially
<1>2. NodeInv /\ [NodeNext]_nodeVars => NodeInv'
  BY NodeInvStep
<1>3. NodeInv => NodeTypeOK
  BY DEF NodeInv, NodeShapes, NodeTypeOK, GuestRecord, BoxRecord, InsideCommand, NodeCommands
<1> QED
  BY <1>1, <1>2, <1>3, PTL DEF NodeSpec

-----------------------------------------------------------------------------
(* The parts together.                                                       *)

\* While one part of qemu-center moves the others rest, so a behaviour of all of them is
\* a behaviour of each.
LEMMA PartsAreTheirOwn ==
  QemuSpec => Spec /\ PresetSpec /\ SeedSpec /\ WslSpec /\ HostSpec /\ NodeSpec
<1>1. QemuInit => Init /\ PresetInit /\ SeedInit /\ WslInit /\ HostInit /\ NodeInit
  BY DEF QemuInit
<1>2. ASSUME [QemuNext]_qemuVars
      PROVE  /\ [Next]_vars /\ [PresetNext]_presetVars /\ [SeedNext]_seedVars
             /\ [WslNext]_wslVars /\ [HostNext]_hostVars /\ [NodeNext]_nodeVars
  <2>1. CASE UNCHANGED qemuVars
    BY <2>1, Zenon DEF qemuVars
  <2>2. CASE QemuNext
    BY <2>2, Zenon DEF QemuNext
  <2> QED
    BY <1>2, <2>1, <2>2
<1> QED
  BY <1>1, <1>2, PTL DEF QemuSpec, Spec, PresetSpec, SeedSpec, WslSpec, HostSpec, NodeSpec

PartOK == part \in {"nodes", "presets", "seed", "wsl", "host", "inside"}

\* QemuTypeOK, for one command at a time on the nodes: whichever part of qemu-center moves
\* keeps its state within its types.
THEOREM QemuTypes ==
  ASSUME NEW p, Procs = {p}
  PROVE  QemuSpec => []QemuTypeOK
<1>1. TypeOK /\ PresetTypeOK /\ SeedTypeOK /\ WslTypeOK /\ HostTypeOK /\ NodeTypeOK
        /\ PartOK => QemuTypeOK
  BY DEF QemuTypeOK, PartOK
<1>2. QemuInit => PartOK
  BY DEF QemuInit, PartOK
<1>3. ASSUME PartOK, [QemuNext]_qemuVars
      PROVE  PartOK'
  <2>1. UNCHANGED part
    BY <1>3, Zenon DEF QemuNext, qemuVars
  <2> QED
    BY <1>3, <2>1 DEF PartOK
<1>4. QemuSpec => [](PartOK)
  BY <1>2, <1>3, PTL DEF QemuSpec
<1>5. Spec => []TypeOK
  BY NodeTypes
<1> QED
  BY <1>1, <1>4, <1>5, PartsAreTheirOwn, PresetTypes, SeedTypes, WslTypes, SetupTypes, NodeInsideTypes, PTL
=============================================================================
