---------------------------- MODULE MCQemuCenter ----------------------------
(* Small instances, for TLC, of qemu-center's nodes, of the preset operations  *)
(* on an instance of a node, of the images qemu-center writes, of the kernel   *)
(* of WSL, of a host that is being set up and of the inside of a node.  A      *)
(* behaviour exercises one of them, chosen at the start; the others rest.      *)
EXTENDS QemuCenter, PresetWorkflow, SeedImage, WslKernel, HostSetup, GuestNode

VARIABLE part

qemuVars == <<part, vars, presetVars, seedVars, wslVars, hostVars, nodeVars>>

QemuTypeOK ==
  CASE part = "nodes"   -> TypeOK
    [] part = "presets" -> PresetTypeOK
    [] part = "seed"    -> SeedTypeOK
    [] part = "wsl"     -> WslTypeOK
    [] part = "host"    -> HostTypeOK
    [] part = "inside"  -> NodeTypeOK

QemuInit ==
  /\ part \in {"nodes", "presets", "seed", "wsl", "host", "inside"}
  /\ Init /\ PresetInit /\ SeedInit /\ WslInit /\ HostInit /\ NodeInit
  /\ part # "presets" => ~registered
  /\ part # "wsl" => host = [kind |-> "linux", script |-> FALSE, image |-> FALSE] /\ config = << >>
  /\ part # "host" => feature = "Absent" /\ imagesDir /\ pin = "none"
  /\ part # "inside" => guest.keyed

QemuNext ==
  \/ part = "nodes" /\ Next /\ UNCHANGED <<part, presetVars, seedVars, wslVars, hostVars, nodeVars>>
  \/ part = "presets" /\ PresetNext /\ UNCHANGED <<part, vars, seedVars, wslVars, hostVars, nodeVars>>
  \/ part = "seed" /\ SeedNext /\ UNCHANGED <<part, vars, presetVars, wslVars, hostVars, nodeVars>>
  \/ part = "wsl" /\ WslNext /\ UNCHANGED <<part, vars, presetVars, seedVars, hostVars, nodeVars>>
  \/ part = "host" /\ HostNext /\ UNCHANGED <<part, vars, presetVars, seedVars, wslVars, nodeVars>>
  \/ part = "inside" /\ NodeNext /\ UNCHANGED <<part, vars, presetVars, seedVars, wslVars, hostVars>>

QemuSpec == QemuInit /\ [][QemuNext]_qemuVars

\* An ADB block from where the other two searches begin, and one that cannot fit.
AskedBlocks == {<<1, 2>>, <<MaxPort, 2>>}
Symmetry    == Permutations(Names) \cup Permutations(Memories)

\* A name that has to be altered, one that is what the first is altered to, one whose
\* stem is theirs and which needs two pieces, and a plain one.
SeedNames == {[text |-> "user-data", stem |-> "USER", plain |-> Lossy, units |-> 9],
              [text |-> "USER~1", stem |-> "USER", plain |-> <<"USER", 1>>, units |-> 6],
              [text |-> "user-config.d", stem |-> "USER", plain |-> Lossy, units |-> 14],
              [text |-> "meta", stem |-> "META", plain |-> <<"META", 0>>, units |-> 4]}

\* No kernel line, the user's own in [wsl2], twice, commented, and in another section.
WslFiles == {<< >>, <<"[wsl2]">>, <<"setting", "[wsl2]", "kernel=own", "kernel=own">>,
             <<"[wsl2]", "# kernel=own", "[other]", "setting", "kernel=own">>,
             <<"[wsl2]", "setting", "[other]", "[wsl2]", "kernel=own">>}

\* Where QEMU is looked for: what the machine has before the portable one.
QemuPlaces == <<"machine", "portable">>
=============================================================================
