------------------------------- MODULE HostSetup -------------------------------
(***************************************************************************)
(* qemu-center on a host that is not ready yet: `setup image`, `setup      *)
(* qemu`, `setup whpx` and `setup all`, the prerequisites `vm create`      *)
(* looks for (with --auto-setup), and `doctor`.  Downloads break off, the  *)
(* Ubuntu images are republished, the user does not answer the elevation,  *)
(* an elevated child goes on when its parent has given up, installers stop *)
(* half-way, queries are slow or answer nothing, windows are closed.       *)
(***************************************************************************)
EXTENDS Naturals, Sequences, FiniteSets

CONSTANTS
  LastRelease,   \* bound: how often the image is published
  MaxCommands,   \* bound: commands of a behaviour
  Places,        \* directories QEMU may be in, in the order they are looked at
  Roomy          \* MIN_FREE_BYTES, in units; a disk has one unit more
ASSUME HostAssumption ==
  /\ LastRelease \in Nat \ {0} /\ MaxCommands \in Nat /\ Roomy \in Nat \ {0}
  /\ Len(Places) \in Nat \ {0} /\ DOMAIN Places = 1..Len(Places)

VARIABLES feature,      \* InstallState of HypervisorPlatform
          accelerated,  \* the hypervisor runs: enabled before the last reboot
          holds,        \* [place -> which of qemu-system and qemu-img are in it]
          published,    \* the release upstream serves
          imagesDir,    \* <state-dir>/images exists
          image,        \* the image file: << >>, <<r>> whole, or <<r, "part">>
          sums,         \* SHA256SUMS as fetched: the release it lists
          pin,          \* RDC_QEMU_INSTALLER_SHA256: "none" or "set"
          installer,    \* file in <state-dir>/tmp: "none", "pinned" or "other"
          executed,     \* history: installers that were run
          marker,       \* setup-whpx.marker: what the elevated child wrote, or "none"
          child,        \* the elevated child is running
          work,         \* the command in progress
          commands,     \* how many were given
          told,         \* what was said last: the step or check, its result, what it relied on, and
                        \* (history) whether what the check asks for was so
          bases         \* nodes: images their overlays were made over
hostVars == <<feature, accelerated, holds, published, imagesDir, image, sums, pin, installer, executed,
              marker, child, work, commands, told, bases>>
fileVars == <<imagesDir, image, sums>>
programVars == <<holds, pin, installer, executed>>
whpxVars == <<feature, accelerated, marker, child>>

FeatureStates == {"Enabled", "Disabled", "Absent"}
Steps  == {"image", "qemu", "machine", "whpx", "node"}
Checks == {"feature", "binary", "accel", "disk", "ssh", "adb", "img"}
PlaceSet == {Places[i] : i \in DOMAIN Places}
Portable == Places[Len(Places)]
Silent == [step |-> "none", code |-> "none", said |-> "none", truth |-> TRUE]
Resting0 == [todo |-> << >>, pc |-> "begin", auto |-> FALSE]
WholeFile(file) == Len(file) = 1

HostTypeOK ==
  /\ feature \in FeatureStates /\ accelerated \in BOOLEAN /\ holds \in [PlaceSet -> SUBSET {"system", "img"}]
  /\ published \in 1..LastRelease /\ sums \in 0..LastRelease /\ imagesDir \in BOOLEAN
  /\ marker \in {"none", "done", "already", "error"} /\ child \in BOOLEAN
  /\ installer \in {"none", "pinned", "other"} /\ executed \subseteq {"pinned", "other"}
  /\ told.step \in Steps \cup Checks \cup {"none"} /\ commands \in 0..MaxCommands

HostInit ==
  /\ feature \in FeatureStates /\ accelerated = (feature = "Enabled")
  /\ holds = [p \in PlaceSet |-> {}]
  /\ published = 1 /\ image = << >> /\ sums = 0 /\ imagesDir \in BOOLEAN
  /\ pin \in {"none", "set"} /\ installer = "none" /\ executed = {}
  /\ marker = "none" /\ child = FALSE
  /\ work = Resting0
  /\ commands = 0 /\ told = Silent /\ bases = {}

-----------------------------------------------------------------------------
(* Where QEMU is.                                                          *)

\* Directories of the environment come first, the portable one last; the first that has
\* the program wins, for each of the two programs by itself.
Discover(program) ==
  LET having == {i \in DOMAIN Places : program \in holds[Places[i]]}
  IN IF having = {} THEN << >> ELSE <<Places[CHOOSE i \in having : \A j \in having : i <= j]>>
Found(program) == Discover(program) # << >>

\* CIM answers without elevation; an answer that is empty means that there is no such
\* feature, one that cannot be read means nothing.
ParseInstallState(answer) ==
  CASE answer = "state" -> feature [] answer = "empty" -> "Absent" [] OTHER -> "Unknown"

\* precheck: the file is there, whatever it holds.
Missing(name, there) == IF there THEN << >> ELSE <<name>>
MissingPrereqs(answer) ==
  Missing("whpx", ParseInstallState(answer) = "Enabled") \o Missing("qemu", Found("system"))
    \o Missing("image", image # << >>)

-----------------------------------------------------------------------------
(* Commands.  A command is a list of steps; setup all goes on after one    *)
(* that failed, the setup of vm create does not.                           *)

Doing(step, pc) == work.todo # << >> /\ Head(work.todo) = step /\ work.pc = pc
GoOn(pc)     == work' = [work EXCEPT !.pc = pc]
Ends(code, said) ==
  /\ told' = [step |-> Head(work.todo), code |-> code, said |-> said, truth |-> TRUE]
  /\ work' = IF Len(work.todo) = 1 \/ (work.auto /\ code # "ok") THEN Resting0
             ELSE [work EXCEPT !.todo = Tail(@), !.pc = "begin"]

Run(todo, pc, auto) ==
  /\ work.todo = << >> /\ commands < MaxCommands
  /\ work' = [todo |-> todo, pc |-> pc, auto |-> auto]
  /\ commands' = commands + 1 /\ told' = Silent
  /\ UNCHANGED <<fileVars, programVars, whpxVars, published, bases>>
SetupCommand ==
  \E todo \in {<<"image">>, <<"qemu">>, <<"machine">>, <<"whpx">>, <<"image", "qemu", "whpx">>} : Run(todo, "begin", FALSE)

\* vm create: without --auto-setup, whatever is missing ends it.
CreateNode(answer, auto) ==
  LET missing == MissingPrereqs(answer) IN
  /\ auto \/ missing = << >>
  /\ Run(missing \o <<"node">>, IF missing = << >> THEN "lay" ELSE "begin", TRUE)

\* After a setup the check is made again.
CheckAgain(answer) ==
  /\ Doing("node", "begin")
  /\ IF MissingPrereqs(answer) # << >> THEN Ends("missing", "still missing") ELSE GoOn("lay") /\ UNCHANGED told
  /\ UNCHANGED <<fileVars, programVars, whpxVars, published, commands, bases>>

\* The disk is laid over the image that --image names.
LayDisk ==
  /\ Doing("node", "lay")
  /\ IF ~Found("img") THEN Ends("failed", "no qemu-img") /\ UNCHANGED bases
     ELSE Ends("ok", "created") /\ bases' = bases \cup {image}
  /\ UNCHANGED <<fileVars, programVars, whpxVars, published, commands>>

\* The window is closed; an elevated child goes on.
CloseWindow ==
  /\ work.todo # << >>
  /\ work' = Resting0
  /\ UNCHANGED <<fileVars, programVars, whpxVars, published, commands, told, bases>>

-----------------------------------------------------------------------------
(* setup image.                                                            *)

\* The sums are written into the images directory before anyone has made it.
FetchSums ==
  /\ Doing("image", "begin")
  /\ \/ /\ imagesDir /\ sums' = published /\ GoOn("hash") /\ UNCHANGED told
     \/ Ends("failed", "no sums") /\ UNCHANGED sums
  /\ UNCHANGED <<imagesDir, image, programVars, whpxVars, published, commands, bases>>

ShaMatches_AnyWholeFile == WholeFile(image)
ShaMatches == image = <<sums>>

\* image_download_plan: only a file with the listed digest is kept.
HashExisting ==
  /\ Doing("image", "hash")
  /\ \/ ShaMatches /\ Ends("ok", "verified")
     \/ GoOn("download") /\ UNCHANGED told
  /\ UNCHANGED <<fileVars, programVars, whpxVars, published, commands, bases>>

\* What upstream serves now may be later than what it listed; the file is written where it is.
DownloadImage ==
  /\ Doing("image", "download")
  /\ imagesDir' = TRUE
  /\ \/ image' = <<published>> /\ GoOn("verify") /\ UNCHANGED told
     \/ image' \in {image, <<published, "part">>} /\ Ends("failed", "download")
  /\ UNCHANGED <<sums, programVars, whpxVars, published, commands, bases>>

VerifyImage ==
  /\ Doing("image", "verify")
  /\ \/ ShaMatches /\ Ends("ok", "verified")
     \/ Ends("failed", "mismatch")
  /\ UNCHANGED <<fileVars, programVars, whpxVars, published, commands, bases>>

-----------------------------------------------------------------------------
(* setup qemu.                                                             *)

\* Whichever channel, nothing is done where a QEMU is found; a direct download needs a pin.
FetchInstaller ==
  /\ Doing("qemu", "begin") \/ Doing("machine", "direct")
  /\ IF Found("system") /\ Doing("qemu", "begin") THEN Ends("ok", "present") /\ UNCHANGED installer
     ELSE IF pin = "none" THEN Ends("failed", "no pin") /\ UNCHANGED installer
     ELSE \/ installer' \in {"pinned", "other"} /\ GoOn("check") /\ UNCHANGED told
          \/ installer' \in {installer, "other"} /\ Ends("failed", "download")
  /\ UNCHANGED <<fileVars, holds, pin, executed, whpxVars, published, commands, bases>>

Pinned == installer = "pinned"

CheckInstaller ==
  /\ Doing("qemu", "check") \/ Doing("machine", "check")
  /\ IF Pinned THEN GoOn("install") /\ UNCHANGED told
     ELSE Ends("failed", "digest")
  /\ UNCHANGED <<fileVars, programVars, whpxVars, published, commands, bases>>

\* The installer may be refused, killed at its time-out or finish; for the portable one
\* the program decides, for the machine's its exit code.
RunPortable ==
  /\ Doing("qemu", "install")
  /\ executed' = executed \cup {installer}
  /\ \E put \in {{}, {"system"}, {"system", "img"}} :
       /\ holds' = [holds EXCEPT ![Portable] = @ \cup put]
       /\ IF "system" \in holds'[Portable]
          THEN installer' = "none" /\ Ends("ok", "installed")
          ELSE UNCHANGED installer /\ Ends("failed", "not there")
  /\ UNCHANGED <<fileVars, pin, whpxVars, published, commands, bases>>

\* winget, scoop and choco bring their own trust; the last channel is the direct download.
MachineInstall ==
  /\ Doing("machine", "begin") \/ Doing("machine", "install")
  /\ IF Doing("machine", "begin") /\ Found("system")
     THEN Ends("ok", "present") /\ UNCHANGED <<holds, installer, executed>>
     ELSE \/ /\ Doing("machine", "begin") /\ GoOn("direct") /\ UNCHANGED <<told, holds, installer, executed>>
          \/ /\ executed' = IF Doing("machine", "install") THEN executed \cup {installer} ELSE executed
             /\ \/ /\ \E seen \in {{}, {"system", "img"}} : holds' = [holds EXCEPT ![Places[1]] = @ \cup seen]
                   /\ installer' = "none" /\ Ends("ok", "machine-wide")
                \/ UNCHANGED <<holds, installer>> /\ Ends("failed", "install")
  /\ UNCHANGED <<fileVars, pin, whpxVars, published, commands, bases>>

-----------------------------------------------------------------------------
(* setup whpx.                                                             *)

ClearedMarker_Kept == marker
ClearedMarker == "none"

\* The query needs elevation and answers nothing without; then the marker is removed and
\* the user is asked.
AskElevation ==
  /\ Doing("whpx", "begin")
  /\ \/ /\ feature = "Enabled" /\ Ends("ok", "already") /\ UNCHANGED <<marker, child>>
     \/ /\ marker' = ClearedMarker /\ GoOn("wait") /\ UNCHANGED told
        /\ child' \in {child, TRUE}
  /\ UNCHANGED <<feature, accelerated, fileVars, programVars, published, commands, bases>>

\* The user turns the feature off again.
TurnOff ==
  /\ work.todo = << >> /\ ~child /\ feature = "Enabled" /\ commands > 0
  /\ feature' = "Disabled"
  /\ UNCHANGED <<accelerated, marker, child, fileVars, programVars, published, work, commands, told, bases>>

\* DISM in the elevated child; 1168 it also says of a feature this edition does not have.
Dism ==
  /\ child
  /\ \/ feature' = "Enabled" /\ marker' = "done"
     \/ UNCHANGED feature /\ marker' \in {"already", "error"} /\ (marker' = "already" => feature # "Disabled")
  /\ child' = FALSE
  /\ UNCHANGED <<accelerated, fileVars, programVars, published, work, commands, told, bases>>

\* The wrapper waits for the child, or for an hour.
ReadMarker ==
  /\ Doing("whpx", "wait")
  /\ \/ child /\ Ends("failed", "timed out")
     \/ ~child /\ IF marker \in {"none", "error"} THEN Ends("failed", marker) ELSE Ends("ok", marker)
  /\ UNCHANGED <<fileVars, programVars, whpxVars, published, commands, bases>>

-----------------------------------------------------------------------------
(* doctor.  Every check runs one command, which may fail to answer.        *)

Tell(check, status, answer, truth) ==
  /\ told' = [step |-> check, code |-> status, said |-> answer, truth |-> truth]
  /\ UNCHANGED <<fileVars, programVars, whpxVars, published, work, commands, bases>>

CheckFeature(answer) ==
  LET state == ParseInstallState(answer)
  IN Tell("feature", CASE state = "Enabled" -> "ok" [] state = "Unknown" -> "unknown" [] OTHER -> "fail",
          answer, feature = "Enabled")

\* QEMU with a working WHPX never exits: being killed after 8 s is the sign of success.
CheckAccel(answer) ==
  Tell("accel", CASE ~Found("system") -> "unknown"
                  [] accelerated \/ answer = "slow" -> "ok"
                  [] answer = "other" -> "unknown"
                  [] OTHER -> "fail", answer, accelerated)

\* fsutil prints lines with numbers, in the system's language: the line of the free bytes
\* is known by its label, or comes first; the bytes are the largest number of a line.
FsutilLines(answer, free) ==
  CASE answer = "labelled"  -> <<[label |-> TRUE, numbers |-> {free, 0}], [label |-> FALSE, numbers |-> {Roomy + 1}]>>
    [] answer = "localized" -> <<[label |-> FALSE, numbers |-> {free, 0}], [label |-> FALSE, numbers |-> {Roomy + 1}]>>
    [] OTHER -> << >>
LargestOf(numbers) == CHOOSE n \in numbers : \A m \in numbers : m <= n
LineOfFree(lines) ==
  LET labelled == {i \in DOMAIN lines : lines[i].label}
  IN IF labelled = {} THEN 1 ELSE CHOOSE i \in labelled : \A j \in labelled : i <= j
ParseFsutil(lines) == IF lines = << >> THEN << >> ELSE <<LargestOf(lines[LineOfFree(lines)].numbers)>>
JudgeFree(bytes) == IF bytes = << >> THEN "unknown" ELSE IF bytes[1] >= Roomy THEN "ok" ELSE "fail"

\* CIM first; fsutil where CIM has no number.
CheckDisk(answer, free) ==
  Tell("disk", JudgeFree(IF answer = "number" THEN <<free>> ELSE ParseFsutil(FsutilLines(answer, free))),
       answer, free >= Roomy)

\* where: a tool that is needed fails, one that is not is unknown.
CheckTool(check, present, answer) ==
  /\ check \in {"ssh", "adb"}
  /\ Tell(check, IF present /\ answer = "path" THEN "ok" ELSE IF check = "ssh" THEN "fail" ELSE "unknown",
          answer, present)
CheckPrograms ==
  \/ Tell("binary", IF Found("system") THEN "ok" ELSE "fail", "files", Found("system"))
  \/ Tell("img", IF Found("img") THEN "ok" ELSE "unknown", "files", Found("img"))

Doctor ==
  /\ work.todo = << >> /\ told.step \notin Checks
  /\ \/ \E answer \in {"state", "empty", "garbage", "timeout"} : CheckFeature(answer)
     \/ \E answer \in {"prompt", "slow", "other"} : CheckAccel(answer)
     \/ \E answer \in {"number", "labelled", "localized", "nothing"},
          free \in 0..Roomy : CheckDisk(answer, free)
     \/ \E check \in Checks, present \in BOOLEAN, answer \in {"path", "timeout"} : CheckTool(check, present, answer)
     \/ CheckPrograms

-----------------------------------------------------------------------------
(* The world.                                                              *)

Publish ==
  /\ published < LastRelease /\ published' = published + 1
  /\ UNCHANGED <<fileVars, programVars, whpxVars, work, commands, told, bases>>
Reboot ==
  /\ work.todo = << >> /\ ~child
  /\ accelerated' = (feature = "Enabled")
  /\ UNCHANGED <<feature, marker, child, fileVars, programVars, published, work, commands, told, bases>>

HostNext ==
  \/ SetupCommand \/ \E answer \in {"state", "timeout"}, auto \in BOOLEAN : CreateNode(answer, auto)
  \/ \E answer \in {"state", "timeout"} : CheckAgain(answer)
  \/ LayDisk \/ CloseWindow
  \/ FetchSums \/ HashExisting \/ DownloadImage \/ VerifyImage
  \/ FetchInstaller \/ CheckInstaller \/ RunPortable \/ MachineInstall
  \/ AskElevation \/ TurnOff \/ Dism \/ ReadMarker
  \/ Doctor \/ Publish \/ Reboot

HostSpec == HostInit /\ [][HostNext]_hostVars

-----------------------------------------------------------------------------
(* Property.                                                               *)

\* What qemu-center says of a host is so, whatever breaks off, is refused, slow, replaced
\* or left over from an earlier run.  A setup that ends well has left an image with the
\* listed digest, a QEMU that is found, a feature that is on (or that DISM claims to be);
\* no installer ever runs but the pinned one, and no node is laid over nothing.  A check of
\* doctor that is ok is so, unless a slow QEMU was killed before it could refuse; one that
\* fails is not so, unless the query answered nothing.
SetupIsTruthful ==
  /\ [](/\ executed \subseteq {"pinned"} /\ << >> \notin bases
        /\ told.step \in Checks =>
             /\ told.code = "ok" => told.truth \/ told.said = "slow"
             /\ told.code = "fail" => ~told.truth \/ told.said \in {"empty", "timeout"})
  /\ [][told'.code = "ok" /\ told' # told =>
          /\ told'.step = "image" => image' = <<sums'>>
          /\ told'.step = "qemu" => \E p \in PlaceSet : "system" \in holds'[p]
          /\ told'.step = "whpx" => feature' = "Enabled" \/ told'.said = "already"]_hostVars

\* The image that nodes are laid over, if it was whole, is "the read-only backing file":
\* nothing is written over it.
BaseImageIsReadOnly == \A base \in bases : WholeFile(base) => image = base
=============================================================================
