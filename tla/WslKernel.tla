------------------------------ MODULE WslKernel ------------------------------
(***************************************************************************)
(* The kernel of WSL 2 (wsl_kernel.rs): the kernel line of .wslconfig is   *)
(* rewritten by the project's script or, without it, by the application;   *)
(* WSL reads the file when it starts.  The file is a sequence of lines, of *)
(* which the two editors tell apart headers and kernel lines.              *)
(***************************************************************************)
EXTENDS Naturals, Sequences, SequencesExt

CONSTANTS
  UserFiles,     \* .wslconfig as users have it
  Hosts,         \* kinds of host: see StatusMessage
  LastSecond     \* bound: last second of the clock

VARIABLES host,      \* [kind, script, image]: the machine, scripts_dir, the custom bzImage
          config,    \* .wslconfig
          backups,   \* [second -> the file saved under that second, or << >>]
          second,    \* the clock, as the names of the backups show it
          writing,   \* the file being written, with its mode and apply, or NotWriting
          live,      \* the kernel WSL runs
          past       \* history: [own: the user's file, chosen, torn, collided]
wslVars == <<host, config, backups, second, writing, live, past>>

NotWriting == [mode |-> "none"]
UserLines   == {"[other]", "setting"}
KernelLines == {"kernel=own", "kernel=custom", "# kernel=own", "# kernel=custom", "# kernel="}
Lines == UserLines \cup KernelLines \cup {"", "[wsl2]", "ensured"}
ASSUME WslAssumption == UserFiles \subseteq Seq(Lines) /\ LastSecond \in Nat

Commented(l) == CASE l = "kernel=own" -> "# kernel=own" [] l = "kernel=custom" -> "# kernel=custom" [] OTHER -> l

\* read_configured_kernel: the first kernel line in a [wsl2] section that is no comment.
Configured(file) ==
  LET header(i) == {h \in 1..i : file[h] \in {"[wsl2]", "[other]"} /\ \A j \in h+1..i : file[j] \notin {"[wsl2]", "[other]"}}
      set == {i \in DOMAIN file : /\ file[i] \in {"kernel=own", "kernel=custom"}
                                  /\ \E h \in header(i) : file[h] = "[wsl2]"}
      firstSet == CHOOSE i \in set : \A j \in set : i <= j
  IN IF set = {} THEN "default" ELSE IF file[firstSet] = "kernel=own" THEN "own" ELSE "custom"

\* What the probe finds in each kernel; the user's own lacks CONFIG_TUN here.
Features(kernel) == CASE kernel = "custom" -> {"binder", "tun", "bridge"}
                      [] kernel = "own"    -> {"binder"}
                      [] OTHER             -> {"tun", "bridge"}

WslTypeOK ==
  /\ host \in [kind : Hosts, script : BOOLEAN, image : BOOLEAN]
  /\ config \in Seq(Lines)
  /\ second \in 0..LastSecond /\ DOMAIN backups = 0..LastSecond
  /\ writing.mode \in {"none", "custom", "default"}
  /\ live \in {"own", "custom", "default"}
  /\ past.torn \in BOOLEAN /\ past.collided \in BOOLEAN

WslInit ==
  /\ host \in [kind : Hosts, script : BOOLEAN, image : BOOLEAN]
  /\ config \in UserFiles
  /\ backups = [s \in 0..LastSecond |-> << >>]
  /\ second = 0
  /\ writing = NotWriting
  /\ live = Configured(config)
  /\ past = [own |-> config, chosen |-> "user", torn |-> FALSE, collided |-> FALSE]

-----------------------------------------------------------------------------
(* Editing.                                                                *)

\* A kernel line in [wsl2], commented or not, becomes the custom one or a comment; a
\* [wsl2] section that ends without one gets it.
EditLine(mode, acc, l) ==
  LET late == mode = "custom" /\ acc.inside /\ ~acc.written
      ours == acc.inside /\ l \in KernelLines
  IN IF l \in {"[wsl2]", "[other]"}
     THEN [out     |-> acc.out \o (IF late THEN <<"kernel=custom", l>> ELSE <<l>>),
           inside  |-> l = "[wsl2]",
           seen    |-> acc.seen \/ l = "[wsl2]",
           written |-> acc.written \/ late]
     ELSE [acc EXCEPT !.out = Append(@, IF ~ours THEN l ELSE IF mode = "custom" THEN "kernel=custom" ELSE Commented(l)),
                      !.written = @ \/ (ours /\ mode = "custom")]

NothingYet == [out |-> << >>, inside |-> FALSE, seen |-> FALSE, written |-> FALSE]

Rewritten(mode, file) ==
  LET end == FoldLeft(LAMBDA acc, l : EditLine(mode, acc, l), NothingYet, file)
      body == IF mode = "custom" /\ end.inside /\ ~end.written THEN Append(end.out, "kernel=custom") ELSE end.out
      gap  == IF body # << >> /\ Last(body) # "" THEN <<"">> ELSE << >>
  IN IF end.seen THEN body
     ELSE body \o gap \o <<"[wsl2]", IF mode = "custom" THEN "kernel=custom" ELSE "# kernel=">>

\* The script also gives a file of fewer than three lines its defaults, after [wsl2].
Ensure(out, l) == out \o (IF l = "[wsl2]" THEN <<l, "ensured">> ELSE <<l>>)
WithDefaults(file, edited) ==
  IF Len(file) >= 3 \/ Contains(edited, "ensured") THEN edited ELSE FoldLeft(Ensure, << >>, edited)

\* The file is saved under the second it is in; writing it begins by emptying it.
BackUp_NotForDefault(mode) ==
  backups' = IF config = << >> \/ mode = "default" THEN backups ELSE [backups EXCEPT ![second] = config]
BackUp(mode) ==
  backups' = IF config = << >> THEN backups ELSE [backups EXCEPT ![second] = config]

SwitchKernel(mode, apply) ==
  /\ writing = NotWriting
  /\ mode = "custom" => host.image
  /\ host.script => host.kind = "windows"                 \* no PowerShell elsewhere: nothing is changed
  /\ BackUp(mode)
  /\ writing' = [mode |-> mode, apply |-> apply,
                 file |-> IF host.script THEN WithDefaults(config, Rewritten(mode, config)) ELSE Rewritten(mode, config)]
  /\ config' = << >>
  /\ past' = [past EXCEPT !.collided = @ \/ (config # << >> /\ backups[second] # << >>)]
  /\ UNCHANGED <<host, second, live>>

\* wsl --shutdown may fail; the next start reads what was written.
FinishWrite ==
  /\ writing # NotWriting
  /\ config' = writing.file
  /\ \E shut \in BOOLEAN : live' = IF writing.apply /\ shut /\ host.kind = "windows" THEN Configured(config') ELSE live
  /\ past' = [past EXCEPT !.chosen = writing.mode]
  /\ writing' = NotWriting
  /\ UNCHANGED <<host, backups, second>>

\* The editor ends between emptying the file and writing it.
EditorDies ==
  /\ writing # NotWriting
  /\ writing' = NotWriting
  /\ past' = [past EXCEPT !.chosen = "user", !.torn = TRUE]
  /\ UNCHANGED <<host, config, backups, second, live>>

RestartWsl ==
  /\ writing = NotWriting /\ host.kind = "windows"
  /\ live' = Configured(config)
  /\ UNCHANGED <<host, config, backups, second, writing, past>>

NextSecond ==
  /\ second < LastSecond
  /\ second' = second + 1
  /\ UNCHANGED <<host, config, backups, writing, live, past>>

WslNext ==
  \/ \E mode \in {"custom", "default"}, apply \in BOOLEAN : SwitchKernel(mode, apply)
  \/ FinishWrite \/ EditorDies \/ RestartWsl \/ NextSecond

WslSpec == WslInit /\ [][WslNext]_wslVars

-----------------------------------------------------------------------------
(* status.                                                                 *)

StatusMessage_ModeFirst ==
  CASE host.kind # "windows" -> host.kind
    [] host.kind = "windows" /\ Configured(config) # "default" /\ host.image -> "restart to take effect"
    [] OTHER -> IF {"binder", "tun", "bridge"} \subseteq Features(live) THEN "in effect" ELSE "default kernel"

\* Other hosts have their own binder, a virtual machine of Docker's, no WSL, or no support.
StatusMessage ==
  LET mode == IF Configured(config) = "default" THEN "default" ELSE "custom"     \* mode_from_config
  IN CASE host.kind # "windows" -> host.kind
       [] host.kind = "windows" /\ {"binder", "tun", "bridge"} \subseteq Features(live) -> "in effect"
       [] OTHER -> IF mode = "custom" /\ host.image THEN "restart to take effect"
                   ELSE IF mode = "default" THEN "default kernel" ELSE "unknown"

Keep(kept, l) == IF l \in UserLines THEN Append(kept, l) ELSE kept
UserPart(file) == FoldLeft(Keep, << >>, file)

\* Whoever has chosen a kernel is read as having chosen it, and once WSL has been started
\* with it the status says so; the user's other lines stay, in their order, and every line
\* of the user's file can be found in the file or in a backup, whatever was torn, unless
\* two switches share the second a backup is named after.
KernelChoiceIsKept ==
  /\ writing = NotWriting /\ past.chosen # "user" =>
       /\ Configured(config) = past.chosen
       /\ host.kind = "windows" /\ live = past.chosen =>
            StatusMessage = IF live = "custom" THEN "in effect" ELSE "default kernel"
  /\ writing = NotWriting /\ ~past.torn => UserPart(config) = UserPart(past.own)
  /\ ~past.collided =>
       ToSet(past.own) \subseteq ToSet(config) \cup UNION {ToSet(backups[s]) : s \in 0..LastSecond}
=============================================================================
