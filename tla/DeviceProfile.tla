---------------------------- MODULE DeviceProfile -----------------------------
(***************************************************************************)
(* The profile a container's device tells of itself: the library of        *)
(* built-in and captured profiles (spoof.rs), the switch of a running      *)
(* container to another one, which touches the boot properties, the hook   *)
(* module's configuration (cloak.rs) and the files mounted over /proc      *)
(* (traces.rs), the usage baseline (usage.rs) and the native module.       *)
(* Commands run on a thread each, docker and adb may fail or time out      *)
(* under them, and the container may be stopped and started meanwhile.     *)
(* The data of a profile is one value, its look.                           *)
(***************************************************************************)
EXTENDS Naturals, Sequences, FiniteSets

CONSTANTS
  Builtins,     \* the profiles in the program
  Born,         \* the one of them the container was created with
  Phones,       \* the real devices a profile can be captured from
  Callers,      \* threads that run a command of the library
  Absent,       \* no look, no file
  Torn,         \* a profile's file that is not whole
  MaxCalls,     \* bound: commands of a behaviour
  MaxStops      \* bound: stops of the container
ASSUME ProfileAssumption ==
  /\ Born \in Builtins /\ Builtins \cap Phones = {} /\ {Absent, Torn} \cap (Builtins \cup Phones) = {}
  /\ MaxCalls \in Nat /\ MaxStops \in Nat

VARIABLES files,        \* captured profiles: <<id, look>> for <config>/spoof-profiles/<id>.json
          containerUp,  \* the container runs
          tool,         \* the image has resetprop
          label,        \* the container's rdc.clean-traces
          conf,         \* /data/local/tmp/rdc-spoof.conf
          props,        \* the looks the properties show, in the order the script sets them
          hooks,        \* rdc-cloak.json
          traces,       \* [directory under container-traces -> its cpuinfo and version]
          usage,        \* the usage baseline: package list, whether apps may read it, dates set back
          native,       \* the native module's directory: "none", "broken", "written" or "live"
          script,       \* [caller -> the script it started in the container, << >> when that ended]
          call,         \* [caller -> the command it runs, or the last one and what it was told]
          calls, stops
profileVars == <<files, containerUp, tool, label, conf, props, hooks, traces, usage, native, script,
                 call, calls, stops>>
shownVars == <<conf, props, hooks, traces, usage, native>>

Looks == Builtins \cup Phones
NewBase == "captured"
Ids == (Builtins \cup {NewBase}) \X (1..MaxCalls + 1)   \* a base and its number: base, base-2, ...
BuiltinIds == Builtins \X {1}
DeviceCalls == {"swap", "reapply", "push", "seed", "native"}
LibraryCalls == {"capture", "delete"}
Places == {"swap conf", "script", "in script", "hooks", "traces", "list", "readme", "chmod", "touch",
           "copy", "install", "read", "choose", "write", "done"}
NoCall == [op |-> "none", at |-> "done", ok |-> TRUE, look |-> Absent, id |-> <<NewBase, 1>>, warned |-> {},
           alone |-> FALSE, before |-> Absent]

\* The lines of a rendered configuration, in the order of the file: identity,
\* build, network name.
ConfProps == <<"model", "fingerprint", "net.hostname">>

ProfileTypeOK ==
  /\ files \subseteq Ids \X (Phones \cup {Torn}) /\ containerUp \in BOOLEAN /\ tool \in BOOLEAN
  /\ label \in {"true", "false", "none"} /\ conf \in Looks \cup {Absent}
  /\ props \in [DOMAIN ConfProps -> Looks \cup {Absent}] /\ hooks \in Looks \cup {Absent}
  /\ traces \in [{"name", "id"} -> Looks \cup {Absent}] /\ native \in {"none", "broken", "written", "live"}
  /\ usage.list \in Looks \cup {Absent} /\ usage.readable \in BOOLEAN /\ usage.dated \in Looks \cup {Absent}
  /\ \A c \in Callers : /\ call[c].op \in DeviceCalls \cup LibraryCalls \cup {"none"} /\ call[c].at \in Places
                        /\ Len(script[c]) \in {0, 2}
  /\ calls \in 0..MaxCalls /\ stops \in 0..MaxStops

\* A container made with trace cleansing has the files in the directory named
\* after it mounted over /proc.
ProfileInit ==
  /\ files = {} /\ containerUp = TRUE /\ tool \in BOOLEAN /\ label \in {"true", "false", "none"}
  /\ conf = Absent /\ props = [p \in DOMAIN ConfProps |-> IF tool THEN Born ELSE Absent] /\ hooks = Absent
  /\ traces = [d \in {"name", "id"} |-> IF d = "name" /\ label = "true" THEN Born ELSE Absent]
  /\ usage = [list |-> Absent, readable |-> FALSE, dated |-> Absent] /\ native = "none"
  /\ script = [c \in Callers |-> << >>] /\ call = [c \in Callers |-> NoCall] /\ calls = 0 /\ stops = 0

Mounted == traces["name"]
FileOf(id) == {f \in files : f[1] = id}
Replaced(id, look) == (files \ FileOf(id)) \cup {<<id, look>>}
ProfileById(id) == IF id \in BuiltinIds THEN id[1]
                   ELSE IF FileOf(id) = {} THEN Absent ELSE (CHOOSE f \in FileOf(id) : TRUE)[2]
Known(id) == ProfileById(id) \in Looks

Kind(op) == IF op \in LibraryCalls THEN LibraryCalls ELSE DeviceCalls
InCall(c) == call[c].at # "done"

\* What a caller was told is kept for as long as it ought to hold.
Disturbed(c, ops) ==
  IF call[c].op \notin ops THEN call[c] ELSE IF InCall(c) THEN [call[c] EXCEPT !.alone = FALSE] ELSE NoCall

\* A command begins: whatever was told before of the same things may not last,
\* and a command is alone when nothing else is at work on them, scripts that
\* outlived the command that started them included.
CallBegins(c, op, at, look, id) ==
  /\ ~InCall(c) /\ calls < MaxCalls /\ calls' = calls + 1
  /\ LET rivals == {d \in Callers \ {c} : InCall(d) /\ call[d].op \in Kind(op)}
         alone == rivals = {} /\ (op \in DeviceCalls => \A d \in Callers : script[d] = << >>)
     IN call' = [d \in Callers |->
          IF d = c THEN [op |-> op, at |-> at, ok |-> FALSE, look |-> look, id |-> id, warned |-> {},
                         alone |-> alone, before |-> hooks]
          ELSE Disturbed(d, Kind(op))]

GoOn(c, at) == call' = [call EXCEPT ![c].at = at]
Warn(c, layer, at) == call' = [call EXCEPT ![c].at = at, ![c].warned = @ \cup {layer}]
Told(t, ok, warned) ==
  IF t.alone /\ (ok \/ t.op = "swap") THEN [t EXCEPT !.at = "done", !.ok = ok, !.warned = @ \cup warned] ELSE NoCall
CallEnds(c, ok) == call' = [call EXCEPT ![c] = Told(@, ok, {})]
Fails(c, at) == call[c].at = at /\ CallEnds(c, FALSE) /\ UNCHANGED <<files, shownVars, script>>
At(c, at) == call[c].at = at /\ containerUp

-----------------------------------------------------------------------------
\* The switch of a running container.

SwapBegin(c, id) ==
  /\ Known(id) /\ CallBegins(c, "swap", "swap conf", ProfileById(id), NoCall.id)
  /\ UNCHANGED <<files, shownVars, script>>

WriteConf_HooksFirst(c) ==
  /\ At(c, "swap conf") /\ conf' = call[c].look /\ hooks' = call[c].look /\ GoOn(c, "script")
  /\ UNCHANGED <<files, props, traces, usage, native, script>>
WriteConf(c) ==
  /\ At(c, "swap conf") /\ conf' = call[c].look /\ GoOn(c, "script")
  /\ UNCHANGED <<files, props, hooks, traces, usage, native, script>>

\* The baked-in profile run again (root.rs).
Reapply(c) ==
  /\ CallBegins(c, "reapply", "script", Born, NoCall.id) /\ UNCHANGED <<files, shownVars, script>>

\* The script answers success at once where resetprop is missing.
StartScript(c) ==
  /\ At(c, "script") /\ script[c] = << >> /\ GoOn(c, "in script")
  /\ script' = [script EXCEPT ![c] = IF tool THEN <<call[c].op, 1>> ELSE << >>]
  /\ UNCHANGED <<files, shownVars>>

\* One property after the other, from the file as it is by then.
ScriptStep(c) ==
  /\ script[c] # << >>
  /\ LET n == script[c][2]
     IN /\ props' = [props EXCEPT ![n] = IF script[c][1] = "swap" THEN conf ELSE Born]
        /\ script' = [script EXCEPT ![c] = IF n = Len(ConfProps) THEN << >> ELSE <<script[c][1], n + 1>>]
  /\ UNCHANGED <<files, conf, hooks, traces, usage, native, call>>

\* A time-out ends docker exec and not what it runs.
ScriptAnswered_WhileItRuns(c) ==
  /\ call[c].at = "in script"
  /\ IF call[c].op = "swap" THEN GoOn(c, "hooks") ELSE CallEnds(c, TRUE)
  /\ UNCHANGED <<files, shownVars, script>>
ScriptAnswered(c) ==
  /\ call[c].at = "in script" /\ script[c] = << >>
  /\ IF call[c].op = "swap" THEN GoOn(c, "hooks") ELSE CallEnds(c, TRUE)
  /\ UNCHANGED <<files, shownVars, script>>
ScriptLost(c) == script[c] # << >> /\ Fails(c, "in script")

PushHooks(c, id) ==
  /\ Known(id) /\ CallBegins(c, "push", "hooks", ProfileById(id), NoCall.id) /\ UNCHANGED <<files, shownVars, script>>

PushCloakConfig(c, pushed) ==
  /\ call[c].at = "hooks" /\ (pushed => containerUp)
  /\ hooks' = IF pushed THEN call[c].look ELSE hooks
  /\ IF call[c].op = "push" THEN CallEnds(c, pushed)
     ELSE IF pushed THEN GoOn(c, "traces") ELSE Warn(c, "hooks", "traces")
  /\ UNCHANGED <<files, conf, props, traces, usage, native, script>>

\* The files are written into the directory named after what container_id_for
\* answers, which is the container's id.
RegenerateContainerTraces(look) == traces' = [traces EXCEPT !["id"] = look]

SyncTraces(c, read, written) ==
  /\ call[c].at = "traces"
  /\ LET synced == read /\ label = "true"
         missed == IF ~synced THEN {"traces skipped"} ELSE IF written THEN {} ELSE {"traces"}
     IN /\ IF missed = {} THEN RegenerateContainerTraces(call[c].look) ELSE UNCHANGED traces
        /\ call' = [call EXCEPT ![c] = Told(@, TRUE, missed)]
  /\ UNCHANGED <<files, conf, props, hooks, usage, native, script>>

-----------------------------------------------------------------------------
\* The usage baseline and the native module.

SeedBegin(c, id) ==
  /\ Known(id) /\ CallBegins(c, "seed", "list", ProfileById(id), NoCall.id) /\ UNCHANGED <<files, shownVars, script>>

WriteList(c) ==
  /\ At(c, "list") /\ usage' = [usage EXCEPT !.list = call[c].look] /\ GoOn(c, "readme")
  /\ UNCHANGED <<files, conf, props, hooks, traces, native, script>>

WriteReadme(c, done) ==
  /\ call[c].at = "readme" /\ (done => containerUp)
  /\ IF done THEN GoOn(c, "chmod") ELSE Warn(c, "readme", "chmod")
  /\ UNCHANGED <<files, shownVars, script>>

Chmod(c, done) ==
  /\ call[c].at = "chmod" /\ (done => containerUp)
  /\ usage' = [usage EXCEPT !.readable = @ \/ done]
  /\ IF done THEN GoOn(c, "touch") ELSE Warn(c, "chmod", "touch")
  /\ UNCHANGED <<files, conf, props, hooks, traces, native, script>>

TouchTimestamps(c) ==
  /\ At(c, "touch") /\ usage' = [usage EXCEPT !.dated = call[c].look] /\ CallEnds(c, TRUE)
  /\ UNCHANGED <<files, conf, props, hooks, traces, native, script>>

NativeBegin(c) ==
  /\ CallBegins(c, "native", "copy", Absent, NoCall.id) /\ UNCHANGED <<files, shownVars, script>>

\* docker cp also reaches a container that is stopped.
CopyZip(c) == call[c].at = "copy" /\ GoOn(c, "install") /\ UNCHANGED <<files, shownVars, script>>

\* With Magisk's own command or, after the old directory is removed, unpacked:
\* without a module.prop the directory stays behind, and the command failed.
InstallNativeCloak(c, whole) ==
  /\ At(c, "install") /\ native' = (IF whole THEN "written" ELSE "broken") /\ CallEnds(c, whole)
  /\ UNCHANGED <<files, conf, props, hooks, traces, usage, script>>

-----------------------------------------------------------------------------
\* The library.

\* What is read of a phone: properties that are empty, and whether the
\* fingerprint has its eight parts, agrees with the others, and the
\* description begins as it should.
Readings == [blank : SUBSET {"market", "description", "other"}, parts : {7, 8}, agrees : BOOLEAN, begins : BOOLEAN]

\* An empty market name falls back to the model; a description that is empty is
\* made of the other fields.
BuildCapturedProfile(r) ==
  [r EXCEPT !.blank = @ \ {"market", "description"}, !.begins = @ \/ "description" \in r.blank]
ValidateProfile(r) == r.blank = {} /\ r.parts = 8 /\ r.agrees /\ r.begins

ExistingIds_CapturedOnly == {f[1] : f \in {g \in files : g[2] # Torn}}
ExistingIds == BuiltinIds \cup {f[1] : f \in {g \in files : g[2] # Torn}}
ResolveUniqueId(base) ==
  LET free == {n \in 1..MaxCalls + 1 : <<base, n>> \notin ExistingIds}
  IN <<base, CHOOSE n \in free : \A m \in free : n <= m>>

CaptureBegin(c, base, phone) ==
  /\ CallBegins(c, "capture", "read", phone, <<base, 1>>) /\ UNCHANGED <<files, shownVars, script>>

ReadPhone(c) == call[c].at = "read" /\ GoOn(c, "choose") /\ UNCHANGED <<files, shownVars, script>>

ChooseId(c, r) ==
  /\ call[c].at = "choose" /\ ValidateProfile(BuildCapturedProfile(r))
  /\ call' = [call EXCEPT ![c].id = ResolveUniqueId(@[1]), ![c].at = "write"]
  /\ UNCHANGED <<files, shownVars, script>>
RejectPhone(c, r) == ~ValidateProfile(BuildCapturedProfile(r)) /\ Fails(c, "choose")

\* A write that fails may leave a part of the file.
WriteProfile(c, written) ==
  /\ call[c].at = "write" /\ files' = Replaced(call[c].id, IF written THEN call[c].look ELSE Torn)
  /\ CallEnds(c, written) /\ UNCHANGED <<shownVars, script>>

DeleteBegin(c, id) ==
  /\ CallBegins(c, "delete", "write", Absent, id) /\ UNCHANGED <<files, shownVars, script>>

DeleteCustomProfile(c) ==
  /\ call[c].op = "delete" /\ call[c].at = "write"
  /\ LET id == call[c].id  gone == id \notin BuiltinIds /\ FileOf(id) # {}
     IN files' = (IF gone THEN files \ FileOf(id) ELSE files) /\ CallEnds(c, gone)
  /\ UNCHANGED <<shownVars, script>>

-----------------------------------------------------------------------------
\* Whoever stops the container and starts it; its scripts die with it, and at
\* boot the script runs with the image's own configuration.
ContainerStops ==
  /\ containerUp /\ stops < MaxStops /\ stops' = stops + 1 /\ containerUp' = FALSE
  /\ call' = [c \in Callers |-> IF call[c].at = "in script" /\ script[c] # << >>
                               THEN NoCall ELSE Disturbed(c, DeviceCalls)]
  /\ script' = [c \in Callers |-> << >>] /\ UNCHANGED <<files, shownVars, calls>>
ContainerBoots ==
  /\ ~containerUp /\ containerUp' = TRUE /\ call' = [c \in Callers |-> Disturbed(c, DeviceCalls)]
  /\ props' = [p \in DOMAIN ConfProps |-> IF tool THEN Born ELSE Absent]
  /\ native' = (IF native = "written" THEN "live" ELSE native)
  /\ UNCHANGED <<files, conf, hooks, traces, usage, script, calls, stops>>

Command(c) ==
  \/ \E id \in Ids : SwapBegin(c, id) \/ PushHooks(c, id) \/ SeedBegin(c, id) \/ DeleteBegin(c, id)
  \/ Reapply(c) \/ NativeBegin(c)
  \/ \E base \in Builtins \cup {NewBase}, phone \in Phones : CaptureBegin(c, base, phone)

Progress(c) ==
  \/ WriteConf(c) \/ StartScript(c) \/ ScriptAnswered(c) \/ ScriptStep(c) \/ ScriptLost(c)
  \/ \E done \in BOOLEAN : \/ PushCloakConfig(c, done) \/ WriteReadme(c, done) \/ Chmod(c, done)
                           \/ InstallNativeCloak(c, done)
                           \/ call[c].op = "capture" /\ WriteProfile(c, done)
  \/ \E read, written \in BOOLEAN : SyncTraces(c, read, written)
  \/ WriteList(c) \/ TouchTimestamps(c) \/ CopyZip(c) \/ ReadPhone(c) \/ DeleteCustomProfile(c)
  \/ \E r \in Readings : ChooseId(c, r) \/ RejectPhone(c, r)
  \/ \E at \in {"swap conf", "script", "list", "touch", "copy", "install", "read"} : Fails(c, at)

ProfileNext ==
  \/ \E c \in Callers : Command(c) /\ UNCHANGED <<containerUp, tool, label, stops>>
  \/ \E c \in Callers : Progress(c) /\ UNCHANGED <<containerUp, tool, label, calls, stops>>
  \/ (ContainerStops \/ ContainerBoots) /\ UNCHANGED <<tool, label>>

ProfileSpec == ProfileInit /\ [][ProfileNext]_profileVars

-----------------------------------------------------------------------------
(* Properties.                                                             *)

\* What a command was told, when no other was at work on the same things and none has
\* been since, is so.  A switch that went well shows the profile asked for in every
\* property and, unless it warns, in the hooks; one that failed has left the hooks alone.
\* A seeded device has the list and the dates, and a list that apps may read unless it
\* warns; an installed module is whole; a captured profile is there, a deleted one is not,
\* and neither ever stands in the place of a built-in one.
ProfileIsAsTold ==
  /\ \A i \in BuiltinIds : FileOf(i) = {}
  /\ \A c \in Callers : LET t == call[c] IN t.at = "done" /\ t.alone =>
       /\ t.op \in {"swap", "reapply"} /\ t.ok /\ tool => \A p \in DOMAIN props : props[p] = t.look
       /\ t.op = "swap" =>
            hooks = IF t.ok /\ "hooks" \notin t.warned THEN t.look ELSE t.before
       /\ t.op = "push" /\ t.ok => hooks = t.look
       /\ t.op = "seed" /\ t.ok => usage.list = t.look /\ usage.dated = t.look
       /\ t.op = "seed" /\ t.ok /\ "chmod" \notin t.warned => usage.readable
       /\ t.op = "native" /\ t.ok => native = "written"
       /\ t.op = "capture" /\ t.ok => FileOf(t.id) = {<<t.id, t.look>>}
       /\ t.op = "delete" /\ t.ok => FileOf(t.id) = {}

\* "so the container's existing bind mounts observe the new bytes without a restart":
\* after a switch that says the traces were synchronised, what is mounted over /proc is
\* the profile's that the device was switched to.
MountsFollowTheSwitch ==
  \A c \in Callers : LET t == call[c] IN
    t.op = "swap" /\ t.ok /\ t.at = "done" /\ t.alone /\ t.warned \cap {"traces", "traces skipped"} = {}
      => Mounted = t.look
=============================================================================
