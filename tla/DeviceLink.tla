----------------------------- MODULE DeviceLink -----------------------------
(***************************************************************************)
(* The connection to one Android device over TCP (services/adb.rs): the    *)
(* loop that waits until the device is ready, with the set WAITING that    *)
(* keeps a second loop out; connecting, disconnecting and restarting the   *)
(* adb server by hand; the scan of the network; and the installation of    *)
(* packages through a file on the device.  adb's own server and the device *)
(* are external.                                                           *)
(***************************************************************************)
EXTENDS Naturals

CONSTANTS Waits,       \* threads that may run wait_ready_with_cancel
          Installs,    \* threads that may run install
          Apks,        \* packages
          NoApk,
          Probes,      \* bound: probes of a port that stays closed (6 in the code)
          Rounds       \* bound: rounds of the loop until its time is over (90 in the code)
ASSUME LinkAssumption == Probes \in Nat \ {0} /\ Rounds \in Nat \ {0, 1}

VARIABLES transport,   \* what adb says of the device; "none": it is not listed
          device,      \* [listening, booted]: adbd's port, sys.boot_completed
          waitingFor,  \* WAITING has the serial
          waitLoop,    \* [Waits -> the loop's locals and where it is]
          waitCancelled, \* what should_cancel answers
          steady,      \* the device has been up, and left alone, since a loop began
          remote,      \* /data/local/tmp/rdc_install.apk
          installed,   \* the package last installed
          install      \* [Installs -> where it is, for which package]
waitVars == <<waitingFor, waitLoop, waitCancelled>>
installVars == <<remote, installed, install>>
linkVars == <<transport, device, waitVars, steady, installVars>>

Idle == [at |-> "idle", left |-> 0, last |-> "unknown", first |-> TRUE, answer |-> "none"]
NoInstall == [at |-> "idle", apk |-> NoApk, alone |-> TRUE, answer |-> "none"]

LinkTypeOK ==
  /\ transport \in {"none", "offline", "unauthorized", "device"}
  /\ device \in [listening : BOOLEAN, booted : BOOLEAN]
  /\ waitingFor \in BOOLEAN /\ waitCancelled \in BOOLEAN /\ steady \in BOOLEAN
  /\ waitLoop \in [Waits -> [at : {"idle", "probing", "looping", "connecting", "reading", "sleeping", "ended"},
                         left : 0..(Probes + Rounds), last : {"unknown", "none", "offline", "unauthorized", "device"},
                         first : BOOLEAN,
                         answer : {"none", "refused", "unreachable", "cancelled", "ready", "timeout"}]]
  /\ remote \in Apks \cup {NoApk} /\ installed \in Apks \cup {NoApk}
  /\ install \in [Installs -> [at : {"idle", "pushing", "installing", "removing"}, apk : Apks \cup {NoApk},
                               alone : BOOLEAN, answer : {"none", "ok", "failed"}]]

LinkInit ==
  /\ transport \in {"none", "offline", "device"}
  /\ device \in [listening : BOOLEAN, booted : BOOLEAN]
  /\ waitingFor = FALSE /\ waitCancelled = FALSE /\ steady = FALSE
  /\ waitLoop = [w \in Waits |-> Idle]
  /\ remote = NoApk /\ installed = NoApk
  /\ install = [i \in Installs |-> NoInstall]

Up == device.listening /\ device.booted
Set(w, locals) == waitLoop' = [waitLoop EXCEPT ![w] = locals]

-----------------------------------------------------------------------------
(* adb and the device.                                                     *)

\* adb connect: a transport that is listed stays as it is, "already connected".
\* A device that is up answers; one that is coming up may be listed offline.
Connected ==
  IF transport # "none" \/ ~device.listening THEN {transport}
  ELSE IF Up THEN {"device"} ELSE {"device", "offline", "unauthorized"}

DeviceChanges ==
  /\ \E d \in [listening : BOOLEAN, booted : BOOLEAN] :
       /\ d.booted => d.listening
       /\ device' = d
       /\ transport' \in IF device.listening /\ ~d.listening
                         THEN {transport, "none", "offline"} \ {"device"} ELSE {transport}
  /\ steady' = FALSE
  /\ UNCHANGED <<waitVars, installVars>>

\* Boot and handshake go on by themselves.
DeviceComesUp ==
  /\ device.listening
  /\ \/ device' = [device EXCEPT !.booted = TRUE] /\ UNCHANGED transport
     \/ transport \in {"offline", "unauthorized"} /\ transport' = "device" /\ UNCHANGED device
  /\ UNCHANGED <<waitVars, steady, installVars>>

\* kill_server, restart_server and auto_fix, or a disconnect by hand.
UserDrops ==
  /\ transport' = "none" /\ steady' = FALSE
  /\ UNCHANGED <<device, waitVars, installVars>>

\* A connect by hand, or by lan_scan for a device whose port it found open.
UserConnects ==
  /\ transport' \in Connected
  /\ UNCHANGED <<device, waitVars, steady, installVars>>

-----------------------------------------------------------------------------
(* wait_ready_with_cancel.                                                 *)

BeginWait(w) ==
  /\ waitLoop[w].at = "idle" /\ ~waitingFor
  /\ waitingFor' = TRUE
  /\ waitCancelled' = FALSE
  /\ Set(w, [waitLoop[w] EXCEPT !.at = "probing", !.left = Probes + Rounds])
  /\ steady' = Up
  /\ UNCHANGED <<transport, device, installVars>>

\* Duplicate clicks do not stack a second loop behind the first one.
RefuseWait(w) ==
  /\ waitLoop[w].at = "idle" /\ waitingFor
  /\ Set(w, [waitLoop[w] EXCEPT !.at = "ended", !.answer = "refused"])
  /\ UNCHANGED <<transport, device, waitingFor, waitCancelled, steady, installVars>>

\* Every way out drops the guard, which takes the serial out of WAITING.
End(w, answer) ==
  /\ Set(w, [Idle EXCEPT !.at = "ended", !.answer = answer])
  /\ waitingFor' = FALSE
  /\ UNCHANGED waitCancelled

\* localhost_port_never_opens
ProbePort(w) ==
  /\ waitLoop[w].at = "probing"
  /\ IF waitCancelled \/ device.listening
     THEN Set(w, [waitLoop[w] EXCEPT !.at = "looping", !.left = Rounds]) /\ UNCHANGED <<waitingFor, waitCancelled>>
     ELSE IF waitLoop[w].left > Rounds + 1
     THEN Set(w, [waitLoop[w] EXCEPT !.left = waitLoop[w].left - 1]) /\ UNCHANGED <<waitingFor, waitCancelled>>
     ELSE End(w, "unreachable")
  /\ UNCHANGED <<transport, device, steady, installVars>>

MustConnect(w) == waitLoop[w].first \/ waitLoop[w].last # "device"

\* The head of the loop, up to the disconnect of a transport that is no use.
Stale_Never(w) == FALSE
Stale(w) == waitLoop[w].last \in {"offline", "unauthorized"}

Round(w) ==
  /\ waitLoop[w].at = "looping"
  /\ IF waitLoop[w].left = 0 THEN End(w, "timeout") /\ UNCHANGED transport
     ELSE IF waitCancelled THEN End(w, "cancelled") /\ UNCHANGED transport
     ELSE /\ Set(w, [waitLoop[w] EXCEPT !.at = IF MustConnect(w) THEN "connecting" ELSE "reading", !.first = FALSE])
          /\ transport' = IF MustConnect(w) /\ Stale(w) THEN "none" ELSE transport
          /\ UNCHANGED <<waitingFor, waitCancelled>>
  /\ UNCHANGED <<device, steady, installVars>>

ConnectDevice(w) ==
  /\ waitLoop[w].at = "connecting"
  /\ transport' \in Connected
  /\ Set(w, [waitLoop[w] EXCEPT !.at = "reading"])
  /\ UNCHANGED <<device, waitingFor, waitCancelled, steady, installVars>>

\* device_state
ReadState(w) ==
  /\ waitLoop[w].at = "reading"
  /\ Set(w, [waitLoop[w] EXCEPT !.at = "sleeping", !.last = transport])
  /\ UNCHANGED <<transport, device, waitingFor, waitCancelled, steady, installVars>>

\* get_prop(sys.boot_completed), read only from a device that is connected, then
\* the end or the sleep.
ReadBoot(w) ==
  /\ waitLoop[w].at = "sleeping"
  /\ IF waitLoop[w].last = "device" /\ transport = "device" /\ device.booted
     THEN End(w, "ready")
     ELSE Set(w, [waitLoop[w] EXCEPT !.at = "looping", !.left = waitLoop[w].left - 1]) /\ UNCHANGED <<waitingFor, waitCancelled>>
  /\ UNCHANGED <<transport, device, steady, installVars>>

\* Only the creation of an instance passes a should_cancel that may say yes.
CancelWait ==
  /\ waitingFor /\ ~waitCancelled
  /\ waitCancelled' = TRUE
  /\ UNCHANGED <<transport, device, waitingFor, waitLoop, steady, installVars>>

-----------------------------------------------------------------------------
(* install, for a device over TCP.                                         *)

Reachable == transport = "device"
Busy(i) == install[i].at # "idle"

BeginInstall(i) ==
  /\ ~Busy(i)
  /\ \E a \in Apks :
       install' = [j \in Installs |->
         IF j = i THEN [at |-> "pushing", apk |-> a, answer |-> "none",
                        alone |-> \A k \in Installs : ~Busy(k)]
         ELSE IF Busy(j) THEN [install[j] EXCEPT !.alone = FALSE] ELSE install[j]]
  /\ UNCHANGED <<transport, device, waitVars, steady, remote, installed>>

InstallMoves(i, at, answer) ==
  install' = [install EXCEPT ![i] = [@ EXCEPT !.at = at, !.answer = answer]]

\* A push that fails ends the call: what an earlier one left there is not installed.
AfterFailedPush_GoesOn == "installing"
AfterFailedPush == "idle"

Push(i) ==
  /\ install[i].at = "pushing"
  /\ \/ Reachable /\ remote' = install[i].apk /\ InstallMoves(i, "installing", "none")
     \/ UNCHANGED remote /\ InstallMoves(i, AfterFailedPush, "failed")
  /\ UNCHANGED <<transport, device, waitVars, steady, installed>>

\* pm install takes what the file holds; its answer may be lost to the time limit.
PmInstall(i) ==
  /\ install[i].at = "installing"
  /\ \/ /\ Reachable /\ remote # NoApk
        /\ installed' = remote
        /\ \E a \in {"ok", "failed"} : InstallMoves(i, "removing", a)
     \/ UNCHANGED installed /\ InstallMoves(i, "removing", "failed")
  /\ UNCHANGED <<transport, device, waitVars, steady, remote>>

\* Nobody looks whether rm worked.
RemoveApk(i) ==
  /\ install[i].at = "removing"
  /\ remote' \in IF Reachable THEN {NoApk, remote} ELSE {remote}
  /\ InstallMoves(i, "idle", install[i].answer)
  /\ UNCHANGED <<transport, device, waitVars, steady, installed>>

-----------------------------------------------------------------------------
WaitStep(w) == ProbePort(w) \/ Round(w) \/ ConnectDevice(w) \/ ReadState(w) \/ ReadBoot(w)

AdbNext == DeviceChanges \/ DeviceComesUp \/ UserDrops \/ UserConnects
WaitNext == CancelWait \/ \E w \in Waits : BeginWait(w) \/ RefuseWait(w) \/ WaitStep(w)
InstallNext == \E i \in Installs : BeginInstall(i) \/ Push(i) \/ PmInstall(i) \/ RemoveApk(i)

LinkNext == AdbNext \/ WaitNext \/ InstallNext

LinkSpec == LinkInit /\ [][LinkNext]_linkVars

-----------------------------------------------------------------------------
(* Properties.                                                             *)

\* A device that is up, and that nobody else takes away, while the loop waits for it is
\* found ready: also when adb began with a stale transport for it, which connect alone
\* would leave as it is.  It is never given up as unreachable or timed out.
SteadyDeviceIsReady ==
  [][\A w \in Waits : waitLoop'[w].answer \in {"unreachable", "timeout"} /\ waitLoop[w].answer = "none"
       => ~steady]_linkVars

\* An installation that reports success, and that no other one overlapped, has
\* installed the package it was asked to, whatever earlier ones left on the device.
InstallsWhatWasAsked ==
  [][\A i \in Installs : install[i].at = "installing" /\ install'[i].answer = "ok" /\ install[i].alone
       => installed' = install[i].apk]_linkVars

\* What the desktop says of a device it has waited for, or put a package on, is so.
DeviceIsAsTold == SteadyDeviceIsReady /\ InstallsWhatWasAsked
=============================================================================
