---------------------------- MODULE SelfUpgrade -----------------------------
(***************************************************************************)
(* The agent of one node replaces itself (apps/agent/link42_agent/          *)
(* upgrade.py) on request of the controller (apps/api/link42_api/main.py).  *)
(* The agent downloads and verifies a release, writes a script, has it      *)
(* started in the background and reports "staged"; the script keeps a copy  *)
(* of what is installed, stops the service, swaps the files, starts the     *)
(* service and looks five seconds later whether it lives, else rolls back.  *)
(* There are two scripts, for systemd (one binary, renamed over the old     *)
(* one) and for OpenWrt (a directory, moved away and replaced).             *)
(*                                                                         *)
(* A step of the script is one command.  Any command can fail, a signal can *)
(* arrive between two of them (the trap then runs the rollback with the     *)
(* flags as they are), and the power can go at any moment.  What a file     *)
(* holds is a version, or Damaged: bytes that are not the release asked     *)
(* for.                                                                     *)
(***************************************************************************)
EXTENDS Naturals

CONSTANTS
  LastVersion,   \* versions are 1..LastVersion; the node begins with 1
  Backends,      \* bound: service managers that are tried
  Overlap,       \* bound: the agent polls again while a script waits to start
  MaxRequests,   \* bound: upgrades asked for
  MaxFaults      \* bound: failing commands, signals, crashes and power losses

ASSUME UpgradeAssumption ==
  /\ LastVersion \in Nat \ {0} /\ MaxRequests \in Nat /\ MaxFaults \in Nat
  /\ Backends \subseteq {"systemd", "openwrt"} /\ Overlap \in BOOLEAN

Version == 1..LastVersion
Nothing == 0
Damaged == LastVersion + 1
Content == 0..LastVersion + 1

VARIABLES
  backend,      \* the service manager
  bad,          \* versions that do not stay up
  disk,         \* what survives: installed, backup and staged copies, the
                \* temporary copy, the state file and its .tmp
  host,         \* the service as the manager sees it, and the agent process
  script,       \* the upgrade script and its three flags
  agent,        \* self_upgrade inside the agent
  upRow,        \* the task, and the node's agent_version and agent_update_status
  upHist        \* history: what was installed when the script began, whether it
                \* was signalled; the counters of the bounds

upVars == <<backend, bad, disk, host, script, agent, upRow, upHist>>

ScriptPc == {"idle", "waiting", "keep", "copy", "note", "stop", "move", "moved", "swap",
             "swapped", "start", "check", "healthy", "rb_remove", "rb_restore", "rb_start",
             "rb_report"}
Rollback == {"rb_remove", "rb_restore", "rb_start", "rb_report"}
FileState == {"none", "downloading", "verified", "staged", "failed", "restarting", "healthy",
              "rolled_back"}
NoScript == [pc |-> "idle", stopped |-> FALSE, moved |-> FALSE, replaced |-> FALSE]
NoAgent  == [pc |-> "idle", target |-> Nothing, got |-> Nothing, result |-> "none"]

UpTypeOK ==
  /\ backend \in Backends /\ bad \subseteq Version
  /\ disk \in [installed : Content, backup : Content, staged : Content, temp : Content,
               state : FileState, tmp : BOOLEAN]
  /\ host \in [service : {"started", "stopped"}, proc : Version \cup {Nothing}]
  /\ script \in [pc : ScriptPc, stopped : BOOLEAN, moved : BOOLEAN, replaced : BOOLEAN]
  /\ agent \in [pc : {"idle", "fetch", "verify", "report"}, target : Version \cup {Nothing},
                got : Content, result : {"none", "staged", "failed"}]
  /\ upRow \in [status : {"none", "pending", "running", "succeeded", "failed", "cancelled"},
                target : Version \cup {Nothing}, version : Version,
                update : {"ok", "queued", "staged", "failed"}]
  /\ upHist \in [before : Content, signalled : BOOLEAN, requests : 0..MaxRequests,
                 faults : 0..MaxFaults]
  \* An agent runs only under a started service, and works only while it runs.
  /\ host.proc # Nothing => host.service = "started"
  /\ host.proc = Nothing => agent = NoAgent
  /\ agent.pc = "report" => agent.result # "none"

UpInit ==
  /\ backend \in Backends /\ bad \in SUBSET (Version \ {1})
  /\ disk = [installed |-> 1, backup |-> Nothing, staged |-> Nothing, temp |-> Nothing,
             state |-> "none", tmp |-> FALSE]
  /\ host = [service |-> "started", proc |-> 1]
  /\ script = NoScript /\ agent = NoAgent
  /\ upRow = [status |-> "none", target |-> Nothing, version |-> 1, update |-> "ok"]
  /\ upHist = [before |-> 1, signalled |-> FALSE, requests |-> 0, faults |-> 0]

\* A file that starts and stays up.
Runs(v) == v \in Version \ bad

Fault == /\ upHist.faults < MaxFaults
         /\ upHist' = [upHist EXCEPT !.faults = @ + 1]

-----------------------------------------------------------------------------
(* The controller.                                                         *)

\* build_agent_upgrade_plan offers a self upgrade to v: a release of the node's
\* platform exists, and v is newer than what the node runs unless forced.
Offered(v, force) == force \/ upRow.version < v

\* request_agent_upgrade; an active task is reused and nothing changes.
RequestUpgrade(v, force) ==
  /\ upHist.requests < MaxRequests
  /\ Offered(v, force)
  /\ upRow.status \notin {"pending", "running"}
  /\ upRow' = [upRow EXCEPT !.status = "pending", !.target = v, !.update = "queued"]
  /\ upHist' = [upHist EXCEPT !.requests = @ + 1]
  /\ UNCHANGED <<backend, bad, disk, host, script, agent>>

\* The task is withdrawn before it is delivered, or its execution exceeds
\* AGENT_TASK_RUNNING_TIMEOUT; agent_update_status stays.
CloseUpgradeTask ==
  /\ \/ upRow.status = "pending" /\ upRow' = [upRow EXCEPT !.status = "cancelled"]
     \/ upRow.status = "running" /\ upRow' = [upRow EXCEPT !.status = "failed"]
  /\ UNCHANGED <<backend, bad, disk, host, script, agent, upHist>>

\* agent_poll delivers the task.
ClaimUpgrade ==
  /\ host.proc # Nothing /\ agent.pc = "idle" /\ upRow.status = "pending"
  /\ script.pc = "idle" \/ (Overlap /\ script.pc = "waiting" /\ backend = "systemd")
  /\ agent' = [NoAgent EXCEPT !.pc = "fetch", !.target = upRow.target]
  /\ upRow' = [upRow EXCEPT !.status = "running"]
  /\ UNCHANGED <<backend, bad, disk, host, script, upHist>>

\* agent_task_result, the part for agent.self_upgrade: a task that is no longer
\* running is refused (409).
ReportUpgrade ==
  /\ host.proc # Nothing /\ agent.pc = "report"
  /\ agent' = NoAgent
  /\ upRow' = IF upRow.status # "running" THEN upRow
              ELSE [upRow EXCEPT !.status = IF agent.result = "staged" THEN "succeeded" ELSE "failed",
                                 !.update = agent.result]
  /\ UNCHANGED <<backend, bad, disk, host, script, upHist>>

\* update_agent_metadata on register, heartbeat and poll.
Announce ==
  /\ host.proc # Nothing
  /\ upRow' = [upRow EXCEPT !.version = host.proc,
                            !.update = IF upRow.version # host.proc THEN "ok" ELSE @]
  /\ UNCHANGED <<backend, bad, disk, host, script, agent, upHist>>

-----------------------------------------------------------------------------
(* self_upgrade in the agent.                                              *)

\* The handler's except branch: the staged directory goes, a staged binary stays.
UpgradeFails(d) ==
  /\ disk' = [d EXCEPT !.state = "failed",
                       !.staged = IF backend = "openwrt" THEN Nothing ELSE @]
  /\ agent' = [agent EXCEPT !.pc = "report", !.result = "failed"]

\* What is checked before the handler's try block (payload, URL, source directory)
\* refuses the task and touches nothing.
UpgradeRefused ==
  /\ host.proc # Nothing /\ agent.pc = "fetch"
  /\ agent' = [agent EXCEPT !.pc = "report", !.result = "failed"]
  /\ UNCHANGED <<backend, bad, disk, host, script, upRow, upHist>>

\* download_file: the complete download replaces the file at its final name,
\* before the digest is compared.
Download(content) ==
  /\ host.proc # Nothing /\ agent.pc = "fetch"
  /\ LET d == [disk EXCEPT !.state = "downloading"] IN
     \/ /\ disk' = [d EXCEPT !.staged = IF backend = "systemd" THEN content ELSE @]
        /\ agent' = [agent EXCEPT !.pc = "verify", !.got = content]
     \/ UpgradeFails(d)
  /\ UNCHANGED <<backend, bad, host, script, upRow, upHist>>

MutantVerifyAndStage ==
  /\ host.proc # Nothing /\ agent.pc = "verify"
  /\ disk' = [disk EXCEPT !.state = "staged",
                          !.staged = IF backend = "openwrt" THEN agent.got ELSE @]
  /\ script' = [NoScript EXCEPT !.pc = "waiting"]
  /\ agent' = [agent EXCEPT !.pc = "report", !.result = "staged"]
  /\ UNCHANGED <<backend, bad, host, upRow, upHist>>

\* Digest and version are compared, the source archive is unpacked, the script
\* is written and scheduled.  systemd-run refuses a unit that already exists.
VerifyAndStage ==
  /\ host.proc # Nothing /\ agent.pc = "verify"
  /\ \/ /\ agent.got = agent.target /\ script.pc = "idle"
        /\ disk' = [disk EXCEPT !.state = "staged",
                                !.staged = IF backend = "openwrt" THEN agent.got ELSE @]
        /\ script' = [NoScript EXCEPT !.pc = "waiting"]
        /\ agent' = [agent EXCEPT !.pc = "report", !.result = "staged"]
     \/ /\ agent.got # agent.target \/ script.pc # "idle"
        /\ UpgradeFails(disk)
        /\ UNCHANGED script
  /\ UNCHANGED <<backend, bad, host, upRow, upHist>>

-----------------------------------------------------------------------------
(* The script.                                                             *)

Goto(pc) == script' = [script EXCEPT !.pc = pc]
TrapEntry == IF backend = "systemd" THEN "rb_restore" ELSE "rb_remove"

At(pc) == script.pc = pc /\ UNCHANGED <<backend, bad, upRow>>
Quiet  == UNCHANGED <<host, agent, upHist>>

\* The service is stopped: the agent process and what it was doing are gone.
Down(service) == host' = [service |-> service, proc |-> Nothing] /\ agent' = NoAgent
Up == [service |-> "started",
       proc |-> IF host.proc # Nothing THEN host.proc
                ELSE IF Runs(disk.installed) THEN disk.installed ELSE Nothing]

ScriptBegins ==
  /\ At("waiting") /\ Goto("keep")
  /\ upHist' = [upHist EXCEPT !.before = disk.installed]
  /\ UNCHANGED <<disk, host, agent>>

MutantKeepBackup ==
  /\ At("keep") /\ Quiet
  /\ disk' = [disk EXCEPT !.backup = Nothing] /\ Goto(IF backend = "systemd" THEN "copy" ELSE "note")

\* systemd: the installed binary is copied; OpenWrt: the old copy is removed.
KeepBackup ==
  /\ At("keep") /\ Quiet
  /\ \/ /\ backend = "systemd"
        /\ disk' = [disk EXCEPT !.backup = disk.installed] /\ Goto("copy")
     \/ /\ backend = "openwrt" /\ disk.installed # Nothing /\ disk.staged # Nothing
        /\ disk' = [disk EXCEPT !.backup = Nothing] /\ Goto("note")
     \/ /\ backend = "openwrt" /\ (disk.installed = Nothing \/ disk.staged = Nothing)
        /\ Goto(TrapEntry) /\ UNCHANGED disk

CopyNew ==
  /\ At("copy") /\ Quiet
  /\ disk' = [disk EXCEPT !.temp = disk.staged] /\ Goto("note")

\* write_state of the script: with noclobber on systemd, so that a .tmp left by
\* an earlier script makes it fail.
CanWriteState == backend = "openwrt" \/ ~ disk.tmp

NoteRestarting ==
  /\ At("note") /\ Quiet
  /\ \/ /\ CanWriteState
        /\ disk' = [disk EXCEPT !.state = "restarting"]
        /\ script' = [script EXCEPT !.pc = "stop", !.stopped = TRUE]
     \/ /\ ~ CanWriteState
        /\ Goto(TrapEntry) /\ UNCHANGED disk

StopService ==
  /\ At("stop") /\ Down("stopped")
  /\ Goto(IF backend = "systemd" THEN "swap" ELSE "move")
  /\ UNCHANGED <<disk, upHist>>

MoveAway ==
  /\ At("move") /\ Quiet
  /\ disk' = [disk EXCEPT !.backup = disk.installed, !.installed = Nothing] /\ Goto("moved")

NoteMoved ==
  /\ At("moved") /\ Quiet
  /\ script' = [script EXCEPT !.pc = "swap", !.moved = TRUE] /\ UNCHANGED disk

SwapIn ==
  /\ At("swap") /\ Quiet
  /\ \/ /\ backend = "systemd"
        /\ disk' = [disk EXCEPT !.installed = disk.temp] /\ Goto("swapped")
     \/ /\ backend = "openwrt" /\ disk.staged # Nothing
        /\ disk' = [disk EXCEPT !.installed = disk.staged, !.staged = Nothing] /\ Goto("swapped")
     \/ /\ backend = "openwrt" /\ disk.staged = Nothing
        /\ Goto(TrapEntry) /\ UNCHANGED disk

NoteReplaced ==
  /\ At("swapped") /\ Quiet
  /\ script' = [script EXCEPT !.pc = "start", !.replaced = TRUE] /\ UNCHANGED disk

StartService ==
  /\ At("start") /\ host' = Up /\ Goto("check")
  /\ UNCHANGED <<disk, agent, upHist>>

CheckService ==
  /\ At("check") /\ Quiet
  /\ Goto(IF host.proc # Nothing THEN "healthy" ELSE TrapEntry) /\ UNCHANGED disk

NoteHealthy ==
  /\ At("healthy") /\ Quiet
  /\ \/ /\ CanWriteState
        /\ disk' = [disk EXCEPT !.state = "healthy"] /\ script' = NoScript
     \/ /\ ~ CanWriteState
        /\ Goto(TrapEntry) /\ UNCHANGED disk

-----------------------------------------------------------------------------
(* The rollback of the script, run by the trap.                            *)

\* OpenWrt: a replaced directory is removed.
RemoveNew ==
  /\ At("rb_remove") /\ UNCHANGED upHist
  /\ Goto("rb_restore")
  /\ IF script.replaced
     THEN Down("stopped") /\ disk' = [disk EXCEPT !.installed = Nothing]
     ELSE UNCHANGED <<disk, host, agent>>

MutantRestoreOld ==
  /\ At("rb_restore") /\ Quiet
  /\ Goto("rb_start") /\ UNCHANGED disk

\* systemd: the copy is renamed over the new binary.  OpenWrt: the copy is moved
\* back; onto a directory that is there, mv would put it inside.
RestoreOld ==
  /\ At("rb_restore") /\ Quiet
  /\ Goto("rb_start")
  /\ disk' = CASE backend = "systemd" /\ script.replaced -> [disk EXCEPT !.installed = disk.backup]
               [] backend = "openwrt" /\ script.moved ->
                    [disk EXCEPT !.installed = IF @ = Nothing THEN disk.backup ELSE @,
                                 !.backup = Nothing]
               [] OTHER -> disk

MutantStartAgain ==
  /\ At("rb_start") /\ UNCHANGED <<disk, agent, upHist, host>>
  /\ Goto("rb_report")

StartAgain ==
  /\ At("rb_start") /\ UNCHANGED <<disk, agent, upHist>>
  /\ Goto("rb_report")
  /\ host' = IF script.stopped THEN Up ELSE host

NoteRolledBack ==
  /\ At("rb_report") /\ Quiet
  /\ script' = NoScript
  /\ disk' = IF CanWriteState THEN [disk EXCEPT !.state = "rolled_back"] ELSE disk

-----------------------------------------------------------------------------
(* What goes wrong.                                                        *)

\* A command that can fail is next: the rollback skips those it has no flag for.
\* Its last one is allowed to fail.
Fallible(pc) ==
  CASE pc = "rb_remove"  -> script.replaced
    [] pc = "rb_restore" -> IF backend = "systemd" THEN script.replaced ELSE script.moved
    [] pc = "rb_start"   -> script.stopped
    [] OTHER -> pc \notin {"idle", "waiting", "moved", "swapped", "rb_report"}

\* A command fails: set -e and the trap lead to the rollback, and in the rollback
\* to the end.  The agent may have been stopped all the same.
CommandFails ==
  /\ Fault /\ Fallible(script.pc)
  /\ IF script.pc \in Rollback
     THEN /\ script' = NoScript
          /\ disk' = IF CanWriteState THEN [disk EXCEPT !.state = "failed"] ELSE disk
     ELSE Goto(TrapEntry) /\ UNCHANGED disk
  /\ \/ script.pc # "rb_remove" /\ UNCHANGED <<host, agent>>
     \/ script.pc \in {"stop", "rb_remove"} /\ Down("stopped")
  /\ UNCHANGED <<backend, bad, upRow>>

\* HUP, INT or TERM between two commands: the trap, with the flags as they are;
\* inside the rollback the trap is off and the script dies.
ScriptSignalled ==
  /\ upHist.faults < MaxFaults /\ script.pc \notin {"idle", "waiting"}
  /\ upHist' = [upHist EXCEPT !.faults = @ + 1, !.signalled = TRUE]
  /\ IF script.pc \in Rollback THEN script' = NoScript ELSE Goto(TrapEntry)
  /\ UNCHANGED <<backend, bad, disk, host, agent, upRow>>

\* Power loss: files survive, the script does not, and a .tmp may be left.  The
\* service is started at boot.
PowerLoss ==
  /\ Fault
  /\ script' = NoScript /\ Down("started")
  /\ \E tmp \in IF script.pc \in {"note", "healthy", "rb_report"} THEN BOOLEAN ELSE {disk.tmp} :
       disk' = [disk EXCEPT !.tmp = disk.tmp \/ tmp]
  /\ UNCHANGED <<backend, bad, upRow>>

AgentDies ==
  /\ Fault /\ host.proc # Nothing /\ Down(host.service)
  /\ UNCHANGED <<backend, bad, disk, script, upRow>>

\* The manager starts an enabled service at boot and after a crash.
Respawn ==
  /\ host.service = "started" /\ host.proc = Nothing /\ Runs(disk.installed)
  /\ host' = Up
  /\ UNCHANGED <<backend, bad, disk, script, agent, upRow, upHist>>

ScriptStep ==
  \/ ScriptBegins \/ KeepBackup \/ CopyNew \/ NoteRestarting \/ StopService \/ MoveAway
  \/ NoteMoved \/ SwapIn \/ NoteReplaced \/ StartService \/ CheckService \/ NoteHealthy
  \/ RemoveNew \/ RestoreOld \/ StartAgain \/ NoteRolledBack

UpNext ==
  \/ \E v \in Version, force \in BOOLEAN : RequestUpgrade(v, force)
  \/ CloseUpgradeTask \/ ClaimUpgrade \/ ReportUpgrade \/ Announce
  \/ \E content \in {agent.target, Damaged} : Download(content)
  \/ UpgradeRefused \/ VerifyAndStage
  \/ ScriptStep
  \/ CommandFails \/ ScriptSignalled \/ PowerLoss \/ AgentDies \/ Respawn

\* The shell goes on to the next command, the service manager respawns what it
\* should run, and a running agent reports its version.
UpFairness == WF_upVars(ScriptStep) /\ WF_upVars(Respawn) /\ WF_upVars(Announce)

UpSpec == UpInit /\ [][UpNext]_upVars /\ UpFairness

-----------------------------------------------------------------------------
(* Properties.                                                             *)

\* At every moment, so also when the power goes there, a version that runs is
\* installed or kept as the copy: an interrupted upgrade can be repaired on the
\* node.  (A signal between a command and its flag is excepted: see the README.)
GoodCopySurvives ==
  upHist.signalled \/ Runs(disk.installed) \/ Runs(disk.backup)

\* A script that says it rolled back has put back what was installed when it
\* began, whichever commands failed on the way.
RolledBackIsOld ==
  disk.state = "rolled_back" /\ ~ upHist.signalled => disk.installed = upHist.before

\* What is installed was verified: never the bytes of a download that failed
\* its digest.
InstalledWasVerified == disk.installed # Damaged

\* Without a fault, an upgrade that was scheduled ends with an agent running,
\* the new one or, if that does not stay up, the old one.
UpgradeEnds ==
  (script.pc # "idle") ~> (upHist.faults > 0 \/ (script.pc = "idle" /\ host.proc # Nothing))
=============================================================================
