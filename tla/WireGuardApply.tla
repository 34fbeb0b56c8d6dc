--------------------------- MODULE WireGuardApply ---------------------------
(***************************************************************************)
(* What the agent does to a WireGuard interface of its host                 *)
(* (apps/agent/link42_agent/system.py and service_manager.py): apply with   *)
(* backup and rollback, the clean-up after a rename, start, stop, delete.   *)
(* A step is one command or one file operation; the reads that come with it *)
(* (is-active, wg show) are part of it and tell the truth.  Any command can *)
(* fail or time out, with or without its effect, and the power can go.      *)
(* Operations run one after the other: the agent executes its tasks in one  *)
(* thread.                                                                  *)
(*                                                                         *)
(* A configuration is a number, 0 is no file.  wg-quick refuses to bring up *)
(* an interface that is up, and one whose configuration is not accepted.    *)
(* OpenRC units differ from systemd's in that a failed one is stopped.  On  *)
(* OpenWrt the file is the committed UCI section and the changes that are   *)
(* not committed live in memory.  dry_run is left out.                      *)
(***************************************************************************)
EXTENDS Integers, Sequences

CONSTANTS
  WgName,        \* interface names
  BootNames,     \* sides of managed links: their tasks ask for enable_on_boot
  LastConfig,    \* configurations are 1..LastConfig
  Managers,      \* bound: service managers that are tried
  MaxOps,        \* bound: operations
  MaxWgFaults    \* bound: failing commands and power losses

NoIface == ""   \* no name: INTERFACE_NAME_PATTERN wants a character

ASSUME WireGuardAssumption ==
  /\ BootNames \subseteq WgName /\ NoIface \notin WgName
  /\ Managers \subseteq {"systemd", "openrc", "direct", "openwrt"}
  /\ LastConfig \in Nat \ {0} /\ MaxOps \in Nat /\ MaxWgFaults \in Nat

WgConfig  == 1..LastConfig
WgContent == 0..LastConfig
Unchanged == -1

VARIABLES
  manager,       \* detect_service_manager
  refused,       \* configurations that wg-quick does not accept
  iface,         \* per name: file, backup, the one in the kernel (0: down), the
                 \* unit as the manager sees it, whether it starts at boot, and
                 \* what uci has changed and not committed
  op,            \* the operation under way, or the last one
  wgCount        \* operations and faults so far

wgVars == <<manager, refused, iface, op, wgCount>>

Absent == [file |-> 0, backup |-> 0, kernel |-> 0, unit |-> "inactive", boot |-> FALSE,
           delta |-> Unchanged]
NoOp   == [kind |-> "none", name |-> NoIface, prev |-> NoIface, config |-> 0, todo |-> <<>>,
           stage |-> "idle", managed |-> FALSE, was |-> Absent, clean |-> TRUE]

WgCommand == {"unlink_backup", "write_backup", "write", "restart", "enable", "down", "up", "stop",
            "assert", "stop_prev", "down_prev", "assert_prev", "disable_prev", "unlink_prev",
            "restore", "unlink", "disable", "start", "uci_delete", "uci_set", "uci_commit",
            "uci_prev", "uci_restore"}

WgIface == [file : WgContent, backup : WgContent, kernel : WgContent,
            unit : {"active", "inactive", "failed"}, boot : BOOLEAN,
            delta : WgContent \cup {Unchanged}]
WgOperation == [kind : {"none", "apply", "start", "stop", "delete"},
                name : WgName \cup {NoIface}, prev : WgName \cup {NoIface},
                config : WgContent, todo : Seq(WgCommand),
                stage : {"idle", "before", "rollback", "cleanup", "ok", "failed",
                         "restored", "cleanup_failed"},
                managed : BOOLEAN, was : WgIface, clean : BOOLEAN]

WgTypeOK ==
  /\ manager \in Managers /\ refused \subseteq WgConfig
  /\ iface \in [WgName -> WgIface] /\ op \in WgOperation
  /\ wgCount \in [ops : 0..MaxOps, faults : 0..MaxWgFaults]

\* A name is unknown to the host, or a manual configuration was there before
\* Link42: up by hand, or run by the service manager.
WgInit ==
  /\ manager \in Managers
  /\ refused \in SUBSET (WgConfig \ {1})
  /\ iface \in [WgName ->
       {Absent, [Absent EXCEPT !.file = 1, !.kernel = 1]}
       \cup (IF manager \in {"systemd", "openrc"}
             THEN {[Absent EXCEPT !.file = 1, !.kernel = 1, !.unit = "active", !.boot = TRUE]}
             ELSE {})]
  /\ \A n \in BootNames : iface[n] = Absent
  /\ op = NoOp
  /\ wgCount = [ops |-> 0, faults |-> 0]

-----------------------------------------------------------------------------
(* The host: what a command does to one interface.                         *)

HasUnits == manager \in {"systemd", "openrc"}
\* ServiceManager.state: managed.
Managed(i) == CASE HasUnits -> i.unit = "active" \/ i.boot
                [] manager = "openwrt" -> i.file # 0
                [] OTHER -> FALSE

Accepts(i) == i.file # 0 /\ i.file \notin refused
FailedUnit == IF manager = "systemd" THEN "failed" ELSE "inactive"

\* wg-quick up and down.  down needs the file.
CanUp(i)   == Accepts(i) /\ i.kernel = 0
WgUp(i)    == IF CanUp(i) THEN [i EXCEPT !.kernel = i.file] ELSE i
WgDown(i)  == IF i.file # 0 THEN [i EXCEPT !.kernel = 0] ELSE i

\* Stopping a unit that is not active does nothing.
UnitStop(i)    == IF i.unit = "active" THEN [WgDown(i) EXCEPT !.unit = "inactive"] ELSE i
UnitStart(i)   == IF i.unit = "active" THEN i
                  ELSE [WgUp(i) EXCEPT !.unit = IF CanUp(i) THEN "active" ELSE FailedUnit]
UnitRestart(i) == UnitStart(UnitStop(i))
\* netifd: the command succeeds, the interface comes up if it can.
IfUp(i) == WgUp([i EXCEPT !.kernel = 0])

\* restart, start and stop of the manager, and whether the command succeeds.
DoRestart(i, direct) ==
  CASE manager = "openwrt" -> IfUp(i)
    [] HasUnits /\ ~ direct -> UnitRestart(i)
    [] OTHER -> WgUp(WgDown(i))
DoStart(i) == IF HasUnits THEN UnitStart(i) ELSE IF manager = "openwrt" THEN IfUp(i) ELSE WgUp(i)
DoStop(i, direct) ==
  CASE manager = "openwrt" -> [i EXCEPT !.kernel = 0]
    [] HasUnits /\ ~ direct -> UnitStop(i)
    [] OTHER -> WgDown(i)
Works(cmd, i, direct) ==
  CASE cmd = "restart" /\ manager = "openwrt" -> TRUE
    [] cmd = "restart" /\ HasUnits /\ ~ direct -> UnitRestart(i).unit = "active"
    [] cmd = "restart" /\ (manager = "direct" \/ (HasUnits /\ direct)) -> CanUp(WgDown(i))
    [] cmd = "start"   -> manager = "openwrt" \/ i.unit = "active" \/ CanUp(i)
    [] cmd = "up"      -> CanUp(i)
    [] cmd \in {"assert", "assert_prev"} -> i.kernel = 0
    [] OTHER -> TRUE

-----------------------------------------------------------------------------
(* The operations, as the commands they give.                              *)

Direct == ~ HasUnits \/ ~ (op.managed \/ op.name \in BootNames)

\* apply_wireguard_config after the backup: three ways to bring it up.
BringUp(n, managed) ==
  IF managed THEN <<"restart">> \o (IF n \in BootNames THEN <<"enable">> ELSE <<>>)
  ELSE IF n \in BootNames THEN <<"enable", "restart">> ELSE <<"down", "up">>
ApplyCommands(n) ==
  IF manager = "openwrt" THEN <<"uci_delete", "uci_set", "uci_commit", "restart">>
  ELSE (IF iface[n].file # 0 THEN <<"unlink_backup", "write_backup", "write">> ELSE <<"write">>)
       \o BringUp(n, Managed(iface[n]))

\* cleanup_previous_wireguard_interface: what is still up is stopped by its manager
\* or by hand, then checked; the unit is disabled, the file removed.
CleanupCommands(p) ==
  (IF iface[p].kernel = 0 /\ iface[p].unit # "active" THEN <<>>
   ELSE <<IF manager = "openwrt" \/ iface[p].unit = "active" THEN "stop_prev" ELSE "down_prev",
          "assert_prev">>)
  \o (IF manager = "openwrt" THEN <<"uci_prev", "uci_commit">> ELSE <<"disable_prev", "unlink_prev">>)

StartCommands(n) ==
  IF iface[n].kernel # 0 THEN <<>> ELSE IF Managed(iface[n]) \/ manager = "openwrt" THEN <<"start">> ELSE <<"up">>
StopCommands(n) ==
  IF iface[n].kernel = 0 THEN <<>>
  ELSE IF Managed(iface[n]) \/ manager = "openwrt" THEN <<"stop", "assert">> ELSE <<"down", "assert">>
DeleteCommands(n) ==
  <<"assert">> \o (IF manager = "openwrt" THEN <<"uci_delete", "uci_commit">>
                   ELSE (IF Managed(iface[n]) THEN <<"disable">> ELSE <<>>) \o <<"unlink">>)

Commands(kind, n) ==
  CASE kind = "apply" -> ApplyCommands(n) [] kind = "start" -> StartCommands(n)
    [] kind = "stop" -> StopCommands(n)   [] kind = "delete" -> DeleteCommands(n)

OpDone == op.stage \in {"idle", "ok", "failed", "restored", "cleanup_failed"}

BeginOp(kind, n, config, prev) ==
  /\ OpDone /\ wgCount.ops < MaxOps
  /\ op' = [kind |-> kind, name |-> n, prev |-> prev, config |-> config,
            todo |-> Commands(kind, n), stage |-> "before", managed |-> Managed(iface[n]),
            was |-> iface[n], clean |-> TRUE]
  /\ wgCount' = [wgCount EXCEPT !.ops = @ + 1]
  /\ UNCHANGED <<manager, refused, iface>>

-----------------------------------------------------------------------------
(* One command.                                                            *)

MutantWriteBackup(i) == [i EXCEPT !.backup = op.config]
\* rotate_wireguard_backup has unlinked the old copy; the file is copied.
WriteBackup(i) == [i EXCEPT !.backup = i.file]

Subject(cmd) == IF cmd \in {"stop_prev", "down_prev", "assert_prev", "disable_prev", "unlink_prev",
                            "uci_prev"}
                THEN op.prev ELSE op.name

Effect(cmd, i) ==
  CASE cmd = "unlink_backup" -> [i EXCEPT !.backup = 0]
    [] cmd = "write_backup"  -> WriteBackup(i)
    [] cmd = "write"         -> [i EXCEPT !.file = op.config]
    [] cmd = "restart"       -> DoRestart(i, Direct)
    [] cmd = "enable"        -> [i EXCEPT !.boot = HasUnits]
    [] cmd = "start"         -> DoStart(i)
    [] cmd = "up"            -> WgUp(i)
    [] cmd \in {"down", "down_prev"} -> WgDown(i)
    [] cmd \in {"stop", "stop_prev"} -> DoStop(i, IF cmd = "stop" /\ op.kind = "apply" THEN Direct ELSE FALSE)
    [] cmd = "disable_prev"  -> [i EXCEPT !.boot = FALSE]
    [] cmd = "disable"       -> IF manager = "systemd" THEN [UnitStop(i) EXCEPT !.boot = FALSE]
                                ELSE [i EXCEPT !.boot = FALSE]
    [] cmd \in {"unlink", "unlink_prev"} -> [i EXCEPT !.file = 0]
    [] cmd = "restore"       -> [i EXCEPT !.file = i.backup]
    [] cmd \in {"uci_delete", "uci_prev"} -> [i EXCEPT !.delta = 0]
    [] cmd = "uci_set"       -> [i EXCEPT !.delta = op.config]
    [] cmd = "uci_restore"   -> [i EXCEPT !.file = op.was.file]
    [] OTHER -> i

\* uci commit network: every change that is not committed, whoever made it.
Committed(f) == [n \in WgName |-> IF f[n].delta = Unchanged THEN f[n]
                                  ELSE [f[n] EXCEPT !.file = f[n].delta, !.delta = Unchanged]]
Reverted(f)  == [n \in WgName |-> [f[n] EXCEPT !.delta = Unchanged]]

HostAfter(cmd) ==
  IF cmd = "uci_commit" THEN Committed(iface)
  ELSE [iface EXCEPT ![Subject(cmd)] = Effect(cmd, @)]

\* What goes on when the command fails.
AllowedToFail(cmd) ==
  \/ cmd \in {"down", "down_prev", "disable", "disable_prev", "uci_delete", "uci_prev"}
  \/ cmd = "stop" /\ Direct
  \/ cmd = "stop_prev" /\ manager = "openwrt"

MutantApplyRollback == <<"stop", "unlink">>
\* The except branch: the backup comes back and the interface to what it was, or
\* what had no file is stopped and removed.  On OpenWrt the snapshot of the whole
\* network configuration is written back and the interface left as it is.
ApplyRollback ==
  IF manager = "openwrt" THEN <<"uci_restore">>
  ELSE IF op.was.file = 0 THEN <<"stop", "unlink">>
  ELSE IF ~ Direct /\ op.was.unit = "inactive" THEN <<"restore", "stop">>
  ELSE <<"restore", "restart">>

\* config_written, or the commit on OpenWrt.
Written == op.stage = "before" /\ op.kind = "apply"
           /\ (IF manager = "openwrt" THEN Head(op.todo) = "restart"
               ELSE \A k \in DOMAIN op.todo : op.todo[k] # "write")

\* The rollback goes on after a failing stop only to unlink (finally).
AfterFailure(cmd) ==
  CASE Written -> [op EXCEPT !.stage = "rollback", !.todo = ApplyRollback]
    [] op.stage = "rollback" /\ cmd = "stop" /\ Len(op.todo) > 1 ->
         [op EXCEPT !.todo = Tail(@), !.clean = FALSE]
    [] op.stage = "rollback" /\ ~ (cmd = "stop" /\ Len(op.todo) > 1) ->
         [op EXCEPT !.stage = "failed", !.todo = <<>>, !.clean = FALSE]
    [] op.stage = "cleanup" -> [op EXCEPT !.stage = "cleanup_failed", !.todo = <<>>]
    [] OTHER -> [op EXCEPT !.stage = "failed", !.todo = <<>>]

\* run_uci reverts what is not committed; delete_config and the clean-up do not.
HostAfterFailure(cmd, f) ==
  IF op.kind = "apply" /\ op.stage = "before" /\ cmd \in {"uci_set", "uci_commit", "restart"}
  THEN Reverted(f) ELSE f

\* The next command, whose outcome is the host's.
RunCommand ==
  /\ ~ OpDone /\ op.todo # <<>>
  /\ LET cmd == Head(op.todo)
         works == Works(cmd, iface[Subject(cmd)], Direct)
     IN IF works \/ AllowedToFail(cmd)
        THEN iface' = HostAfter(cmd) /\ op' = [op EXCEPT !.todo = Tail(@)]
        ELSE iface' = HostAfterFailure(cmd, HostAfter(cmd)) /\ op' = AfterFailure(cmd)
  /\ UNCHANGED <<manager, refused, wgCount>>

\* The next command fails for another reason or exceeds its timeout: its effect
\* may be there or not.
CommandBreaks ==
  /\ ~ OpDone /\ op.todo # <<>> /\ wgCount.faults < MaxWgFaults
  /\ wgCount' = [wgCount EXCEPT !.faults = @ + 1]
  /\ LET cmd == Head(op.todo) IN
     \E f \in {iface, HostAfter(cmd)} :
       IF AllowedToFail(cmd)
       THEN iface' = f /\ op' = [op EXCEPT !.todo = Tail(@), !.clean = @ /\ op.stage # "rollback"]
       ELSE iface' = HostAfterFailure(cmd, f) /\ op' = AfterFailure(cmd)
  /\ UNCHANGED <<manager, refused>>

MutantFinish ==
  /\ ~ OpDone /\ op.todo = <<>>
  /\ op' = [op EXCEPT !.stage = IF op.stage = "rollback" THEN "restored" ELSE "ok"]
  /\ UNCHANGED <<manager, refused, iface, wgCount>>

\* All commands were given.  A rename goes on with the name it had before.
Finish ==
  /\ ~ OpDone /\ op.todo = <<>>
  /\ op' = CASE op.stage = "rollback" -> [op EXCEPT !.stage = "restored"]
             [] op.stage = "before" /\ op.kind = "apply" /\ op.prev # NoIface ->
                  [op EXCEPT !.stage = "cleanup", !.todo = CleanupCommands(op.prev)]
             [] OTHER -> [op EXCEPT !.stage = "ok"]
  /\ UNCHANGED <<manager, refused, iface, wgCount>>

\* The power goes and comes back: what is enabled starts again.
PowerCycle ==
  /\ wgCount.faults < MaxWgFaults
  /\ wgCount' = [wgCount EXCEPT !.faults = @ + 1]
  /\ LET booted(i) == LET d == [i EXCEPT !.kernel = 0, !.unit = "inactive", !.delta = Unchanged] IN
                      CASE HasUnits /\ i.boot -> UnitStart(d)
                        [] manager = "openwrt" -> IfUp(d)
                        [] OTHER -> d
     IN iface' = [n \in WgName |-> booted(iface[n])]
  /\ op' = NoOp
  /\ UNCHANGED <<manager, refused>>

WgNext ==
  \/ \E n \in WgName, c \in WgConfig :
       \E p \in (WgName \ {n}) \cup {NoIface} : BeginOp("apply", n, c, p)
  \/ \E n \in WgName, kind \in {"start", "stop", "delete"} : BeginOp(kind, n, 0, NoIface)
  \/ RunCommand \/ CommandBreaks \/ Finish \/ PowerCycle

WgSpec == WgInit /\ [][WgNext]_wgVars

-----------------------------------------------------------------------------
(* Properties.                                                             *)

\* While an apply is under way, whatever command fails and whenever the power
\* goes, the configuration that was there is in the file or in its backup.
OldConfigSurvives ==
  ~ OpDone /\ op.kind = "apply" /\ manager # "openwrt" /\ op.was.file # 0 =>
    op.was.file \in {iface[op.name].file, iface[op.name].backup}

\* A failed apply whose rollback was not disturbed has put back the file, and an
\* interface that ran that file runs it again.
FailedApplyRestores ==
  op.kind = "apply" /\ op.stage = "restored" /\ op.clean =>
    /\ iface[op.name].file = op.was.file
    /\ manager # "openwrt" /\ op.was.kernel = op.was.file => iface[op.name].kernel = op.was.kernel

\* An operation that reports success has done it: the new configuration is in the
\* file and in the kernel and the former name is gone; what was started is up, what
\* was stopped or deleted is not.
WgSuccessIsReal ==
  op.stage = "ok" /\ manager # "openwrt" =>
    CASE op.kind = "apply" ->
           /\ iface[op.name].file = op.config /\ iface[op.name].kernel = op.config
           /\ op.prev # NoIface => iface[op.prev].file = 0 /\ iface[op.prev].kernel = 0
      [] op.kind = "start"  -> iface[op.name].kernel # 0
      [] op.kind = "stop"   -> iface[op.name].kernel = 0
      [] op.kind = "delete" -> iface[op.name].file = 0 /\ iface[op.name].kernel = 0
=============================================================================
