--------------------------- MODULE AgentHostProofs ---------------------------
(***************************************************************************)
(* Proofs about what the agent does to its host: WireGuardApply, and        *)
(* SelfUpgrade, for any number of versions, upgrades and faults and any set *)
(* of versions that do not stay up.                                         *)
(***************************************************************************)
EXTENDS WireGuardApply, SelfUpgrade, SequenceTheorems, TLAPS

-----------------------------------------------------------------------------
(* Types of WireGuardApply.                                                *)

\* The service manager is one of four, of which two have units.
LEMMA Manager ==
  ASSUME WgTypeOK
  PROVE  /\ manager \in {"systemd", "openrc", "direct", "openwrt"}
         /\ HasUnits <=> manager \notin {"direct", "openwrt"}
         /\ 0 \in WgContent /\ WgConfig \subseteq WgContent
         /\ FailedUnit \in {"failed", "inactive"}
BY WireGuardAssumption DEF WgTypeOK, HasUnits, WgContent, WgConfig, FailedUnit

\* Bringing an interface up or down changes the kernel and its unit only.
RunOnly(i, j) ==
  /\ j \in WgIface /\ j.file = i.file /\ j.backup = i.backup
  /\ j.boot = i.boot /\ j.delta = i.delta

\* wg-quick, and the units around it.
LEMMA QuickCommands ==
  ASSUME WgTypeOK, NEW i \in WgIface
  PROVE  /\ RunOnly(i, WgUp(i)) /\ RunOnly(i, WgDown(i))
         /\ RunOnly(i, UnitStop(i)) /\ RunOnly(i, UnitStart(i))
         /\ RunOnly(i, IfUp(i)) /\ RunOnly(i, [i EXCEPT !.kernel = 0])
<1>1. RunOnly(i, WgUp(i))
  BY Manager DEF RunOnly, WgUp, WgIface
<1>2. RunOnly(i, WgDown(i))
  BY Manager DEF RunOnly, WgDown, WgIface
<1>3. RunOnly(i, UnitStop(i))
  <2>1. ASSUME NEW j, RunOnly(i, j) PROVE RunOnly(i, [j EXCEPT !.unit = "inactive"])
    BY <2>1 DEF RunOnly, WgIface
  <2>2. RunOnly(i, i)
    BY DEF RunOnly
  <2> QED BY <1>2, <2>1, <2>2 DEF UnitStop
<1>4. RunOnly(i, UnitStart(i))
  <2>1. ASSUME NEW j, RunOnly(i, j), NEW u \in {"active", "inactive", "failed"}
        PROVE  RunOnly(i, [j EXCEPT !.unit = u])
    BY <2>1 DEF RunOnly, WgIface
  <2>2. RunOnly(i, i)
    BY DEF RunOnly
  <2>3. (IF CanUp(i) THEN "active" ELSE FailedUnit) \in {"active", "inactive", "failed"}
    BY Manager
  <2> QED BY <1>1, <2>1, <2>2, <2>3 DEF UnitStart
<1>5. RunOnly(i, [i EXCEPT !.kernel = 0])
  BY Manager DEF RunOnly, WgIface
<1>6. RunOnly(i, IfUp(i))
  <2> DEFINE d == [i EXCEPT !.kernel = 0]
  <2>1. d \in WgIface /\ d.file = i.file /\ d.backup = i.backup /\ d.boot = i.boot /\ d.delta = i.delta
    BY <1>5 DEF RunOnly
  <2>2. IfUp(i) = WgUp(d)
    BY DEF IfUp
  <2> HIDE DEF d
  <2>3. RunOnly(d, WgUp(d))
    BY <2>1, Manager DEF RunOnly, WgUp, WgIface
  <2> QED BY <2>1, <2>2, <2>3 DEF RunOnly
<1> QED BY <1>1, <1>2, <1>3, <1>4, <1>5, <1>6

\* The same of what the manager is asked for.
LEMMA ManagerCommands ==
  ASSUME WgTypeOK, NEW i \in WgIface, NEW direct \in BOOLEAN
  PROVE  /\ RunOnly(i, DoRestart(i, direct)) /\ RunOnly(i, DoStart(i))
         /\ RunOnly(i, DoStop(i, direct))
<1>1. ASSUME NEW j, NEW k, RunOnly(i, j), RunOnly(j, k) PROVE RunOnly(i, k)
  BY <1>1 DEF RunOnly
<1>2. RunOnly(i, UnitRestart(i))
  <2>1. RunOnly(i, UnitStop(i)) /\ UnitStop(i) \in WgIface
    BY QuickCommands DEF RunOnly
  <2>2. RunOnly(UnitStop(i), UnitStart(UnitStop(i)))
    BY <2>1, QuickCommands
  <2> QED BY <1>1, <2>1, <2>2 DEF UnitRestart
<1>3. RunOnly(i, WgUp(WgDown(i)))
  <2>1. RunOnly(i, WgDown(i)) /\ WgDown(i) \in WgIface
    BY QuickCommands DEF RunOnly
  <2>2. RunOnly(WgDown(i), WgUp(WgDown(i)))
    BY <2>1, QuickCommands
  <2> QED BY <1>1, <2>1, <2>2
<1>4. RunOnly(i, DoRestart(i, direct))
  BY <1>2, <1>3, QuickCommands, Manager DEF DoRestart
<1>5. RunOnly(i, DoStart(i))
  BY QuickCommands DEF DoStart
<1>6. RunOnly(i, DoStop(i, direct))
  BY QuickCommands, Manager DEF DoStop
<1> QED BY <1>4, <1>5, <1>6

\* One command leaves an interface an interface.
LEMMA EffectType ==
  ASSUME WgTypeOK, NEW i \in WgIface, NEW cmd
  PROVE  Effect(cmd, i) \in WgIface
<1>c. op.config \in WgContent /\ op.was \in WgIface /\ 0 \in WgContent
  BY Manager DEF WgTypeOK, WgOperation
<1>d. Direct \in BOOLEAN /\ HasUnits \in BOOLEAN
  BY DEF Direct, HasUnits
<1>1. CASE cmd \in {"unlink_backup", "write_backup", "write", "enable", "disable_prev", "unlink",
                    "unlink_prev", "restore", "uci_delete", "uci_prev", "uci_set", "uci_restore"}
  <2>1. ASSUME NEW c \in WgContent
        PROVE  /\ [i EXCEPT !.backup = c] \in WgIface /\ [i EXCEPT !.file = c] \in WgIface
               /\ [i EXCEPT !.delta = c] \in WgIface
    BY DEF WgIface
  <2>2. ASSUME NEW b \in BOOLEAN PROVE [i EXCEPT !.boot = b] \in WgIface
    BY DEF WgIface
  <2>3. i.file \in WgContent /\ i.backup \in WgContent /\ op.was.file \in WgContent
    BY <1>c DEF WgIface
  <2> QED BY <1>1, <1>c, <1>d, <2>1, <2>2, <2>3 DEF Effect, WriteBackup
<1>2. CASE cmd \in {"restart", "start", "up", "down", "down_prev", "stop", "stop_prev"}
  <2>1. \A d \in BOOLEAN : /\ DoRestart(i, d) \in WgIface /\ DoStart(i) \in WgIface
                           /\ DoStop(i, d) \in WgIface
    BY ManagerCommands DEF RunOnly
  <2>2. WgUp(i) \in WgIface /\ WgDown(i) \in WgIface
    BY QuickCommands DEF RunOnly
  <2> QED BY <1>2, <1>d, <2>1, <2>2 DEF Effect
<1>3. CASE cmd = "disable"
  <2>1. UnitStop(i) \in WgIface
    BY QuickCommands DEF RunOnly
  <2>2. \A j \in WgIface : [j EXCEPT !.boot = FALSE] \in WgIface
    BY DEF WgIface
  <2>3. Effect(cmd, i) \in {[UnitStop(i) EXCEPT !.boot = FALSE], [i EXCEPT !.boot = FALSE]}
    BY <1>3 DEF Effect
  <2> QED BY <2>1, <2>2, <2>3
<1>4. CASE cmd \notin {"unlink_backup", "write_backup", "write", "enable", "disable_prev", "unlink",
                       "unlink_prev", "restore", "uci_delete", "uci_prev", "uci_set", "uci_restore",
                       "restart", "start", "up", "down", "down_prev", "stop", "stop_prev", "disable"}
  BY <1>4 DEF Effect
<1> QED BY <1>1, <1>2, <1>3, <1>4

\* And the host a host, also when what was not committed is reverted.
LEMMA HostType ==
  ASSUME WgTypeOK, NEW cmd
  PROVE  /\ HostAfter(cmd) \in [WgName -> WgIface]
         /\ \A f \in [WgName -> WgIface] : HostAfterFailure(cmd, f) \in [WgName -> WgIface]
<1>0. iface \in [WgName -> WgIface]
  BY DEF WgTypeOK
<1>1. Committed(iface) \in [WgName -> WgIface]
  <2> SUFFICES ASSUME NEW n \in WgName, iface[n].delta # Unchanged
               PROVE  [iface[n] EXCEPT !.file = iface[n].delta, !.delta = Unchanged] \in WgIface
    BY <1>0 DEF Committed
  <2>1. iface[n] \in WgIface /\ iface[n].delta \in WgContent
    BY <1>0 DEF WgIface
  <2> QED BY <2>1 DEF WgIface
<1>2. ASSUME NEW f \in [WgName -> WgIface] PROVE Reverted(f) \in [WgName -> WgIface]
  <2> SUFFICES ASSUME NEW n \in WgName PROVE [f[n] EXCEPT !.delta = Unchanged] \in WgIface
    BY DEF Reverted
  <2>1. f[n] \in WgIface
    OBVIOUS
  <2> QED BY <2>1 DEF WgIface
<1>3. HostAfter(cmd) \in [WgName -> WgIface]
  <2> DEFINE s == Subject(cmd)
  <2>1. s \in WgName => Effect(cmd, iface[s]) \in WgIface
    BY <1>0, EffectType
  <2>2. [iface EXCEPT ![s] = Effect(cmd, iface[s])] \in [WgName -> WgIface]
    BY <1>0, <2>1
  <2> QED BY <1>1, <2>2 DEF HostAfter
<1> QED BY <1>2, <1>3 DEF HostAfterFailure

\* Operations are sequences of commands.
LEMMA CommandsType ==
  ASSUME WgTypeOK, NEW n, NEW kind \in {"apply", "start", "stop", "delete"}
  PROVE  /\ Commands(kind, n) \in Seq(WgCommand) /\ CleanupCommands(n) \in Seq(WgCommand)
         /\ ApplyRollback \in Seq(WgCommand)
<1>1. \A s, t \in Seq(WgCommand) : s \o t \in Seq(WgCommand)
  OBVIOUS
<1>2. \A c \in WgCommand : <<c>> \in Seq(WgCommand)
  OBVIOUS
<1>3. \A c, d \in WgCommand : <<c, d>> \in Seq(WgCommand)
  OBVIOUS
<1>4. <<>> \in Seq(WgCommand)
  OBVIOUS
<1>5. ApplyCommands(n) \in Seq(WgCommand)
  <2>1. <<"uci_delete", "uci_set", "uci_commit", "restart">> \in Seq(WgCommand)
    BY DEF WgCommand
  <2>2. \A m : BringUp(n, m) \in Seq(WgCommand)
    <3>1. /\ <<"restart">> \in Seq(WgCommand) /\ <<"enable">> \in Seq(WgCommand)
          /\ <<"enable", "restart">> \in Seq(WgCommand) /\ <<"down", "up">> \in Seq(WgCommand)
      BY <1>2, <1>3 DEF WgCommand
    <3> HIDE DEF WgCommand
    <3> QED BY <3>1, <1>1, <1>4 DEF BringUp
  <2>3. /\ <<"unlink_backup", "write_backup", "write">> \in Seq(WgCommand)
        /\ <<"write">> \in Seq(WgCommand)
    BY DEF WgCommand
  <2> QED BY <2>1, <2>2, <2>3, <1>1, <1>4 DEF ApplyCommands
<1>6. StartCommands(n) \in Seq(WgCommand) /\ StopCommands(n) \in Seq(WgCommand)
  <2>1. /\ <<"start">> \in Seq(WgCommand) /\ <<"up">> \in Seq(WgCommand)
        /\ <<"stop", "assert">> \in Seq(WgCommand) /\ <<"down", "assert">> \in Seq(WgCommand)
    BY <1>2, <1>3 DEF WgCommand
  <2> QED BY <2>1, <1>4 DEF StartCommands, StopCommands
<1>7. DeleteCommands(n) \in Seq(WgCommand)
  <2>1. /\ <<"assert">> \in Seq(WgCommand) /\ <<"uci_delete", "uci_commit">> \in Seq(WgCommand)
        /\ <<"disable">> \in Seq(WgCommand) /\ <<"unlink">> \in Seq(WgCommand)
    BY <1>2, <1>3 DEF WgCommand
  <2> QED BY <2>1, <1>1, <1>4 DEF DeleteCommands
<1>8. CleanupCommands(n) \in Seq(WgCommand)
  <2>1. /\ <<"stop_prev", "assert_prev">> \in Seq(WgCommand)
        /\ <<"down_prev", "assert_prev">> \in Seq(WgCommand)
        /\ <<"uci_prev", "uci_commit">> \in Seq(WgCommand)
        /\ <<"disable_prev", "unlink_prev">> \in Seq(WgCommand)
    BY <1>3 DEF WgCommand
  <2> QED BY <2>1, <1>1, <1>4 DEF CleanupCommands
<1>9. ApplyRollback \in Seq(WgCommand)
  <2>1. /\ <<"uci_restore">> \in Seq(WgCommand) /\ <<"stop", "unlink">> \in Seq(WgCommand)
        /\ <<"restore", "stop">> \in Seq(WgCommand) /\ <<"restore", "restart">> \in Seq(WgCommand)
    BY <1>2, <1>3 DEF WgCommand
  <2> QED BY <2>1 DEF ApplyRollback
<1> QED BY <1>5, <1>6, <1>7, <1>8, <1>9 DEF Commands

\* The operation after a failing command.
LEMMA FailureType ==
  ASSUME WgTypeOK, op.todo # <<>>, NEW cmd
  PROVE  AfterFailure(cmd) \in WgOperation
<1>1. op \in WgOperation /\ Tail(op.todo) \in Seq(WgCommand) /\ <<>> \in Seq(WgCommand)
  BY DEF WgTypeOK, WgOperation
<1>2. ApplyRollback \in Seq(WgCommand)
  BY CommandsType
<1>3. ASSUME NEW s \in Seq(WgCommand), NEW c \in BOOLEAN,
             NEW st \in {"rollback", "failed", "cleanup_failed"}
      PROVE  /\ [op EXCEPT !.stage = st, !.todo = s] \in WgOperation
             /\ [op EXCEPT !.todo = s, !.clean = c] \in WgOperation
             /\ [op EXCEPT !.stage = st, !.todo = s, !.clean = c] \in WgOperation
  BY <1>1 DEF WgOperation
<1>4. AfterFailure(cmd) \in
        {[op EXCEPT !.stage = "rollback", !.todo = ApplyRollback],
         [op EXCEPT !.todo = Tail(op.todo), !.clean = FALSE],
         [op EXCEPT !.stage = "failed", !.todo = <<>>, !.clean = FALSE],
         [op EXCEPT !.stage = "cleanup_failed", !.todo = <<>>],
         [op EXCEPT !.stage = "failed", !.todo = <<>>]}
  BY DEF AfterFailure, Written
<1> QED BY <1>1, <1>2, <1>3, <1>4

\* The first state.
LEMMA WgTypeInit == WgInit => WgTypeOK
<1> SUFFICES ASSUME WgInit PROVE WgTypeOK
  OBVIOUS
<1>0. 0 \in WgContent /\ 1 \in WgContent
  BY WireGuardAssumption DEF WgContent
<1>1. Absent \in WgIface
  BY <1>0 DEF Absent, WgIface
<1>2. /\ [Absent EXCEPT !.file = 1, !.kernel = 1] \in WgIface
      /\ [Absent EXCEPT !.file = 1, !.kernel = 1, !.unit = "active", !.boot = TRUE] \in WgIface
  BY <1>0, <1>1 DEF WgIface
<1>3. iface \in [WgName -> WgIface]
  BY <1>1, <1>2 DEF WgInit
<1>4. op \in WgOperation
  BY <1>0, <1>1 DEF WgInit, NoOp, WgOperation
<1>5. wgCount \in [ops : 0..MaxOps, faults : 0..MaxWgFaults]
  BY WireGuardAssumption DEF WgInit
<1> QED BY <1>3, <1>4, <1>5 DEF WgInit, WgTypeOK

\* Every step.
LEMMA WgTypeStep == WgTypeOK /\ [WgNext]_wgVars => WgTypeOK'
<1> SUFFICES ASSUME WgTypeOK, [WgNext]_wgVars PROVE WgTypeOK'
  OBVIOUS
<1>0. /\ iface \in [WgName -> WgIface] /\ op \in WgOperation
      /\ wgCount \in [ops : 0..MaxOps, faults : 0..MaxWgFaults]
  BY DEF WgTypeOK
<1>f. ASSUME wgCount.faults < MaxWgFaults, wgCount' = [wgCount EXCEPT !.faults = @ + 1]
      PROVE  wgCount' \in [ops : 0..MaxOps, faults : 0..MaxWgFaults]
  <2>1. wgCount.faults + 1 \in 0..MaxWgFaults
    BY <1>0, <1>f, WireGuardAssumption
  <2> QED BY <1>0, <1>f, <2>1
<1>1. ASSUME NEW kind \in {"apply", "start", "stop", "delete"}, NEW n \in WgName,
             NEW c \in WgContent, NEW p \in WgName \cup {NoIface}, BeginOp(kind, n, c, p)
      PROVE  WgTypeOK'
  <2>1. wgCount' \in [ops : 0..MaxOps, faults : 0..MaxWgFaults]
    <3>1. wgCount.ops + 1 \in 0..MaxOps
      BY <1>0, <1>1, WireGuardAssumption DEF BeginOp
    <3> QED BY <1>0, <1>1, <3>1 DEF BeginOp
  <2>2. Commands(kind, n) \in Seq(WgCommand) /\ iface[n] \in WgIface
    BY <1>0, CommandsType
  <2>3. Managed(iface[n]) \in BOOLEAN
    <3>1. iface[n].boot \in BOOLEAN
      BY <2>2 DEF WgIface
    <3> QED BY <3>1 DEF Managed
  <2>4. op' \in WgOperation
    BY <1>1, <2>2, <2>3 DEF BeginOp, WgOperation
  <2> QED BY <1>1, <2>1, <2>4 DEF BeginOp, WgTypeOK
<1>2. CASE RunCommand
  <2> DEFINE cmd == Head(op.todo)
  <2>1. op.todo # <<>> /\ Tail(op.todo) \in Seq(WgCommand)
    BY <1>0, <1>2 DEF RunCommand, WgOperation
  <2>2. [op EXCEPT !.todo = Tail(@)] \in WgOperation
    BY <1>0, <2>1 DEF WgOperation
  <2>3. iface' \in [WgName -> WgIface] /\ op' \in WgOperation
    BY <1>2, <2>1, <2>2, HostType, FailureType DEF RunCommand
  <2> QED BY <1>2, <2>3 DEF RunCommand, WgTypeOK
<1>3. CASE CommandBreaks
  <2>1. op.todo # <<>> /\ Tail(op.todo) \in Seq(WgCommand)
    BY <1>0, <1>3 DEF CommandBreaks, WgOperation
  <2>2. [op EXCEPT !.todo = Tail(@), !.clean = @ /\ op.stage # "rollback"] \in WgOperation
    <3>1. (op.clean /\ op.stage # "rollback") \in BOOLEAN
      OBVIOUS
    <3> QED BY <1>0, <2>1, <3>1 DEF WgOperation
  <2> DEFINE cmd == Head(op.todo)
  <2>a. PICK f \in {iface, HostAfter(cmd)} :
          IF AllowedToFail(cmd)
          THEN iface' = f /\ op' = [op EXCEPT !.todo = Tail(@), !.clean = @ /\ op.stage # "rollback"]
          ELSE iface' = HostAfterFailure(cmd, f) /\ op' = AfterFailure(cmd)
    BY <1>3 DEF CommandBreaks
  <2>b. f \in [WgName -> WgIface] /\ HostAfterFailure(cmd, f) \in [WgName -> WgIface]
    BY <1>0, HostType
  <2>c. AfterFailure(cmd) \in WgOperation
    BY <2>1, FailureType
  <2>3. iface' \in [WgName -> WgIface] /\ op' \in WgOperation
    BY <2>2, <2>a, <2>b, <2>c
  <2> QED BY <1>3, <1>f, <2>3 DEF CommandBreaks, WgTypeOK
<1>4. CASE Finish
  <2>1. CleanupCommands(op.prev) \in Seq(WgCommand)
    BY CommandsType
  <2>2. /\ [op EXCEPT !.stage = "restored"] \in WgOperation
        /\ [op EXCEPT !.stage = "cleanup", !.todo = CleanupCommands(op.prev)] \in WgOperation
        /\ [op EXCEPT !.stage = "ok"] \in WgOperation
    BY <1>0, <2>1 DEF WgOperation
  <2>3. op' \in WgOperation
    BY <1>4, <2>2 DEF Finish
  <2> QED BY <1>4, <2>3 DEF Finish, WgTypeOK
<1>5. CASE PowerCycle
  <2> DEFINE d(i) == [i EXCEPT !.kernel = 0, !.unit = "inactive", !.delta = Unchanged]
  <2> DEFINE booted(i) == CASE HasUnits /\ i.boot -> UnitStart(d(i))
                            [] manager = "openwrt" -> IfUp(d(i))
                            [] OTHER -> d(i)
  <2>1. ASSUME NEW i \in WgIface PROVE booted(i) \in WgIface
    <3>1. d(i) \in WgIface
      BY Manager DEF WgIface
    <3>2. UnitStart(d(i)) \in WgIface /\ IfUp(d(i)) \in WgIface
      BY <3>1, QuickCommands DEF RunOnly
    <3> HIDE DEF d
    <3> QED BY <3>1, <3>2, Manager
  <2>2. iface' = [n \in WgName |-> booted(iface[n])]
    BY <1>5 DEF PowerCycle
  <2> HIDE DEF booted
  <2>3. iface' \in [WgName -> WgIface]
    BY <1>0, <2>1, <2>2
  <2>4. op' \in WgOperation
    <3>1. Absent \in WgIface
      BY Manager DEF Absent, WgIface
    <3>2. NoOp \in WgOperation
      BY <3>1, Manager DEF NoOp, WgOperation
    <3>3. op' = NoOp
      BY <1>5 DEF PowerCycle
    <3> QED BY <3>2, <3>3
  <2> QED BY <1>5, <1>f, <2>3, <2>4 DEF PowerCycle, WgTypeOK
<1>6. CASE UNCHANGED wgVars
  BY <1>6 DEF wgVars, WgTypeOK
<1>7. 0 \in WgContent /\ WgConfig \subseteq WgContent
  BY Manager
<1> QED BY <1>1, <1>2, <1>3, <1>4, <1>5, <1>6, <1>7 DEF WgNext

\* Interfaces stay interfaces and operations sequences of known commands.
THEOREM WgTypeCorrect == WgSpec => []WgTypeOK
BY WgTypeInit, WgTypeStep, PTL DEF WgSpec

-----------------------------------------------------------------------------
(* OldConfigSurvives.                                                      *)

\* What an apply of a name that has a file begins with, and what it goes on with:
\* commands that bring interfaces up and down, put the backup back, or are about
\* the former name.
Opening == <<"unlink_backup", "write_backup", "write">>
Late == {"restart", "enable", "down", "up", "stop", "restore", "stop_prev", "down_prev",
         "assert_prev", "disable_prev", "unlink_prev"}

\* k commands of the opening are left: as long as there is one the file is the old
\* one, and once the second has been given the backup is.
Opened(k) ==
  /\ k <= Len(op.todo)
  /\ \A j \in 1..k : op.todo[j] = Opening[3 - k + j]
  /\ \A j \in 1..Len(op.todo) : j > k => op.todo[j] \in Late
  /\ k > 0 => op.stage = "before" /\ iface[op.name].file = op.was.file
  /\ k < 2 => iface[op.name].backup = op.was.file

Applying == ~ OpDone /\ op.kind = "apply" /\ manager # "openwrt" /\ op.was.file # 0
Saved    == Applying => op.name \in WgName /\ op.prev # op.name /\ \E k \in 0..3 : Opened(k)

\* The commands after the opening leave the backup of the name alone.
LEMMA LateCommands ==
  ASSUME WgTypeOK, op.name \in WgName, op.prev # op.name, NEW cmd \in Late
  PROVE  /\ HostAfter(cmd)[op.name].backup = iface[op.name].backup
         /\ cmd # "uci_commit"
<1>0. iface[op.name] \in WgIface /\ iface \in [WgName -> WgIface] /\ cmd # "uci_commit"
  BY DEF WgTypeOK, Late
<1>1. CASE Subject(cmd) # op.name
  BY <1>0, <1>1 DEF HostAfter
<1>2. CASE Subject(cmd) = op.name
  <2> DEFINE i == iface[op.name]
  <2>1. cmd \in {"restart", "enable", "down", "up", "stop", "restore"}
    BY <1>2 DEF Subject, Late
  <2>2. Effect(cmd, i).backup = i.backup
    <3>1. CASE cmd \in {"restart", "down", "up", "stop"}
      <4>1. Direct \in BOOLEAN
        BY DEF Direct
      <4>2. \A d \in BOOLEAN : DoRestart(i, d).backup = i.backup /\ DoStop(i, d).backup = i.backup
        BY <1>0, ManagerCommands DEF RunOnly
      <4>3. WgUp(i).backup = i.backup /\ WgDown(i).backup = i.backup
        BY <1>0, QuickCommands DEF RunOnly
      <4> QED BY <3>1, <4>1, <4>2, <4>3 DEF Effect
    <3>2. CASE cmd = "enable"
      BY <1>0, <3>2 DEF Effect, WgIface
    <3>3. CASE cmd = "restore"
      BY <1>0, <3>3 DEF Effect, WgIface
    <3> QED BY <2>1, <3>1, <3>2, <3>3
  <2>3. HostAfter(cmd)[op.name] = Effect(cmd, i)
    BY <1>0, <1>2 DEF HostAfter
  <2> QED BY <1>0, <2>2, <2>3
<1> QED BY <1>1, <1>2

\* The rest of an apply and its clean-up are late commands.
LEMMA LateSequences ==
  ASSUME WgTypeOK, NEW n, manager # "openwrt"
  PROVE  /\ \A m : BringUp(n, m) \in Seq(Late)
         /\ CleanupCommands(n) \in Seq(Late)
         /\ op.was.file # 0 => ApplyRollback \in Seq(Late)
<1>1. \A s, t \in Seq(Late) : s \o t \in Seq(Late)
  OBVIOUS
<1>2. \A c \in Late : <<c>> \in Seq(Late)
  OBVIOUS
<1>3. \A c, d \in Late : <<c, d>> \in Seq(Late)
  OBVIOUS
<1>4. <<>> \in Seq(Late)
  OBVIOUS
<1>5. \A m : BringUp(n, m) \in Seq(Late)
  <2>1. /\ <<"restart">> \in Seq(Late) /\ <<"enable">> \in Seq(Late)
        /\ <<"enable", "restart">> \in Seq(Late) /\ <<"down", "up">> \in Seq(Late)
    BY <1>2, <1>3 DEF Late
  <2> QED BY <2>1, <1>1, <1>4 DEF BringUp
<1>6. CleanupCommands(n) \in Seq(Late)
  <2>1. /\ <<"stop_prev", "assert_prev">> \in Seq(Late)
        /\ <<"down_prev", "assert_prev">> \in Seq(Late)
        /\ <<"disable_prev", "unlink_prev">> \in Seq(Late)
    BY <1>3 DEF Late
  <2> QED BY <2>1, <1>1, <1>4 DEF CleanupCommands
<1>7. op.was.file # 0 => ApplyRollback \in Seq(Late)
  <2>1. <<"restore", "stop">> \in Seq(Late) /\ <<"restore", "restart">> \in Seq(Late)
    BY <1>3 DEF Late
  <2> QED BY <2>1 DEF ApplyRollback
<1> QED BY <1>5, <1>6, <1>7

\* The operation goes on with its next command.
LEMMA SavedNext ==
  ASSUME WgTypeOK, Saved, Applying, op.todo # <<>>, UNCHANGED manager,
         NEW f, f[op.name].backup = iface'[op.name].backup, f[op.name].file = iface'[op.name].file,
         f = HostAfter(Head(op.todo)) \/ (f = iface /\ Head(op.todo) \in Late),
         op'.kind = op.kind, op'.name = op.name, op'.prev = op.prev, op'.was = op.was,
         op'.stage = op.stage, op'.todo = Tail(op.todo)
  PROVE  Saved'
<1> DEFINE cmd == Head(op.todo)
<1> DEFINE i == iface[op.name]
<1>0. /\ op.todo \in Seq(WgCommand) /\ op.name \in WgName /\ op.prev # op.name
      /\ iface \in [WgName -> WgIface] /\ i \in WgIface
  BY DEF WgTypeOK, WgOperation, Saved
<1>1. PICK k \in 0..3 : Opened(k)
  BY DEF Saved
<1>2. /\ cmd = op.todo[1] /\ Len(op.todo) \in Nat \ {0}
      /\ Len(op'.todo) = Len(op.todo) - 1
      /\ \A j \in 1..Len(op'.todo) : op'.todo[j] = op.todo[j + 1]
  BY <1>0
<1>3. CASE k = 0
  <2>1. cmd \in Late
    BY <1>1, <1>2, <1>3 DEF Opened
  <2>2. iface'[op.name].backup = i.backup
    BY <1>0, <2>1, LateCommands
  <2>3. Opened(0)'
    BY <1>1, <1>2, <1>3, <2>2 DEF Opened
  <2> QED BY <1>0, <2>3 DEF Saved
<1>4. CASE k > 0
  <2>1. cmd = Opening[4 - k] /\ i.file = op.was.file /\ op.stage = "before"
    BY <1>1, <1>2, <1>4 DEF Opened
  <2>2. cmd \in {"unlink_backup", "write_backup", "write"} /\ cmd \notin Late
    BY <2>1, <1>4 DEF Opening, Late
  <2>3. f[op.name] = Effect(cmd, i)
    BY <1>0, <2>2 DEF HostAfter, Subject
  <2>4. \A j \in 1..(k - 1) : op'.todo[j] = Opening[3 - (k - 1) + j]
    BY <1>1, <1>2, <1>4 DEF Opened
  <2>5. \A j \in 1..Len(op'.todo) : j > k - 1 => op'.todo[j] \in Late
    BY <1>1, <1>2, <1>4 DEF Opened
  <2>6. k - 1 <= Len(op'.todo) /\ k - 1 \in 0..3
    BY <1>1, <1>2, <1>4 DEF Opened
  <2>e. /\ [i EXCEPT !.backup = 0].file = i.file
        /\ [i EXCEPT !.backup = i.file].file = i.file /\ [i EXCEPT !.backup = i.file].backup = i.file
        /\ [i EXCEPT !.file = op.config].backup = i.backup
    BY <1>0 DEF WgIface
  <2>7. k - 1 > 0 => f[op.name].file = op.was.file
    <3>1. CASE k = 3
      <4>1. cmd = "unlink_backup"
        BY <2>1, <3>1 DEF Opening
      <4>2. f[op.name] = [i EXCEPT !.backup = 0]
        BY <2>3, <4>1 DEF Effect
      <4> QED BY <2>1, <2>e, <4>2
    <3>2. CASE k = 2
      <4>1. cmd = "write_backup"
        BY <2>1, <3>2 DEF Opening
      <4>2. f[op.name] = [i EXCEPT !.backup = i.file]
        BY <2>3, <4>1 DEF Effect, WriteBackup
      <4> QED BY <2>1, <2>e, <4>2
    <3> QED BY <1>4, <3>1, <3>2
  <2>8. k - 1 < 2 => f[op.name].backup = op.was.file
    <3>1. CASE k = 2
      <4>1. cmd = "write_backup"
        BY <2>1, <3>1 DEF Opening
      <4>2. f[op.name] = [i EXCEPT !.backup = i.file]
        BY <2>3, <4>1 DEF Effect, WriteBackup
      <4> QED BY <2>1, <2>e, <4>2
    <3>2. CASE k = 1
      <4>1. cmd = "write" /\ i.backup = op.was.file
        BY <1>1, <2>1, <3>2 DEF Opening, Opened
      <4>2. f[op.name] = [i EXCEPT !.file = op.config]
        BY <2>3, <4>1 DEF Effect
      <4> QED BY <2>e, <4>1, <4>2
    <3> QED BY <1>4, <3>1, <3>2
  <2>9. Opened(k - 1)'
    BY <2>1, <2>4, <2>5, <2>6, <2>7, <2>8 DEF Opened
  <2> QED BY <1>0, <2>6, <2>9 DEF Saved
<1> QED BY <1>3, <1>4

\* The opening is over, and late commands follow.
LEMMA SavedRest ==
  ASSUME WgTypeOK, Saved, Applying, Opened(0), UNCHANGED manager,
         iface'[op.name].backup = iface[op.name].backup,
         op'.kind = op.kind, op'.name = op.name, op'.prev = op.prev, op'.was = op.was,
         op'.todo \in Seq(Late)
  PROVE  Saved'
<1>1. \A j \in 1..Len(op'.todo) : op'.todo[j] \in Late
  OBVIOUS
<1>2. Opened(0)'
  BY <1>1 DEF Opened
<1> QED BY <1>2 DEF Saved

\* An apply begins with the opening.
LEMMA SavedBegin ==
  ASSUME WgTypeOK, NEW n \in WgName, NEW c, NEW p \in (WgName \ {n}) \cup {NoIface},
         BeginOp("apply", n, c, p), WgTypeOK'
  PROVE  Saved'
<1> SUFFICES ASSUME manager # "openwrt", op'.was.file # 0
             PROVE  op'.name \in WgName /\ op'.prev # op'.name /\ Opened(3)'
  BY DEF Saved, Applying, BeginOp
<1>1. /\ op'.name = n /\ op'.prev = p /\ op'.was = iface[n] /\ op'.stage = "before"
      /\ op'.todo = ApplyCommands(n) /\ iface' = iface
  BY DEF BeginOp, Commands
<1>2. p # n
  BY WireGuardAssumption
<1> DEFINE b == BringUp(n, Managed(iface[n]))
<1>3. b \in Seq(Late)
  BY LateSequences
<1>4. op'.todo = Opening \o b
  BY <1>1 DEF ApplyCommands, Opening
<1> HIDE DEF b
<1>5. Opening \in Seq({"unlink_backup", "write_backup", "write"}) /\ Len(Opening) = 3
  BY DEF Opening
<1> DEFINE o == Opening
<1>6. o \in Seq({"unlink_backup", "write_backup", "write"}) /\ Len(o) = 3 /\ op'.todo = o \o b
  BY <1>4, <1>5
<1> HIDE DEF o
<1> DEFINE t == o \o b
<1>e. /\ Len(t) = 3 + Len(b) /\ Len(b) \in Nat
      /\ \A j \in 1..3 : t[j] = o[j]
      /\ \A j \in 1..Len(t) : j > 3 => t[j] = b[j - 3]
  <2> DEFINE S == Late \cup {"unlink_backup", "write_backup", "write"}
  <2>1. o \in Seq(S) /\ b \in Seq(S)
    BY <1>3, <1>6
  <2> HIDE DEF S
  <2>2. /\ Len(t) = Len(o) + Len(b)
        /\ \A j \in 1..Len(o) + Len(b) : t[j] = IF j <= Len(o) THEN o[j] ELSE b[j - Len(o)]
    BY <2>1, ConcatProperties
  <2>3. Len(b) \in Nat
    BY <2>1
  <2> HIDE DEF t
  <2> QED BY <1>6, <2>2, <2>3
<1> HIDE DEF t
<1>t. op'.todo = t
  BY <1>6 DEF t
<1>7. /\ Len(op'.todo) = 3 + Len(b) /\ Len(b) \in Nat
      /\ \A j \in 1..3 : op'.todo[j] = o[j]
      /\ \A j \in 1..Len(op'.todo) : j > 3 => op'.todo[j] = b[j - 3] /\ j - 3 \in 1..Len(b)
  BY <1>e, <1>t
<1>8. \A j \in 1..3 : op'.todo[j] = Opening[3 - 3 + j]
  BY <1>7 DEF o
<1>9. \A j \in 1..Len(op'.todo) : j > 3 => op'.todo[j] \in Late
  BY <1>3, <1>7
<1> QED BY <1>1, <1>2, <1>7, <1>8, <1>9 DEF Opened

\* What is reverted on OpenWrt is neither file nor backup.
LEMMA RevertedKeeps ==
  ASSUME WgTypeOK, NEW cmd, NEW f \in {iface, HostAfter(cmd)}, NEW n \in WgName
  PROVE  /\ HostAfterFailure(cmd, f)[n].file = f[n].file
         /\ HostAfterFailure(cmd, f)[n].backup = f[n].backup
<1>1. f \in [WgName -> WgIface]
  BY HostType DEF WgTypeOK
<1>2. f[n] \in WgIface
  BY <1>1
<1>3. [f[n] EXCEPT !.delta = Unchanged].file = f[n].file /\ [f[n] EXCEPT !.delta = Unchanged].backup = f[n].backup
  BY <1>2 DEF WgIface
<1> QED BY <1>3 DEF HostAfterFailure, Reverted

\* A failing command ends the apply, or leads to its rollback when the file was
\* written, so when the backup is there.
LEMMA SavedFailure ==
  ASSUME WgTypeOK, Saved, Applying, op.todo # <<>>, UNCHANGED manager,
         NEW f \in {iface, HostAfter(Head(op.todo))},
         iface' = HostAfterFailure(Head(op.todo), f), op' = AfterFailure(Head(op.todo))
  PROVE  Saved'
<1> DEFINE cmd == Head(op.todo)
<1>0. /\ op \in WgOperation /\ op.todo \in Seq(WgCommand) /\ op.name \in WgName
      /\ op.prev # op.name
  BY DEF WgTypeOK, WgOperation, Saved
<1>1. PICK k \in 0..3 : Opened(k)
  BY DEF Saved
<1>2. CASE op'.stage \in {"failed", "cleanup_failed"}
  BY <1>2 DEF Saved, Applying, OpDone
<1>3. ASSUME k = 0 PROVE Opened(0) /\ iface'[op.name].backup = iface[op.name].backup
  <2>1. cmd \in Late
    BY <1>0, <1>1, <1>3 DEF Opened
  <2>2. HostAfter(cmd)[op.name].backup = iface[op.name].backup
    BY <1>0, <2>1, LateCommands
  <2>3. iface'[op.name].backup = f[op.name].backup
    BY <1>0, RevertedKeeps
  <2> QED BY <1>1, <1>3, <2>2, <2>3
<1>4. CASE op' = [op EXCEPT !.stage = "rollback", !.todo = ApplyRollback] /\ Written
  <2>1. k = 0
    <3> SUFFICES ASSUME k > 0 PROVE FALSE
      BY <1>1
    <3>1. op.todo[k] = Opening[3] /\ k \in DOMAIN op.todo
      BY <1>0, <1>1 DEF Opened
    <3>2. Opening[3] = "write"
      BY DEF Opening
    <3> QED BY <1>4, <3>1, <3>2 DEF Written, Applying
  <2>2. /\ op'.kind = op.kind /\ op'.name = op.name /\ op'.prev = op.prev /\ op'.was = op.was
        /\ op'.todo = ApplyRollback
    BY <1>0, <1>4 DEF WgOperation
  <2>3. ApplyRollback \in Seq(Late)
    BY LateSequences DEF Applying
  <2> QED BY <1>3, <2>1, <2>2, <2>3, SavedRest
<1>5. CASE op' = [op EXCEPT !.todo = Tail(@), !.clean = FALSE] /\ op.stage = "rollback"
  <2>1. k = 0
    BY <1>1, <1>5 DEF Opened
  <2>2. /\ op'.kind = op.kind /\ op'.name = op.name /\ op'.prev = op.prev /\ op'.was = op.was
        /\ op'.todo = Tail(op.todo)
    BY <1>0, <1>5 DEF WgOperation
  <2>3. op.todo \in Seq(Late)
    BY <1>0, <1>1, <2>1 DEF Opened
  <2>4. op'.todo \in Seq(Late)
    <3>1. \A s \in Seq(Late) : s # <<>> => Tail(s) \in Seq(Late)
      OBVIOUS
    <3> QED BY <2>2, <2>3, <3>1
  <2> QED BY <1>3, <2>1, <2>2, <2>4, SavedRest
<1>6. \/ op' = [op EXCEPT !.stage = "rollback", !.todo = ApplyRollback] /\ Written
      \/ op' = [op EXCEPT !.todo = Tail(@), !.clean = FALSE] /\ op.stage = "rollback"
      \/ op' = [op EXCEPT !.stage = "failed", !.todo = <<>>, !.clean = FALSE]
      \/ op' = [op EXCEPT !.stage = "cleanup_failed", !.todo = <<>>]
      \/ op' = [op EXCEPT !.stage = "failed", !.todo = <<>>]
  BY DEF AfterFailure, Written
<1> QED BY <1>0, <1>2, <1>4, <1>5, <1>6 DEF WgOperation

\* Every step.
LEMMA SavedStep == WgTypeOK /\ Saved /\ [WgNext]_wgVars => Saved'
<1> SUFFICES ASSUME WgTypeOK, Saved, [WgNext]_wgVars PROVE Saved'
  OBVIOUS
<1>0. WgTypeOK' /\ op \in WgOperation /\ op.todo \in Seq(WgCommand)
  BY WgTypeStep DEF WgTypeOK, WgOperation
<1>1. ASSUME NEW n \in WgName, NEW c \in WgConfig, NEW p \in (WgName \ {n}) \cup {NoIface},
             BeginOp("apply", n, c, p)
      PROVE  Saved'
  BY <1>0, <1>1, SavedBegin
<1>2. ASSUME NEW n \in WgName, NEW kind \in {"start", "stop", "delete"},
             BeginOp(kind, n, 0, NoIface)
      PROVE  Saved'
  BY <1>2 DEF BeginOp, Saved, Applying
<1>3. ASSUME UNCHANGED manager, ~ Applying, ~ OpDone, op'.kind = op.kind, op'.was = op.was
      PROVE  Saved'
  BY <1>3 DEF Saved, Applying
<1>k. RunCommand \/ CommandBreaks \/ Finish =>
        op'.kind = op.kind /\ op'.was = op.was /\ op'.name = op.name /\ op'.prev = op.prev
  <2>1. CASE op' = AfterFailure(Head(op.todo))
    BY <1>0, <2>1 DEF AfterFailure, WgOperation
  <2>2. CASE RunCommand /\ op' # AfterFailure(Head(op.todo))
    BY <1>0, <2>2 DEF RunCommand, WgOperation
  <2>3. CASE CommandBreaks /\ op' # AfterFailure(Head(op.todo))
    BY <1>0, <2>3 DEF CommandBreaks, WgOperation
  <2>4. CASE Finish
    BY <1>0, <2>4 DEF Finish, WgOperation
  <2> QED BY <2>1, <2>2, <2>3, <2>4
<1>4. CASE RunCommand
  <2>1. UNCHANGED manager /\ ~ OpDone /\ op.todo # <<>>
    BY <1>4 DEF RunCommand
  <2>2. CASE ~ Applying
    BY <1>3, <1>4, <1>k, <2>1, <2>2
  <2>3. CASE Applying /\ op' = [op EXCEPT !.todo = Tail(@)] /\ iface' = HostAfter(Head(op.todo))
    <3>1. op'.stage = op.stage /\ op'.todo = Tail(op.todo)
      BY <1>0, <2>3 DEF WgOperation
    <3> QED BY <1>4, <1>k, <2>1, <2>3, <3>1, SavedNext
  <2>4. CASE Applying /\ op' = AfterFailure(Head(op.todo))
               /\ iface' = HostAfterFailure(Head(op.todo), HostAfter(Head(op.todo)))
    BY <2>1, <2>4, SavedFailure
  <2> QED BY <1>4, <2>2, <2>3, <2>4 DEF RunCommand
<1>5. CASE CommandBreaks
  <2>1. UNCHANGED manager /\ ~ OpDone /\ op.todo # <<>>
    BY <1>5 DEF CommandBreaks
  <2>2. CASE ~ Applying
    BY <1>3, <1>5, <1>k, <2>1, <2>2
  <2>3. ASSUME Applying, NEW f \in {iface, HostAfter(Head(op.todo))}, AllowedToFail(Head(op.todo)),
               iface' = f, op' = [op EXCEPT !.todo = Tail(@), !.clean = @ /\ op.stage # "rollback"]
        PROVE  Saved'
    <3>1. op'.stage = op.stage /\ op'.todo = Tail(op.todo)
      BY <1>0, <2>3 DEF WgOperation
    <3>2. Head(op.todo) \in Late
      <4>1. Head(op.todo) \in {"down", "down_prev", "disable", "disable_prev", "uci_delete",
                               "uci_prev", "stop", "stop_prev"}
        BY <2>3 DEF AllowedToFail
      <4>2. PICK k \in 0..3 : Opened(k)
        BY <2>3 DEF Saved
      <4>3. Head(op.todo) = op.todo[1] /\ 1 \in 1..Len(op.todo)
        BY <1>0, <2>1
      <4>4. CASE k = 0
        BY <4>2, <4>3, <4>4 DEF Opened
      <4>5. CASE k > 0
        <5>1. Head(op.todo) = Opening[4 - k]
          BY <4>2, <4>3, <4>5, SMTT(30) DEF Opened
        <5> QED BY <4>1, <4>5, <5>1 DEF Opening
      <4> QED BY <4>4, <4>5
    <3> QED BY <1>5, <1>k, <2>1, <2>3, <3>1, <3>2, SavedNext
  <2>4. ASSUME Applying, NEW f \in {iface, HostAfter(Head(op.todo))},
               iface' = HostAfterFailure(Head(op.todo), f), op' = AfterFailure(Head(op.todo))
        PROVE  Saved'
    BY <2>1, <2>4, SavedFailure
  <2> QED BY <1>5, <2>2, <2>3, <2>4 DEF CommandBreaks
<1>6. CASE Finish
  <2>1. UNCHANGED <<manager, iface>> /\ ~ OpDone /\ op.todo = <<>>
    BY <1>6 DEF Finish
  <2>2. CASE ~ Applying
    BY <1>3, <1>6, <1>k, <2>1, <2>2
  <2>3. CASE op'.stage \in {"restored", "ok"}
    BY <2>3 DEF Saved, Applying, OpDone
  <2>4. CASE Applying /\ op' = [op EXCEPT !.stage = "cleanup", !.todo = CleanupCommands(op.prev)]
    <3>1. op'.todo = CleanupCommands(op.prev)
      BY <1>0, <2>4 DEF WgOperation
    <3>2. op'.todo \in Seq(Late)
      BY <2>4, <3>1, LateSequences DEF Applying
    <3>3. Opened(0)
      <4>1. PICK k \in 0..3 : Opened(k)
        BY <2>4 DEF Saved
      <4>2. k = 0
        BY <2>1, <4>1 DEF Opened
      <4> QED BY <4>1, <4>2
    <3> QED BY <1>6, <1>k, <2>1, <2>4, <3>2, <3>3, SavedRest
  <2> QED BY <1>0, <1>6, <2>2, <2>3, <2>4 DEF Finish, WgOperation
<1>7. CASE PowerCycle
  <2>1. op'.kind = "none"
    BY <1>7 DEF PowerCycle, NoOp
  <2> QED BY <2>1 DEF Saved, Applying
<1>8. CASE UNCHANGED wgVars
  BY <1>8 DEF wgVars, Saved, Applying, OpDone, Opened
<1> QED BY <1>1, <1>2, <1>4, <1>5, <1>6, <1>7, <1>8 DEF WgNext

\* While an apply is under way the configuration that was there is in the file or in
\* its backup, whichever command fails and whenever the power goes.
THEOREM OldConfigAlwaysSurvives == WgSpec => []OldConfigSurvives
<1>1. WgInit => Saved
  BY DEF WgInit, NoOp, Saved, Applying, OpDone
<1>2. Saved => OldConfigSurvives
  <2> SUFFICES ASSUME Saved, Applying
               PROVE  op.was.file \in {iface[op.name].file, iface[op.name].backup}
    BY DEF OldConfigSurvives, Applying
  <2>1. PICK k \in 0..3 : Opened(k)
    BY DEF Saved
  <2> QED BY <2>1 DEF Opened
<1> QED BY <1>1, <1>2, SavedStep, WgTypeCorrect, PTL DEF WgSpec

-----------------------------------------------------------------------------
(* What is left of an operation, and how an operation goes on.             *)

\* The command is still to be given; every a comes before every b.
In(s, c)        == \E k \in 1..Len(s) : s[k] = c
Before(s, a, b) == \A j, k \in 1..Len(s) : s[j] = a /\ s[k] = b => j < k

\* One command fewer.
LEMMA OneFewer ==
  ASSUME NEW S, NEW s \in Seq(S), s # <<>>
  PROVE  LET h == Head(s) t == Tail(s) IN
         /\ h \in S /\ t \in Seq(S)
         /\ \A c : In(s, c) <=> In(t, c) \/ c = h
         /\ \A a, b : Before(s, a, b) =>
              /\ Before(t, a, b)
              /\ h = b => ~ In(s, a)
              /\ h = a /\ In(s, b) => In(t, b)
<1> DEFINE h == Head(s)
<1> DEFINE t == Tail(s)
<1>1. /\ h \in S /\ t \in Seq(S) /\ h = s[1] /\ Len(s) \in Nat /\ Len(s) > 0
      /\ Len(t) = Len(s) - 1 /\ \A k \in 1..Len(t) : t[k] = s[k + 1]
  OBVIOUS
<1> HIDE DEF h, t
<1>2. ASSUME NEW k \in 1..Len(s) PROVE k = 1 \/ (k - 1 \in 1..Len(t) /\ t[k - 1] = s[k])
  BY <1>1
<1>3. \A k \in 1..Len(t) : k + 1 \in 1..Len(s) /\ t[k] = s[k + 1]
  BY <1>1
<1>4. ASSUME NEW c PROVE In(s, c) <=> In(t, c) \/ c = h
  <2>1. In(s, c) => In(t, c) \/ c = h
    BY <1>1, <1>2 DEF In
  <2>2. In(t, c) => In(s, c)
    BY <1>3 DEF In
  <2>3. In(s, h)
    BY <1>1 DEF In
  <2> QED BY <2>1, <2>2, <2>3
<1>5. ASSUME NEW a, NEW b, Before(s, a, b)
      PROVE  /\ Before(t, a, b) /\ (h = b => ~ In(s, a)) /\ (h = a /\ In(s, b) => In(t, b))
  <2>1. Before(t, a, b)
    BY <1>1, <1>3, <1>5 DEF Before
  <2>a. 1 \in 1..Len(s)
    BY <1>1
  <2>b. \A j, k \in 1..Len(s) : s[j] = a /\ s[k] = b => j < k
    BY <1>5 DEF Before
  <2>2. ASSUME h = b, In(s, a) PROVE FALSE
    <3>1. PICK j \in 1..Len(s) : s[j] = a
      BY <2>2 DEF In
    <3>2. j < 1
      BY <1>1, <2>2, <2>a, <2>b, <3>1
    <3> QED BY <3>2
  <2>3. ASSUME h = a, In(s, b) PROVE In(t, b)
    <3>1. PICK k \in 1..Len(s) : s[k] = b
      BY <2>3 DEF In
    <3>2. 1 < k
      BY <1>1, <2>3, <2>a, <2>b, <3>1
    <3> QED BY <1>2, <3>1, <3>2 DEF In
  <2> QED BY <2>1, <2>2, <2>3
<1> QED BY <1>1, <1>4, <1>5 DEF h, t

Left(c)       == In(op.todo, c)
Ordered(a, b) == Before(op.todo, a, b)
Given1        == Head(op.todo)

\* The operation is the same one.
SameOp ==
  /\ manager' = manager /\ refused' = refused
  /\ op'.kind = op.kind /\ op'.name = op.name /\ op'.prev = op.prev /\ op'.config = op.config
  /\ op'.was = op.was /\ op'.managed = op.managed

Begins(kind, n, c, p) ==
  /\ iface' = iface /\ manager' = manager /\ refused' = refused
  /\ op'.kind = kind /\ op'.name = n /\ op'.prev = p /\ op'.config = c /\ op'.was = iface[n]
  /\ op'.managed = Managed(iface[n]) /\ op'.todo = Commands(kind, n) /\ op'.stage = "before"
  /\ op'.clean = TRUE

\* The first command was given and the operation goes on with the next: the command
\* did what it is for, or its failure is ignored.
GoesOn ==
  /\ SameOp /\ ~ OpDone /\ op.todo # <<>> /\ op'.todo = Tail(op.todo) /\ op'.stage = op.stage
  /\ iface' \in {iface, HostAfter(Given1)}
  /\ op'.clean => op.clean
  /\ \/ /\ iface' = HostAfter(Given1)
        /\ Works(Given1, iface[Subject(Given1)], Direct) \/ AllowedToFail(Given1)
     \/ /\ AllowedToFail(Given1) \/ (Given1 = "stop" /\ op.stage = "rollback")
        /\ op'.clean => op.stage # "rollback"

\* The command failed: an apply that has written its file is rolled back, any other
\* operation ends.
Fails ==
  /\ SameOp /\ ~ OpDone /\ op.todo # <<>>
  /\ \E f \in {iface, HostAfter(Given1)} : iface' = HostAfterFailure(Given1, f)
  /\ \/ op'.stage \in {"failed", "cleanup_failed"}
     \/ Written /\ op'.stage = "rollback" /\ op'.todo = ApplyRollback /\ op'.clean = op.clean

\* All commands were given.
Finishes ==
  /\ SameOp /\ ~ OpDone /\ op.todo = <<>> /\ iface' = iface /\ op'.clean = op.clean
  /\ \/ op.stage = "rollback" /\ op'.stage = "restored"
     \/ /\ op.stage = "before" /\ op.kind = "apply" /\ op.prev # NoIface
        /\ op'.stage = "cleanup" /\ op'.todo = CleanupCommands(op.prev)
     \/ /\ op'.stage = "ok" /\ op.stage \in {"before", "cleanup"}
        /\ op.stage = "before" /\ op.kind = "apply" => op.prev = NoIface

Booted(i) ==
  LET d == [i EXCEPT !.kernel = 0, !.unit = "inactive", !.delta = Unchanged] IN
  CASE HasUnits /\ i.boot -> UnitStart(d) [] manager = "openwrt" -> IfUp(d) [] OTHER -> d

\* Every step is one of these.
LEMMA WgCases ==
  ASSUME WgTypeOK, [WgNext]_wgVars
  PROVE  \/ \E n \in WgName, c \in WgConfig :
              \E p \in (WgName \ {n}) \cup {NoIface} : Begins("apply", n, c, p)
         \/ \E n \in WgName, kind \in {"start", "stop", "delete"} : Begins(kind, n, 0, NoIface)
         \/ GoesOn \/ Fails \/ Finishes
         \/ /\ op' = NoOp /\ manager' = manager /\ refused' = refused
            /\ iface' = [n \in WgName |-> Booted(iface[n])]
         \/ UNCHANGED wgVars
<1>0. op \in WgOperation
  BY DEF WgTypeOK
<1>1. ASSUME NEW kind, NEW n, NEW c, NEW p, BeginOp(kind, n, c, p) PROVE Begins(kind, n, c, p)
  BY <1>1 DEF BeginOp, Begins
<1>n. ASSUME ~ OpDone, op.todo # <<>>, UNCHANGED <<manager, refused>>,
             NEW cl \in BOOLEAN, op' = [op EXCEPT !.todo = Tail(@), !.clean = cl]
      PROVE  SameOp /\ op'.todo = Tail(op.todo) /\ op'.stage = op.stage /\ op'.clean = cl
  BY <1>0, <1>n DEF WgOperation, SameOp
<1>f. ASSUME ~ OpDone, op.todo # <<>>, UNCHANGED <<manager, refused>>, op' = AfterFailure(Given1),
             NEW f \in {iface, HostAfter(Given1)}, iface' = HostAfterFailure(Given1, f)
      PROVE  GoesOn \/ Fails
  <2>1. CASE op' = [op EXCEPT !.stage = "rollback", !.todo = ApplyRollback] /\ Written
    <3>1. SameOp /\ op'.stage = "rollback" /\ op'.todo = ApplyRollback /\ op'.clean = op.clean
      BY <1>0, <1>f, <2>1 DEF WgOperation, SameOp
    <3> QED BY <1>f, <2>1, <3>1 DEF Fails
  <2>2. CASE op' = [op EXCEPT !.todo = Tail(@), !.clean = FALSE] /\ op.stage = "rollback" /\ Given1 = "stop"
    <3>1. SameOp /\ op'.todo = Tail(op.todo) /\ op'.stage = op.stage /\ op'.clean = FALSE
      BY <1>f, <1>n, <2>2
    <3>2. iface' = f
      BY <1>f, <2>2 DEF HostAfterFailure
    <3> QED BY <1>f, <2>2, <3>1, <3>2 DEF GoesOn
  <2>3. CASE op' = [op EXCEPT !.stage = "failed", !.todo = <<>>, !.clean = FALSE]
    <3>1. SameOp /\ op'.stage = "failed"
      BY <1>0, <1>f, <2>3 DEF WgOperation, SameOp
    <3> QED BY <1>f, <3>1 DEF Fails
  <2>4. CASE op' = [op EXCEPT !.stage = "cleanup_failed", !.todo = <<>>]
    <3>1. SameOp /\ op'.stage = "cleanup_failed"
      BY <1>0, <1>f, <2>4 DEF WgOperation, SameOp
    <3> QED BY <1>f, <3>1 DEF Fails
  <2>5. CASE op' = [op EXCEPT !.stage = "failed", !.todo = <<>>]
    <3>1. SameOp /\ op'.stage = "failed"
      BY <1>0, <1>f, <2>5 DEF WgOperation, SameOp
    <3> QED BY <1>f, <3>1 DEF Fails
  <2>6. \/ op' = [op EXCEPT !.stage = "rollback", !.todo = ApplyRollback] /\ Written
        \/ op' = [op EXCEPT !.todo = Tail(@), !.clean = FALSE] /\ op.stage = "rollback" /\ Given1 = "stop"
        \/ op' = [op EXCEPT !.stage = "failed", !.todo = <<>>, !.clean = FALSE]
        \/ op' = [op EXCEPT !.stage = "cleanup_failed", !.todo = <<>>]
        \/ op' = [op EXCEPT !.stage = "failed", !.todo = <<>>]
    BY <1>f DEF AfterFailure, Written
  <2> QED BY <2>1, <2>2, <2>3, <2>4, <2>5, <2>6
<1>2. CASE RunCommand
  <2>1. ~ OpDone /\ op.todo # <<>> /\ UNCHANGED <<manager, refused>>
    BY <1>2 DEF RunCommand
  <2>2. CASE /\ Works(Given1, iface[Subject(Given1)], Direct) \/ AllowedToFail(Given1)
             /\ iface' = HostAfter(Given1) /\ op' = [op EXCEPT !.todo = Tail(@)]
    <3>1. op' = [op EXCEPT !.todo = Tail(@), !.clean = op.clean] /\ op.clean \in BOOLEAN
      BY <1>0, <2>2 DEF WgOperation
    <3>2. SameOp /\ op'.todo = Tail(op.todo) /\ op'.stage = op.stage /\ op'.clean = op.clean
      BY <1>n, <2>1, <3>1
    <3> QED BY <2>1, <2>2, <3>2 DEF GoesOn
  <2>3. CASE /\ iface' = HostAfterFailure(Given1, HostAfter(Given1)) /\ op' = AfterFailure(Given1)
    BY <1>f, <2>1, <2>3
  <2> QED BY <1>2, <2>2, <2>3 DEF RunCommand, Given1
<1>3. CASE CommandBreaks
  <2>1. ~ OpDone /\ op.todo # <<>> /\ UNCHANGED <<manager, refused>>
    BY <1>3 DEF CommandBreaks
  <2>2. PICK f \in {iface, HostAfter(Given1)} :
          IF AllowedToFail(Given1)
          THEN iface' = f /\ op' = [op EXCEPT !.todo = Tail(@), !.clean = @ /\ op.stage # "rollback"]
          ELSE iface' = HostAfterFailure(Given1, f) /\ op' = AfterFailure(Given1)
    BY <1>3 DEF CommandBreaks, Given1
  <2>3. CASE AllowedToFail(Given1)
    <3> DEFINE cl == op.clean /\ op.stage # "rollback"
    <3>1. op' = [op EXCEPT !.todo = Tail(@), !.clean = cl] /\ cl \in BOOLEAN
      BY <2>2, <2>3
    <3>2. SameOp /\ op'.todo = Tail(op.todo) /\ op'.stage = op.stage /\ op'.clean = cl
      BY <1>n, <2>1, <3>1
    <3> QED BY <2>1, <2>2, <2>3, <3>2 DEF GoesOn
  <2>4. CASE ~ AllowedToFail(Given1)
    BY <1>f, <2>1, <2>2, <2>4
  <2> QED BY <2>3, <2>4
<1>4. CASE Finish
  <2>1. ~ OpDone /\ op.todo = <<>> /\ UNCHANGED <<manager, refused, iface>>
    BY <1>4 DEF Finish
  <2>2. op.stage \in {"before", "rollback", "cleanup"}
    BY <1>0, <2>1 DEF OpDone, WgOperation
  <2>3. ASSUME NEW s PROVE /\ [op EXCEPT !.stage = s].stage = s
                           /\ op' = [op EXCEPT !.stage = s] => SameOp /\ op'.clean = op.clean
    BY <1>0, <2>1 DEF WgOperation, SameOp
  <2>4. CASE op.stage = "rollback"
    <3>1. op' = [op EXCEPT !.stage = "restored"]
      BY <1>4, <2>4 DEF Finish
    <3> QED BY <2>1, <2>3, <2>4, <3>1 DEF Finishes
  <2>5. CASE op.stage = "before" /\ op.kind = "apply" /\ op.prev # NoIface
    <3>1. op' = [op EXCEPT !.stage = "cleanup", !.todo = CleanupCommands(op.prev)]
      BY <1>4, <2>5 DEF Finish
    <3>2. SameOp /\ op'.clean = op.clean /\ op'.stage = "cleanup" /\ op'.todo = CleanupCommands(op.prev)
      BY <1>0, <2>1, <3>1 DEF WgOperation, SameOp
    <3> QED BY <2>1, <2>5, <3>2 DEF Finishes
  <2>6. CASE op.stage # "rollback" /\ ~ (op.stage = "before" /\ op.kind = "apply" /\ op.prev # NoIface)
    <3>1. op' = [op EXCEPT !.stage = "ok"]
      BY <1>4, <2>6 DEF Finish
    <3> QED BY <2>1, <2>2, <2>3, <2>6, <3>1 DEF Finishes
  <2> QED BY <2>4, <2>5, <2>6
<1>5. CASE PowerCycle
  BY <1>5 DEF PowerCycle, Booted
<1> QED BY <1>1, <1>2, <1>3, <1>4, <1>5 DEF WgNext

-----------------------------------------------------------------------------
(* What a command does to file, kernel and unit.                           *)

SameRun(i, j) == j.file = i.file /\ j.kernel = i.kernel /\ j.unit = i.unit

\* wg-quick and the units.
LEMMA QuickFields ==
  ASSUME WgTypeOK, NEW i \in WgIface
  PROVE  /\ WgUp(i).file = i.file /\ WgUp(i).unit = i.unit
         /\ WgUp(i).kernel = IF CanUp(i) THEN i.file ELSE i.kernel
         /\ WgDown(i).file = i.file /\ WgDown(i).unit = i.unit
         /\ WgDown(i).kernel = IF i.file # 0 THEN 0 ELSE i.kernel
         /\ UnitStop(i).file = i.file
         /\ UnitStop(i).unit = IF i.unit = "active" THEN "inactive" ELSE i.unit
         /\ UnitStop(i).kernel = IF i.unit = "active" /\ i.file # 0 THEN 0 ELSE i.kernel
         /\ UnitStart(i).file = i.file
         /\ UnitStart(i).unit = IF i.unit = "active" \/ CanUp(i) THEN "active" ELSE FailedUnit
         /\ UnitStart(i).kernel = IF i.unit # "active" /\ CanUp(i) THEN i.file ELSE i.kernel
<1>1. /\ WgUp(i) \in WgIface /\ WgUp(i).file = i.file /\ WgUp(i).unit = i.unit
      /\ WgUp(i).kernel = IF CanUp(i) THEN i.file ELSE i.kernel
  BY QuickCommands DEF WgUp, WgIface, RunOnly
<1>2. /\ WgDown(i) \in WgIface /\ WgDown(i).file = i.file /\ WgDown(i).unit = i.unit
      /\ WgDown(i).kernel = IF i.file # 0 THEN 0 ELSE i.kernel
  BY QuickCommands DEF WgDown, WgIface, RunOnly
<1>3. ASSUME NEW j \in WgIface, NEW u
      PROVE  /\ [j EXCEPT !.unit = u].unit = u /\ [j EXCEPT !.unit = u].kernel = j.kernel
             /\ [j EXCEPT !.unit = u].file = j.file
  BY DEF WgIface
<1>4. /\ UnitStop(i).file = i.file
      /\ UnitStop(i).unit = IF i.unit = "active" THEN "inactive" ELSE i.unit
      /\ UnitStop(i).kernel = IF i.unit = "active" /\ i.file # 0 THEN 0 ELSE i.kernel
  BY <1>2, <1>3 DEF UnitStop
<1>5. /\ UnitStart(i).file = i.file
      /\ UnitStart(i).unit = IF i.unit = "active" \/ CanUp(i) THEN "active" ELSE FailedUnit
      /\ UnitStart(i).kernel = IF i.unit # "active" /\ CanUp(i) THEN i.file ELSE i.kernel
  BY <1>1, <1>3 DEF UnitStart
<1> QED BY <1>1, <1>2, <1>4, <1>5

\* A restart: of a unit that is active afterwards the file is up; an interface that
\* was brought up by hand is in its way and stays.
LEMMA RestartFields ==
  ASSUME WgTypeOK, NEW i \in WgIface
  PROVE  LET j == UnitRestart(i) IN
         /\ j.file = i.file
         /\ j.unit = "active" => j.kernel = i.file /\ i.file # 0
         /\ i.unit # "active" /\ i.kernel # 0 => j.unit # "active" /\ j.kernel = i.kernel
         /\ i.file # 0 /\ (i.unit = "active" \/ i.kernel = 0) => j.unit = "active" \/ j.kernel = 0
<1> DEFINE d == UnitStop(i)
<1>1. d \in WgIface
  BY QuickCommands DEF RunOnly
<1>2. /\ d.file = i.file /\ d.unit = (IF i.unit = "active" THEN "inactive" ELSE i.unit)
      /\ d.kernel = IF i.unit = "active" /\ i.file # 0 THEN 0 ELSE i.kernel
  BY QuickFields
<1>3. d.unit # "active"
  BY <1>2
<1>4. UnitRestart(i) = UnitStart(d)
  BY DEF UnitRestart
<1> HIDE DEF d
<1>5. /\ UnitStart(d).file = d.file
      /\ UnitStart(d).unit = (IF CanUp(d) THEN "active" ELSE FailedUnit)
      /\ UnitStart(d).kernel = IF CanUp(d) THEN d.file ELSE d.kernel
  BY <1>1, <1>3, QuickFields
<1>6. CanUp(d) => d.file # 0 /\ d.kernel = 0
  BY DEF CanUp, Accepts
<1>7. FailedUnit # "active"
  BY DEF FailedUnit
<1> QED BY <1>2, <1>3, <1>4, <1>5, <1>6, <1>7

\* wg-quick down and up.
LEMMA DownUpFields ==
  ASSUME WgTypeOK, NEW i \in WgIface
  PROVE  LET j == WgUp(WgDown(i)) IN
         /\ j.file = i.file /\ j.unit = i.unit
         /\ CanUp(WgDown(i)) => j.kernel = i.file
<1>1. WgDown(i) \in WgIface /\ WgDown(i).file = i.file /\ WgDown(i).unit = i.unit
  BY QuickCommands, QuickFields DEF RunOnly
<1> QED BY <1>1, QuickFields

Undisturbed == {"unlink_backup", "write_backup", "enable", "disable_prev", "assert", "assert_prev",
          "uci_delete", "uci_prev", "uci_set"}

\* Each command, seen from file, kernel and unit.
LEMMA EffectFields ==
  ASSUME WgTypeOK, NEW i \in WgIface, NEW cmd
  PROVE  LET j == Effect(cmd, i) IN
         /\ cmd \in Undisturbed => SameRun(i, j)
         /\ cmd \in {"write", "unlink", "unlink_prev", "restore", "uci_restore"} =>
              j.kernel = i.kernel /\ j.unit = i.unit
         /\ cmd = "write" => j.file = op.config
         /\ cmd \in {"unlink", "unlink_prev"} => j.file = 0
         /\ cmd = "restore" => j.file = i.backup
         /\ cmd = "uci_restore" => j.file = op.was.file
         /\ cmd = "up" => j = WgUp(i)
         /\ cmd \in {"down", "down_prev"} => j = WgDown(i)
         /\ cmd = "start" => j = DoStart(i)
         /\ cmd = "restart" => j = DoRestart(i, Direct)
         /\ cmd = "stop" => j = DoStop(i, op.kind = "apply" /\ Direct)
         /\ cmd = "stop_prev" => j = DoStop(i, FALSE)
         /\ cmd = "disable" => SameRun(i, j) \/ SameRun(UnitStop(i), j)
<1>1. cmd \in Undisturbed => SameRun(i, Effect(cmd, i))
  BY DEF Effect, Undisturbed, SameRun, WgIface, WriteBackup
<1>2. cmd \in {"write", "unlink", "unlink_prev", "restore", "uci_restore"} =>
        Effect(cmd, i).kernel = i.kernel /\ Effect(cmd, i).unit = i.unit
  BY DEF Effect, WgIface
<1>3. /\ cmd = "write" => Effect(cmd, i).file = op.config
      /\ cmd \in {"unlink", "unlink_prev"} => Effect(cmd, i).file = 0
      /\ cmd = "restore" => Effect(cmd, i).file = i.backup
      /\ cmd = "uci_restore" => Effect(cmd, i).file = op.was.file
  BY DEF Effect, WgIface
<1>4. /\ cmd = "up" => Effect(cmd, i) = WgUp(i)
      /\ cmd \in {"down", "down_prev"} => Effect(cmd, i) = WgDown(i)
      /\ cmd = "start" => Effect(cmd, i) = DoStart(i)
      /\ cmd = "restart" => Effect(cmd, i) = DoRestart(i, Direct)
  BY DEF Effect
<1>5. cmd = "stop" => Effect(cmd, i) = DoStop(i, op.kind = "apply" /\ Direct)
  <2>1. Direct \in BOOLEAN
    BY DEF Direct
  <2>2. cmd = "stop" => Effect(cmd, i) = DoStop(i, IF op.kind = "apply" THEN Direct ELSE FALSE)
    BY DEF Effect
  <2>3. (IF op.kind = "apply" THEN Direct ELSE FALSE) = (op.kind = "apply" /\ Direct)
    BY <2>1
  <2> QED BY <2>2, <2>3
<1>6. cmd = "stop_prev" => Effect(cmd, i) = DoStop(i, FALSE)
  BY DEF Effect
<1>7. cmd = "disable" => SameRun(i, Effect(cmd, i)) \/ SameRun(UnitStop(i), Effect(cmd, i))
  <2>1. UnitStop(i) \in WgIface
    BY QuickCommands DEF RunOnly
  <2>2. \A j \in WgIface : SameRun(j, [j EXCEPT !.boot = FALSE])
    BY DEF SameRun, WgIface
  <2>3. cmd = "disable" =>
          Effect(cmd, i) \in {[UnitStop(i) EXCEPT !.boot = FALSE], [i EXCEPT !.boot = FALSE]}
    BY DEF Effect
  <2> QED BY <2>1, <2>2, <2>3
<1> QED BY <1>1, <1>2, <1>3, <1>4, <1>5, <1>6, <1>7

\* Where a command has its effect.
LEMMA HostFields ==
  ASSUME WgTypeOK, NEW cmd, NEW n \in WgName
  PROVE  /\ cmd # "uci_commit" =>
              HostAfter(cmd)[n] = IF n = Subject(cmd) THEN Effect(cmd, iface[n]) ELSE iface[n]
         /\ cmd = "uci_commit" =>
              HostAfter(cmd)[n].kernel = iface[n].kernel /\ HostAfter(cmd)[n].unit = iface[n].unit
         /\ \A f \in {iface, HostAfter(cmd)} : SameRun(f[n], HostAfterFailure(cmd, f)[n])
<1>0. iface \in [WgName -> WgIface] /\ iface[n] \in WgIface
  BY DEF WgTypeOK
<1>1. cmd # "uci_commit" =>
        HostAfter(cmd)[n] = IF n = Subject(cmd) THEN Effect(cmd, iface[n]) ELSE iface[n]
  BY <1>0 DEF HostAfter
<1>2. cmd = "uci_commit" =>
        HostAfter(cmd)[n].kernel = iface[n].kernel /\ HostAfter(cmd)[n].unit = iface[n].unit
  <2>1. cmd = "uci_commit" => HostAfter(cmd)[n] \in {iface[n],
          [iface[n] EXCEPT !.file = iface[n].delta, !.delta = Unchanged]}
    BY DEF HostAfter, Committed
  <2> QED BY <1>0, <2>1 DEF WgIface
<1>3. ASSUME NEW f \in {iface, HostAfter(cmd)} PROVE SameRun(f[n], HostAfterFailure(cmd, f)[n])
  <2>1. f[n] \in WgIface
    BY <1>0, HostType
  <2>2. HostAfterFailure(cmd, f)[n] \in {f[n], [f[n] EXCEPT !.delta = Unchanged]}
    BY DEF HostAfterFailure, Reverted
  <2> QED BY <2>1, <2>2 DEF SameRun, WgIface
<1> QED BY <1>1, <1>2, <1>3

-----------------------------------------------------------------------------
(* Which commands an operation still has to give, and the units.           *)

\* An interface whose unit is active is up, and units are there.
UnitUp(i) == i.unit = "active" => HasUnits /\ i.kernel # 0

\* The rollback stops a unit that was not active before.
KeepStopped == ~ Direct /\ op.was.unit = "inactive"

Uci(S) == IF manager = "openwrt" THEN S ELSE {}
Plan ==
  CASE op.kind = "start"  -> {"start", "up"}
    [] op.kind = "stop"   -> {"stop", "down", "assert"}
    [] op.kind = "delete" -> {"assert", "disable", "unlink"} \cup Uci({"uci_delete", "uci_commit"})
    [] op.kind = "apply" /\ op.stage = "before" ->
         {"unlink_backup", "write_backup", "write", "restart", "enable"}
         \cup Uci({"uci_delete", "uci_set", "uci_commit"}) \cup (IF Direct THEN {"down", "up"} ELSE {})
    [] op.kind = "apply" /\ op.stage = "cleanup" ->
         {"stop_prev", "down_prev", "assert_prev", "disable_prev", "unlink_prev"}
         \cup Uci({"uci_prev", "uci_commit"})
    [] op.kind = "apply" /\ op.stage = "rollback" ->
         IF manager = "openwrt" THEN {"uci_restore"}
         ELSE IF op.was.file = 0 THEN {"stop", "unlink"}
         ELSE IF KeepStopped THEN {"restore", "stop"} ELSE {"restore", "restart"}
    [] OTHER -> {}

\* The operation is a known one, and gives the commands of its plan.
Listed ==
  ~ OpDone =>
    /\ op.kind # "none" /\ op.name \in WgName /\ op.prev # op.name
    /\ op.kind = "apply" => op.config \in WgConfig
    /\ op.kind # "apply" => op.stage = "before"
    /\ op.stage = "cleanup" => op.prev \in WgName
    /\ op.todo \in Seq(Plan)

\* What is brought down by hand is not run by its unit.
ByHand ==
  ~ OpDone =>
    /\ Left("down") \/ (op.kind = "apply" /\ op.stage # "cleanup" /\ Direct) =>
         iface[op.name].unit # "active"
    /\ Left("down_prev") => iface[op.prev].unit # "active"

Ground == Listed /\ ByHand /\ \A n \in WgName : UnitUp(iface[n])

\* The units after one command.
LEMMA EffectUnits ==
  ASSUME WgTypeOK, NEW i \in WgIface, UnitUp(i), NEW cmd \in WgCommand,
         cmd \in {"down", "down_prev"} => i.unit # "active",
         Direct /\ (cmd = "restart" \/ (cmd = "stop" /\ op.kind = "apply")) => i.unit # "active"
  PROVE  /\ UnitUp(Effect(cmd, i))
         /\ i.unit # "active" /\ cmd # "start" /\ (cmd = "restart" => Direct) =>
              Effect(cmd, i).unit # "active"
<1> DEFINE j == Effect(cmd, i)
<1>f. FailedUnit # "active" /\ (~ HasUnits => Direct) /\ manager \in {"systemd", "openrc", "direct", "openwrt"}
      /\ (HasUnits => manager # "openwrt")
  BY Manager DEF FailedUnit, Direct
<1>s. ASSUME NEW k, SameRun(i, k) PROVE UnitUp(k) /\ (i.unit # "active" => k.unit # "active")
  BY <1>s DEF SameRun, UnitUp
<1>t. UnitUp(UnitStop(i)) /\ UnitStop(i).unit # "active"
  BY QuickFields DEF UnitUp
<1>u. UnitUp(WgUp(i)) /\ (i.unit # "active" => WgUp(i).unit # "active")
  BY QuickFields DEF UnitUp, CanUp, Accepts
<1>d. i.unit # "active" => UnitUp(WgDown(i)) /\ WgDown(i).unit # "active"
  BY QuickFields DEF UnitUp
<1>w. i.unit # "active" => UnitUp(IfUp(i)) /\ IfUp(i).unit # "active"
  <2> DEFINE d == [i EXCEPT !.kernel = 0]
  <2>1. d \in WgIface /\ d.unit = i.unit /\ IfUp(i) = WgUp(d)
    BY QuickCommands DEF RunOnly, IfUp, WgIface
  <2> HIDE DEF d
  <2> QED BY <2>1, QuickFields DEF UnitUp
<1>1. CASE cmd \in Undisturbed
  BY <1>1, <1>s, EffectFields
<1>2. CASE cmd \in {"write", "unlink", "unlink_prev", "restore", "uci_restore"}
  BY <1>2, EffectFields DEF UnitUp
<1>3. CASE cmd = "up"
  BY <1>3, <1>u, EffectFields
<1>4. CASE cmd \in {"down", "down_prev"}
  BY <1>4, <1>d, EffectFields
<1>5. CASE cmd = "start"
  <2>1. j = DoStart(i)
    BY <1>5, EffectFields
  <2>2. HasUnits => UnitUp(UnitStart(i))
    BY QuickFields, <1>f DEF UnitUp, CanUp, Accepts
  <2>3. ~ HasUnits => i.unit # "active"
    BY DEF UnitUp
  <2> QED BY <1>5, <1>u, <1>w, <2>1, <2>2, <2>3 DEF DoStart
<1>6. CASE cmd = "restart"
  <2>1. j = DoRestart(i, Direct)
    BY <1>6, EffectFields
  <2>2. CASE manager = "openwrt"
    BY <1>6, <1>f, <1>w, <2>1, <2>2 DEF DoRestart
  <2>3. CASE HasUnits /\ ~ Direct
    <3>1. j = UnitRestart(i)
      BY <1>f, <2>1, <2>3 DEF DoRestart
    <3> QED BY <1>6, <2>3, <3>1, RestartFields DEF UnitUp
  <2>4. CASE manager # "openwrt" /\ Direct
    <3>1. j = WgUp(WgDown(i))
      BY <2>1, <2>4 DEF DoRestart
    <3> QED BY <1>6, <2>4, <3>1, DownUpFields DEF UnitUp
  <2> QED BY <1>f, <2>2, <2>3, <2>4
<1>7. CASE cmd = "stop"
  <2>1. j = DoStop(i, op.kind = "apply" /\ Direct)
    BY <1>7, EffectFields
  <2>2. CASE manager = "openwrt"
    <3>1. j = [i EXCEPT !.kernel = 0] /\ i.unit # "active"
      BY <1>f, <2>1, <2>2 DEF DoStop, UnitUp
    <3> QED BY <3>1 DEF UnitUp, WgIface
  <2>3. CASE HasUnits /\ ~ (op.kind = "apply" /\ Direct)
    <3>1. j = UnitStop(i)
      BY <1>f, <2>1, <2>3 DEF DoStop
    <3> QED BY <1>t, <3>1
  <2>4. CASE manager # "openwrt" /\ ~ (HasUnits /\ ~ (op.kind = "apply" /\ Direct))
    <3>1. j = WgDown(i)
      BY <2>1, <2>4 DEF DoStop
    <3>2. i.unit # "active"
      BY <1>7, <2>4 DEF UnitUp
    <3> QED BY <1>d, <3>1, <3>2
  <2> QED BY <1>f, <2>2, <2>3, <2>4
<1>8. CASE cmd = "stop_prev"
  <2>1. j = DoStop(i, FALSE)
    BY <1>8, EffectFields
  <2>2. CASE manager = "openwrt"
    <3>1. j = [i EXCEPT !.kernel = 0] /\ i.unit # "active"
      BY <1>f, <2>1, <2>2 DEF DoStop, UnitUp
    <3> QED BY <3>1 DEF UnitUp, WgIface
  <2>3. CASE HasUnits
    <3>1. j = UnitStop(i)
      BY <1>f, <2>1, <2>3 DEF DoStop
    <3> QED BY <1>t, <3>1
  <2>4. CASE manager # "openwrt" /\ ~ HasUnits
    <3>1. j = WgDown(i) /\ i.unit # "active"
      BY <2>1, <2>4 DEF DoStop, UnitUp
    <3> QED BY <1>d, <3>1
  <2> QED BY <1>f, <2>2, <2>3, <2>4
<1>9. CASE cmd = "disable"
  <2>1. SameRun(i, j) \/ SameRun(UnitStop(i), j)
    BY <1>9, EffectFields
  <2>2. SameRun(UnitStop(i), j) => UnitUp(j) /\ j.unit # "active"
    BY <1>t DEF SameRun, UnitUp
  <2> QED BY <1>s, <2>1, <2>2
<1>10. CASE cmd = "uci_commit"
  BY <1>10 DEF Effect
<1> QED BY <1>1, <1>2, <1>3, <1>4, <1>5, <1>6, <1>7, <1>8, <1>9, <1>10 DEF Undisturbed, WgCommand

\* Short lists and lists put together.
LEMMA InLists ==
  /\ \A c : ~ In(<<>>, c)
  /\ \A x, c : In(<<x>>, c) <=> c = x
  /\ \A x, y, c : In(<<x, y>>, c) <=> c \in {x, y}
  /\ \A x, y, z, c : In(<<x, y, z>>, c) <=> c \in {x, y, z}
<1>1. \A c : ~ In(<<>>, c)
  BY DEF In
<1>2. ASSUME NEW x, NEW c PROVE In(<<x>>, c) <=> c = x
  BY DEF In
<1>3. ASSUME NEW x, NEW y, NEW c PROVE In(<<x, y>>, c) <=> c \in {x, y}
  <2>1. Len(<<x, y>>) = 2 /\ <<x, y>>[1] = x /\ <<x, y>>[2] = y
    OBVIOUS
  <2>2. 1 \in 1..2 /\ 2 \in 1..2 /\ \A k \in 1..2 : k = 1 \/ k = 2
    OBVIOUS
  <2> QED BY <2>1, <2>2 DEF In
<1>4. ASSUME NEW x, NEW y, NEW z, NEW c PROVE In(<<x, y, z>>, c) <=> c \in {x, y, z}
  <2>1. Len(<<x, y, z>>) = 3 /\ <<x, y, z>>[1] = x /\ <<x, y, z>>[2] = y /\ <<x, y, z>>[3] = z
    OBVIOUS
  <2>2. 1 \in 1..3 /\ 2 \in 1..3 /\ 3 \in 1..3 /\ \A k \in 1..3 : k = 1 \/ k = 2 \/ k = 3
    OBVIOUS
  <2> QED BY <2>1, <2>2 DEF In
<1> QED BY <1>1, <1>2, <1>3, <1>4

\* And of a set of commands.
LEMMA ShortLists ==
  /\ \A S : <<>> \in Seq(S)
  /\ \A S : \A x \in S : <<x>> \in Seq(S)
  /\ \A S : \A x, y \in S : <<x, y>> \in Seq(S)
  /\ \A S : \A x, y, z \in S : <<x, y, z>> \in Seq(S)
OBVIOUS

\* A list after another one.
LEMMA InJoined ==
  ASSUME NEW S, NEW s \in Seq(S), NEW t \in Seq(S)
  PROVE  /\ s \o t \in Seq(S)
         /\ \A c : In(s \o t, c) <=> In(s, c) \/ In(t, c)
         /\ \A a, b : ~ In(s, b) /\ ~ In(t, a) => Before(s \o t, a, b)
         /\ \A a, b : ~ In(s, a) /\ ~ In(s, b) /\ Before(t, a, b) => Before(s \o t, a, b)
         /\ \A c : In(s, c) => c \in S
<1> DEFINE u == s \o t
<1>1. /\ u \in Seq(S) /\ Len(u) = Len(s) + Len(t) /\ Len(s) \in Nat /\ Len(t) \in Nat
      /\ \A j \in 1..Len(s) + Len(t) : u[j] = IF j <= Len(s) THEN s[j] ELSE t[j - Len(s)]
  BY ConcatProperties
<1> HIDE DEF u
<1>a. \A j \in 1..Len(s) : j \in 1..Len(u) /\ u[j] = s[j]
  BY <1>1
<1>b. ASSUME NEW j \in 1..Len(t) PROVE Len(s) + j \in 1..Len(u) /\ u[Len(s) + j] = t[j]
  <2>1. /\ Len(s) + j \in 1..Len(s) + Len(t) /\ ~ (Len(s) + j <= Len(s))
        /\ (Len(s) + j) - Len(s) = j
    BY <1>1
  <2> QED BY <1>1, <2>1
<1>2. /\ \A j \in 1..Len(s) : j \in 1..Len(u) /\ u[j] = s[j]
      /\ \A j \in 1..Len(t) : Len(s) + j \in 1..Len(u) /\ u[Len(s) + j] = t[j]
  BY <1>a, <1>b
<1>3. \A j \in 1..Len(u) : \/ j \in 1..Len(s) /\ u[j] = s[j]
                           \/ j - Len(s) \in 1..Len(t) /\ u[j] = t[j - Len(s)] /\ j > Len(s)
  BY <1>1
<1>4. ASSUME NEW c PROVE In(u, c) <=> In(s, c) \/ In(t, c)
  <2>1. In(u, c) => In(s, c) \/ In(t, c)
    BY <1>3 DEF In
  <2>2. In(s, c) \/ In(t, c) => In(u, c)
    BY <1>2 DEF In
  <2> QED BY <2>1, <2>2
<1>5. ASSUME NEW a, NEW b, ~ In(s, b), ~ In(t, a) PROVE Before(u, a, b)
  <2> SUFFICES ASSUME NEW j \in 1..Len(u), NEW k \in 1..Len(u), u[j] = a, u[k] = b PROVE j < k
    BY DEF Before
  <2>1. j \in 1..Len(s)
    BY <1>3, <1>5 DEF In
  <2>2. k > Len(s)
    BY <1>3, <1>5 DEF In
  <2> QED BY <1>1, <2>1, <2>2
<1>6. ASSUME NEW a, NEW b, ~ In(s, a), ~ In(s, b), Before(t, a, b) PROVE Before(u, a, b)
  <2> SUFFICES ASSUME NEW j \in 1..Len(u), NEW k \in 1..Len(u), u[j] = a, u[k] = b PROVE j < k
    BY DEF Before
  <2>1. j - Len(s) \in 1..Len(t) /\ t[j - Len(s)] = a
    BY <1>3, <1>6 DEF In
  <2>2. k - Len(s) \in 1..Len(t) /\ t[k - Len(s)] = b
    BY <1>3, <1>6 DEF In
  <2>3. j - Len(s) < k - Len(s)
    BY <1>6, <2>1, <2>2 DEF Before
  <2> QED BY <1>1, <2>3
<1>7. \A c : In(s, c) => c \in S
  BY DEF In
<1> QED BY <1>1, <1>4, <1>5, <1>6, <1>7 DEF u

\* The units after the first command, with or without its effect.
LEMMA GroundCommand ==
  ASSUME WgTypeOK, Ground, ~ OpDone, op.todo # <<>>, NEW f \in {iface, HostAfter(Given1)}
  PROVE  /\ Given1 \in Plan /\ Left(Given1)
         /\ \A n \in WgName : UnitUp(f[n])
         /\ op.kind = "apply" /\ op.stage # "cleanup" /\ Direct => f[op.name].unit # "active"
         /\ Left("down") => f[op.name].unit # "active"
         /\ Left("down_prev") => f[op.prev].unit # "active"
<1> DEFINE cmd == Given1
<1>0. /\ op.todo \in Seq(Plan) /\ op.name \in WgName /\ op.todo \in Seq(WgCommand)
      /\ iface \in [WgName -> WgIface]
      /\ op.stage \in {"before", "cleanup", "rollback"}
      /\ op.kind \in {"apply", "start", "stop", "delete"}
      /\ op.stage = "cleanup" => op.prev \in WgName
      /\ op.kind # "apply" => op.stage = "before"
      /\ op.prev # op.name
  BY DEF Ground, Listed, WgTypeOK, WgOperation, OpDone
<1>1. cmd \in Plan /\ cmd \in WgCommand /\ Left(cmd)
  BY <1>0, OneFewer DEF Given1, Left
<1>2. \A c : Left(c) => c \in Plan
  BY <1>0, InJoined DEF Left
<1> HIDE DEF cmd
<1>3. /\ Left("down") => op.kind = "stop" \/ (op.kind = "apply" /\ op.stage = "before" /\ Direct)
      /\ Left("down_prev") => op.kind = "apply" /\ op.stage = "cleanup"
      /\ cmd = "restart" => op.kind = "apply" /\ op.stage # "cleanup"
      /\ cmd = "stop" /\ op.kind = "apply" => op.stage # "cleanup"
      /\ cmd = "start" => op.kind = "start"
  BY <1>0, <1>1, <1>2 DEF Plan, Uci
<1>4. /\ \A n \in WgName : UnitUp(iface[n])
      /\ op.kind = "apply" /\ op.stage # "cleanup" /\ Direct => iface[op.name].unit # "active"
      /\ Left("down") => iface[op.name].unit # "active"
      /\ Left("down_prev") => iface[op.prev].unit # "active"
  BY DEF Ground, ByHand
<1> DEFINE s == Subject(cmd)
<1>5. /\ cmd \in {"down", "restart", "stop"} => s = op.name
      /\ cmd = "down_prev" => s = op.prev
      /\ op.stage # "cleanup" => s = op.name
      /\ op.stage = "cleanup" /\ cmd # "uci_commit" => s = op.prev
  <2>1. op.stage # "cleanup" => cmd \notin {"stop_prev", "down_prev", "assert_prev", "disable_prev",
                                            "unlink_prev", "uci_prev"}
    BY <1>0, <1>1 DEF Plan, Uci
  <2>2. op.stage = "cleanup" /\ cmd # "uci_commit" =>
          cmd \in {"stop_prev", "down_prev", "assert_prev", "disable_prev", "unlink_prev", "uci_prev"}
    BY <1>0, <1>1 DEF Plan, Uci
  <2> QED BY <2>1, <2>2 DEF Subject
<1> HIDE DEF s
<1>6. ASSUME s \in WgName, cmd # "uci_commit"
      PROVE  /\ UnitUp(Effect(cmd, iface[s]))
             /\ iface[s].unit # "active" /\ cmd # "start" /\ (cmd = "restart" => Direct) =>
                  Effect(cmd, iface[s]).unit # "active"
  <2>1. iface[s] \in WgIface /\ UnitUp(iface[s])
    BY <1>0, <1>4, <1>6
  <2>2. cmd \in {"down", "down_prev"} => iface[s].unit # "active"
    BY <1>1, <1>4, <1>5
  <2>3. Direct /\ (cmd = "restart" \/ (cmd = "stop" /\ op.kind = "apply")) => iface[s].unit # "active"
    BY <1>3, <1>4, <1>5
  <2> QED BY <1>1, <2>1, <2>2, <2>3, EffectUnits
<1>7. \A n \in WgName : UnitUp(f[n])
  <2> SUFFICES ASSUME NEW n \in WgName PROVE UnitUp(HostAfter(cmd)[n])
    BY <1>4 DEF cmd
  <2>1. CASE cmd = "uci_commit" \/ n # s
    BY <1>4, <2>1, HostFields DEF UnitUp, s
  <2>2. CASE cmd # "uci_commit" /\ n = s
    BY <1>6, <2>2, HostFields DEF s
  <2> QED BY <2>1, <2>2
<1>8. ASSUME NEW n \in WgName, iface[n].unit # "active", n = s \/ cmd = "uci_commit",
             cmd # "start", cmd = "restart" => Direct
      PROVE  f[n].unit # "active"
  <2>1. HostAfter(cmd)[n].unit # "active"
    BY <1>6, <1>8, HostFields DEF s
  <2> QED BY <1>8, <2>1 DEF cmd
<1>9. op.kind = "apply" /\ op.stage # "cleanup" /\ Direct => f[op.name].unit # "active"
  BY <1>0, <1>3, <1>4, <1>5, <1>8
<1>10. Left("down") => f[op.name].unit # "active"
  BY <1>0, <1>3, <1>4, <1>5, <1>8
<1>11. Left("down_prev") => f[op.prev].unit # "active"
  BY <1>0, <1>3, <1>4, <1>5, <1>8
<1> QED BY <1>1, <1>7, <1>9, <1>10, <1>11 DEF cmd

\* The operation goes on, or fails.
LEMMA GroundGoesOn ==
  ASSUME WgTypeOK, Ground, GoesOn \/ Fails
  PROVE  Ground'
<1>0. /\ SameOp /\ ~ OpDone /\ op.todo # <<>>
  BY DEF GoesOn, Fails
<1>1. /\ op.todo \in Seq(Plan) /\ op.name \in WgName /\ op.prev # op.name /\ op.kind # "none"
      /\ op.kind = "apply" => op.config \in WgConfig
      /\ op.kind # "apply" => op.stage = "before"
      /\ op.stage = "cleanup" => op.prev \in WgName
      /\ op.prev \in WgName \cup {NoIface} /\ op.stage \in {"before", "cleanup", "rollback"}
  BY <1>0 DEF Ground, Listed, WgTypeOK, WgOperation, OpDone
<1>2. HasUnits' = HasUnits /\ Direct' = Direct
  BY <1>0 DEF SameOp, HasUnits, Direct
<1>3. PICK f \in {iface, HostAfter(Given1)} : \A n \in WgName : SameRun(f[n], iface'[n])
  <2>1. CASE GoesOn
    BY <2>1 DEF GoesOn, SameRun
  <2>2. CASE Fails
    BY <2>2, HostFields DEF Fails
  <2> QED BY <2>1, <2>2
<1>4. /\ \A n \in WgName : UnitUp(f[n])
      /\ op.kind = "apply" /\ op.stage # "cleanup" /\ Direct => f[op.name].unit # "active"
      /\ Left("down") => f[op.name].unit # "active"
      /\ Left("down_prev") => f[op.prev].unit # "active"
  BY <1>0, GroundCommand
<1>5. \A n \in WgName : UnitUp(iface[n])'
  BY <1>2, <1>3, <1>4 DEF UnitUp, SameRun
<1>6. CASE GoesOn
  <2>1. op'.stage = op.stage /\ op'.todo = Tail(op.todo)
    BY <1>6 DEF GoesOn
  <2>2. Plan' = Plan
    BY <1>0, <1>2, <2>1 DEF Plan, Uci, KeepStopped, SameOp
  <2>3. /\ op'.todo \in Seq(Plan) /\ \A c : In(op'.todo, c) => Left(c)
    BY <1>0, <1>1, <2>1, OneFewer DEF Left
  <2>4. Listed'
    BY <1>0, <1>1, <2>1, <2>2, <2>3 DEF Listed, SameOp
  <2>5. Left("down_prev") => op.prev \in WgName
    <3>1. Left("down_prev") => "down_prev" \in Plan
      BY <1>1, InJoined DEF Left
    <3> QED BY <1>1, <3>1 DEF Plan, Uci
  <2>6. ByHand'
    <3>1. Left("down")' => Left("down")
      BY <2>3 DEF Left
    <3>2. Left("down_prev")' => Left("down_prev")
      BY <2>3 DEF Left
    <3> QED BY <1>0, <1>1, <1>2, <1>3, <1>4, <2>1, <2>5, <3>1, <3>2 DEF ByHand, SameOp, SameRun
  <2> QED BY <1>5, <2>4, <2>6 DEF Ground
<1>7. CASE Fails /\ op'.stage \in {"failed", "cleanup_failed"}
  BY <1>5, <1>7 DEF Ground, Listed, ByHand, OpDone
<1>8. CASE Fails /\ op'.stage \notin {"failed", "cleanup_failed"}
  <2>1. Written /\ op'.stage = "rollback" /\ op'.todo = ApplyRollback
    BY <1>8 DEF Fails
  <2>2. op.kind = "apply" /\ op.stage = "before"
    BY <2>1 DEF Written
  <2> DEFINE P == IF manager = "openwrt" THEN {"uci_restore"}
                  ELSE IF op.was.file = 0 THEN {"stop", "unlink"}
                  ELSE IF KeepStopped THEN {"restore", "stop"} ELSE {"restore", "restart"}
  <2>3. Plan' = P
    BY <1>0, <1>2, <2>1, <2>2 DEF Plan, Uci, SameOp, KeepStopped
  <2>4. ApplyRollback \in Seq(P)
    <3>1. <<"uci_restore">> \in Seq({"uci_restore"}) /\ <<"stop", "unlink">> \in Seq({"stop", "unlink"})
          /\ <<"restore", "stop">> \in Seq({"restore", "stop"})
          /\ <<"restore", "restart">> \in Seq({"restore", "restart"})
      BY ShortLists
    <3> QED BY <3>1 DEF ApplyRollback, KeepStopped
  <2>5. \A c \in {"down", "down_prev"} : c \notin P
    OBVIOUS
  <2> HIDE DEF P
  <2>6. ~ Left("down")' /\ ~ Left("down_prev")'
    BY <2>1, <2>4, <2>5, InJoined DEF Left
  <2>7. Listed'
    BY <1>0, <1>1, <2>1, <2>2, <2>3, <2>4 DEF Listed, SameOp
  <2>8. ByHand'
    BY <1>0, <1>1, <1>2, <1>3, <1>4, <2>2, <2>6 DEF ByHand, SameOp, SameRun
  <2> QED BY <1>5, <2>7, <2>8 DEF Ground
<1> QED BY <1>6, <1>7, <1>8

\* The clean-up of a former name brings it down by hand only if its unit does not run it.
LEMMA CleanupList ==
  ASSUME WgTypeOK, NEW p
  PROVE  LET t == CleanupCommands(p) IN
         /\ manager # "openwrt" => t \in Seq({"stop_prev", "down_prev", "assert_prev", "disable_prev", "unlink_prev"})
         /\ t \in Seq({"stop_prev", "down_prev", "assert_prev", "disable_prev", "unlink_prev", "uci_prev", "uci_commit"})
         /\ In(t, "down_prev") => iface[p].unit # "active"
         /\ ~ In(t, "assert_prev") => iface[p].kernel = 0
         /\ manager # "openwrt" => In(t, "unlink_prev")
<1> DEFINE S == {"stop_prev", "down_prev", "assert_prev", "disable_prev", "unlink_prev"}
<1> DEFINE U == S \cup {"uci_prev", "uci_commit"}
<1> DEFINE x == IF manager = "openwrt" \/ iface[p].unit = "active" THEN "stop_prev" ELSE "down_prev"
<1> DEFINE a == IF iface[p].kernel = 0 /\ iface[p].unit # "active" THEN <<>> ELSE <<x, "assert_prev">>
<1> DEFINE b == IF manager = "openwrt" THEN <<"uci_prev", "uci_commit">>
                ELSE <<"disable_prev", "unlink_prev">>
<1>1. CleanupCommands(p) = a \o b
  BY DEF CleanupCommands
<1>2. x \in S /\ (x = "down_prev" => iface[p].unit # "active")
  OBVIOUS
<1> HIDE DEF x
<1>3. a \in Seq(S) /\ a \in Seq(U)
  <2>1. x \in S /\ x \in U /\ "assert_prev" \in S /\ "assert_prev" \in U
    BY <1>2
  <2> HIDE DEF S, U
  <2> QED BY <2>1, ShortLists
<1>4. b \in Seq(U) /\ (manager # "openwrt" => b \in Seq(S))
  <2>1. /\ "uci_prev" \in U /\ "uci_commit" \in U /\ "disable_prev" \in U /\ "unlink_prev" \in U
        /\ "disable_prev" \in S /\ "unlink_prev" \in S
    OBVIOUS
  <2> HIDE DEF S, U
  <2> QED BY <2>1, ShortLists
<1>5. /\ In(a, "down_prev") => iface[p].unit # "active"
      /\ ~ In(a, "assert_prev") => iface[p].kernel = 0
  BY <1>2, InLists
<1>6. ~ In(b, "down_prev") /\ ~ In(b, "assert_prev") /\ (manager # "openwrt" => In(b, "unlink_prev"))
  BY InLists
<1> HIDE DEF a, b
<1>7. a \o b \in Seq(U) /\ \A c : In(a \o b, c) <=> In(a, c) \/ In(b, c)
  BY <1>3, <1>4, InJoined
<1>8. manager # "openwrt" => a \o b \in Seq(S)
  BY <1>3, <1>4, InJoined
<1> QED BY <1>1, <1>5, <1>6, <1>7, <1>8

\* All commands were given.
LEMMA GroundFinishes ==
  ASSUME WgTypeOK, Ground, Finishes
  PROVE  Ground'
<1>1. HasUnits' = HasUnits /\ Direct' = Direct /\ iface' = iface /\ SameOp /\ ~ OpDone
  BY DEF SameOp, HasUnits, Direct, Finishes
<1>2. \A n \in WgName : UnitUp(iface[n])'
  BY <1>1 DEF UnitUp, Ground
<1>3. CASE op'.stage \in {"ok", "restored"}
  BY <1>2, <1>3 DEF Ground, Listed, ByHand, OpDone
<1>4. CASE op'.stage \notin {"ok", "restored"}
  <2>1. /\ op.stage = "before" /\ op.kind = "apply" /\ op.prev # NoIface
        /\ op'.stage = "cleanup" /\ op'.todo = CleanupCommands(op.prev)
    BY <1>4 DEF Finishes
  <2>2. op.prev \in WgName /\ op.name \in WgName /\ op.prev # op.name /\ op.config \in WgConfig
    BY <1>1, <2>1 DEF WgTypeOK, WgOperation, Ground, Listed
  <2>3. Plan' = {"stop_prev", "down_prev", "assert_prev", "disable_prev", "unlink_prev"}
                \cup (IF manager = "openwrt" THEN {"uci_prev", "uci_commit"} ELSE {})
    BY <1>1, <2>1 DEF Plan, Uci, SameOp
  <2>4. op'.todo \in Seq(Plan')
    BY <2>1, <2>3, CleanupList
  <2>5. ~ Left("down")'
    BY <2>3, <2>4, InJoined DEF Left
  <2>6. Left("down_prev")' => iface[op.prev].unit # "active"
    BY <2>1, CleanupList DEF Left
  <2>7. Listed'
    BY <1>1, <2>1, <2>2, <2>4 DEF Listed, SameOp
  <2>8. ByHand'
    BY <1>1, <2>1, <2>5, <2>6 DEF ByHand, SameOp
  <2> QED BY <1>2, <2>7, <2>8 DEF Ground
<1> QED BY <1>3, <1>4

\* An apply writes its file before it brings the interface up, and it gives wg-quick
\* down and up only where no unit runs the interface.
LEMMA ApplyList ==
  ASSUME WgTypeOK, NEW n, manager # "openwrt"
  PROVE  LET t == ApplyCommands(n) IN
         /\ t \in Seq({"unlink_backup", "write_backup", "write", "restart", "enable", "down", "up"})
         /\ In(t, "write") /\ (In(t, "restart") \/ In(t, "up"))
         /\ Before(t, "write", "restart") /\ Before(t, "write", "up") /\ Before(t, "down", "up")
         /\ In(t, "down") => In(t, "up")
         /\ In(t, "down") \/ In(t, "up") => ~ Managed(iface[n]) /\ n \notin BootNames
<1> DEFINE A == {"unlink_backup", "write_backup", "write", "restart", "enable", "down", "up"}
<1> DEFINE a == IF iface[n].file # 0 THEN <<"unlink_backup", "write_backup", "write">> ELSE <<"write">>
<1> DEFINE m == Managed(iface[n])
<1> DEFINE b == BringUp(n, m)
<1>1. ApplyCommands(n) = a \o b
  BY DEF ApplyCommands
<1>2. a \in Seq(A)
  <2>1. "unlink_backup" \in A /\ "write_backup" \in A /\ "write" \in A
    OBVIOUS
  <2> HIDE DEF A
  <2> QED BY <2>1, ShortLists
<1>3. In(a, "write") /\ \A c \in {"restart", "up", "down", "enable"} : ~ In(a, c)
  BY InLists
<1> HIDE DEF a
<1>4. /\ b \in Seq(A) /\ ~ In(b, "write") /\ (In(b, "restart") \/ In(b, "up"))
      /\ In(b, "down") => In(b, "up")
      /\ In(b, "down") \/ In(b, "up") => ~ m /\ n \notin BootNames
      /\ Before(b, "down", "up")
  <2> HIDE DEF m
  <2>a. "restart" \in A /\ "enable" \in A /\ "down" \in A /\ "up" \in A
    OBVIOUS
  <2>b. <<"restart">> \o <<>> = <<"restart">>
    OBVIOUS
  <2>c. /\ <<"restart">> \o <<"enable">> \in Seq(A)
        /\ \A c : In(<<"restart">> \o <<"enable">>, c) <=> c \in {"restart", "enable"}
    <3> HIDE DEF A
    <3>1. <<"restart">> \in Seq(A) /\ <<"enable">> \in Seq(A)
      BY <2>a, ShortLists
    <3>2. /\ <<"restart">> \o <<"enable">> \in Seq(A)
          /\ \A c : In(<<"restart">> \o <<"enable">>, c) <=> In(<<"restart">>, c) \/ In(<<"enable">>, c)
      BY <3>1, InJoined
    <3> QED BY <3>2, InLists
  <2>d. ASSUME NEW s, ~ In(s, "down") PROVE Before(s, "down", "up")
    BY <2>d DEF In, Before
  <2>1. CASE m /\ n \in BootNames
    <3>1. b = <<"restart">> \o <<"enable">>
      BY <2>1 DEF BringUp
    <3> HIDE DEF b
    <3> QED BY <2>1, <2>c, <2>d, <3>1
  <2>2. CASE m /\ n \notin BootNames
    <3>1. b = <<"restart">>
      BY <2>2, <2>b DEF BringUp
    <3>2. b \in Seq(A) /\ \A c : In(b, c) <=> c = "restart"
      <4> HIDE DEF A, b
      <4> QED BY <2>a, <3>1, ShortLists, InLists
    <3> HIDE DEF b
    <3> QED BY <2>2, <2>d, <3>2
  <2>3. CASE ~ m /\ n \in BootNames
    <3>1. b = <<"enable", "restart">>
      BY <2>3 DEF BringUp
    <3>2. b \in Seq(A) /\ \A c : In(b, c) <=> c \in {"enable", "restart"}
      <4> HIDE DEF A, b
      <4> QED BY <2>a, <3>1, ShortLists, InLists
    <3> HIDE DEF b
    <3> QED BY <2>3, <2>d, <3>2
  <2>4. CASE ~ m /\ n \notin BootNames
    <3>1. b = <<"down", "up">>
      BY <2>4 DEF BringUp
    <3>2. b \in Seq(A) /\ \A c : In(b, c) <=> c \in {"down", "up"}
      <4> HIDE DEF A, b
      <4> QED BY <2>a, <3>1, ShortLists, InLists
    <3>3. Before(<<"down", "up">>, "down", "up")
      BY DEF Before
    <3> HIDE DEF b
    <3> QED BY <2>4, <3>1, <3>2, <3>3
  <2> QED BY <2>1, <2>2, <2>3, <2>4
<1> HIDE DEF b
<1>5. /\ a \o b \in Seq(A) /\ \A c : In(a \o b, c) <=> In(a, c) \/ In(b, c)
  BY <1>2, <1>4, InJoined
<1>6. Before(a \o b, "write", "restart") /\ Before(a \o b, "write", "up")
  BY <1>2, <1>3, <1>4, InJoined
<1>7. Before(a \o b, "down", "up")
  BY <1>2, <1>3, <1>4, InJoined
<1> QED BY <1>1, <1>3, <1>4, <1>5, <1>6, <1>7 DEF m

\* What the other operations give, and what is already so if they give nothing.
LEMMA OtherLists ==
  ASSUME WgTypeOK, NEW n
  PROVE  LET s == StartCommands(n) t == StopCommands(n) d == DeleteCommands(n) IN
         /\ s \in Seq({"start", "up"})
         /\ ~ In(s, "start") /\ ~ In(s, "up") => iface[n].kernel # 0
         /\ t \in Seq({"stop", "down", "assert"})
         /\ In(t, "down") => manager # "openwrt" /\ ~ Managed(iface[n])
         /\ ~ In(t, "assert") => iface[n].kernel = 0
         /\ d \in Seq({"assert", "disable", "unlink"} \cup Uci({"uci_delete", "uci_commit"}))
         /\ In(d, "assert") /\ (manager # "openwrt" => In(d, "unlink"))
<1>1. /\ <<"start">> \in Seq({"start", "up"}) /\ <<"up">> \in Seq({"start", "up"})
      /\ <<"stop", "assert">> \in Seq({"stop", "down", "assert"})
      /\ <<"down", "assert">> \in Seq({"stop", "down", "assert"})
  BY ShortLists
<1>2. StartCommands(n) \in Seq({"start", "up"}) /\ StopCommands(n) \in Seq({"stop", "down", "assert"})
  BY <1>1, ShortLists DEF StartCommands, StopCommands
<1>3. ~ In(StartCommands(n), "start") /\ ~ In(StartCommands(n), "up") => iface[n].kernel # 0
  BY InLists DEF StartCommands
<1>4. /\ In(StopCommands(n), "down") => manager # "openwrt" /\ ~ Managed(iface[n])
      /\ ~ In(StopCommands(n), "assert") => iface[n].kernel = 0
  BY InLists DEF StopCommands
<1>5. /\ DeleteCommands(n) \in Seq({"assert", "disable", "unlink"} \cup Uci({"uci_delete", "uci_commit"}))
      /\ In(DeleteCommands(n), "assert") /\ (manager # "openwrt" => In(DeleteCommands(n), "unlink"))
  <2> DEFINE S == {"assert", "disable", "unlink"} \cup Uci({"uci_delete", "uci_commit"})
  <2> DEFINE x == IF Managed(iface[n]) THEN <<"disable">> ELSE <<>>
  <2> DEFINE y == IF manager = "openwrt" THEN <<"uci_delete", "uci_commit">> ELSE x \o <<"unlink">>
  <2>0. DeleteCommands(n) = <<"assert">> \o y
    BY DEF DeleteCommands
  <2>a. /\ "assert" \in S /\ "disable" \in S /\ "unlink" \in S
        /\ manager = "openwrt" => "uci_delete" \in S /\ "uci_commit" \in S
    BY DEF Uci
  <2> HIDE DEF S
  <2>1. /\ <<"assert">> \in Seq(S) /\ (manager = "openwrt" => <<"uci_delete", "uci_commit">> \in Seq(S))
        /\ x \in Seq(S) /\ <<"unlink">> \in Seq(S)
    BY <2>a, ShortLists
  <2> HIDE DEF x
  <2>2. /\ x \o <<"unlink">> \in Seq(S)
        /\ In(x \o <<"unlink">>, "unlink")
    <3>1. In(<<"unlink">>, "unlink")
      BY InLists
    <3> QED BY <2>1, <3>1, InJoined
  <2>3. y \in Seq(S) /\ (manager # "openwrt" => In(y, "unlink"))
    BY <2>1, <2>2
  <2> HIDE DEF y
  <2>4. /\ <<"assert">> \o y \in Seq(S)
        /\ \A c : In(<<"assert">> \o y, c) <=> In(<<"assert">>, c) \/ In(y, c)
    BY <2>1, <2>3, InJoined
  <2>5. In(<<"assert">>, "assert")
    BY InLists
  <2> QED BY <2>0, <2>3, <2>4, <2>5 DEF S
<1> QED BY <1>2, <1>3, <1>4, <1>5

\* An operation begins.
LEMMA GroundBegins ==
  ASSUME WgTypeOK, Ground, NEW kind, NEW n \in WgName, NEW c, NEW p, Begins(kind, n, c, p),
         p # n, (kind = "apply" /\ c \in WgConfig) \/ kind \in {"start", "stop", "delete"}
  PROVE  Ground'
<1>1. /\ op'.kind = kind /\ op'.name = n /\ op'.prev = p /\ op'.config = c /\ op'.stage = "before"
      /\ op'.todo = Commands(kind, n) /\ op'.managed = Managed(iface[n]) /\ iface' = iface
      /\ manager' = manager
  BY DEF Begins
<1>2. HasUnits' = HasUnits /\ iface[n] \in WgIface
  BY <1>1 DEF HasUnits, WgTypeOK
<1>3. \A k \in WgName : UnitUp(iface[k]) /\ UnitUp(iface[k])'
  BY <1>1, <1>2 DEF UnitUp, Ground
<1>4. ~ HasUnits \/ ~ Managed(iface[n]) => iface[n].unit # "active"
  <2>1. HasUnits => Managed(iface[n]) = (iface[n].unit = "active" \/ iface[n].boot)
    BY Manager DEF Managed
  <2>2. UnitUp(iface[n])
    BY <1>3
  <2> QED BY <2>1, <2>2 DEF UnitUp
<1>5. Direct' => iface[n].unit # "active"
  BY <1>1, <1>2, <1>4 DEF Direct
<1>6. CASE kind = "start"
  <2>1. op'.todo \in Seq({"start", "up"}) /\ Plan' = {"start", "up"}
    BY <1>1, <1>6, OtherLists DEF Commands, Plan, Uci
  <2>2. ~ Left("down")' /\ ~ Left("down_prev")'
    BY <2>1, InJoined DEF Left
  <2> QED BY <1>1, <1>3, <1>6, <2>1, <2>2 DEF Ground, Listed, ByHand
<1>7. CASE kind = "stop"
  <2>1. op'.todo \in Seq({"stop", "down", "assert"}) /\ Plan' = {"stop", "down", "assert"}
    BY <1>1, <1>7, OtherLists DEF Commands, Plan, Uci
  <2>2. ~ Left("down_prev")'
    BY <2>1, InJoined DEF Left
  <2>3. Left("down")' => iface[n].unit # "active"
    BY <1>1, <1>4, <1>7, OtherLists DEF Commands, Left
  <2> QED BY <1>1, <1>3, <1>7, <2>1, <2>2, <2>3 DEF Ground, Listed, ByHand
<1>8. CASE kind = "delete"
  <2>1. /\ op'.todo \in Seq({"assert", "disable", "unlink"} \cup Uci({"uci_delete", "uci_commit"}))
        /\ Plan' = {"assert", "disable", "unlink"} \cup Uci({"uci_delete", "uci_commit"})
    BY <1>1, <1>8, OtherLists DEF Commands, Plan, Uci
  <2>2. ~ Left("down")' /\ ~ Left("down_prev")'
    BY <2>1, InJoined DEF Left, Uci
  <2> QED BY <1>1, <1>3, <1>8, <2>1, <2>2 DEF Ground, Listed, ByHand
<1>9. CASE kind = "apply"
  <2> DEFINE B == {"unlink_backup", "write_backup", "write", "restart", "enable"}
                  \cup (IF manager = "openwrt" THEN {"uci_delete", "uci_set", "uci_commit"} ELSE {})
  <2>1. Plan' = B \cup (IF Direct' THEN {"down", "up"} ELSE {}) /\ op'.todo = ApplyCommands(n)
    BY <1>1, <1>9 DEF Plan, Uci, Commands
  <2>4. op'.todo \in Seq(Plan')
    <3>a. CASE manager = "openwrt"
      <4>1. op'.todo = <<"uci_delete", "uci_set", "uci_commit", "restart">>
        BY <2>1, <3>a DEF ApplyCommands
      <4>2. /\ "uci_delete" \in Plan' /\ "uci_set" \in Plan' /\ "uci_commit" \in Plan'
            /\ "restart" \in Plan'
        BY <2>1, <3>a
      <4> QED BY <4>1, <4>2
    <3>b. CASE manager # "openwrt"
      <4>1. /\ op'.todo \in Seq({"unlink_backup", "write_backup", "write", "restart", "enable", "down", "up"})
            /\ In(op'.todo, "down") \/ In(op'.todo, "up") => ~ Managed(iface[n]) /\ n \notin BootNames
        BY <2>1, <3>b, ApplyList
      <4>2. ~ Direct' => ~ In(op'.todo, "down") /\ ~ In(op'.todo, "up")
        BY <1>1, <4>1 DEF Direct
      <4>3. \A k \in 1..Len(op'.todo) : op'.todo[k] \in Plan'
        BY <2>1, <4>1, <4>2 DEF In
      <4> QED BY <4>1, <4>3
    <3> QED BY <3>a, <3>b
  <2>5. ~ Left("down_prev")' /\ (Left("down")' => Direct')
    <3>1. \A k : Left(k)' => k \in Plan'
      BY <2>4, InJoined DEF Left
    <3> QED BY <2>1, <3>1
  <2> QED BY <1>1, <1>3, <1>5, <1>9, <2>4, <2>5 DEF Ground, Listed, ByHand
<1> QED BY <1>6, <1>7, <1>8, <1>9

\* The power goes and comes back.
LEMMA GroundBoots ==
  ASSUME WgTypeOK, op' = NoOp, manager' = manager,
         iface' = [n \in WgName |-> Booted(iface[n])]
  PROVE  Ground'
<1>1. Listed' /\ ByHand'
  BY DEF Listed, ByHand, OpDone, NoOp
<1>2. ASSUME NEW n \in WgName PROVE UnitUp(Booted(iface[n]))
  <2> DEFINE i == iface[n]
  <2> DEFINE d == [i EXCEPT !.kernel = 0, !.unit = "inactive", !.delta = Unchanged]
  <2>1. i \in WgIface
    BY DEF WgTypeOK
  <2>2. d \in WgIface /\ d.kernel = 0 /\ d.unit = "inactive"
    BY <2>1, Manager DEF WgIface
  <2>3. Booted(i) \in {UnitStart(d), IfUp(d), d} /\ (Booted(i) = UnitStart(d) => HasUnits \/ Booted(i) \in {IfUp(d), d})
    BY Manager DEF Booted
  <2> HIDE DEF d, i
  <2>4. HasUnits => UnitUp(UnitStart(d))
    BY <2>2, QuickFields DEF UnitUp, CanUp, Accepts, FailedUnit
  <2>5. UnitUp(d)
    BY <2>2 DEF UnitUp
  <2>6. UnitUp(IfUp(d))
    <3>1. [d EXCEPT !.kernel = 0] = d
      BY <2>2 DEF WgIface
    <3>2. IfUp(d) = WgUp(d)
      BY <3>1 DEF IfUp
    <3> QED BY <2>2, <3>2, QuickFields DEF UnitUp
  <2> QED BY <2>3, <2>4, <2>5, <2>6 DEF i
<1>3. \A n \in WgName : UnitUp(iface[n])'
  BY <1>2 DEF UnitUp, HasUnits
<1> QED BY <1>1, <1>3 DEF Ground

\* The commands left are those of the plan, and an active unit is up.
LEMMA GroundStep == WgTypeOK /\ Ground /\ [WgNext]_wgVars => Ground'
<1> SUFFICES ASSUME WgTypeOK, Ground, [WgNext]_wgVars PROVE Ground'
  OBVIOUS
<1>1. CASE \E n \in WgName, c \in WgConfig :
             \E p \in (WgName \ {n}) \cup {NoIface} : Begins("apply", n, c, p)
  <2>1. PICK n \in WgName, c \in WgConfig :
          \E p \in (WgName \ {n}) \cup {NoIface} : Begins("apply", n, c, p)
    BY <1>1
  <2>2. PICK p \in (WgName \ {n}) \cup {NoIface} : Begins("apply", n, c, p)
    BY <2>1
  <2>3. p # n
    BY <2>2, WireGuardAssumption
  <2> QED BY <2>2, <2>3, GroundBegins
<1>2. CASE \E n \in WgName, kind \in {"start", "stop", "delete"} : Begins(kind, n, 0, NoIface)
  <2>1. PICK n \in WgName, kind \in {"start", "stop", "delete"} : Begins(kind, n, 0, NoIface)
    BY <1>2
  <2>2. NoIface # n
    BY WireGuardAssumption
  <2> QED BY <2>1, <2>2, GroundBegins
<1>3. CASE UNCHANGED wgVars
  BY <1>3 DEF wgVars, Ground, Listed, ByHand, UnitUp, OpDone, Plan, Uci, KeepStopped, Direct,
     HasUnits, Left
<1> QED BY <1>1, <1>2, <1>3, WgCases, GroundGoesOn, GroundFinishes, GroundBoots

\* The first state.
LEMMA GroundInit == WgInit => Ground
<1> SUFFICES ASSUME WgInit PROVE Ground
  OBVIOUS
<1>1. Listed /\ ByHand
  BY DEF WgInit, Listed, ByHand, OpDone, NoOp
<1>2. ASSUME NEW n \in WgName PROVE UnitUp(iface[n])
  <2>1. Absent.unit = "inactive" /\ [Absent EXCEPT !.file = 1, !.kernel = 1].unit = "inactive"
        /\ [Absent EXCEPT !.file = 1, !.kernel = 1, !.unit = "active", !.boot = TRUE].kernel = 1
    BY DEF Absent
  <2> DEFINE a == Absent
  <2> DEFINE b == [Absent EXCEPT !.file = 1, !.kernel = 1]
  <2> DEFINE c == [Absent EXCEPT !.file = 1, !.kernel = 1, !.unit = "active", !.boot = TRUE]
  <2>a. iface \in [WgName -> {a, b} \cup (IF manager \in {"systemd", "openrc"} THEN {c} ELSE {})]
    BY DEF WgInit
  <2> HIDE DEF a, b, c
  <2>b. iface[n] \in {a, b} \/ (manager \in {"systemd", "openrc"} /\ iface[n] = c)
    BY <2>a
  <2>2. a.unit # "active" /\ b.unit # "active" /\ c.kernel # 0
    BY <2>1 DEF a, b, c
  <2>3. CASE iface[n] \in {a, b}
    BY <2>2, <2>3 DEF UnitUp
  <2>4. CASE manager \in {"systemd", "openrc"} /\ iface[n] = c
    BY <2>2, <2>4 DEF UnitUp, HasUnits
  <2> QED BY <2>b, <2>3, <2>4
<1> QED BY <1>1, <1>2 DEF Ground

-----------------------------------------------------------------------------
(* WgSuccessIsReal: what the commands that were given have achieved.       *)

StartDone  == op.kind = "start" /\ ~ Left("start") /\ ~ Left("up") => iface[op.name].kernel # 0
StopDone   == op.kind = "stop" /\ ~ Left("assert") => iface[op.name].kernel = 0
DeleteDone ==
  op.kind = "delete" =>
    /\ ~ Left("assert") => iface[op.name].kernel = 0
    /\ ~ Left("unlink") => iface[op.name].file = 0
\* The file is written before anything is brought up, and nothing is brought down after.
ApplyDone ==
  op.kind = "apply" /\ op.stage = "before" =>
    /\ Ordered("write", "restart") /\ Ordered("write", "up") /\ Ordered("down", "up")
    /\ Left("down") => Left("up")
    /\ ~ Left("write") => iface[op.name].file = op.config
    /\ ~ Left("restart") /\ ~ Left("up") => iface[op.name].kernel = op.config
CleanDone ==
  op.stage = "cleanup" =>
    /\ iface[op.name].file = op.config /\ iface[op.name].kernel = op.config
    /\ ~ Left("assert_prev") => iface[op.prev].kernel = 0
    /\ ~ Left("unlink_prev") => iface[op.prev].file = 0

Progress ==
  /\ ~ OpDone /\ manager # "openwrt" => StartDone /\ StopDone /\ DeleteDone /\ ApplyDone /\ CleanDone
  /\ WgSuccessIsReal

\* Which commands may fail and the operation goes on all the same.
LEMMA Ignorable ==
  ASSUME WgTypeOK, Ground, GoesOn, manager # "openwrt"
  PROVE  /\ Given1 \in Plan /\ op.name \in WgName /\ iface[op.name] \in WgIface
         /\ \A c : Left(c) <=> Left(c)' \/ c = Given1
         /\ Given1 \notin {"down", "down_prev", "disable", "disable_prev", "stop"} =>
              iface' = HostAfter(Given1) /\ Works(Given1, iface[Subject(Given1)], Direct)
         /\ Subject(Given1) = (IF op.stage = "cleanup" THEN op.prev ELSE op.name)
         /\ iface'[op.name] \in
              IF op.stage = "cleanup" THEN {iface[op.name]}
              ELSE {iface[op.name], Effect(Given1, iface[op.name])}
         /\ iface' = HostAfter(Given1) /\ op.stage # "cleanup" =>
              iface'[op.name] = Effect(Given1, iface[op.name])
<1>0. /\ ~ OpDone /\ op.todo # <<>> /\ op.todo \in Seq(Plan) /\ op.name \in WgName
      /\ iface[op.name] \in WgIface /\ op.todo \in Seq(WgCommand) /\ op'.todo = Tail(op.todo)
      /\ op.kind \in {"apply", "start", "stop", "delete"} /\ op.stage \in {"before", "rollback", "cleanup"}
      /\ op.kind # "apply" => op.stage = "before"
      /\ op.prev # op.name
  BY DEF GoesOn, Ground, Listed, WgTypeOK, WgOperation, OpDone
<1>1. Given1 \in Plan /\ Given1 \in WgCommand /\ \A c : Left(c) <=> In(op'.todo, c) \/ c = Given1
  BY <1>0, OneFewer DEF Left, Given1
<1>2. Given1 \notin {"down", "down_prev", "disable", "disable_prev", "stop"} =>
        iface' = HostAfter(Given1) /\ Works(Given1, iface[Subject(Given1)], Direct)
  <2>1. Given1 \notin {"uci_delete", "uci_prev", "uci_commit"}
    BY <1>0, <1>1 DEF Plan, Uci
  <2> QED BY <2>1 DEF GoesOn, AllowedToFail
<1>3. Subject(Given1) = (IF op.stage = "cleanup" THEN op.prev ELSE op.name) /\ Given1 # "uci_commit"
  <2>1. op.stage # "cleanup" => Given1 \notin {"stop_prev", "down_prev", "assert_prev", "disable_prev",
                                               "unlink_prev", "uci_prev"}
    BY <1>0, <1>1 DEF Plan, Uci
  <2>2. op.stage = "cleanup" =>
          Given1 \in {"stop_prev", "down_prev", "assert_prev", "disable_prev", "unlink_prev", "uci_prev"}
    BY <1>0, <1>1 DEF Plan, Uci
  <2>3. Given1 # "uci_commit"
    BY <1>0, <1>1 DEF Plan, Uci
  <2> QED BY <2>1, <2>2, <2>3 DEF Subject
<1>4. HostAfter(Given1)[op.name] =
        IF op.stage = "cleanup" THEN iface[op.name] ELSE Effect(Given1, iface[op.name])
  BY <1>0, <1>3, HostFields
<1>5. iface' \in {iface, HostAfter(Given1)}
  BY DEF GoesOn
<1>6. \A c : Left(c) <=> Left(c)' \/ c = Given1
  BY <1>1 DEF Left
<1> QED BY <1>0, <1>1, <1>2, <1>3, <1>4, <1>5, <1>6

\* A restart that succeeds has brought up what is in the file.
LEMMA RestartWorks ==
  ASSUME WgTypeOK, manager # "openwrt", NEW i \in WgIface, Works("restart", i, Direct)
  PROVE  LET j == Effect("restart", i) IN j.kernel = i.file /\ j.file = i.file
<1>1. Effect("restart", i) = DoRestart(i, Direct)
  BY EffectFields
<1>2. manager = "direct" \/ HasUnits
  BY Manager
<1>3. CASE HasUnits /\ ~ Direct
  <2>1. Effect("restart", i) = UnitRestart(i) /\ UnitRestart(i).unit = "active"
    BY <1>1, <1>3, Manager DEF DoRestart, Works
  <2> QED BY <2>1, RestartFields
<1>4. CASE ~ (HasUnits /\ ~ Direct)
  <2>1. Effect("restart", i) = WgUp(WgDown(i))
    BY <1>1, <1>4 DEF DoRestart
  <2>2. CanUp(WgDown(i))
    BY <1>2, <1>4 DEF Works
  <2> QED BY <2>1, <2>2, DownUpFields
<1> QED BY <1>3, <1>4

\* Starting, stopping and deleting.
LEMMA PlainGoesOn ==
  ASSUME WgTypeOK, Ground, Progress, GoesOn, manager # "openwrt"
  PROVE  StartDone' /\ StopDone' /\ DeleteDone'
<1> DEFINE i == iface[op.name]
<1> DEFINE j == iface'[op.name]
<1> DEFINE cmd == Given1
<1>0. /\ op'.kind = op.kind /\ op'.name = op.name /\ op'.stage = op.stage /\ ~ OpDone
      /\ StartDone /\ StopDone /\ DeleteDone /\ UnitUp(i) /\ i \in WgIface
      /\ op.kind # "apply" => op.stage = "before"
  BY Ignorable DEF GoesOn, SameOp, Progress, Ground, Listed
<1>1. /\ cmd \in Plan /\ \A c : Left(c) <=> Left(c)' \/ c = cmd
      /\ cmd \notin {"down", "down_prev", "disable", "disable_prev", "stop"} =>
           iface' = HostAfter(cmd) /\ Works(cmd, iface[Subject(cmd)], Direct)
      /\ op.stage # "cleanup" => /\ Subject(cmd) = op.name /\ j \in {i, Effect(cmd, i)}
                                 /\ iface' = HostAfter(cmd) => j = Effect(cmd, i)
  BY Ignorable
<1> HIDE DEF i, j, cmd
<1>2. ASSUME op.kind = "start" PROVE j.kernel # 0
  <2>1. cmd \in {"start", "up"} /\ op.stage # "cleanup"
    BY <1>0, <1>1, <1>2 DEF Plan
  <2>2. j = Effect(cmd, i) /\ Works(cmd, i, Direct)
    BY <1>1, <2>1 DEF i
  <2>3. CASE cmd = "up"
    <3>1. CanUp(i) /\ j = WgUp(i)
      BY <1>0, <2>2, <2>3, EffectFields DEF Works
    <3> QED BY <1>0, <3>1, QuickFields DEF CanUp, Accepts
  <2>4. CASE cmd = "start"
    <3>1. (i.unit = "active" \/ CanUp(i)) /\ j = DoStart(i)
      BY <1>0, <2>2, <2>4, EffectFields DEF Works
    <3>2. HasUnits => j = UnitStart(i)
      BY <3>1 DEF DoStart
    <3>3. ~ HasUnits => j = WgUp(i) /\ CanUp(i)
      BY <1>0, <3>1 DEF DoStart, UnitUp
    <3>4. CanUp(i) => i.file # 0
      BY DEF CanUp, Accepts
    <3> QED BY <1>0, <3>1, <3>2, <3>3, <3>4, QuickFields DEF UnitUp
  <2> QED BY <2>1, <2>3, <2>4
<1>3. ASSUME op.kind = "stop", ~ Left("assert")' PROVE j.kernel = 0
  <2>1. cmd \in {"stop", "down", "assert"} /\ op.stage # "cleanup"
    BY <1>0, <1>1, <1>3 DEF Plan
  <2>2. CASE cmd = "assert"
    <3>1. j = Effect(cmd, i) /\ Works(cmd, i, Direct)
      BY <1>1, <2>1, <2>2 DEF i
    <3>2. i.kernel = 0
      BY <2>2, <3>1 DEF Works
    <3> QED BY <1>0, <2>2, <3>1, <3>2, EffectFields DEF Undisturbed, SameRun
  <2>3. CASE cmd # "assert"
    <3>1. i.kernel = 0
      BY <1>0, <1>1, <1>3, <2>3 DEF StopDone, i
    <3>2. WgDown(i).kernel = 0 /\ UnitStop(i).kernel = 0
      BY <1>0, <3>1, QuickFields
    <3>3. cmd = "stop" => Effect(cmd, i) \in {WgDown(i), UnitStop(i)}
      BY <1>0, EffectFields, Manager DEF DoStop
    <3>4. cmd = "down" => Effect(cmd, i) = WgDown(i)
      BY <1>0, EffectFields
    <3> QED BY <1>1, <2>1, <2>3, <3>1, <3>2, <3>3, <3>4
  <2> QED BY <2>2, <2>3
<1>4. ASSUME op.kind = "delete"
      PROVE  (~ Left("assert")' => j.kernel = 0) /\ (~ Left("unlink")' => j.file = 0)
  <2>1. cmd \in {"assert", "disable", "unlink"} /\ op.stage # "cleanup"
    BY <1>0, <1>1, <1>4 DEF Plan, Uci
  <2>2. CASE cmd = "assert"
    <3>1. j = Effect(cmd, i) /\ Works(cmd, i, Direct)
      BY <1>1, <2>1, <2>2 DEF i
    <3>2. i.kernel = 0 /\ SameRun(i, j)
      BY <1>0, <2>2, <3>1, EffectFields DEF Works, Undisturbed
    <3>3. ~ Left("unlink")' => i.file = 0
      BY <1>0, <1>1, <1>4, <2>2 DEF DeleteDone, i
    <3> QED BY <3>2, <3>3 DEF SameRun
  <2>3. CASE cmd = "disable"
    <3>1. (~ Left("assert")' => i.kernel = 0) /\ (~ Left("unlink")' => i.file = 0)
      BY <1>0, <1>1, <1>4, <2>3 DEF DeleteDone, i
    <3>2. j = i \/ SameRun(i, j) \/ SameRun(UnitStop(i), j)
      BY <1>0, <1>1, <2>1, <2>3, EffectFields
    <3>3. UnitStop(i).file = i.file /\ (i.kernel = 0 => UnitStop(i).kernel = 0)
      BY <1>0, QuickFields
    <3> QED BY <3>1, <3>2, <3>3 DEF SameRun
  <2>4. CASE cmd = "unlink"
    <3>1. j = Effect(cmd, i)
      BY <1>1, <2>1, <2>4
    <3>2. j.file = 0 /\ j.kernel = i.kernel
      BY <1>0, <2>4, <3>1, EffectFields
    <3>3. ~ Left("assert")' => i.kernel = 0
      BY <1>0, <1>1, <1>4, <2>4 DEF DeleteDone, i
    <3> QED BY <3>2, <3>3
  <2> QED BY <2>1, <2>2, <2>3, <2>4
<1> QED BY <1>0, <1>2, <1>3, <1>4 DEF StartDone, StopDone, DeleteDone, j

\* Applying.
LEMMA ApplyGoesOn ==
  ASSUME WgTypeOK, Ground, Progress, GoesOn, manager # "openwrt"
  PROVE  ApplyDone'
<1> DEFINE i == iface[op.name]
<1> DEFINE j == iface'[op.name]
<1> DEFINE cmd == Given1
<1> SUFFICES ASSUME op.kind = "apply", op.stage = "before" PROVE ApplyDone'
  BY DEF ApplyDone, GoesOn, SameOp
<1>0. /\ op'.kind = op.kind /\ op'.name = op.name /\ op'.stage = op.stage /\ op'.config = op.config
      /\ ~ OpDone /\ ApplyDone /\ i \in WgIface /\ op.todo \in Seq(Plan) /\ op.todo # <<>>
      /\ op'.todo = Tail(op.todo)
  BY Ignorable DEF GoesOn, SameOp, Progress, Ground, Listed
<1>1. /\ cmd \in Plan /\ \A c : Left(c) <=> Left(c)' \/ c = cmd
      /\ cmd \notin {"down", "down_prev", "disable", "disable_prev", "stop"} =>
           iface' = HostAfter(cmd) /\ Works(cmd, iface[Subject(cmd)], Direct)
      /\ Subject(cmd) = op.name /\ j \in {i, Effect(cmd, i)}
      /\ iface' = HostAfter(cmd) => j = Effect(cmd, i)
  BY Ignorable
<1>2. /\ \A a, b : Ordered(a, b) => Ordered(a, b)'
      /\ \A a, b : Ordered(a, b) /\ cmd = b => ~ Left(a)
      /\ \A a, b : Ordered(a, b) /\ cmd = a /\ Left(b) => Left(b)'
  <2>1. \A a, b : Before(op.todo, a, b) =>
          /\ Before(op'.todo, a, b) /\ (Head(op.todo) = b => ~ In(op.todo, a))
          /\ (Head(op.todo) = a /\ In(op.todo, b) => In(op'.todo, b))
    BY <1>0, OneFewer
  <2> QED BY <2>1 DEF Ordered, Left, Given1
<1>3. /\ Ordered("write", "restart") /\ Ordered("write", "up") /\ Ordered("down", "up")
      /\ Left("down") => Left("up")
      /\ ~ Left("write") => i.file = op.config
      /\ ~ Left("restart") /\ ~ Left("up") => i.kernel = op.config
  BY <1>0 DEF ApplyDone
<1> HIDE DEF i, j, cmd
<1>4. cmd \in {"unlink_backup", "write_backup", "write", "restart", "enable", "down", "up"}
  BY <1>1 DEF Plan, Uci
<1>5. Left("down")' => Left("up")'
  <2> SUFFICES ASSUME Left("down")' PROVE Left("up")'
    OBVIOUS
  <2>1. Left("up") /\ cmd # "up"
    BY <1>1, <1>2, <1>3
  <2> QED BY <1>1, <2>1
<1>6. /\ ~ Left("write")' => j.file = op.config
      /\ ~ Left("restart")' /\ ~ Left("up")' => j.kernel = op.config
  <2>1. CASE cmd \in {"unlink_backup", "write_backup", "enable"}
    <3>a. j = Effect(cmd, i)
      BY <1>1, <2>1
    <3>b. i \in WgIface /\ cmd \in Undisturbed
      BY <1>0, <2>1 DEF Undisturbed
    <3>1. SameRun(i, j)
      BY <3>a, <3>b, EffectFields
    <3> QED BY <1>1, <1>3, <2>1, <3>1 DEF SameRun
  <2>2. CASE cmd = "write"
    <3>a. j = Effect("write", i) /\ i \in WgIface
      BY <1>0, <1>1, <2>2
    <3>1. j.file = op.config /\ j.kernel = i.kernel
      BY <3>a, EffectFields
    <3> QED BY <1>1, <1>3, <2>2, <3>1
  <2>3. CASE cmd = "down"
    <3>a. j \in {i, Effect("down", i)} /\ i \in WgIface
      BY <1>0, <1>1, <2>3
    <3>b. Effect("down", i) = WgDown(i)
      BY <3>a, EffectFields
    <3>1. j.file = i.file
      BY <3>a, <3>b, QuickFields
    <3>2. Left("up")'
      BY <1>1, <1>2, <1>3, <2>3
    <3> QED BY <1>1, <1>3, <2>3, <3>1, <3>2
  <2>4. CASE cmd = "up"
    <3>1. i.file = op.config
      BY <1>2, <1>3, <2>4
    <3>2. j = Effect(cmd, i) /\ Works(cmd, i, Direct)
      BY <1>1, <2>4 DEF i
    <3>3. CanUp(i) /\ j = WgUp(i)
      BY <1>0, <2>4, <3>2, EffectFields DEF Works
    <3> QED BY <1>0, <3>1, <3>3, QuickFields
  <2>5. CASE cmd = "restart"
    <3>1. i.file = op.config
      BY <1>2, <1>3, <2>5
    <3>2. j = Effect(cmd, i) /\ Works(cmd, i, Direct)
      BY <1>1, <2>5 DEF i
    <3> QED BY <1>0, <2>5, <3>1, <3>2, RestartWorks
  <2> QED BY <1>4, <2>1, <2>2, <2>3, <2>4, <2>5
<1> QED BY <1>0, <1>2, <1>3, <1>5, <1>6 DEF ApplyDone, j

\* Cleaning up the former name, which leaves the new one alone.
LEMMA CleanGoesOn ==
  ASSUME WgTypeOK, Ground, Progress, GoesOn, manager # "openwrt"
  PROVE  CleanDone'
<1> DEFINE i == iface[op.prev]
<1> DEFINE j == iface'[op.prev]
<1> DEFINE cmd == Given1
<1> SUFFICES ASSUME op.stage = "cleanup" PROVE CleanDone'
  BY DEF CleanDone, GoesOn, SameOp
<1>0. /\ op'.prev = op.prev /\ op'.name = op.name /\ op'.stage = op.stage /\ op'.config = op.config
      /\ ~ OpDone /\ CleanDone /\ op.prev \in WgName /\ i \in WgIface /\ op.kind = "apply"
      /\ iface' \in {iface, HostAfter(cmd)}
  <2>1. ~ OpDone
    BY DEF GoesOn
  <2> QED BY <2>1 DEF GoesOn, SameOp, Progress, Ground, Listed, WgTypeOK
<1>1. /\ cmd \in Plan /\ \A c : Left(c) <=> Left(c)' \/ c = cmd
      /\ cmd \notin {"down", "down_prev", "disable", "disable_prev", "stop"} =>
           iface' = HostAfter(cmd) /\ Works(cmd, iface[Subject(cmd)], Direct)
      /\ Subject(cmd) = op.prev /\ iface'[op.name] = iface[op.name]
  BY Ignorable
<1>2. cmd \in {"stop_prev", "down_prev", "assert_prev", "disable_prev", "unlink_prev"}
  BY <1>0, <1>1 DEF Plan, Uci
<1>3. HostAfter(cmd)[op.prev] = Effect(cmd, i)
  BY <1>0, <1>1, <1>2, HostFields
<1>4. /\ iface[op.name].file = op.config /\ iface[op.name].kernel = op.config
      /\ ~ Left("assert_prev") => i.kernel = 0
      /\ ~ Left("unlink_prev") => i.file = 0
  BY <1>0 DEF CleanDone
<1>5. j \in {i, Effect(cmd, i)} /\ (iface' = HostAfter(cmd) => j = Effect(cmd, i))
  BY <1>0, <1>3
<1> HIDE DEF i, j, cmd
<1>6. (~ Left("assert_prev")' => j.kernel = 0) /\ (~ Left("unlink_prev")' => j.file = 0)
  <2>1. CASE cmd = "assert_prev"
    <3>1. j = Effect(cmd, i) /\ Works(cmd, i, Direct)
      BY <1>1, <1>5, <2>1 DEF i
    <3>2. i.kernel = 0 /\ SameRun(i, j)
      BY <1>0, <2>1, <3>1, EffectFields DEF Works, Undisturbed
    <3>3. ~ Left("unlink_prev")' => i.file = 0
      BY <1>1, <1>4, <2>1
    <3> QED BY <3>2, <3>3 DEF SameRun
  <2>2. CASE cmd = "unlink_prev"
    <3>1. j = Effect(cmd, i)
      BY <1>1, <1>5, <2>2
    <3>2. j.file = 0 /\ j.kernel = i.kernel
      BY <1>0, <2>2, <3>1, EffectFields
    <3>3. ~ Left("assert_prev")' => i.kernel = 0
      BY <1>1, <1>4, <2>2
    <3> QED BY <3>2, <3>3
  <2>3. CASE cmd \in {"stop_prev", "down_prev", "disable_prev"}
    <3>1. (~ Left("assert_prev")' => i.kernel = 0) /\ (~ Left("unlink_prev")' => i.file = 0)
      BY <1>1, <1>4, <2>3
    <3>2. CASE cmd = "disable_prev"
      <4>1. SameRun(i, Effect(cmd, i))
        BY <1>0, <3>2, EffectFields DEF Undisturbed
      <4> QED BY <1>5, <3>1, <4>1 DEF SameRun
    <3>3. CASE cmd # "disable_prev"
      <4>1. cmd = "down_prev" => Effect(cmd, i) = WgDown(i)
        BY <1>0, EffectFields
      <4>2. cmd = "stop_prev" => Effect(cmd, i) \in {WgDown(i), UnitStop(i)}
        BY <1>0, EffectFields, Manager DEF DoStop
      <4>3. j \in {i, WgDown(i), UnitStop(i)}
        BY <1>5, <2>3, <3>3, <4>1, <4>2
      <4>4. /\ WgDown(i).file = i.file /\ UnitStop(i).file = i.file
            /\ i.kernel = 0 => WgDown(i).kernel = 0 /\ UnitStop(i).kernel = 0
        BY <1>0, QuickFields
      <4> QED BY <3>1, <4>3, <4>4
    <3> QED BY <3>2, <3>3
  <2> QED BY <1>2, <2>1, <2>2, <2>3
<1> QED BY <1>0, <1>1, <1>4, <1>6 DEF CleanDone, j

\* An operation begins.
LEMMA ProgressBegins ==
  ASSUME WgTypeOK, NEW kind \in {"apply", "start", "stop", "delete"}, NEW n \in WgName, NEW c, NEW p,
         Begins(kind, n, c, p)
  PROVE  Progress'
<1>1. /\ op'.kind = kind /\ op'.name = n /\ op'.config = c /\ op'.stage = "before"
      /\ op'.todo = Commands(kind, n) /\ iface' = iface /\ manager' = manager
  BY DEF Begins
<1>2. WgSuccessIsReal' /\ CleanDone'
  BY <1>1 DEF WgSuccessIsReal, CleanDone
<1>3. StartDone'
  BY <1>1, OtherLists DEF StartDone, Left, Commands
<1>4. StopDone'
  BY <1>1, OtherLists DEF StopDone, Left, Commands
<1>5. manager # "openwrt" => DeleteDone'
  BY <1>1, OtherLists DEF DeleteDone, Left, Commands
<1>6. manager # "openwrt" => ApplyDone'
  BY <1>1, ApplyList DEF ApplyDone, Left, Ordered, Commands
<1> QED BY <1>1, <1>2, <1>3, <1>4, <1>5, <1>6 DEF Progress

\* All commands were given: the operation has succeeded, or goes on to the clean-up.
LEMMA ProgressFinishes ==
  ASSUME WgTypeOK, Ground, Progress, Finishes
  PROVE  Progress'
<1>0. /\ SameOp /\ ~ OpDone /\ iface' = iface /\ op.todo = <<>>
      /\ op.kind \in {"apply", "start", "stop", "delete"}
      /\ op.kind # "apply" => op.stage = "before"
      /\ op.prev \in WgName \cup {NoIface}
  BY DEF Finishes, Ground, Listed, WgTypeOK, WgOperation
<1>1. \A c : ~ Left(c)
  BY <1>0, InLists DEF Left
<1>2. manager # "openwrt" => StartDone /\ StopDone /\ DeleteDone /\ ApplyDone /\ CleanDone
  BY <1>0 DEF Progress
<1>3. CASE op'.stage = "restored"
  BY <1>3 DEF Progress, OpDone, WgSuccessIsReal
<1>4. CASE op'.stage = "cleanup"
  <2>1. op.stage = "before" /\ op.kind = "apply" /\ op'.todo = CleanupCommands(op.prev)
    BY <1>4 DEF Finishes
  <2>2. manager # "openwrt" => iface[op.name].file = op.config /\ iface[op.name].kernel = op.config
    BY <1>1, <1>2, <2>1 DEF ApplyDone
  <2>3. manager # "openwrt" => CleanDone'
    BY <1>0, <2>1, <2>2, CleanupList DEF CleanDone, Left, SameOp
  <2>4. StartDone' /\ StopDone' /\ DeleteDone' /\ ApplyDone'
    BY <1>0, <1>4, <2>1 DEF StartDone, StopDone, DeleteDone, ApplyDone, SameOp
  <2> QED BY <1>0, <1>4, <2>3, <2>4 DEF Progress, WgSuccessIsReal, SameOp
<1>5. CASE op'.stage = "ok"
  <2>1. op.stage \in {"before", "cleanup"} /\ (op.stage = "before" /\ op.kind = "apply" => op.prev = NoIface)
    BY <1>5 DEF Finishes
  <2>2. ASSUME manager # "openwrt"
        PROVE  /\ op.kind = "apply" =>
                    /\ iface[op.name].file = op.config /\ iface[op.name].kernel = op.config
                    /\ op.prev # NoIface => iface[op.prev].file = 0 /\ iface[op.prev].kernel = 0
               /\ op.kind = "start" => iface[op.name].kernel # 0
               /\ op.kind = "stop" => iface[op.name].kernel = 0
               /\ op.kind = "delete" => iface[op.name].file = 0 /\ iface[op.name].kernel = 0
    BY <1>0, <1>1, <1>2, <2>1, <2>2 DEF StartDone, StopDone, DeleteDone, ApplyDone, CleanDone
  <2>3. WgSuccessIsReal'
    BY <1>0, <2>2 DEF WgSuccessIsReal, SameOp
  <2> QED BY <1>5, <2>3 DEF Progress, OpDone
<1> QED BY <1>3, <1>4, <1>5 DEF Finishes

\* Every step.
LEMMA ProgressStep == WgTypeOK /\ Ground /\ Progress /\ [WgNext]_wgVars => Progress'
<1> SUFFICES ASSUME WgTypeOK, Ground, Progress, [WgNext]_wgVars PROVE Progress'
  OBVIOUS
<1>1. CASE GoesOn
  <2>1. op'.stage = op.stage /\ ~ OpDone /\ manager' = manager
    BY <1>1 DEF GoesOn, SameOp
  <2>2. WgSuccessIsReal'
    BY <2>1 DEF WgSuccessIsReal, OpDone
  <2> QED BY <1>1, <2>1, <2>2, PlainGoesOn, ApplyGoesOn, CleanGoesOn DEF Progress
<1>2. CASE Fails
  <2>1. op'.stage \in {"failed", "cleanup_failed"} => Progress'
    BY DEF Progress, OpDone, WgSuccessIsReal
  <2>2. CASE op'.stage \notin {"failed", "cleanup_failed"}
    <3>1. op'.stage = "rollback" /\ op'.kind = "apply"
      BY <1>2, <2>2 DEF Fails, Written, SameOp
    <3> QED BY <3>1 DEF Progress, WgSuccessIsReal, StartDone, StopDone, DeleteDone, ApplyDone,
               CleanDone
  <2> QED BY <2>1, <2>2
<1>3. CASE op' = NoOp
  BY <1>3 DEF NoOp, Progress, OpDone, WgSuccessIsReal
<1>4. CASE UNCHANGED wgVars
  BY <1>4, ZenonT(60) DEF wgVars, Progress, WgSuccessIsReal, OpDone, StartDone, StopDone, DeleteDone, ApplyDone,
              CleanDone, Left, Ordered
<1> QED BY <1>1, <1>2, <1>3, <1>4, WgCases, ProgressBegins, ProgressFinishes

\* An operation of the agent on a WireGuard interface that reports success has done what
\* it says, whichever of its commands were allowed to fail: the file and the interface
\* have the new configuration and the former name is gone, what was started is up, what
\* was stopped or deleted is not.
THEOREM WgSuccessIsAlwaysReal == WgSpec => []WgSuccessIsReal
<1>1. WgInit => Progress
  BY DEF WgInit, NoOp, Progress, OpDone, WgSuccessIsReal
<1>2. Progress => WgSuccessIsReal
  BY DEF Progress
<1> QED BY <1>1, <1>2, GroundInit, GroundStep, ProgressStep, WgTypeCorrect, PTL DEF WgSpec

-----------------------------------------------------------------------------
(* FailedApplyRestores.                                                    *)

\* An apply that goes through the service manager: a new interface runs as an active unit
\* or not at all; one that was up by hand stays up, because its unit cannot start.
HeldAt(i) ==
  ~ Direct =>
    /\ op.was.file = 0 /\ op.was.kernel = 0 => i.unit = "active" \/ i.kernel = 0
    /\ op.was.file # 0 /\ op.was.unit = "inactive" /\ op.was.kernel # 0 =>
         i.unit # "active" /\ i.kernel = op.was.kernel
Restorable == ~ OpDone /\ op.kind = "apply" /\ op.stage # "cleanup" /\ manager # "openwrt" /\ op.clean
Held == Restorable => HeldAt(iface[op.name])

\* What the commands of an undisturbed rollback that were given have put back.
PutBack ==
  op.stage = "rollback" /\ op.clean =>
    LET i == iface[op.name] IN
    IF manager = "openwrt" THEN Left("uci_restore") \/ i.file = op.was.file
    ELSE IF op.was.file = 0
    THEN /\ Ordered("stop", "unlink")
         /\ Left("stop") => Left("unlink") /\ i.file # 0
         /\ ~ Left("unlink") => i.file = 0
         /\ op.was.kernel = 0 /\ ~ Left("stop") => i.kernel = 0
    ELSE /\ Ordered("restore", "restart")
         /\ ~ Left("restore") => i.file = op.was.file
         /\ ~ KeepStopped /\ ~ Left("restart") => i.kernel = op.was.file

Restoring == Held /\ PutBack /\ FailedApplyRestores

\* Where the first command of an apply and of its rollback has its effect.
LEMMA AtName ==
  ASSUME WgTypeOK, Ground, ~ OpDone, op.todo # <<>>, op.kind = "apply", op.stage # "cleanup",
         Given1 # "uci_commit"
  PROVE  /\ Given1 \in Plan /\ op.name \in WgName /\ iface[op.name] \in WgIface
         /\ HostAfter(Given1)[op.name] = Effect(Given1, iface[op.name])
         /\ op.todo \in Seq(Plan) /\ op.stage \in {"before", "rollback"}
<1>0. /\ op.todo \in Seq(Plan) /\ op.name \in WgName /\ iface[op.name] \in WgIface
      /\ op.stage \in {"before", "rollback"}
  BY DEF Ground, Listed, WgTypeOK, WgOperation, OpDone
<1>1. Given1 \in Plan
  BY <1>0, OneFewer DEF Given1
<1>2. Subject(Given1) = op.name
  BY <1>0, <1>1 DEF Plan, Uci, Subject
<1> QED BY <1>0, <1>1, <1>2, HostFields

\* One command, with or without its effect, keeps what is held.
LEMMA HeldCommand ==
  ASSUME WgTypeOK, Ground, Progress, Restoring, Restorable, op.todo # <<>>,
         NEW f \in {iface, HostAfter(Given1)}
  PROVE  HeldAt(f[op.name])
<1> DEFINE i == iface[op.name]
<1> DEFINE cmd == Given1
<1> SUFFICES ASSUME ~ Direct, f = HostAfter(cmd) PROVE HeldAt(f[op.name])
  BY DEF Restoring, Held, HeldAt
<1>0. /\ ~ OpDone /\ op.kind = "apply" /\ op.stage # "cleanup" /\ manager # "openwrt" /\ op.clean
      /\ HeldAt(i) /\ HasUnits
  BY DEF Restorable, Restoring, Held, Direct
<1>1. cmd # "uci_commit"
  <2>1. op.todo \in Seq(Plan) /\ cmd \in Plan
    BY <1>0, OneFewer DEF Ground, Listed, Given1
  <2> QED BY <1>0, <2>1 DEF Plan, Uci
<1>2. /\ cmd \in Plan /\ op.name \in WgName /\ i \in WgIface /\ op.todo \in Seq(Plan)
      /\ f[op.name] = Effect(cmd, i) /\ op.stage \in {"before", "rollback"}
  BY <1>0, <1>1, AtName
<1>3. /\ \A c : Left(c) <=> In(Tail(op.todo), c) \/ c = cmd
      /\ \A a, b : Ordered(a, b) /\ cmd = b => ~ Left(a)
  <2>1. /\ \A c : In(op.todo, c) <=> In(Tail(op.todo), c) \/ c = Head(op.todo)
        /\ \A a, b : Before(op.todo, a, b) => (Head(op.todo) = b => ~ In(op.todo, a))
    BY <1>2, OneFewer
  <2> QED BY <2>1 DEF Left, Ordered, Given1
<1> HIDE DEF i, cmd
<1>4. CASE cmd \in Undisturbed \cup {"write", "unlink", "restore"}
  <2>1. Effect(cmd, i).kernel = i.kernel /\ Effect(cmd, i).unit = i.unit
    BY <1>2, <1>4, EffectFields DEF SameRun
  <2> QED BY <1>0, <1>2, <2>1 DEF HeldAt
<1>5. CASE cmd = "restart"
  <2>1. Effect(cmd, i) = UnitRestart(i)
    BY <1>0, <1>2, <1>5, EffectFields DEF DoRestart
  <2>2. CASE op.stage = "before"
    <3>1. i.file = op.config /\ op.config # 0
      <4>1. ApplyDone /\ op.config \in WgConfig
        BY <1>0 DEF Progress, Ground, Listed
      <4>2. Ordered("write", "restart") /\ (~ Left("write") => i.file = op.config)
        BY <1>0, <2>2, <4>1 DEF ApplyDone, i
      <4> QED BY <1>3, <1>5, <4>1, <4>2 DEF WgConfig
    <3> QED BY <1>0, <1>2, <2>1, <3>1, RestartFields DEF HeldAt
  <2>3. CASE op.stage = "rollback"
    <3>1. op.was.file # 0 /\ ~ KeepStopped
      BY <1>0, <1>2, <1>5, <2>3 DEF Plan
    <3> QED BY <3>1 DEF HeldAt, KeepStopped
  <2> QED BY <1>2, <2>2, <2>3
<1>6. CASE cmd = "stop"
  <2>1. op.stage = "rollback"
    BY <1>0, <1>2, <1>6 DEF Plan, Uci
  <2>2. Effect(cmd, i) = UnitStop(i)
    BY <1>0, <1>2, <1>6, EffectFields DEF DoStop
  <2>3. CASE op.was.file = 0
    <3>1. Left("stop")
      BY <1>3, <1>6
    <3>2. i.file # 0
      BY <1>0, <2>1, <2>3, <3>1 DEF Restoring, PutBack, i
    <3> QED BY <1>0, <1>2, <2>2, <2>3, <3>2, QuickFields DEF HeldAt
  <2>4. CASE op.was.file # 0
    BY <1>0, <1>2, <2>2, <2>4, QuickFields DEF HeldAt
  <2> QED BY <2>3, <2>4
<1>7. cmd \in Undisturbed \cup {"write", "unlink", "restore", "restart", "stop"}
  BY <1>0, <1>2 DEF Plan, Uci, Undisturbed
<1> QED BY <1>4, <1>5, <1>6, <1>7

\* The rollback as a list.
LEMMA RollbackList ==
  ASSUME WgTypeOK
  PROVE  /\ manager = "openwrt" => In(ApplyRollback, "uci_restore")
         /\ manager # "openwrt" /\ op.was.file = 0 =>
              /\ Before(ApplyRollback, "stop", "unlink")
              /\ In(ApplyRollback, "stop") /\ In(ApplyRollback, "unlink")
         /\ manager # "openwrt" /\ op.was.file # 0 =>
              /\ Before(ApplyRollback, "restore", "restart") /\ In(ApplyRollback, "restore")
              /\ ~ KeepStopped => In(ApplyRollback, "restart")
<1>1. ASSUME NEW a, NEW b, NEW c, a # b, a # c PROVE Before(<<a, b>>, a, c)
  <2>1. Len(<<a, b>>) = 2 /\ <<a, b>>[1] = a /\ <<a, b>>[2] = b
    OBVIOUS
  <2>2. \A k \in 1..2 : k = 1 \/ k = 2
    OBVIOUS
  <2> SUFFICES ASSUME NEW j \in 1..2, NEW k \in 1..2, <<a, b>>[j] = a, <<a, b>>[k] = c PROVE j < k
    BY <2>1 DEF Before
  <2>3. j = 1 /\ k = 2
    BY <1>1, <2>1, <2>2
  <2> QED BY <2>3
<1>2. CASE manager = "openwrt"
  BY <1>2, InLists DEF ApplyRollback
<1>3. CASE manager # "openwrt" /\ op.was.file = 0
  <2>1. ApplyRollback = <<"stop", "unlink">>
    BY <1>3 DEF ApplyRollback
  <2>2. Before(<<"stop", "unlink">>, "stop", "unlink")
    BY <1>1
  <2> QED BY <1>3, <2>1, <2>2, InLists
<1>4. CASE manager # "openwrt" /\ op.was.file # 0
  <2>1. ApplyRollback = IF KeepStopped THEN <<"restore", "stop">> ELSE <<"restore", "restart">>
    BY <1>4 DEF ApplyRollback, KeepStopped
  <2>2. /\ Before(<<"restore", "stop">>, "restore", "restart")
        /\ Before(<<"restore", "restart">>, "restore", "restart")
    BY <1>1
  <2>3. Before(ApplyRollback, "restore", "restart")
    BY <2>1, <2>2
  <2>4. In(ApplyRollback, "restore") /\ (~ KeepStopped => In(ApplyRollback, "restart"))
    BY <2>1, InLists
  <2> QED BY <1>4, <2>3, <2>4
<1> QED BY <1>2, <1>3, <1>4

\* A command of the rollback that did its work.
LEMMA PutBackGoesOn ==
  ASSUME WgTypeOK, Ground, Progress, Saved, Restoring, GoesOn
  PROVE  PutBack'
<1> DEFINE i == iface[op.name]
<1> DEFINE j == iface'[op.name]
<1> DEFINE cmd == Given1
<1> SUFFICES ASSUME op'.stage = "rollback", op'.clean PROVE PutBack'
  BY DEF PutBack
<1>0. /\ SameOp /\ op.stage = "rollback" /\ op.clean /\ op'.todo = Tail(op.todo) /\ op.todo # <<>>
      /\ iface' = HostAfter(cmd) /\ ~ OpDone /\ op.kind = "apply"
      /\ Works(cmd, iface[Subject(cmd)], Direct) \/ AllowedToFail(cmd)
  <2>1. ~ OpDone /\ op.stage = "rollback"
    BY DEF GoesOn
  <2>2. op.kind = "apply"
    BY <2>1 DEF Ground, Listed
  <2> QED BY <2>1, <2>2 DEF GoesOn
<1>1. op.todo \in Seq(Plan) /\ cmd \in Plan
  BY <1>0, OneFewer DEF Ground, Listed, Given1
<1>2. cmd # "uci_commit"
  BY <1>0, <1>1 DEF Plan, Uci
<1>3. i \in WgIface /\ j = Effect(cmd, i) /\ op.name \in WgName
  BY <1>0, <1>2, AtName
<1>4. /\ \A c : Left(c) <=> Left(c)' \/ c = cmd
      /\ \A a, b : Ordered(a, b) => Ordered(a, b)'
      /\ \A a, b : Ordered(a, b) /\ cmd = b => ~ Left(a)
      /\ \A a, b : Ordered(a, b) /\ cmd = a /\ Left(b) => Left(b)'
  <2>1. \A a, b : Before(op.todo, a, b) =>
          /\ Before(op'.todo, a, b) /\ (Head(op.todo) = b => ~ In(op.todo, a))
          /\ (Head(op.todo) = a /\ In(op.todo, b) => In(op'.todo, b))
    BY <1>0, <1>1, OneFewer
  <2>2. \A c : In(op.todo, c) <=> In(op'.todo, c) \/ c = Head(op.todo)
    BY <1>0, <1>1, OneFewer
  <2> QED BY <2>1, <2>2 DEF Ordered, Left, Given1
<1>5. op'.name = op.name /\ op'.was = op.was /\ manager' = manager /\ KeepStopped' = KeepStopped
  BY <1>0 DEF SameOp, KeepStopped, Direct, HasUnits
<1>s. cmd \in {"stop", "unlink", "restore", "restart", "uci_restore"} => Subject(cmd) = op.name
  BY DEF Subject
<1> HIDE DEF i, j, cmd
<1>6. CASE manager = "openwrt"
  <2>1. cmd = "uci_restore"
    BY <1>0, <1>1, <1>6 DEF Plan
  <2>2. j.file = op.was.file
    BY <1>3, <2>1, EffectFields
  <2> QED BY <1>5, <1>6, <2>2 DEF PutBack, j
<1>7. CASE manager # "openwrt" /\ op.was.file = 0
  <2>0. /\ Ordered("stop", "unlink")
        /\ Left("stop") => Left("unlink") /\ i.file # 0
        /\ ~ Left("unlink") => i.file = 0
        /\ op.was.kernel = 0 /\ ~ Left("stop") => i.kernel = 0
        /\ HeldAt(i)
    BY <1>0, <1>7 DEF Restoring, PutBack, Held, Restorable, i
  <2>1. cmd \in {"stop", "unlink"}
    BY <1>0, <1>1, <1>7 DEF Plan
  <2>2. CASE cmd = "unlink"
    <3>1. j.file = 0 /\ j.kernel = i.kernel
      BY <1>3, <2>2, EffectFields
    <3>2. ~ Left("stop") /\ ~ Left("stop")'
      BY <1>4, <2>0, <2>2
    <3>3. Ordered("stop", "unlink")'
      BY <1>4, <2>0
    <3> QED BY <1>5, <1>7, <2>0, <3>1, <3>2, <3>3 DEF PutBack, j
  <2>3. CASE cmd = "stop"
    <3>1. Left("stop") /\ i.file # 0 /\ Left("unlink")'
      BY <1>4, <2>0, <2>3
    <3>2. j = DoStop(i, Direct)
      <4>1. (op.kind = "apply" /\ Direct) = Direct
        BY <1>0 DEF Direct
      <4> QED BY <1>3, <2>3, <4>1, EffectFields
    <3>3. j = IF HasUnits /\ ~ Direct THEN UnitStop(i) ELSE WgDown(i)
      BY <1>7, <3>2 DEF DoStop
    <3>4. j.file = i.file /\ (op.was.kernel = 0 => j.kernel = 0)
      BY <1>3, <1>7, <2>0, <3>1, <3>3, QuickFields DEF HeldAt
    <3>5. Ordered("stop", "unlink")'
      BY <1>4, <2>0
    <3> QED BY <1>5, <1>7, <3>1, <3>4, <3>5 DEF PutBack, j
  <2> QED BY <2>1, <2>2, <2>3
<1>8. CASE manager # "openwrt" /\ op.was.file # 0
  <2>0. /\ Ordered("restore", "restart")
        /\ ~ Left("restore") => i.file = op.was.file
        /\ ~ KeepStopped /\ ~ Left("restart") => i.kernel = op.was.file
    BY <1>0, <1>8 DEF Restoring, PutBack, i
  <2>1. cmd \in (IF KeepStopped THEN {"restore", "stop"} ELSE {"restore", "restart"})
    BY <1>0, <1>1, <1>8 DEF Plan
  <2>2. Ordered("restore", "restart")'
    BY <1>4, <2>0
  <2>3. /\ ~ Left("restore")' => j.file = op.was.file
        /\ ~ KeepStopped /\ ~ Left("restart")' => j.kernel = op.was.file
    <3>1. CASE cmd = "restore"
      <4>1. i.backup = op.was.file
        <5>1. PICK k \in 0..3 : Opened(k)
          BY <1>0, <1>8 DEF Saved, Applying
        <5>2. k = 0
          BY <1>0, <5>1 DEF Opened
        <5> QED BY <5>1, <5>2 DEF Opened, i
      <4>2. j.file = i.backup /\ j.kernel = i.kernel
        BY <1>3, <3>1, EffectFields
      <4> QED BY <1>4, <2>0, <3>1, <4>1, <4>2
    <3>2. CASE cmd = "stop"
      <4>1. j.file = i.file
        <5>1. Effect(cmd, i) \in {WgDown(i), UnitStop(i)}
          BY <1>3, <1>8, <3>2, EffectFields, Manager DEF DoStop
        <5> QED BY <1>3, <5>1, QuickFields
      <4> QED BY <1>4, <2>0, <2>1, <3>2, <4>1
    <3>3. CASE cmd = "restart"
      <4>1. i.file = op.was.file
        BY <1>4, <2>0, <3>3
      <4>2. Works("restart", i, Direct)
        BY <1>0, <1>s, <3>3 DEF AllowedToFail, i
      <4>3. j.kernel = i.file /\ j.file = i.file
        BY <1>3, <1>8, <3>3, <4>2, RestartWorks
      <4> QED BY <4>1, <4>3
    <3> QED BY <2>1, <3>1, <3>2, <3>3
  <2> QED BY <1>5, <1>8, <2>2, <2>3 DEF PutBack, j
<1> QED BY <1>6, <1>7, <1>8

\* A rollback begins.
LEMMA PutBackBegins ==
  ASSUME WgTypeOK, Ground, Progress, Fails, op'.stage = "rollback"
  PROVE  PutBack'
<1> DEFINE i == iface[op.name]
<1> DEFINE cmd == Given1
<1>0. /\ SameOp /\ ~ OpDone /\ op.todo # <<>> /\ Written /\ op'.todo = ApplyRollback
      /\ op.stage = "before" /\ op.kind = "apply"
  BY DEF Fails, Written
<1>1. PICK f \in {iface, HostAfter(cmd)} : iface' = HostAfterFailure(cmd, f)
  BY DEF Fails
<1>2. op'.name = op.name /\ op'.was = op.was /\ manager' = manager /\ KeepStopped' = KeepStopped
  BY <1>0 DEF SameOp, KeepStopped, Direct, HasUnits
<1>3. manager # "openwrt" => iface'[op.name].file # 0
  <2> SUFFICES ASSUME manager # "openwrt" PROVE iface'[op.name].file # 0
    OBVIOUS
  <2>1. op.todo \in Seq(Plan) /\ cmd \in Plan /\ op.config \in WgConfig /\ ApplyDone
        /\ op.todo \in Seq(WgCommand) /\ op.name \in WgName
    BY <1>0, OneFewer DEF Ground, Listed, Given1, Progress, WgTypeOK, WgOperation
  <2>2. ~ Left("write")
    BY <1>0, <2>1 DEF Written, Left, In
  <2>3. cmd # "write"
    BY <1>0, <2>1, <2>2, OneFewer DEF Left, Given1
  <2>4. i.file = op.config /\ op.config # 0
    BY <1>0, <2>1, <2>2 DEF ApplyDone, WgConfig
  <2>5. cmd # "uci_commit" /\ cmd \in {"unlink_backup", "write_backup", "restart", "enable", "down", "up"}
    BY <1>0, <2>1, <2>3 DEF Plan, Uci
  <2>6. i \in WgIface /\ HostAfter(cmd)[op.name] = Effect(cmd, i)
    BY <1>0, <2>5, AtName
  <2>7. Effect(cmd, i).file = i.file
    <3>1. CASE cmd \in Undisturbed
      BY <2>6, <3>1, EffectFields DEF SameRun
    <3>2. CASE cmd = "restart"
      <4>1. Direct \in BOOLEAN
        BY DEF Direct
      <4>2. DoRestart(i, Direct).file = i.file
        BY <2>6, <4>1, ManagerCommands DEF RunOnly
      <4> QED BY <2>6, <3>2, <4>2, EffectFields
    <3>3. CASE cmd \in {"down", "up"}
      <4>1. Effect(cmd, i) \in {WgDown(i), WgUp(i)}
        BY <2>6, <3>3, EffectFields
      <4>2. WgDown(i).file = i.file /\ WgUp(i).file = i.file
        BY <2>6, QuickFields
      <4> QED BY <4>1, <4>2
    <3> QED BY <2>5, <3>1, <3>2, <3>3 DEF Undisturbed
  <2>8. SameRun(f[op.name], iface'[op.name])
    BY <1>1, <2>1, HostFields
  <2> QED BY <1>1, <2>4, <2>6, <2>7, <2>8 DEF SameRun
<1> QED BY <1>0, <1>2, <1>3, RollbackList DEF PutBack, Left, Ordered

\* Every step.
LEMMA RestoringStep ==
  WgTypeOK /\ Ground /\ Progress /\ Saved /\ Restoring /\ [WgNext]_wgVars => Restoring'
<1> SUFFICES ASSUME WgTypeOK, Ground, Progress, Saved, Restoring, [WgNext]_wgVars PROVE Restoring'
  OBVIOUS
<1>d. SameOp => Direct' = Direct
  BY DEF SameOp, Direct, HasUnits
<1>e. ASSUME SameOp, HeldAt(iface'[op.name]) PROVE Held'
  BY <1>d, <1>e DEF Held, HeldAt, SameOp
<1>1. ASSUME NEW kind, NEW n, NEW c, NEW p, Begins(kind, n, c, p) PROVE Restoring'
  <2>1. op'.was = iface'[op'.name] /\ op'.stage = "before"
    BY <1>1 DEF Begins
  <2>2. Held'
    BY <2>1 DEF Held, HeldAt
  <2> QED BY <2>1, <2>2 DEF Restoring, PutBack, FailedApplyRestores
<1>2. CASE GoesOn
  <2>1. /\ SameOp /\ op'.stage = op.stage /\ ~ OpDone /\ op.todo # <<>> /\ (op'.clean => op.clean)
        /\ iface' \in {iface, HostAfter(Given1)}
    BY <1>2 DEF GoesOn
  <2>2. Restorable' => Restorable
    BY <2>1 DEF Restorable, SameOp
  <2>3. Held'
    <3>1. CASE Restorable
      BY <1>e, <2>1, <3>1, HeldCommand
    <3>2. CASE ~ Restorable
      BY <2>2, <3>2 DEF Held
    <3> QED BY <3>1, <3>2
  <2>4. FailedApplyRestores'
    BY <2>1 DEF FailedApplyRestores, OpDone
  <2> QED BY <1>2, <2>3, <2>4, PutBackGoesOn DEF Restoring
<1>3. CASE Fails
  <2>1. CASE op'.stage \in {"failed", "cleanup_failed"}
    BY <2>1 DEF Restoring, Held, Restorable, OpDone, PutBack, FailedApplyRestores
  <2>2. CASE op'.stage = "rollback"
    <3>1. /\ SameOp /\ ~ OpDone /\ op.todo # <<>> /\ op.stage = "before" /\ op.kind = "apply"
          /\ op'.clean = op.clean
      BY <1>3, <2>2 DEF Fails, Written
    <3>2. PICK f \in {iface, HostAfter(Given1)} : iface' = HostAfterFailure(Given1, f)
      BY <1>3 DEF Fails
    <3>3. Held'
      <4>1. CASE Restorable
        <5>1. HeldAt(f[op.name])
          BY <3>1, <4>1, HeldCommand
        <5>2. SameRun(f[op.name], iface'[op.name])
          <6>1. op.name \in WgName
            BY <3>1 DEF Ground, Listed
          <6> QED BY <3>2, <6>1, HostFields
        <5>3. HeldAt(iface'[op.name])
          BY <5>1, <5>2 DEF HeldAt, SameRun
        <5> QED BY <1>e, <3>1, <5>3
      <4>2. CASE ~ Restorable
        <5>1. ~ Restorable'
          BY <3>1, <4>2 DEF Restorable, SameOp
        <5> QED BY <5>1 DEF Held
      <4> QED BY <4>1, <4>2
    <3>4. PutBack'
      BY <1>3, <2>2, PutBackBegins
    <3>5. FailedApplyRestores'
      BY <2>2 DEF FailedApplyRestores
    <3> QED BY <3>3, <3>4, <3>5 DEF Restoring
  <2> QED BY <1>3, <2>1, <2>2 DEF Fails
<1>4. CASE Finishes
  <2>1. SameOp /\ ~ OpDone /\ op.todo = <<>> /\ iface' = iface /\ op'.clean = op.clean
    BY <1>4 DEF Finishes
  <2>2. CASE op'.stage \in {"ok", "cleanup"}
    BY <2>2 DEF Restoring, Held, Restorable, OpDone, PutBack, FailedApplyRestores
  <2>3. CASE op.stage = "rollback" /\ op'.stage = "restored"
    <3>1. \A c : ~ Left(c)
      BY <2>1, InLists DEF Left
    <3>2. Held' /\ PutBack'
      BY <2>3 DEF Held, Restorable, OpDone, PutBack
    <3>3. ASSUME op.kind = "apply", op.clean
          PROVE  /\ iface[op.name].file = op.was.file
                 /\ manager # "openwrt" /\ op.was.kernel = op.was.file =>
                      iface[op.name].kernel = op.was.kernel
      <4>1. manager # "openwrt" => HeldAt(iface[op.name])
        BY <2>1, <2>3, <3>3 DEF Restoring, Held, Restorable
      <4>2. PutBack
        BY DEF Restoring
      <4>3. CASE manager = "openwrt"
        BY <2>3, <3>1, <3>3, <4>2, <4>3 DEF PutBack
      <4>4. CASE manager # "openwrt" /\ op.was.file = 0
        BY <2>3, <3>1, <3>3, <4>2, <4>4 DEF PutBack
      <4>5. CASE manager # "openwrt" /\ op.was.file # 0
        <5>1. /\ iface[op.name].file = op.was.file
              /\ ~ KeepStopped => iface[op.name].kernel = op.was.file
          BY <2>3, <3>1, <3>3, <4>2, <4>5 DEF PutBack
        <5>2. KeepStopped /\ op.was.kernel = op.was.file => iface[op.name].kernel = op.was.kernel
          BY <4>1, <4>5 DEF HeldAt, KeepStopped
        <5> QED BY <4>5, <5>1, <5>2
      <4> QED BY <4>3, <4>4, <4>5
    <3>4. FailedApplyRestores'
      BY <2>1, <3>3 DEF FailedApplyRestores, SameOp
    <3> QED BY <3>2, <3>4 DEF Restoring
  <2> QED BY <1>4, <2>2, <2>3 DEF Finishes
<1>5. CASE op' = NoOp
  BY <1>5 DEF NoOp, Restoring, Held, Restorable, OpDone, PutBack, FailedApplyRestores
<1>6. CASE UNCHANGED wgVars
  BY <1>6 DEF wgVars, Restoring, Held, HeldAt, Restorable, OpDone, PutBack, FailedApplyRestores,
              Direct, HasUnits, KeepStopped, Left, Ordered
<1> QED BY <1>1, <1>2, <1>3, <1>4, <1>5, <1>6, WgCases

\* An apply that failed after it had written its file, and whose rollback ran through, has
\* put the file back; an interface that ran that file runs it again, one that was not there
\* is gone.
THEOREM FailedApplyAlwaysRestores == WgSpec => []FailedApplyRestores
<1>1. WgInit => Saved /\ Progress /\ Restoring
  BY DEF WgInit, NoOp, Saved, Applying, Progress, WgSuccessIsReal, Restoring, Held, Restorable,
         OpDone, PutBack, FailedApplyRestores
<1>2. Restoring => FailedApplyRestores
  BY DEF Restoring
<1> QED BY <1>1, <1>2, GroundInit, GroundStep, ProgressStep, SavedStep, RestoringStep,
           WgTypeCorrect,
           PTL DEF WgSpec

-----------------------------------------------------------------------------
(* SelfUpgrade: where the agent and the script stand.                      *)

\* The script, up to the command that swaps the files, and after it.
BeforeSwap == {"waiting", "keep", "copy", "note", "stop", "move", "moved", "swap"}
AfterSwap  == {"swapped", "start", "check", "healthy"}

\* The agent downloads only while no script is under way, so that the file at the
\* final name is the download it is about to verify.
Fetching ==
  /\ agent.pc \in {"fetch", "verify"} => script.pc = "idle" /\ agent.target \in Version
  /\ agent.pc = "verify" /\ backend = "systemd" => disk.staged = agent.got
  /\ upRow.status = "pending" => upRow.target \in Version

\* What the script copies from was verified.
Verified ==
  /\ InstalledWasVerified /\ disk.backup # Damaged
  /\ script.pc \in BeforeSwap => disk.staged \in Version
  /\ script.pc \in {"note", "stop", "swap"} /\ backend = "systemd" => disk.temp \in Version
  /\ script.pc \in {"move", "moved"} => backend = "openwrt"

\* Where the script stands, and its flags: TRUE as soon as the command before has
\* been carried out.
Flags ==
  /\ script.pc = "copy" => backend = "systemd"
  /\ script.pc \in {"move", "moved", "rb_remove"} => backend = "openwrt"
  /\ script.replaced => script.stopped /\ (backend = "openwrt" => script.moved)
  /\ script.moved => script.stopped /\ backend = "openwrt"
  /\ script.pc \notin Rollback =>
       /\ script.stopped <=> script.pc \in {"stop", "move", "moved", "swap"} \cup AfterSwap
       /\ script.moved <=> backend = "openwrt" /\ script.pc \in {"swap"} \cup AfterSwap
       /\ script.replaced <=> script.pc \in {"start", "check", "healthy"}

\* The script is where what it found installed is installed, and where it is kept
\* as the copy.
InPlace ==
  \/ script.pc \in {"keep", "copy", "note", "stop", "move", "rb_start", "rb_report"}
  \/ script.pc = "swap" /\ backend = "systemd"
  \/ script.pc = "rb_remove" /\ ~ script.moved
  \/ script.pc = "rb_restore" /\ ~ script.moved /\ ~ script.replaced

Kept ==
  \/ script.pc \in {"moved"} \cup AfterSwap
  \/ script.pc = "swap" /\ backend = "openwrt"
  \/ script.pc \in {"copy", "note", "stop", "swap"} /\ backend = "systemd"
  \/ script.pc = "rb_remove" /\ script.moved
  \/ script.pc = "rb_restore" /\ (script.moved \/ script.replaced)

\* What was installed when the script began runs, and is where the script stands
\* to put it back.
OldIsKept ==
  /\ script.pc \notin {"idle", "waiting"} => Runs(upHist.before)
  /\ InPlace => disk.installed = upHist.before
  /\ Kept => disk.backup = upHist.before
  /\ script.pc = "rb_restore" /\ script.moved => disk.installed = Nothing
  /\ script.pc = "rb_remove" /\ script.moved /\ ~ script.replaced => disk.installed = Nothing
  /\ script.pc \in {"moved", "swap"} /\ backend = "openwrt" => disk.installed = Nothing

\* What runs is installed; nothing runs while the files are swapped.
RunsInstalled ==
  /\ host.proc # Nothing => Runs(disk.installed)
  /\ Runs(disk.installed) \/ Runs(disk.backup)
  /\ script.pc \in {"waiting", "healthy"} => Runs(disk.installed)
  /\ script.pc \in {"move", "moved", "swap", "swapped", "start"} =>
       host.proc = Nothing /\ host.service = "stopped"

\* The report of an earlier rollback stays true until the next script stops the
\* service and writes its own.
ReportIsTrue ==
  disk.state = "rolled_back" => disk.installed = upHist.before /\ ~ script.stopped

Old == OldIsKept /\ RunsInstalled /\ ReportIsTrue

OldInv == ~ upHist.signalled => Flags /\ Old

-----------------------------------------------------------------------------
(* Types.                                                                  *)

\* The contents of a file.
LEMMA Contents ==
  /\ Nothing \in Content /\ Damaged \in Content /\ Version \subseteq Content
  /\ Nothing \notin Version /\ Damaged \notin Version /\ Damaged # Nothing /\ 1 \in Version
BY UpgradeAssumption DEF Nothing, Damaged, Version, Content

\* The types of the records.
Disk   == [installed : Content, backup : Content, staged : Content, temp : Content,
           state : FileState, tmp : BOOLEAN]
Script == [pc : ScriptPc, stopped : BOOLEAN, moved : BOOLEAN, replaced : BOOLEAN]
UpService == [service : {"started", "stopped"}, proc : Version \cup {Nothing}]
AgentOp == [pc : {"idle", "fetch", "verify", "report"}, target : Version \cup {Nothing},
            got : Content, result : {"none", "staged", "failed"}]
Row     == [status : {"none", "pending", "running", "succeeded", "failed", "cancelled"},
            target : Version \cup {Nothing}, version : Version,
            update : {"ok", "queued", "staged", "failed"}]
Hist    == [before : Content, signalled : BOOLEAN, requests : 0..MaxRequests, faults : 0..MaxFaults]

\* The first state.
LEMMA UpTypeInit == UpInit => UpTypeOK
BY Contents, UpgradeAssumption
   DEF UpInit, UpTypeOK, NoScript, NoAgent, ScriptPc, FileState

\* The controller's requests and what the agent tells it.
LEMMA ControllerType ==
  ASSUME UpTypeOK, 
         \/ \E v \in Version, force \in BOOLEAN : RequestUpgrade(v, force)
         \/ CloseUpgradeTask \/ ClaimUpgrade \/ ReportUpgrade \/ Announce
  PROVE  UpTypeOK'
<1>1. ASSUME NEW v \in Version, NEW force \in BOOLEAN, RequestUpgrade(v, force)
      PROVE  UpTypeOK'
  <2>1. UNCHANGED <<backend, bad, disk, host, script, agent>>
    BY <1>1 DEF RequestUpgrade
  <2>2. upRow' \in Row
    BY <1>1 DEF UpTypeOK, Row, RequestUpgrade
  <2>3. upHist' \in Hist
    <3>1. upHist \in Hist
      BY DEF UpTypeOK, Hist
    <3>2. upHist.requests + 1 \in 0..MaxRequests
      <4>1. upHist.requests \in 0..MaxRequests
        BY <3>1 DEF Hist
      <4>2. upHist.requests < MaxRequests
        BY <1>1 DEF RequestUpgrade
      <4> QED BY <4>1, <4>2, UpgradeAssumption
    <3>3. upHist' = [upHist EXCEPT !.requests = upHist.requests + 1]
      BY <1>1 DEF RequestUpgrade
    <3> QED BY <3>1, <3>2, <3>3 DEF Hist
  <2> QED BY <2>1, <2>2, <2>3 DEF UpTypeOK, Disk, UpService, Script, AgentOp, Row, Hist
<1>2. CASE CloseUpgradeTask
  <2>1. UNCHANGED <<backend, bad, disk, host, script, agent, upHist>>
    BY <1>2 DEF CloseUpgradeTask
  <2>2. upRow' \in Row
    BY <1>2 DEF UpTypeOK, Row, CloseUpgradeTask
  <2> QED BY <2>1, <2>2 DEF UpTypeOK, Disk, UpService, Script, AgentOp, Row, Hist
<1>3. CASE ClaimUpgrade
  <2>1. UNCHANGED <<backend, bad, disk, host, script, upHist>>
    BY <1>3 DEF ClaimUpgrade
  <2>2. agent' \in AgentOp
    BY <1>3, Contents DEF UpTypeOK, AgentOp, ClaimUpgrade, NoAgent
  <2>3. upRow' \in Row
    BY <1>3 DEF UpTypeOK, Row, ClaimUpgrade
  <2>4. /\ host'.proc # Nothing => host'.service = "started"
        /\ host'.proc = Nothing => agent' = NoAgent
        /\ agent'.pc = "report" => agent'.result # "none"
    BY <1>3, Contents DEF UpTypeOK, ClaimUpgrade, NoAgent
  <2> QED BY <2>1, <2>2, <2>3, <2>4 DEF UpTypeOK, Disk, UpService, Script, AgentOp, Row, Hist
<1>4. CASE ReportUpgrade
  <2>1. UNCHANGED <<backend, bad, disk, host, script, upHist>>
    BY <1>4 DEF ReportUpgrade
  <2>2. agent' \in AgentOp
    BY <1>4, Contents DEF UpTypeOK, AgentOp, ReportUpgrade, NoAgent
  <2>3. upRow' \in Row
    <3>1. upRow \in Row /\ agent.result \in {"staged", "failed"}
      BY <1>4 DEF UpTypeOK, Row, ReportUpgrade
    <3>2. CASE upRow.status # "running"
      BY <1>4, <3>1, <3>2 DEF ReportUpgrade
    <3>3. CASE upRow.status = "running"
      <4> DEFINE st == IF agent.result = "staged" THEN "succeeded" ELSE "failed"
      <4>1. upRow' = [upRow EXCEPT !.status = st, !.update = agent.result]
        BY <1>4, <3>3 DEF ReportUpgrade
      <4>2. st \in {"succeeded", "failed"}
        OBVIOUS
      <4> HIDE DEF st
      <4> QED BY <3>1, <4>1, <4>2 DEF Row
    <3> QED BY <3>2, <3>3
  <2>4. /\ host'.proc # Nothing => host'.service = "started"
        /\ host'.proc = Nothing => agent' = NoAgent
        /\ agent'.pc = "report" => agent'.result # "none"
    BY <1>4, Contents DEF UpTypeOK, ReportUpgrade, NoAgent
  <2> QED BY <2>1, <2>2, <2>3, <2>4 DEF UpTypeOK, Disk, UpService, Script, AgentOp, Row, Hist
<1>5. CASE Announce
  <2>1. UNCHANGED <<backend, bad, disk, host, script, agent, upHist>>
    BY <1>5 DEF Announce
  <2>2. upRow' \in Row
    BY <1>5 DEF UpTypeOK, Row, Announce
  <2> QED BY <2>1, <2>2 DEF UpTypeOK, Disk, UpService, Script, AgentOp, Row, Hist
<1> QED BY <1>1, <1>2, <1>3, <1>4, <1>5

\* The handler of the task in the agent.
LEMMA AgentType ==
  ASSUME UpTypeOK, 
         \/ \E content \in {agent.target, Damaged} : Download(content)
         \/ UpgradeRefused \/ VerifyAndStage
  PROVE  UpTypeOK'
<1>1. ASSUME NEW content \in {agent.target, Damaged}, Download(content)
      PROVE  UpTypeOK'
  <2>1. UNCHANGED <<backend, bad, host, script, upRow, upHist>>
    BY <1>1 DEF Download, UpgradeFails
  <2> DEFINE d == [disk EXCEPT !.state = "downloading"]
  <2>2. disk' \in Disk
    <3>1. disk \in Disk /\ content \in Content
      BY <1>1, Contents DEF UpTypeOK, Disk
    <3>2. d \in Disk
      BY <3>1 DEF Disk, FileState
    <3>3. \/ disk' = [d EXCEPT !.staged = IF backend = "systemd" THEN content ELSE @]
          \/ disk' = [d EXCEPT !.state = "failed",
                               !.staged = IF backend = "openwrt" THEN Nothing ELSE @]
      BY <1>1 DEF Download, UpgradeFails
    <3> HIDE DEF d
    <3> QED BY <3>1, <3>2, <3>3, Contents DEF Disk, FileState
  <2>3. agent' \in AgentOp
    <3>1. agent \in AgentOp /\ content \in Content
      BY <1>1, Contents DEF UpTypeOK, AgentOp
    <3>2. \/ agent' = [agent EXCEPT !.pc = "verify", !.got = content]
          \/ agent' = [agent EXCEPT !.pc = "report", !.result = "failed"]
      BY <1>1 DEF Download, UpgradeFails
    <3> QED BY <3>1, <3>2 DEF AgentOp
  <2>4. /\ host'.proc # Nothing => host'.service = "started"
        /\ host'.proc = Nothing => agent' = NoAgent
        /\ agent'.pc = "report" => agent'.result # "none"
    BY <1>1, Contents, ZenonT(60) DEF UpTypeOK, Download, UpgradeFails, NoAgent
  <2> QED BY <2>1, <2>2, <2>3, <2>4 DEF UpTypeOK, Disk, UpService, Script, AgentOp, Row, Hist
<1>2. CASE UpgradeRefused
  <2>1. UNCHANGED <<backend, bad, disk, host, script, upRow, upHist>>
    BY <1>2 DEF UpgradeRefused
  <2>2. agent' \in AgentOp
    BY <1>2 DEF UpTypeOK, AgentOp, UpgradeRefused
  <2>3. /\ host'.proc # Nothing => host'.service = "started"
        /\ host'.proc = Nothing => agent' = NoAgent
        /\ agent'.pc = "report" => agent'.result # "none"
    BY <1>2, Contents DEF UpTypeOK, UpgradeRefused, NoAgent
  <2> QED BY <2>1, <2>2, <2>3 DEF UpTypeOK, Disk, UpService, Script, AgentOp, Row, Hist
<1>3. CASE VerifyAndStage
  <2>1. UNCHANGED <<backend, bad, host, upRow, upHist>>
    BY <1>3 DEF VerifyAndStage, UpgradeFails
  <2>2. disk' \in Disk
    <3>1. disk \in Disk /\ agent.got \in Content
      BY DEF UpTypeOK, Disk
    <3>2. \/ disk' = [disk EXCEPT !.state = "staged",
                                  !.staged = IF backend = "openwrt" THEN agent.got ELSE @]
          \/ disk' = [disk EXCEPT !.state = "failed",
                                  !.staged = IF backend = "openwrt" THEN Nothing ELSE @]
      BY <1>3 DEF VerifyAndStage, UpgradeFails
    <3> QED BY <3>1, <3>2, Contents DEF Disk, FileState
  <2>3. script' \in Script
    BY <1>3, ZenonT(60) DEF UpTypeOK, Script, VerifyAndStage, UpgradeFails, NoScript, ScriptPc
  <2>4. agent' \in AgentOp
    BY <1>3, ZenonT(60) DEF UpTypeOK, AgentOp, VerifyAndStage, UpgradeFails
  <2>5. /\ host'.proc # Nothing => host'.service = "started"
        /\ host'.proc = Nothing => agent' = NoAgent
        /\ agent'.pc = "report" => agent'.result # "none"
    BY <1>3, Contents, ZenonT(60) DEF UpTypeOK, VerifyAndStage, UpgradeFails, NoAgent
  <2> QED BY <2>1, <2>2, <2>3, <2>4, <2>5 DEF UpTypeOK, Disk, UpService, Script, AgentOp, Row, Hist
<1> QED BY <1>1, <1>2, <1>3

\* The commands of the script.
LEMMA ScriptType ==
  ASSUME UpTypeOK, ScriptStep
  PROVE  UpTypeOK'
<1>1. CASE ScriptBegins
  <2>1. UNCHANGED <<backend, bad, disk, host, agent, upRow>>
    BY <1>1 DEF ScriptBegins, At, Goto, Quiet
  <2>2. script' \in Script
    BY <1>1 DEF UpTypeOK, Script, ScriptBegins, At, Goto, Quiet, ScriptPc
  <2>3. upHist' \in Hist
    BY <1>1 DEF UpTypeOK, Hist, ScriptBegins, At, Goto, Quiet
  <2> QED BY <2>1, <2>2, <2>3 DEF UpTypeOK, Disk, UpService, Script, AgentOp, Row, Hist
<1>2. CASE KeepBackup
  <2>1. UNCHANGED <<backend, bad, host, agent, upRow, upHist>>
    BY <1>2 DEF KeepBackup, At, Goto, Quiet
  <2>2. disk' \in Disk
    BY <1>2, Contents DEF UpTypeOK, Disk, KeepBackup, At, Goto, Quiet
  <2>3. script' \in Script
    BY <1>2 DEF UpTypeOK, Script, KeepBackup, At, Goto, Quiet, ScriptPc, TrapEntry
  <2> QED BY <2>1, <2>2, <2>3 DEF UpTypeOK, Disk, UpService, Script, AgentOp, Row, Hist
<1>3. CASE CopyNew
  <2>1. UNCHANGED <<backend, bad, host, agent, upRow, upHist>>
    BY <1>3 DEF CopyNew, At, Goto, Quiet
  <2>2. disk' \in Disk
    BY <1>3 DEF UpTypeOK, Disk, CopyNew, At, Goto, Quiet
  <2>3. script' \in Script
    BY <1>3 DEF UpTypeOK, Script, CopyNew, At, Goto, Quiet, ScriptPc
  <2> QED BY <2>1, <2>2, <2>3 DEF UpTypeOK, Disk, UpService, Script, AgentOp, Row, Hist
<1>4. CASE NoteRestarting
  <2>1. UNCHANGED <<backend, bad, host, agent, upRow, upHist>>
    BY <1>4 DEF NoteRestarting, At, Goto, Quiet
  <2>2. disk' \in Disk
    BY <1>4 DEF UpTypeOK, Disk, NoteRestarting, At, Goto, Quiet, FileState
  <2>3. script' \in Script
    BY <1>4, ZenonT(60) DEF UpTypeOK, Script, NoteRestarting, At, Goto, Quiet, ScriptPc, TrapEntry
  <2> QED BY <2>1, <2>2, <2>3 DEF UpTypeOK, Disk, UpService, Script, AgentOp, Row, Hist
<1>5. CASE StopService
  <2>1. UNCHANGED <<backend, bad, disk, upRow, upHist>>
    BY <1>5 DEF StopService, At, Goto, Down
  <2>2. host' \in UpService
    BY <1>5 DEF UpTypeOK, UpService, StopService, At, Goto, Down
  <2>3. script' \in Script
    BY <1>5 DEF UpTypeOK, Script, StopService, At, Goto, Down, ScriptPc
  <2>4. agent' \in AgentOp
    BY <1>5, Contents DEF UpTypeOK, AgentOp, StopService, At, Goto, Down, NoAgent
  <2>5. /\ host'.proc # Nothing => host'.service = "started"
        /\ host'.proc = Nothing => agent' = NoAgent
        /\ agent'.pc = "report" => agent'.result # "none"
    BY <1>5, Contents DEF UpTypeOK, StopService, At, Goto, Down, Up, Runs, NoAgent
  <2> QED BY <2>1, <2>2, <2>3, <2>4, <2>5 DEF UpTypeOK, Disk, UpService, Script, AgentOp, Row, Hist
<1>6. CASE MoveAway
  <2>1. UNCHANGED <<backend, bad, host, agent, upRow, upHist>>
    BY <1>6 DEF MoveAway, At, Goto, Quiet
  <2>2. disk' \in Disk
    BY <1>6, Contents DEF UpTypeOK, Disk, MoveAway, At, Goto, Quiet
  <2>3. script' \in Script
    BY <1>6 DEF UpTypeOK, Script, MoveAway, At, Goto, Quiet, ScriptPc
  <2> QED BY <2>1, <2>2, <2>3 DEF UpTypeOK, Disk, UpService, Script, AgentOp, Row, Hist
<1>7. CASE NoteMoved
  <2>1. UNCHANGED <<backend, bad, disk, host, agent, upRow, upHist>>
    BY <1>7 DEF NoteMoved, At, Goto, Quiet
  <2>2. script' \in Script
    BY <1>7 DEF UpTypeOK, Script, NoteMoved, At, Goto, Quiet, ScriptPc
  <2> QED BY <2>1, <2>2 DEF UpTypeOK, Disk, UpService, Script, AgentOp, Row, Hist
<1>8. CASE SwapIn
  <2>1. UNCHANGED <<backend, bad, host, agent, upRow, upHist>>
    BY <1>8 DEF SwapIn, At, Goto, Quiet
  <2>2. disk' \in Disk
    <3>1. disk \in Disk
      BY DEF UpTypeOK, Disk
    <3>2. \/ disk' = [disk EXCEPT !.installed = disk.temp]
          \/ disk' = [disk EXCEPT !.installed = disk.staged, !.staged = Nothing]
          \/ disk' = disk
      BY <1>8 DEF SwapIn
    <3> QED BY <3>1, <3>2, Contents DEF Disk
  <2>3. script' \in Script
    BY <1>8 DEF UpTypeOK, Script, SwapIn, At, Goto, Quiet, ScriptPc, TrapEntry
  <2> QED BY <2>1, <2>2, <2>3 DEF UpTypeOK, Disk, UpService, Script, AgentOp, Row, Hist
<1>9. CASE NoteReplaced
  <2>1. UNCHANGED <<backend, bad, disk, host, agent, upRow, upHist>>
    BY <1>9 DEF NoteReplaced, At, Goto, Quiet
  <2>2. script' \in Script
    BY <1>9 DEF UpTypeOK, Script, NoteReplaced, At, Goto, Quiet, ScriptPc
  <2> QED BY <2>1, <2>2 DEF UpTypeOK, Disk, UpService, Script, AgentOp, Row, Hist
<1>10. CASE StartService
  <2>1. UNCHANGED <<backend, bad, disk, agent, upRow, upHist>>
    BY <1>10 DEF StartService, At, Goto, Quiet
  <2>2. host' \in UpService
    BY <1>10 DEF UpTypeOK, UpService, StartService, At, Goto, Quiet, Up, Runs
  <2>3. script' \in Script
    BY <1>10 DEF UpTypeOK, Script, StartService, At, Goto, Quiet, ScriptPc
  <2>4. /\ host'.proc # Nothing => host'.service = "started"
        /\ host'.proc = Nothing => agent' = NoAgent
        /\ agent'.pc = "report" => agent'.result # "none"
    BY <1>10, Contents DEF UpTypeOK, StartService, At, Goto, Quiet, Up, Runs, NoAgent
  <2> QED BY <2>1, <2>2, <2>3, <2>4 DEF UpTypeOK, Disk, UpService, Script, AgentOp, Row, Hist
<1>11. CASE CheckService
  <2>1. UNCHANGED <<backend, bad, disk, host, agent, upRow, upHist>>
    BY <1>11 DEF CheckService, At, Goto, Quiet
  <2>2. script' \in Script
    BY <1>11 DEF UpTypeOK, Script, CheckService, At, Goto, Quiet, ScriptPc, TrapEntry
  <2> QED BY <2>1, <2>2 DEF UpTypeOK, Disk, UpService, Script, AgentOp, Row, Hist
<1>12. CASE NoteHealthy
  <2>1. UNCHANGED <<backend, bad, host, agent, upRow, upHist>>
    BY <1>12 DEF NoteHealthy, At, Goto, Quiet
  <2>2. disk' \in Disk
    BY <1>12 DEF UpTypeOK, Disk, NoteHealthy, At, Goto, Quiet, FileState
  <2>3. script' \in Script
    <3>1. script \in Script
      BY DEF UpTypeOK, Script
    <3>2. \/ script' = NoScript
          \/ script' = [script EXCEPT !.pc = TrapEntry]
      BY <1>12 DEF NoteHealthy, Goto
    <3>3. TrapEntry \in ScriptPc
      BY DEF TrapEntry, ScriptPc
    <3>4. NoScript \in Script
      BY DEF NoScript, Script, ScriptPc
    <3>5. [script EXCEPT !.pc = TrapEntry] \in Script
      BY <3>1, <3>3 DEF Script
    <3> QED BY <3>2, <3>4, <3>5
  <2> QED BY <2>1, <2>2, <2>3 DEF UpTypeOK, Disk, UpService, Script, AgentOp, Row, Hist
<1>13. CASE RemoveNew
  <2>1. UNCHANGED <<backend, bad, upRow, upHist>>
    BY <1>13 DEF RemoveNew, At, Goto, Down
  <2>2. disk' \in Disk
    BY <1>13, Contents DEF UpTypeOK, Disk, RemoveNew, At, Goto, Down
  <2>3. host' \in UpService
    BY <1>13 DEF UpTypeOK, UpService, RemoveNew, At, Goto, Down
  <2>4. script' \in Script
    BY <1>13 DEF UpTypeOK, Script, RemoveNew, At, Goto, Down, ScriptPc
  <2>5. agent' \in AgentOp
    BY <1>13, Contents DEF UpTypeOK, AgentOp, RemoveNew, At, Goto, Down, NoAgent
  <2>6. /\ host'.proc # Nothing => host'.service = "started"
        /\ host'.proc = Nothing => agent' = NoAgent
        /\ agent'.pc = "report" => agent'.result # "none"
    BY <1>13, Contents DEF UpTypeOK, RemoveNew, At, Goto, Down, Up, Runs, NoAgent
  <2> QED BY <2>1, <2>2, <2>3, <2>4, <2>5, <2>6 DEF UpTypeOK, Disk, UpService, Script, AgentOp,
             Row, Hist
<1>14. CASE RestoreOld
  <2>1. UNCHANGED <<backend, bad, host, agent, upRow, upHist>>
    BY <1>14 DEF RestoreOld, At, Goto, Quiet
  <2>2. disk' \in Disk
    BY <1>14, Contents DEF UpTypeOK, Disk, RestoreOld, At, Goto, Quiet
  <2>3. script' \in Script
    BY <1>14 DEF UpTypeOK, Script, RestoreOld, At, Goto, Quiet, ScriptPc
  <2> QED BY <2>1, <2>2, <2>3 DEF UpTypeOK, Disk, UpService, Script, AgentOp, Row, Hist
<1>15. CASE StartAgain
  <2>1. UNCHANGED <<backend, bad, disk, agent, upRow, upHist>>
    BY <1>15 DEF StartAgain, At, Goto, Quiet
  <2>2. host' \in UpService
    BY <1>15 DEF UpTypeOK, UpService, StartAgain, At, Goto, Quiet, Up, Runs
  <2>3. script' \in Script
    BY <1>15 DEF UpTypeOK, Script, StartAgain, At, Goto, Quiet, ScriptPc
  <2>4. /\ host'.proc # Nothing => host'.service = "started"
        /\ host'.proc = Nothing => agent' = NoAgent
        /\ agent'.pc = "report" => agent'.result # "none"
    BY <1>15, Contents DEF UpTypeOK, StartAgain, At, Goto, Quiet, Up, Runs, NoAgent
  <2> QED BY <2>1, <2>2, <2>3, <2>4 DEF UpTypeOK, Disk, UpService, Script, AgentOp, Row, Hist
<1>16. CASE NoteRolledBack
  <2>1. UNCHANGED <<backend, bad, host, agent, upRow, upHist>>
    BY <1>16 DEF NoteRolledBack, At, Goto, Quiet
  <2>2. disk' \in Disk
    BY <1>16 DEF UpTypeOK, Disk, NoteRolledBack, At, Goto, Quiet, FileState
  <2>3. script' \in Script
    BY <1>16 DEF UpTypeOK, Script, NoteRolledBack, At, Goto, Quiet, ScriptPc, NoScript
  <2> QED BY <2>1, <2>2, <2>3 DEF UpTypeOK, Disk, UpService, Script, AgentOp, Row, Hist
<1> QED BY <1>1, <1>2, <1>3, <1>4, <1>5, <1>6, <1>7, <1>8, <1>9, <1>10, <1>11, <1>12, <1>13,
           <1>14, <1>15, <1>16 DEF ScriptStep

\* What goes wrong.
LEMMA FaultType ==
  ASSUME UpTypeOK, CommandFails \/ ScriptSignalled \/ PowerLoss \/ AgentDies \/ Respawn
  PROVE  UpTypeOK'
<1>1. CASE CommandFails
  <2>1. UNCHANGED <<backend, bad, upRow>>
    BY <1>1 DEF CommandFails, Fault, Down, Goto
  <2>2. disk' \in Disk
    BY <1>1 DEF UpTypeOK, Disk, CommandFails, Fault, Down, Goto, FileState
  <2>3. host' \in UpService
    BY <1>1 DEF UpTypeOK, UpService, CommandFails, Fault, Down, Goto
  <2>4. script' \in Script
    <3>1. script \in Script
      BY DEF UpTypeOK, Script
    <3>2. \/ script' = NoScript
          \/ script' = [script EXCEPT !.pc = TrapEntry]
      BY <1>1 DEF CommandFails, Goto
    <3>3. TrapEntry \in ScriptPc
      BY DEF TrapEntry, ScriptPc
    <3>4. NoScript \in Script
      BY DEF NoScript, Script, ScriptPc
    <3>5. [script EXCEPT !.pc = TrapEntry] \in Script
      BY <3>1, <3>3 DEF Script
    <3> QED BY <3>2, <3>4, <3>5
  <2>5. agent' \in AgentOp
    BY <1>1, Contents DEF UpTypeOK, AgentOp, CommandFails, Fault, Down, Goto, NoAgent
  <2>6. upHist' \in Hist
    BY <1>1, UpgradeAssumption DEF UpTypeOK, Hist, CommandFails, Fault, Down, Goto
  <2>7. /\ host'.proc # Nothing => host'.service = "started"
        /\ host'.proc = Nothing => agent' = NoAgent
        /\ agent'.pc = "report" => agent'.result # "none"
    BY <1>1, Contents DEF UpTypeOK, CommandFails, Fault, Down, Goto, Up, Runs, NoAgent
  <2> QED BY <2>1, <2>2, <2>3, <2>4, <2>5, <2>6, <2>7 DEF UpTypeOK, Disk, UpService, Script,
             AgentOp, Row, Hist
<1>2. CASE ScriptSignalled
  <2>1. UNCHANGED <<backend, bad, disk, host, agent, upRow>>
    BY <1>2 DEF ScriptSignalled, Goto
  <2>2. script' \in Script
    <3>1. script \in Script
      BY DEF UpTypeOK, Script
    <3>2. \/ script' = NoScript
          \/ script' = [script EXCEPT !.pc = TrapEntry]
      BY <1>2 DEF ScriptSignalled, Goto
    <3>3. TrapEntry \in ScriptPc
      BY DEF TrapEntry, ScriptPc
    <3>4. NoScript \in Script
      BY DEF NoScript, Script, ScriptPc
    <3>5. [script EXCEPT !.pc = TrapEntry] \in Script
      BY <3>1, <3>3 DEF Script
    <3> QED BY <3>2, <3>4, <3>5
  <2>3. upHist' \in Hist
    <3>1. upHist \in Hist
      BY DEF UpTypeOK, Hist
    <3>2. upHist.faults + 1 \in 0..MaxFaults
      BY <1>2, <3>1, UpgradeAssumption DEF ScriptSignalled, Hist
    <3>3. upHist' = [upHist EXCEPT !.faults = upHist.faults + 1, !.signalled = TRUE]
      BY <1>2 DEF ScriptSignalled
    <3> QED BY <3>1, <3>2, <3>3 DEF Hist
  <2> QED BY <2>1, <2>2, <2>3 DEF UpTypeOK, Disk, UpService, Script, AgentOp, Row, Hist
<1>3. CASE PowerLoss
  <2>1. UNCHANGED <<backend, bad, upRow>>
    BY <1>3 DEF PowerLoss, Fault, Down
  <2>2. disk' \in Disk
    BY <1>3 DEF UpTypeOK, Disk, PowerLoss, Fault, Down
  <2>3. host' \in UpService
    BY <1>3 DEF UpTypeOK, UpService, PowerLoss, Fault, Down
  <2>4. script' \in Script
    BY <1>3 DEF UpTypeOK, Script, PowerLoss, Fault, Down, ScriptPc, NoScript
  <2>5. agent' \in AgentOp
    BY <1>3, Contents DEF UpTypeOK, AgentOp, PowerLoss, Fault, Down, NoAgent
  <2>6. upHist' \in Hist
    BY <1>3, UpgradeAssumption DEF UpTypeOK, Hist, PowerLoss, Fault, Down
  <2>7. /\ host'.proc # Nothing => host'.service = "started"
        /\ host'.proc = Nothing => agent' = NoAgent
        /\ agent'.pc = "report" => agent'.result # "none"
    BY <1>3, Contents DEF UpTypeOK, PowerLoss, Fault, Down, Up, Runs, NoAgent
  <2> QED BY <2>1, <2>2, <2>3, <2>4, <2>5, <2>6, <2>7 DEF UpTypeOK, Disk, UpService, Script,
             AgentOp, Row, Hist
<1>4. CASE AgentDies
  <2>1. UNCHANGED <<backend, bad, disk, script, upRow>>
    BY <1>4 DEF AgentDies, Fault, Down
  <2>2. host' \in UpService
    BY <1>4 DEF UpTypeOK, UpService, AgentDies, Fault, Down
  <2>3. agent' \in AgentOp
    BY <1>4, Contents DEF UpTypeOK, AgentOp, AgentDies, Fault, Down, NoAgent
  <2>4. upHist' \in Hist
    BY <1>4, UpgradeAssumption DEF UpTypeOK, Hist, AgentDies, Fault, Down
  <2>5. /\ host'.proc # Nothing => host'.service = "started"
        /\ host'.proc = Nothing => agent' = NoAgent
        /\ agent'.pc = "report" => agent'.result # "none"
    BY <1>4, Contents DEF UpTypeOK, AgentDies, Fault, Down, Up, Runs, NoAgent
  <2> QED BY <2>1, <2>2, <2>3, <2>4, <2>5 DEF UpTypeOK, Disk, UpService, Script, AgentOp, Row, Hist
<1>5. CASE Respawn
  <2>1. UNCHANGED <<backend, bad, disk, script, agent, upRow, upHist>>
    BY <1>5 DEF Respawn
  <2>2. host' \in UpService
    BY <1>5 DEF UpTypeOK, UpService, Respawn, Up, Runs
  <2>3. /\ host'.proc # Nothing => host'.service = "started"
        /\ host'.proc = Nothing => agent' = NoAgent
        /\ agent'.pc = "report" => agent'.result # "none"
    BY <1>5, Contents DEF UpTypeOK, Respawn, Up, Runs, NoAgent
  <2> QED BY <2>1, <2>2, <2>3 DEF UpTypeOK, Disk, UpService, Script, AgentOp, Row, Hist
<1> QED BY <1>1, <1>2, <1>3, <1>4, <1>5

\* Every step keeps the types.
LEMMA UpTypeStep == UpTypeOK /\ [UpNext]_upVars => UpTypeOK'
<1> SUFFICES ASSUME UpTypeOK, [UpNext]_upVars PROVE UpTypeOK'
  OBVIOUS
<1>1. CASE UpNext
  BY <1>1, ControllerType, AgentType, ScriptType, FaultType DEF UpNext
<1>2. CASE UNCHANGED upVars
  BY <1>2 DEF upVars, UpTypeOK
<1> QED BY <1>1, <1>2

-----------------------------------------------------------------------------
(* The old version survives.                                               *)

\* Steps beside the script: it, the two copies and the history stay, an agent
\* process may end, a new report is not the one of a rollback.
LEMMA Beside ==
  ASSUME UpTypeOK, OldInv, UNCHANGED <<backend, bad, script>>,
         disk'.installed = disk.installed, disk'.backup = disk.backup,
         disk'.state = disk.state \/ disk'.state # "rolled_back",
         host'.service = host.service, host'.proc \in {host.proc, Nothing},
         upHist'.before = upHist.before, upHist'.signalled = upHist.signalled
  PROVE  OldInv'
<1> SUFFICES ASSUME ~ upHist'.signalled PROVE Flags' /\ Old'
  BY DEF OldInv
<1>1. Flags /\ Old
  BY DEF OldInv
<1>2. Flags'
  BY <1>1 DEF Flags
<1>3. OldIsKept'
  BY <1>1 DEF Old, OldIsKept, InPlace, Kept, Runs
<1>4. RunsInstalled'
  BY <1>1 DEF Old, RunsInstalled, Runs
<1>5. ReportIsTrue'
  BY <1>1 DEF Old, ReportIsTrue
<1> QED BY <1>2, <1>3, <1>4, <1>5 DEF Old

\* Steps that end the script without touching the copies.
LEMMA Ended ==
  ASSUME UpTypeOK, OldInv, UNCHANGED <<backend, bad>>, script' = NoScript,
         disk'.installed = disk.installed, disk'.backup = disk.backup,
         disk'.state = disk.state \/ disk'.state # "rolled_back",
         host'.proc \in {host.proc, Nothing},
         upHist'.before = upHist.before, upHist'.signalled = upHist.signalled
  PROVE  OldInv'
<1> SUFFICES ASSUME ~ upHist'.signalled PROVE Flags' /\ Old'
  BY DEF OldInv
<1>1. Flags /\ Old
  BY DEF OldInv
<1>0. script'.pc = "idle" /\ ~ script'.stopped /\ ~ script'.moved /\ ~ script'.replaced
  BY DEF NoScript
<1>2. Flags'
  BY <1>0 DEF Flags, AfterSwap, Rollback
<1>3. OldIsKept'
  BY <1>0 DEF OldIsKept, InPlace, Kept, AfterSwap
<1>4. RunsInstalled'
  BY <1>0, <1>1 DEF Old, RunsInstalled, Runs
<1>5. ReportIsTrue'
  BY <1>0, <1>1 DEF Old, ReportIsTrue
<1> QED BY <1>2, <1>3, <1>4, <1>5 DEF Old

\* The script, at a command that can fail, turns to its rollback and touches no
\* copy.
LEMMA Trapped ==
  ASSUME UpTypeOK, OldInv, UNCHANGED <<backend, bad>>, Goto(TrapEntry),
         script.pc \notin Rollback \cup {"idle", "waiting", "moved", "swapped"},
         disk'.installed = disk.installed, disk'.backup = disk.backup, disk'.state = disk.state,
         host'.proc \in {host.proc, Nothing},
         upHist'.before = upHist.before, upHist'.signalled = upHist.signalled
  PROVE  OldInv'
<1> SUFFICES ASSUME ~ upHist'.signalled PROVE Flags' /\ Old'
  BY DEF OldInv
<1>1. Flags /\ Old
  BY DEF OldInv
<1>0. /\ script'.pc = TrapEntry /\ script'.stopped = script.stopped
      /\ script'.moved = script.moved /\ script'.replaced = script.replaced
  BY DEF UpTypeOK, Goto
<1>a. script.pc \in {"keep", "copy", "note", "stop", "move", "swap", "start", "check", "healthy"}
  BY DEF UpTypeOK, ScriptPc, Rollback
<1>b. backend \in {"systemd", "openwrt"}
  BY UpgradeAssumption DEF UpTypeOK
<1>2. Flags'
  BY <1>0, <1>1, <1>b DEF Flags, TrapEntry, Rollback
<1>3. OldIsKept'
  BY <1>0, <1>1, <1>a, <1>b DEF Old, Flags, OldIsKept, InPlace, Kept, Runs, TrapEntry, AfterSwap,
     Rollback
<1>4. RunsInstalled'
  BY <1>0, <1>1 DEF Old, RunsInstalled, Runs, TrapEntry
<1>5. ReportIsTrue'
  BY <1>0, <1>1 DEF Old, ReportIsTrue
<1> QED BY <1>2, <1>3, <1>4, <1>5 DEF Old

\* The controller, the agent and the service manager leave the copies alone; a
\* script is scheduled by an agent that runs, so from a version that runs.
LEMMA OthersKeepOld ==
  ASSUME UpTypeOK, OldInv,
         \/ \E v \in Version, force \in BOOLEAN : RequestUpgrade(v, force)
         \/ CloseUpgradeTask \/ ClaimUpgrade \/ ReportUpgrade \/ Announce
         \/ \E content \in {agent.target, Damaged} : Download(content)
         \/ UpgradeRefused \/ VerifyAndStage \/ AgentDies \/ Respawn
  PROVE  OldInv'
<1>1. ASSUME NEW v \in Version, NEW force \in BOOLEAN, RequestUpgrade(v, force)
      PROVE  OldInv'
  <2>1. upHist'.before = upHist.before /\ upHist'.signalled = upHist.signalled
    BY <1>1 DEF RequestUpgrade, UpTypeOK
  <2> QED BY <1>1, <2>1, Beside DEF RequestUpgrade
<1>2. CASE CloseUpgradeTask \/ ClaimUpgrade \/ ReportUpgrade \/ Announce \/ UpgradeRefused
  <2>1. UNCHANGED <<backend, bad, disk, host, script, upHist>>
    BY <1>2 DEF CloseUpgradeTask, ClaimUpgrade, ReportUpgrade, Announce, UpgradeRefused
  <2> QED BY <2>1, Beside
<1>3. ASSUME NEW content \in {agent.target, Damaged}, Download(content)
      PROVE  OldInv'
  <2>1. UNCHANGED <<backend, bad, host, script, upHist>>
    BY <1>3 DEF Download, UpgradeFails
  <2>2. /\ disk'.installed = disk.installed /\ disk'.backup = disk.backup
        /\ disk'.state # "rolled_back"
    <3>1. CASE disk' = [[disk EXCEPT !.state = "downloading"]
                          EXCEPT !.staged = IF backend = "systemd" THEN content ELSE @]
      BY <3>1 DEF UpTypeOK
    <3>2. CASE UpgradeFails([disk EXCEPT !.state = "downloading"])
      BY <3>2 DEF UpTypeOK, UpgradeFails
    <3> QED BY <1>3, <3>1, <3>2 DEF Download
  <2> QED BY <2>1, <2>2, Beside
<1>4. CASE VerifyAndStage
  <2>1. UNCHANGED <<backend, bad, host, upHist>>
    BY <1>4 DEF VerifyAndStage
  <2>2. /\ disk'.installed = disk.installed /\ disk'.backup = disk.backup
        /\ disk'.state # "rolled_back"
    BY <1>4, ZenonT(60) DEF VerifyAndStage, UpgradeFails, UpTypeOK
  <2>3. CASE UNCHANGED script
    BY <2>1, <2>2, <2>3, Beside
  <2>4. CASE script' = [NoScript EXCEPT !.pc = "waiting"]
    <3> SUFFICES ASSUME ~ upHist'.signalled PROVE Flags' /\ Old'
      BY DEF OldInv
    <3>1. Flags /\ Old
      BY <2>1 DEF OldInv
    <3>2. script'.pc = "waiting" /\ ~ script'.stopped /\ ~ script'.moved /\ ~ script'.replaced
      BY <2>4 DEF NoScript
    <3>3. Flags'
      BY <3>2 DEF Flags, AfterSwap, Rollback
    <3>4. OldIsKept'
      BY <3>2 DEF OldIsKept, InPlace, Kept, AfterSwap
    <3>5. RunsInstalled'
      BY <1>4, <2>1, <2>2, <3>1, <3>2 DEF VerifyAndStage, Old, RunsInstalled, Runs
    <3>6. ReportIsTrue'
      BY <2>2 DEF ReportIsTrue
    <3> QED BY <3>3, <3>4, <3>5, <3>6 DEF Old
  <2> QED BY <1>4, <2>3, <2>4 DEF VerifyAndStage
<1>5. CASE AgentDies
  <2>1. upHist'.before = upHist.before /\ upHist'.signalled = upHist.signalled
    BY <1>5 DEF AgentDies, Fault, UpTypeOK
  <2>2. host'.service = host.service /\ host'.proc = Nothing
    BY <1>5 DEF AgentDies, Down
  <2> QED BY <1>5, <2>1, <2>2, Beside DEF AgentDies
<1>6. CASE Respawn
  <2> SUFFICES ASSUME ~ upHist'.signalled PROVE Flags' /\ Old'
    BY DEF OldInv
  <2>1. UNCHANGED <<backend, bad, disk, script, upHist>>
    BY <1>6 DEF Respawn
  <2>2. Flags /\ Old
    BY <2>1 DEF OldInv
  <2>3. Flags' /\ OldIsKept' /\ ReportIsTrue'
    BY <2>1, <2>2 DEF Flags, Old, OldIsKept, InPlace, Kept, Runs, ReportIsTrue
  <2>4. RunsInstalled'
    BY <1>6, <2>1, <2>2 DEF Respawn, Old, RunsInstalled, Runs
  <2> QED BY <2>3, <2>4 DEF Old
<1> QED BY <1>1, <1>2, <1>3, <1>4, <1>5, <1>6

\* Every command of the script, and of its rollback, keeps the old version.
LEMMA ScriptKeepsOld ==
  ASSUME UpTypeOK, OldInv, ScriptStep
  PROVE  OldInv'
<1>u. UNCHANGED <<backend, bad>> /\ upHist'.signalled = upHist.signalled
  BY DEF ScriptStep, ScriptBegins, KeepBackup, CopyNew, NoteRestarting, StopService, MoveAway,
     NoteMoved, SwapIn, NoteReplaced, StartService, CheckService, NoteHealthy, RemoveNew,
     RestoreOld, StartAgain, NoteRolledBack, At, Quiet, UpTypeOK
<1> SUFFICES ASSUME ~ upHist.signalled PROVE Flags' /\ Old'
  BY <1>u DEF OldInv
<1>f. Flags /\ Old
  BY DEF OldInv
<1>b. backend \in {"systemd", "openwrt"}
  BY UpgradeAssumption DEF UpTypeOK
<1>t. ASSUME Goto(TrapEntry), UNCHANGED <<disk, host, upHist>>,
             script.pc \in {"keep", "note", "swap", "check", "healthy"}
      PROVE  Flags' /\ Old'
  BY <1>t, <1>u, Trapped DEF OldInv, Rollback
<1>1. CASE ScriptBegins
  <2>1. /\ script.pc = "waiting"
        /\ script'.pc = "keep"
        /\ script'.stopped = script.stopped /\ script'.moved = script.moved /\ script'.replaced = script.replaced
        /\ disk'.installed = disk.installed /\ disk'.backup = disk.backup /\ disk'.state = disk.state
        /\ UNCHANGED host
        /\ upHist'.before = disk.installed
    BY <1>1, Contents DEF ScriptBegins, At, Goto, Quiet, UpTypeOK
  <2>2. Flags'
    BY <1>u, <1>f, <1>b, <2>1 DEF Flags, AfterSwap, Rollback
  <2>3. OldIsKept'
    BY <1>u, <1>f, <1>b, <2>1 DEF Flags, Old, OldIsKept, RunsInstalled, InPlace, Kept, Runs,
       AfterSwap, Rollback
  <2>4. RunsInstalled'
    BY <1>u, <1>f, <1>b, <2>1, Contents DEF Flags, Old, OldIsKept, RunsInstalled, InPlace, Kept,
       Runs, AfterSwap, Rollback
  <2>5. ReportIsTrue'
    BY <1>u, <1>f, <1>b, <2>1 DEF Flags, Old, ReportIsTrue, OldIsKept, InPlace, Rollback, AfterSwap
  <2> QED BY <2>2, <2>3, <2>4, <2>5 DEF Old
<1>2. CASE KeepBackup
  <2>t. CASE Goto(TrapEntry) /\ UNCHANGED disk
    BY <1>2, <1>t, <2>t DEF KeepBackup, At, Quiet
  <2>n. CASE ~ (Goto(TrapEntry) /\ UNCHANGED disk)
    <3>1. /\ script.pc = "keep" /\ UNCHANGED <<host, upHist>>
          /\ script'.pc = (IF backend = "systemd" THEN "copy" ELSE "note")
          /\ script'.stopped = script.stopped /\ script'.moved = script.moved /\ script'.replaced = script.replaced
          /\ disk'.installed = disk.installed /\ disk'.state = disk.state
          /\ backend = "systemd" => disk'.backup = disk.installed
      BY <1>2, <1>b, <2>n DEF KeepBackup, At, Goto, Quiet, UpTypeOK
    <3>2. Flags'
      BY <1>u, <1>f, <1>b, <3>1 DEF Flags, AfterSwap, Rollback
    <3>3. OldIsKept'
      BY <1>u, <1>f, <1>b, <3>1 DEF Flags, Old, OldIsKept, RunsInstalled, InPlace, Kept, Runs,
         AfterSwap, Rollback
    <3>4. RunsInstalled'
      BY <1>u, <1>f, <1>b, <3>1, Contents DEF Flags, Old, OldIsKept, RunsInstalled, InPlace,
         Kept, Runs, AfterSwap, Rollback
    <3>5. ReportIsTrue'
      BY <1>u, <1>f, <1>b, <3>1 DEF Flags, Old, ReportIsTrue, OldIsKept, InPlace, Rollback,
         AfterSwap
    <3> QED BY <3>2, <3>3, <3>4, <3>5 DEF Old
  <2> QED BY <2>t, <2>n
<1>3. CASE CopyNew
  <2>1. /\ script.pc = "copy"
        /\ script'.pc = "note"
        /\ script'.stopped = script.stopped /\ script'.moved = script.moved /\ script'.replaced = script.replaced
        /\ disk'.installed = disk.installed /\ disk'.backup = disk.backup /\ disk'.state = disk.state
        /\ UNCHANGED <<host, upHist>>
    BY <1>3, Contents DEF CopyNew, At, Goto, Quiet, UpTypeOK
  <2>2. Flags'
    BY <1>u, <1>f, <1>b, <2>1 DEF Flags, AfterSwap, Rollback
  <2>3. OldIsKept'
    BY <1>u, <1>f, <1>b, <2>1 DEF Flags, Old, OldIsKept, RunsInstalled, InPlace, Kept, Runs,
       AfterSwap, Rollback
  <2>4. RunsInstalled'
    BY <1>u, <1>f, <1>b, <2>1, Contents DEF Flags, Old, OldIsKept, RunsInstalled, InPlace, Kept,
       Runs, AfterSwap, Rollback
  <2>5. ReportIsTrue'
    BY <1>u, <1>f, <1>b, <2>1 DEF Flags, Old, ReportIsTrue, OldIsKept, InPlace, Rollback, AfterSwap
  <2> QED BY <2>2, <2>3, <2>4, <2>5 DEF Old
<1>4. CASE NoteRestarting
  <2>t. CASE Goto(TrapEntry) /\ UNCHANGED disk
    BY <1>4, <1>t, <2>t DEF NoteRestarting, At, Quiet
  <2>n. CASE ~ (Goto(TrapEntry) /\ UNCHANGED disk)
    <3>1. /\ script.pc = "note"
          /\ script'.pc = "stop"
          /\ script'.stopped /\ script'.moved = script.moved /\ script'.replaced = script.replaced
          /\ disk'.installed = disk.installed /\ disk'.backup = disk.backup /\ disk'.state = "restarting"
          /\ UNCHANGED <<host, upHist>>
      BY <1>4, <2>n, Contents, ZenonT(60) DEF NoteRestarting, At, Goto, Quiet, UpTypeOK, TrapEntry
    <3>2. Flags'
      BY <1>u, <1>f, <1>b, <3>1 DEF Flags, AfterSwap, Rollback
    <3>3. OldIsKept'
      BY <1>u, <1>f, <1>b, <3>1 DEF Flags, Old, OldIsKept, RunsInstalled, InPlace, Kept, Runs,
         AfterSwap, Rollback
    <3>4. RunsInstalled'
      BY <1>u, <1>f, <1>b, <3>1, Contents DEF Flags, Old, OldIsKept, RunsInstalled, InPlace,
         Kept, Runs, AfterSwap, Rollback
    <3>5. ReportIsTrue'
      BY <1>u, <1>f, <1>b, <3>1 DEF Flags, Old, ReportIsTrue, OldIsKept, InPlace, Rollback,
         AfterSwap
    <3> QED BY <3>2, <3>3, <3>4, <3>5 DEF Old
  <2> QED BY <2>t, <2>n
<1>5. CASE StopService
  <2>1. /\ script.pc = "stop"
        /\ script'.pc = (IF backend = "systemd" THEN "swap" ELSE "move")
        /\ script'.stopped = script.stopped /\ script'.moved = script.moved /\ script'.replaced = script.replaced
        /\ UNCHANGED <<disk, upHist>>
        /\ host'.proc = Nothing /\ host'.service = "stopped"
    BY <1>5, Contents DEF StopService, At, Goto, Quiet, UpTypeOK, Down
  <2>2. Flags'
    BY <1>u, <1>f, <1>b, <2>1 DEF Flags, AfterSwap, Rollback
  <2>3. OldIsKept'
    BY <1>u, <1>f, <1>b, <2>1 DEF Flags, Old, OldIsKept, RunsInstalled, InPlace, Kept, Runs,
       AfterSwap, Rollback
  <2>4. RunsInstalled'
    BY <1>u, <1>f, <1>b, <2>1, Contents DEF Flags, Old, OldIsKept, RunsInstalled, InPlace, Kept,
       Runs, AfterSwap, Rollback
  <2>5. ReportIsTrue'
    BY <1>u, <1>f, <1>b, <2>1 DEF Flags, Old, ReportIsTrue, OldIsKept, InPlace, Rollback, AfterSwap
  <2> QED BY <2>2, <2>3, <2>4, <2>5 DEF Old
<1>6. CASE MoveAway
  <2>1. /\ script.pc = "move"
        /\ script'.pc = "moved"
        /\ script'.stopped = script.stopped /\ script'.moved = script.moved /\ script'.replaced = script.replaced
        /\ disk'.installed = Nothing /\ disk'.backup = disk.installed /\ disk'.state = disk.state
        /\ UNCHANGED <<host, upHist>>
    BY <1>6, Contents DEF MoveAway, At, Goto, Quiet, UpTypeOK
  <2>2. Flags'
    BY <1>u, <1>f, <1>b, <2>1 DEF Flags, AfterSwap, Rollback
  <2>3. OldIsKept'
    BY <1>u, <1>f, <1>b, <2>1 DEF Flags, Old, OldIsKept, RunsInstalled, InPlace, Kept, Runs,
       AfterSwap, Rollback
  <2>4. RunsInstalled'
    BY <1>u, <1>f, <1>b, <2>1, Contents DEF Flags, Old, OldIsKept, RunsInstalled, InPlace, Kept,
       Runs, AfterSwap, Rollback
  <2>5. ReportIsTrue'
    BY <1>u, <1>f, <1>b, <2>1 DEF Flags, Old, ReportIsTrue, OldIsKept, InPlace, Rollback, AfterSwap
  <2> QED BY <2>2, <2>3, <2>4, <2>5 DEF Old
<1>7. CASE NoteMoved
  <2>1. /\ script.pc = "moved"
        /\ script'.pc = "swap"
        /\ script'.moved /\ script'.stopped = script.stopped /\ script'.replaced = script.replaced
        /\ UNCHANGED <<disk, host, upHist>>
    BY <1>7, Contents DEF NoteMoved, At, Goto, Quiet, UpTypeOK
  <2>2. Flags'
    BY <1>u, <1>f, <1>b, <2>1 DEF Flags, AfterSwap, Rollback
  <2>3. OldIsKept'
    BY <1>u, <1>f, <1>b, <2>1 DEF Flags, Old, OldIsKept, RunsInstalled, InPlace, Kept, Runs,
       AfterSwap, Rollback
  <2>4. RunsInstalled'
    BY <1>u, <1>f, <1>b, <2>1, Contents DEF Flags, Old, OldIsKept, RunsInstalled, InPlace, Kept,
       Runs, AfterSwap, Rollback
  <2>5. ReportIsTrue'
    BY <1>u, <1>f, <1>b, <2>1 DEF Flags, Old, ReportIsTrue, OldIsKept, InPlace, Rollback, AfterSwap
  <2> QED BY <2>2, <2>3, <2>4, <2>5 DEF Old
<1>8. CASE SwapIn
  <2>t. CASE Goto(TrapEntry) /\ UNCHANGED disk
    BY <1>8, <1>t, <2>t DEF SwapIn, At, Quiet
  <2>n. CASE ~ (Goto(TrapEntry) /\ UNCHANGED disk)
    <3>1. /\ script.pc = "swap"
          /\ script'.pc = "swapped"
          /\ script'.stopped = script.stopped /\ script'.moved = script.moved /\ script'.replaced = script.replaced
          /\ disk'.backup = disk.backup /\ disk'.state = disk.state
          /\ UNCHANGED <<host, upHist>>
      <4>1. script.pc = "swap" /\ UNCHANGED <<host, upHist>> /\ Goto("swapped")
        BY <1>8, <2>n DEF SwapIn, At, Quiet
      <4>2. \/ disk' = [disk EXCEPT !.installed = disk.temp]
            \/ disk' = [disk EXCEPT !.installed = disk.staged, !.staged = Nothing]
        BY <1>8, <2>n DEF SwapIn
      <4>3. disk'.backup = disk.backup /\ disk'.state = disk.state
        BY <4>2 DEF UpTypeOK
      <4> QED BY <4>1, <4>3 DEF Goto, UpTypeOK
    <3>2. Flags'
      BY <1>u, <1>f, <1>b, <3>1 DEF Flags, AfterSwap, Rollback
    <3>3. OldIsKept'
      BY <1>u, <1>f, <1>b, <3>1 DEF Flags, Old, OldIsKept, RunsInstalled, InPlace, Kept, Runs,
         AfterSwap, Rollback
    <3>4. RunsInstalled'
      BY <1>u, <1>f, <1>b, <3>1, Contents DEF Flags, Old, OldIsKept, RunsInstalled, InPlace,
         Kept, Runs, AfterSwap, Rollback
    <3>5. ReportIsTrue'
      BY <1>u, <1>f, <1>b, <3>1 DEF Flags, Old, ReportIsTrue, OldIsKept, InPlace, Rollback,
         AfterSwap
    <3> QED BY <3>2, <3>3, <3>4, <3>5 DEF Old
  <2> QED BY <2>t, <2>n
<1>9. CASE NoteReplaced
  <2>1. /\ script.pc = "swapped"
        /\ script'.pc = "start"
        /\ script'.replaced /\ script'.stopped = script.stopped /\ script'.moved = script.moved
        /\ UNCHANGED <<disk, host, upHist>>
    BY <1>9, Contents DEF NoteReplaced, At, Goto, Quiet, UpTypeOK
  <2>2. Flags'
    BY <1>u, <1>f, <1>b, <2>1 DEF Flags, AfterSwap, Rollback
  <2>3. OldIsKept'
    BY <1>u, <1>f, <1>b, <2>1 DEF Flags, Old, OldIsKept, RunsInstalled, InPlace, Kept, Runs,
       AfterSwap, Rollback
  <2>4. RunsInstalled'
    BY <1>u, <1>f, <1>b, <2>1, Contents DEF Flags, Old, OldIsKept, RunsInstalled, InPlace, Kept,
       Runs, AfterSwap, Rollback
  <2>5. ReportIsTrue'
    BY <1>u, <1>f, <1>b, <2>1 DEF Flags, Old, ReportIsTrue, OldIsKept, InPlace, Rollback, AfterSwap
  <2> QED BY <2>2, <2>3, <2>4, <2>5 DEF Old
<1>10. CASE StartService
  <2>1. /\ script.pc = "start"
        /\ script'.pc = "check"
        /\ script'.stopped = script.stopped /\ script'.moved = script.moved /\ script'.replaced = script.replaced
        /\ UNCHANGED <<disk, upHist>>
        /\ host'.proc \in {host.proc, disk.installed, Nothing}
        /\ host'.proc # Nothing => host.proc # Nothing \/ Runs(disk.installed)
    BY <1>10, Contents DEF StartService, At, Goto, Quiet, UpTypeOK, Up
  <2>2. Flags'
    BY <1>u, <1>f, <1>b, <2>1 DEF Flags, AfterSwap, Rollback
  <2>3. OldIsKept'
    BY <1>u, <1>f, <1>b, <2>1 DEF Flags, Old, OldIsKept, RunsInstalled, InPlace, Kept, Runs,
       AfterSwap, Rollback
  <2>4. RunsInstalled'
    BY <1>u, <1>f, <1>b, <2>1, Contents DEF Flags, Old, OldIsKept, RunsInstalled, InPlace, Kept,
       Runs, AfterSwap, Rollback
  <2>5. ReportIsTrue'
    BY <1>u, <1>f, <1>b, <2>1 DEF Flags, Old, ReportIsTrue, OldIsKept, InPlace, Rollback, AfterSwap
  <2> QED BY <2>2, <2>3, <2>4, <2>5 DEF Old
<1>11. CASE CheckService
  <2>t. CASE Goto(TrapEntry) /\ UNCHANGED disk
    BY <1>11, <1>t, <2>t DEF CheckService, At, Quiet
  <2>n. CASE ~ (Goto(TrapEntry) /\ UNCHANGED disk)
    <3>1. /\ script.pc = "check"
          /\ script'.pc = "healthy"
          /\ script'.stopped = script.stopped /\ script'.moved = script.moved /\ script'.replaced = script.replaced
          /\ host.proc # Nothing
          /\ UNCHANGED <<disk, host, upHist>>
      BY <1>11, <2>n, Contents DEF CheckService, At, Goto, Quiet, UpTypeOK, TrapEntry
    <3>2. Flags'
      BY <1>u, <1>f, <1>b, <3>1 DEF Flags, AfterSwap, Rollback
    <3>3. OldIsKept'
      BY <1>u, <1>f, <1>b, <3>1 DEF Flags, Old, OldIsKept, RunsInstalled, InPlace, Kept, Runs,
         AfterSwap, Rollback
    <3>4. RunsInstalled'
      BY <1>u, <1>f, <1>b, <3>1, Contents DEF Flags, Old, OldIsKept, RunsInstalled, InPlace,
         Kept, Runs, AfterSwap, Rollback
    <3>5. ReportIsTrue'
      BY <1>u, <1>f, <1>b, <3>1 DEF Flags, Old, ReportIsTrue, OldIsKept, InPlace, Rollback,
         AfterSwap
    <3> QED BY <3>2, <3>3, <3>4, <3>5 DEF Old
  <2> QED BY <2>t, <2>n
<1>12. CASE NoteHealthy
  <2>t. CASE Goto(TrapEntry) /\ UNCHANGED disk
    BY <1>12, <1>t, <2>t DEF NoteHealthy, At, Quiet
  <2>n. CASE script' = NoScript
    <3>1. /\ UNCHANGED <<host, upHist>>
          /\ disk'.installed = disk.installed /\ disk'.backup = disk.backup
          /\ disk'.state = disk.state \/ disk'.state # "rolled_back"
      BY <1>12, <2>n DEF NoteHealthy, At, Goto, Quiet, UpTypeOK, NoScript
    <3> QED BY <1>u, <2>n, <3>1, Ended DEF OldInv
  <2> QED BY <1>12, <2>t, <2>n DEF NoteHealthy
<1>13. CASE RemoveNew
  <2>1. /\ script.pc = "rb_remove" /\ UNCHANGED upHist
        /\ script'.pc = "rb_restore"
        /\ script'.stopped = script.stopped /\ script'.moved = script.moved /\ script'.replaced = script.replaced
        /\ disk'.backup = disk.backup /\ disk'.state = disk.state
    BY <1>13 DEF RemoveNew, At, Goto, UpTypeOK
  <2>r. /\ script.replaced => disk'.installed = Nothing /\ host'.proc = Nothing
        /\ ~ script.replaced => disk'.installed = disk.installed /\ host'.proc = host.proc
    BY <1>13 DEF RemoveNew, Down, UpTypeOK
  <2>2. Flags'
    BY <1>u, <1>f, <1>b, <2>1, <2>r DEF Flags, AfterSwap, Rollback
  <2>3. OldIsKept'
    BY <1>u, <1>f, <1>b, <2>1, <2>r DEF Flags, Old, OldIsKept, RunsInstalled, InPlace, Kept,
       Runs, AfterSwap, Rollback
  <2>4. RunsInstalled'
    BY <1>u, <1>f, <1>b, <2>1, <2>r, Contents DEF Flags, Old, OldIsKept, RunsInstalled, InPlace,
       Kept, Runs, AfterSwap, Rollback
  <2>5. ReportIsTrue'
    BY <1>u, <1>f, <1>b, <2>1, <2>r DEF Flags, Old, ReportIsTrue, OldIsKept, InPlace, Rollback,
       AfterSwap
  <2> QED BY <2>2, <2>3, <2>4, <2>5 DEF Old
<1>14. CASE RestoreOld
  <2>1. /\ script.pc = "rb_restore" /\ UNCHANGED <<host, upHist>>
        /\ script'.pc = "rb_start"
        /\ script'.stopped = script.stopped /\ script'.moved = script.moved /\ script'.replaced = script.replaced
        /\ disk'.state = disk.state
    BY <1>14 DEF RestoreOld, At, Goto, Quiet, UpTypeOK
  <2>r. disk'.installed = upHist.before
    BY <1>14, <1>f, <1>b, <2>1 DEF RestoreOld, UpTypeOK, Flags, Old, OldIsKept, InPlace, Kept
  <2>2. Flags'
    BY <1>u, <1>f, <1>b, <2>1, <2>r DEF Flags, AfterSwap, Rollback
  <2>3. OldIsKept'
    BY <1>u, <1>f, <1>b, <2>1, <2>r DEF Flags, Old, OldIsKept, RunsInstalled, InPlace, Kept,
       Runs, AfterSwap, Rollback
  <2>4. RunsInstalled'
    BY <1>u, <1>f, <1>b, <2>1, <2>r, Contents DEF Flags, Old, OldIsKept, RunsInstalled, InPlace,
       Kept, Runs, AfterSwap, Rollback
  <2>5. ReportIsTrue'
    BY <1>u, <1>f, <1>b, <2>1, <2>r DEF Flags, Old, ReportIsTrue, OldIsKept, InPlace, Rollback,
       AfterSwap
  <2> QED BY <2>2, <2>3, <2>4, <2>5 DEF Old
<1>15. CASE StartAgain
  <2>1. /\ script.pc = "rb_start"
        /\ script'.pc = "rb_report"
        /\ script'.stopped = script.stopped /\ script'.moved = script.moved /\ script'.replaced = script.replaced
        /\ UNCHANGED <<disk, upHist>>
        /\ host'.proc # Nothing => host.proc # Nothing \/ Runs(disk.installed)
    BY <1>15, Contents DEF StartAgain, At, Goto, Quiet, UpTypeOK, Up
  <2>2. Flags'
    BY <1>u, <1>f, <1>b, <2>1 DEF Flags, AfterSwap, Rollback
  <2>3. OldIsKept'
    BY <1>u, <1>f, <1>b, <2>1 DEF Flags, Old, OldIsKept, RunsInstalled, InPlace, Kept, Runs,
       AfterSwap, Rollback
  <2>4. RunsInstalled'
    BY <1>u, <1>f, <1>b, <2>1, Contents DEF Flags, Old, OldIsKept, RunsInstalled, InPlace, Kept,
       Runs, AfterSwap, Rollback
  <2>5. ReportIsTrue'
    BY <1>u, <1>f, <1>b, <2>1 DEF Flags, Old, ReportIsTrue, OldIsKept, InPlace, Rollback, AfterSwap
  <2> QED BY <2>2, <2>3, <2>4, <2>5 DEF Old
<1>16. CASE NoteRolledBack
  <2>1. /\ script.pc = "rb_report" /\ UNCHANGED <<host, upHist>>
        /\ script'.pc = "idle" /\ ~ script'.stopped /\ ~ script'.moved /\ ~ script'.replaced
        /\ disk'.installed = disk.installed /\ disk'.backup = disk.backup
    BY <1>16 DEF NoteRolledBack, NoScript, At, Goto, Quiet, UpTypeOK
  <2>2. Flags'
    BY <1>u, <1>f, <1>b, <2>1 DEF Flags, AfterSwap, Rollback
  <2>3. OldIsKept'
    BY <1>u, <1>f, <1>b, <2>1 DEF Flags, Old, OldIsKept, RunsInstalled, InPlace, Kept, Runs,
       AfterSwap, Rollback
  <2>4. RunsInstalled'
    BY <1>u, <1>f, <1>b, <2>1, Contents DEF Flags, Old, OldIsKept, RunsInstalled, InPlace, Kept,
       Runs, AfterSwap, Rollback
  <2>5. ReportIsTrue'
    BY <1>u, <1>f, <1>b, <2>1 DEF Flags, Old, ReportIsTrue, OldIsKept, InPlace, Rollback, AfterSwap
  <2> QED BY <2>2, <2>3, <2>4, <2>5 DEF Old
<1> QED BY <1>1, <1>2, <1>3, <1>4, <1>5, <1>6, <1>7, <1>8, <1>9, <1>10, <1>11, <1>12, <1>13,
           <1>14, <1>15, <1>16 DEF ScriptStep

\* A command that fails leads to the rollback with the old version in its place,
\* and the power can go at any moment.
LEMMA FaultsKeepOld ==
  ASSUME UpTypeOK, OldInv, CommandFails \/ ScriptSignalled \/ PowerLoss
  PROVE  OldInv'
<1>1. CASE CommandFails
  <2>1. /\ UNCHANGED <<backend, bad>>
        /\ upHist'.before = upHist.before /\ upHist'.signalled = upHist.signalled
    BY <1>1 DEF CommandFails, Fault, UpTypeOK
  <2>2. host'.proc \in {host.proc, Nothing}
    BY <1>1 DEF CommandFails, Down
  <2>3. CASE script.pc \in Rollback
    <3>1. script' = NoScript
      BY <1>1, <2>3 DEF CommandFails
    <3>2. /\ disk'.installed = disk.installed /\ disk'.backup = disk.backup
          /\ disk'.state = disk.state \/ disk'.state # "rolled_back"
      BY <1>1, <2>3 DEF CommandFails, UpTypeOK
    <3> QED BY <2>1, <2>2, <3>1, <3>2, Ended
  <2>4. CASE script.pc \notin Rollback
    <3>1. script.pc \notin {"idle", "waiting", "moved", "swapped"}
      BY <1>1, <2>4 DEF CommandFails, Fallible, Rollback
    <3>2. Goto(TrapEntry) /\ UNCHANGED disk
      BY <1>1, <2>4 DEF CommandFails
    <3> QED BY <2>1, <2>2, <2>4, <3>1, <3>2, Trapped
  <2> QED BY <2>3, <2>4
<1>2. CASE ScriptSignalled
  <2>1. upHist'.signalled
    BY <1>2 DEF ScriptSignalled, UpTypeOK
  <2> QED BY <2>1 DEF OldInv
<1>3. CASE PowerLoss
  <2>1. /\ UNCHANGED <<backend, bad>> /\ script' = NoScript /\ host'.proc = Nothing
        /\ upHist'.before = upHist.before /\ upHist'.signalled = upHist.signalled
    BY <1>3 DEF PowerLoss, Fault, Down, UpTypeOK
  <2>2. /\ disk'.installed = disk.installed /\ disk'.backup = disk.backup
        /\ disk'.state = disk.state
    BY <1>3 DEF PowerLoss, UpTypeOK
  <2> QED BY <2>1, <2>2, Ended
<1> QED BY <1>1, <1>2, <1>3

\* The invariant of the old version holds in the first state.
LEMMA OldInit == UpInit => OldInv
<1> SUFFICES ASSUME UpInit PROVE Flags /\ Old
  BY DEF OldInv
<1>1. Runs(disk.installed) /\ script.pc = "idle" /\ disk.state = "none"
  BY Contents DEF UpInit, Runs, NoScript
<1>2. ~ script.stopped /\ ~ script.moved /\ ~ script.replaced
  BY DEF UpInit, NoScript
<1> QED BY <1>1, <1>2 DEF Flags, Old, OldIsKept, RunsInstalled, ReportIsTrue, InPlace, Kept,
           AfterSwap, Rollback

\* Every step of the system keeps it.
LEMMA OldStep == UpTypeOK /\ OldInv /\ [UpNext]_upVars => OldInv'
<1> SUFFICES ASSUME UpTypeOK, OldInv, [UpNext]_upVars PROVE OldInv'
  OBVIOUS
<1>1. CASE UpNext
  BY <1>1, OthersKeepOld, ScriptKeepsOld, FaultsKeepOld DEF UpNext
<1>2. CASE UNCHANGED upVars
  BY <1>2, Beside DEF upVars
<1> QED BY <1>1, <1>2

\* The records of the agent, the script, the disk and the task have their types;
\* an agent process lives only under a started service.
THEOREM UpgradeTypeCorrect == UpSpec => []UpTypeOK
<1>1. UpTypeOK /\ [UpNext]_upVars => UpTypeOK'
  BY UpTypeStep
<1> QED BY <1>1, UpTypeInit, PTL DEF UpSpec

\* The old version is where the script can put it back, always.
LEMMA OldAlways == UpSpec => []OldInv
<1>1. OldInv /\ UpTypeOK /\ [UpNext]_upVars => OldInv'
  BY OldStep
<1> QED BY <1>1, OldInit, UpgradeTypeCorrect, PTL DEF UpSpec

\* At every moment a version that runs is installed or kept as the copy, whichever
\* commands of the upgrade script fail and whenever the power goes.
THEOREM GoodCopyAlwaysSurvives == UpSpec => []GoodCopySurvives
<1>1. OldInv => GoodCopySurvives
  BY DEF OldInv, Old, RunsInstalled, GoodCopySurvives
<1> QED BY <1>1, OldAlways, PTL

\* A script that reports "rolled_back" has put back what was installed when it
\* began.
THEOREM RolledBackIsAlwaysOld == UpSpec => []RolledBackIsOld
<1>1. OldInv => RolledBackIsOld
  BY DEF OldInv, Old, ReportIsTrue, RolledBackIsOld
<1> QED BY <1>1, OldAlways, PTL

-----------------------------------------------------------------------------
(* Only verified bytes are installed.                                      *)

VerifiedInv == Fetching /\ Verified

\* A step that leaves the four copies alone, takes the script no nearer to the
\* swap and lets the agent begin no download.
LEMMA CopiesStay ==
  ASSUME VerifiedInv, UNCHANGED backend,
         disk'.installed = disk.installed, disk'.backup = disk.backup,
         disk'.staged = disk.staged, disk'.temp = disk.temp,
         script.pc = "idle" => script'.pc = "idle",
         script'.pc \in BeforeSwap => script.pc \in BeforeSwap,
         script'.pc \in {"note", "stop", "swap"} /\ backend = "systemd" =>
           script.pc \in {"note", "stop", "swap"},
         script'.pc \in {"move", "moved"} => backend = "openwrt",
         agent' = agent \/ agent'.pc \notin {"fetch", "verify"},
         upRow'.status = "pending" => upRow'.target \in Version
  PROVE  VerifiedInv'
<1>1. Fetching'
  BY DEF VerifiedInv, Fetching
<1>2. Verified'
  BY DEF VerifiedInv, Verified, InstalledWasVerified
<1> QED BY <1>1, <1>2 DEF VerifiedInv

\* The controller asks for versions, and the agent stages what it verified.
LEMMA OthersVerify ==
  ASSUME ~ Overlap, UpTypeOK, VerifiedInv,
         \/ \E v \in Version, force \in BOOLEAN : RequestUpgrade(v, force)
         \/ CloseUpgradeTask \/ ClaimUpgrade \/ ReportUpgrade \/ Announce
         \/ \E content \in {agent.target, Damaged} : Download(content)
         \/ UpgradeRefused \/ VerifyAndStage \/ AgentDies \/ Respawn
  PROVE  VerifiedInv'
<1>p. upRow.status = "pending" => upRow.target \in Version
  BY DEF VerifiedInv, Fetching
<1>s. script.pc \in {"move", "moved"} => backend = "openwrt"
  BY DEF VerifiedInv, Verified
<1>b. backend \in {"systemd", "openwrt"}
  BY UpgradeAssumption DEF UpTypeOK
<1>1. ASSUME NEW v \in Version, NEW force \in BOOLEAN, RequestUpgrade(v, force)
      PROVE  VerifiedInv'
  <2>1. upRow'.target \in Version
    BY <1>1 DEF RequestUpgrade, UpTypeOK
  <2> QED BY <1>1, <1>s, <2>1, CopiesStay DEF RequestUpgrade
<1>2. CASE CloseUpgradeTask \/ ReportUpgrade \/ Announce \/ UpgradeRefused
  <2>1. UNCHANGED <<backend, disk, script>>
    BY <1>2 DEF CloseUpgradeTask, ReportUpgrade, Announce, UpgradeRefused
  <2>2. agent' = agent \/ agent'.pc \notin {"fetch", "verify"}
    <3>1. \/ agent' = agent \/ agent' = NoAgent
          \/ agent' = [agent EXCEPT !.pc = "report", !.result = "failed"]
      BY <1>2 DEF CloseUpgradeTask, ReportUpgrade, Announce, UpgradeRefused
    <3>2. NoAgent.pc = "idle"
      BY DEF NoAgent
    <3> QED BY <3>1, <3>2 DEF UpTypeOK
  <2>3. upRow'.target = upRow.target
    BY <1>2 DEF CloseUpgradeTask, ReportUpgrade, Announce, UpgradeRefused, UpTypeOK
  <2>4. upRow'.status = "pending" => upRow.status = "pending"
    BY <1>2 DEF CloseUpgradeTask, ReportUpgrade, Announce, UpgradeRefused, UpTypeOK
  <2> QED BY <1>p, <1>s, <2>1, <2>2, <2>3, <2>4, CopiesStay
<1>3. CASE ClaimUpgrade
  <2>1. /\ script.pc = "idle" /\ UNCHANGED <<backend, disk, script>>
        /\ agent'.pc = "fetch" /\ agent'.target = upRow.target /\ upRow.status = "pending"
    BY <1>3 DEF ClaimUpgrade, NoAgent
  <2>2. upRow'.status = "running"
    BY <1>3 DEF ClaimUpgrade, UpTypeOK
  <2>3. Fetching'
    BY <1>p, <2>1, <2>2 DEF Fetching
  <2>4. Verified'
    BY <2>1 DEF VerifiedInv, Verified, InstalledWasVerified
  <2> QED BY <2>3, <2>4 DEF VerifiedInv
<1>4. ASSUME NEW content \in {agent.target, Damaged}, Download(content)
      PROVE  VerifiedInv'
  <2> DEFINE d == [disk EXCEPT !.state = "downloading"]
  <2>1. UNCHANGED <<backend, script, upRow>> /\ agent.pc = "fetch"
    BY <1>4 DEF Download
  <2>2. script.pc = "idle" /\ agent.target \in Version
    BY <2>1 DEF VerifiedInv, Fetching
  <2>3. d.installed = disk.installed /\ d.backup = disk.backup /\ d.staged = disk.staged
    BY DEF UpTypeOK
  <2>4. DOMAIN d = DOMAIN disk
    OBVIOUS
  <2>5. disk'.installed = disk.installed /\ disk'.backup = disk.backup
    <3>1. \/ disk' = [d EXCEPT !.staged = IF backend = "systemd" THEN content ELSE @]
          \/ disk' = [d EXCEPT !.state = "failed",
                               !.staged = IF backend = "openwrt" THEN Nothing ELSE @]
      BY <1>4 DEF Download, UpgradeFails
    <3> QED BY <3>1 DEF UpTypeOK
  <2>6. \/ /\ agent'.pc = "verify" /\ agent'.target = agent.target /\ agent'.got = content
           /\ backend = "systemd" => disk'.staged = content
        \/ agent'.pc = "report"
    <3>1. CASE UpgradeFails(d)
      BY <3>1 DEF UpgradeFails, UpTypeOK
    <3>2. CASE /\ disk' = [d EXCEPT !.staged = IF backend = "systemd" THEN content ELSE @]
               /\ agent' = [agent EXCEPT !.pc = "verify", !.got = content]
      <4>1. agent'.pc = "verify" /\ agent'.target = agent.target /\ agent'.got = content
        BY <3>2 DEF UpTypeOK
      <4>2. backend = "systemd" => disk'.staged = content
        BY <3>2 DEF UpTypeOK
      <4> QED BY <4>1, <4>2
    <3> QED BY <1>4, <3>1, <3>2 DEF Download
  <2>7. Fetching'
    BY <1>p, <2>1, <2>2, <2>6 DEF Fetching
  <2>8. Verified'
    BY <2>1, <2>2, <2>5 DEF VerifiedInv, Verified, InstalledWasVerified, BeforeSwap
  <2> QED BY <2>7, <2>8 DEF VerifiedInv
<1>5. CASE VerifyAndStage
  <2>1. /\ UNCHANGED <<backend, upRow>> /\ agent.pc = "verify"
        /\ script.pc = "idle" /\ agent.target \in Version
        /\ backend = "systemd" => disk.staged = agent.got
    BY <1>5 DEF VerifyAndStage, VerifiedInv, Fetching
  <2>2. agent'.pc = "report"
    BY <1>5 DEF VerifyAndStage, UpgradeFails, UpTypeOK
  <2>3. disk'.installed = disk.installed /\ disk'.backup = disk.backup
    BY <1>5 DEF VerifyAndStage, UpgradeFails, UpTypeOK
  <2>4. \/ script' = script
        \/ script'.pc = "waiting" /\ disk'.staged \in Version
    <3>1. CASE /\ agent.got = agent.target
               /\ disk' = [disk EXCEPT !.state = "staged",
                                       !.staged = IF backend = "openwrt" THEN agent.got ELSE @]
               /\ script' = [NoScript EXCEPT !.pc = "waiting"]
      <4>1. script'.pc = "waiting"
        BY <3>1 DEF NoScript
      <4>2. disk'.staged = IF backend = "openwrt" THEN agent.got ELSE disk.staged
        BY <3>1 DEF UpTypeOK
      <4> QED BY <1>b, <2>1, <3>1, <4>1, <4>2
    <3> QED BY <1>5, <3>1 DEF VerifyAndStage
  <2>5. Fetching'
    BY <1>p, <2>1, <2>2 DEF Fetching
  <2>6. Verified'
    BY <2>1, <2>3, <2>4 DEF VerifiedInv, Verified, InstalledWasVerified, BeforeSwap
  <2> QED BY <2>5, <2>6 DEF VerifiedInv
<1>6. CASE AgentDies
  <2>1. UNCHANGED <<backend, disk, script, upRow>> /\ agent' = NoAgent
    BY <1>6 DEF AgentDies, Down
  <2>2. agent'.pc = "idle"
    BY <2>1 DEF NoAgent
  <2> QED BY <1>p, <1>s, <2>1, <2>2, CopiesStay
<1>7. CASE Respawn
  BY <1>7, <1>p, <1>s, CopiesStay DEF Respawn
<1> QED BY <1>1, <1>2, <1>3, <1>4, <1>5, <1>6, <1>7

\* The script copies from the staged copy what it installs, and from the installed
\* one what it keeps.
LEMMA ScriptVerifies ==
  ASSUME UpTypeOK, VerifiedInv,
         ScriptStep \/ CommandFails \/ ScriptSignalled \/ PowerLoss
  PROVE  VerifiedInv'
<1>p. upRow' = upRow /\ backend' = backend /\ (upRow.status = "pending" => upRow.target \in Version)
  BY DEF VerifiedInv, Fetching, ScriptStep, ScriptBegins, KeepBackup, CopyNew, NoteRestarting,
         StopService, MoveAway, NoteMoved, SwapIn, NoteReplaced, StartService, CheckService,
         NoteHealthy, RemoveNew, RestoreOld, StartAgain, NoteRolledBack, At, CommandFails,
         ScriptSignalled, PowerLoss
<1>b. backend \in {"systemd", "openwrt"}
  BY UpgradeAssumption DEF UpTypeOK
<1>i. NoAgent.pc = "idle" /\ NoScript.pc = "idle"
  BY DEF NoAgent, NoScript
<1>v. Verified /\ (script.pc \in BeforeSwap => disk.staged \in Version)
  BY DEF VerifiedInv, Verified
\* Once the script is under way the agent downloads nothing.
<1>a. ASSUME script.pc # "idle", agent' = agent \/ agent' = NoAgent
      PROVE  Fetching'
  BY <1>a, <1>p, <1>i DEF VerifiedInv, Fetching
<1>1. CASE \/ ScriptBegins \/ NoteRestarting \/ StopService \/ NoteMoved \/ NoteReplaced
           \/ StartService \/ CheckService \/ NoteHealthy \/ StartAgain \/ NoteRolledBack
           \/ CommandFails \/ ScriptSignalled \/ PowerLoss
  <2>1. /\ disk'.installed = disk.installed /\ disk'.backup = disk.backup
        /\ disk'.staged = disk.staged /\ disk'.temp = disk.temp
    <3>1. CASE \/ ScriptBegins \/ NoteRestarting \/ StopService \/ NoteMoved \/ NoteReplaced
               \/ StartService \/ CheckService \/ StartAgain \/ ScriptSignalled
      BY <3>1 DEF ScriptBegins, NoteRestarting, StopService, NoteMoved, NoteReplaced, StartService,
                  CheckService, StartAgain, ScriptSignalled, UpTypeOK
    <3>2. CASE NoteHealthy \/ NoteRolledBack \/ CommandFails
      BY <3>2 DEF NoteHealthy, NoteRolledBack, CommandFails, UpTypeOK
    <3>3. CASE PowerLoss
      BY <3>3 DEF PowerLoss, UpTypeOK
    <3> QED BY <1>1, <3>1, <3>2, <3>3
  <2>2. agent' = agent \/ agent' = NoAgent
    BY <1>1 DEF ScriptBegins, NoteRestarting, StopService, NoteMoved, NoteReplaced, StartService,
                CheckService, NoteHealthy, StartAgain, NoteRolledBack, CommandFails,
                ScriptSignalled, PowerLoss, Quiet, Down
  <2>3. /\ script.pc = "idle" => script'.pc = "idle"
        /\ script'.pc \in BeforeSwap => script.pc \in BeforeSwap
        /\ script'.pc \in {"note", "stop", "swap"} /\ backend = "systemd" =>
             script.pc \in {"note", "stop", "swap"}
        /\ script'.pc \in {"move", "moved"} => backend = "openwrt"
    <3> DEFINE Moves(from, to) == script.pc = from /\ script'.pc = to
    <3>1. CASE \/ ScriptBegins \/ NoteRestarting \/ StopService \/ NoteMoved \/ NoteReplaced
               \/ StartService \/ CheckService \/ NoteHealthy \/ StartAgain \/ NoteRolledBack
      <4>1. \/ Moves("waiting", "keep") \/ Moves("note", "stop") \/ Moves("stop", "swap")
            \/ backend = "openwrt" /\ (Moves("stop", "move") \/ Moves("moved", "swap"))
            \/ Moves("swapped", "start") \/ Moves("start", "check") \/ Moves("check", "healthy")
            \/ Moves("healthy", "idle") \/ Moves("rb_start", "rb_report")
            \/ Moves("rb_report", "idle")
            \/ script.pc \in {"note", "check", "healthy"} /\ script'.pc = TrapEntry
        <5>1. CASE ScriptBegins \/ NoteMoved \/ NoteReplaced \/ StartService \/ StartAgain
          BY <5>1, <1>v DEF ScriptBegins, NoteMoved, NoteReplaced, StartService, StartAgain, At,
                            Goto, UpTypeOK, Verified
        <5>2. CASE NoteRestarting
          BY <5>2 DEF NoteRestarting, At, Goto, UpTypeOK
        <5>3. CASE StopService
          BY <5>3, <1>b DEF StopService, At, Goto, UpTypeOK
        <5>4. CASE CheckService
          BY <5>4 DEF CheckService, At, Goto, UpTypeOK
        <5>5. CASE NoteHealthy \/ NoteRolledBack
          BY <5>5, <1>i DEF NoteHealthy, NoteRolledBack, At, Goto, UpTypeOK
        <5> QED BY <3>1, <5>1, <5>2, <5>3, <5>4, <5>5
      <4> QED BY <4>1 DEF BeforeSwap, TrapEntry
    <3>2. CASE CommandFails \/ ScriptSignalled \/ PowerLoss
      <4>1. \/ script'.pc = "idle"
            \/ script.pc # "idle" /\ script'.pc = TrapEntry
        BY <3>2, <1>i DEF CommandFails, ScriptSignalled, PowerLoss, Fallible, Goto, UpTypeOK
      <4> QED BY <4>1 DEF BeforeSwap, TrapEntry
    <3> QED BY <1>1, <3>1, <3>2
  <2> QED BY <1>p, <1>i, <2>1, <2>2, <2>3, CopiesStay
<1>2. CASE KeepBackup
  <2>1. script.pc = "keep" /\ agent' = agent
    BY <1>2 DEF KeepBackup, At, Quiet
  <2>2. /\ disk'.installed = disk.installed /\ disk'.backup \in {disk.installed, disk.backup, Nothing}
        /\ disk'.staged = disk.staged
    BY <1>2 DEF KeepBackup, UpTypeOK
  <2>3. \/ script'.pc \in {"copy", TrapEntry}
        \/ script'.pc = "note" /\ backend = "openwrt"
    BY <1>2 DEF KeepBackup, Goto, UpTypeOK
  <2>4. Verified'
    BY <1>v, <1>p, <2>1, <2>2, <2>3, Contents
       DEF Verified, InstalledWasVerified, BeforeSwap, TrapEntry
  <2> QED BY <1>a, <2>1, <2>4 DEF VerifiedInv
<1>3. CASE CopyNew
  <2>1. script.pc = "copy" /\ script'.pc = "note" /\ agent' = agent
    BY <1>3 DEF CopyNew, At, Quiet, Goto, UpTypeOK
  <2>2. /\ disk'.installed = disk.installed /\ disk'.backup = disk.backup
        /\ disk'.staged = disk.staged /\ disk'.temp = disk.staged
    BY <1>3 DEF CopyNew, UpTypeOK
  <2>3. Verified'
    BY <1>v, <1>p, <2>1, <2>2 DEF Verified, InstalledWasVerified, BeforeSwap
  <2> QED BY <1>a, <2>1, <2>3 DEF VerifiedInv
<1>4. CASE MoveAway
  <2>1. script.pc = "move" /\ script'.pc = "moved" /\ agent' = agent
    BY <1>4 DEF MoveAway, At, Quiet, Goto, UpTypeOK
  <2>2. /\ disk'.installed = Nothing /\ disk'.backup = disk.installed
        /\ disk'.staged = disk.staged
    BY <1>4 DEF MoveAway, UpTypeOK
  <2>3. Verified'
    BY <1>v, <1>p, <2>1, <2>2, Contents DEF Verified, InstalledWasVerified, BeforeSwap
  <2> QED BY <1>a, <2>1, <2>3 DEF VerifiedInv
<1>5. CASE SwapIn
  <2>1. script.pc = "swap" /\ agent' = agent
    BY <1>5 DEF SwapIn, At, Quiet
  <2>2. script'.pc \in {"swapped", TrapEntry}
    BY <1>5 DEF SwapIn, Goto, UpTypeOK
  <2>3. disk'.backup = disk.backup
    <3>1. \/ disk' = [disk EXCEPT !.installed = disk.temp] \/ disk' = disk
          \/ disk' = [disk EXCEPT !.installed = disk.staged, !.staged = Nothing]
      BY <1>5 DEF SwapIn
    <3> QED BY <3>1 DEF UpTypeOK
  <2>4. disk'.installed # Damaged
    <3>1. CASE backend = "systemd"
      <4>1. disk'.installed = disk.temp
        BY <1>5, <3>1 DEF SwapIn, UpTypeOK
      <4>2. disk.temp \in Version
        BY <1>v, <2>1, <3>1 DEF Verified
      <4> QED BY <4>1, <4>2, Contents
    <3>2. CASE backend = "openwrt"
      <4>1. disk'.installed \in {disk.installed, disk.staged}
        <5>1. \/ disk' = [disk EXCEPT !.installed = disk.staged, !.staged = Nothing]
              \/ disk' = disk
          BY <1>5, <3>2 DEF SwapIn
        <5> QED BY <5>1 DEF UpTypeOK
      <4>2. disk.staged \in Version
        BY <1>v, <2>1 DEF BeforeSwap
      <4> QED BY <1>v, <4>1, <4>2, Contents DEF Verified, InstalledWasVerified
    <3> QED BY <1>b, <3>1, <3>2
  <2>5. Verified'
    BY <1>v, <2>2, <2>3, <2>4 DEF Verified, InstalledWasVerified, BeforeSwap, TrapEntry
  <2> QED BY <1>a, <2>1, <2>5 DEF VerifiedInv
<1>6. CASE RemoveNew
  <2>1. script.pc = "rb_remove" /\ script'.pc = "rb_restore" /\ (agent' = agent \/ agent' = NoAgent)
    BY <1>6 DEF RemoveNew, At, Down, Goto, UpTypeOK
  <2>2. disk'.installed \in {disk.installed, Nothing} /\ disk'.backup = disk.backup
    BY <1>6 DEF RemoveNew, UpTypeOK
  <2>3. Verified'
    BY <1>v, <2>1, <2>2, Contents DEF Verified, InstalledWasVerified, BeforeSwap
  <2> QED BY <1>a, <2>1, <2>3 DEF VerifiedInv
<1>7. CASE RestoreOld
  <2>1. script.pc = "rb_restore" /\ script'.pc = "rb_start" /\ agent' = agent
    BY <1>7 DEF RestoreOld, At, Quiet, Goto, UpTypeOK
  <2>2. /\ disk'.installed \in {disk.installed, disk.backup}
        /\ disk'.backup \in {disk.backup, Nothing}
    BY <1>7, <1>b DEF RestoreOld, UpTypeOK
  <2>3. Verified'
    BY <1>v, <2>1, <2>2, Contents DEF Verified, InstalledWasVerified, BeforeSwap
  <2> QED BY <1>a, <2>1, <2>3 DEF VerifiedInv
<1> QED BY <1>1, <1>2, <1>3, <1>4, <1>5, <1>6, <1>7 DEF ScriptStep

\* The invariant of the verified copies holds in the first state.
LEMMA VerifiedInit == UpInit => VerifiedInv
<1> SUFFICES ASSUME UpInit PROVE VerifiedInv
  OBVIOUS
<1>1. /\ disk.installed = 1 /\ disk.backup = Nothing /\ script.pc = "idle" /\ agent.pc = "idle"
      /\ upRow.status = "none"
  BY DEF UpInit, NoScript, NoAgent
<1> QED BY <1>1, Contents DEF VerifiedInv, Fetching, Verified, InstalledWasVerified, BeforeSwap

\* When the agent polls for no second upgrade while a script waits to start (no
\* Overlap), what is installed was verified, always: the file at the download's final
\* name is overwritten before its digest is compared, but never under a script.
THEOREM InstalledIsAlwaysVerified ==
  ASSUME ~ Overlap
  PROVE  UpSpec => []InstalledWasVerified
<1>1. UpTypeOK /\ VerifiedInv /\ [UpNext]_upVars => VerifiedInv'
  <2> SUFFICES ASSUME UpTypeOK, VerifiedInv, [UpNext]_upVars PROVE VerifiedInv'
    OBVIOUS
  <2>1. CASE UpNext
    BY <2>1, OthersVerify, ScriptVerifies DEF UpNext
  <2>2. CASE UNCHANGED upVars
    BY <2>2 DEF upVars, VerifiedInv, Fetching, Verified, InstalledWasVerified
  <2> QED BY <2>1, <2>2
<1>2. VerifiedInv => InstalledWasVerified
  BY DEF VerifiedInv, Verified
<1> QED BY <1>1, <1>2, VerifiedInit, UpgradeTypeCorrect, PTL DEF UpSpec
=============================================================================
