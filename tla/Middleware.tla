----------------------------- MODULE Middleware ------------------------------
(***************************************************************************)
(* The connection middleware of a host                                      *)
(* (apps/agent/link42_agent/middleware.py).  udp2raw: one file per role     *)
(* with a line per instance, one service per role and instance.  mimic: a   *)
(* snippet per instance, and per network interface one system configuration *)
(* made of the administrator's own text and all the snippets, which one     *)
(* service loads; only one network interface is modelled.  A step is one    *)
(* command or one atomic file write; any can fail, with or without its      *)
(* effect, the agent can be killed and the power can go.  The tasks of a    *)
(* node are executed one after the other.  dry_run is left out.             *)
(*                                                                         *)
(* The udp2raw units are Type=simple (procd on OpenWrt): starting one       *)
(* succeeds whatever becomes of the process, which is started again until   *)
(* it stays up.  systemctl restart of mimic fails with the service.         *)
(***************************************************************************)
EXTENDS Naturals, Sequences

CONSTANTS
  MwInst,       \* middleware instances, one per managed link
  LastArgs,     \* parameters of an instance are 1..LastArgs, 0 is no entry
  Hosts,        \* bound: what runs on the host: plugin and service backend
  MaxMwOps,     \* bound: operations
  MaxMwFaults   \* bound: failing steps, kills and power losses

ASSUME MiddlewareAssumption ==
  /\ Hosts \subseteq {"systemd", "openwrt", "mimic"}
  /\ LastArgs \in Nat \ {0} /\ MaxMwOps \in Nat /\ MaxMwFaults \in Nat

Role    == {"server", "client"}
Args    == 1..LastArgs
Entry   == 0..LastArgs
Asset   == {"binary", "wrapper", "server_unit", "client_unit"}
NoInst  == "-"

VARIABLES
  hostKind,  \* udp2raw under systemd or procd, or mimic (systemd)
  rejected,  \* parameters the program does not run with
  udp,       \* per role and instance: its line, whether its service is on, what
             \* the process was started with (0: none), enabled, OpenWrt init script
  assets,    \* version of each file install_udp2raw writes, 0 is none
  mimic,     \* own text, snippets, managed block of the system configuration; the
             \* service: on, enabled, what it has loaded
  mwOp,      \* the operation under way, or the last one
  mwCount    \* operations and faults so far

mwVars == <<hostKind, rejected, udp, assets, mimic, mwOp, mwCount>>

NoService == [line |-> 0, on |-> FALSE, run |-> 0, boot |-> FALSE, init |-> FALSE]
Nobody    == [i \in MwInst |-> 0]
NoMwOp    == [kind |-> "none", inst |-> NoInst, roles |-> {}, args |-> 0, todo |-> <<>>,
              stage |-> "idle", clean |-> TRUE, udp |-> [r \in Role |-> [i \in MwInst |-> NoService]],
              mimic |-> [base |-> FALSE, snippet |-> Nobody, block |-> Nobody, on |-> FALSE,
                         boot |-> FALSE, loaded |-> Nobody],
              assets |-> [a \in Asset |-> 0]]

Service  == [line : Entry, on : BOOLEAN, run : Entry, boot : BOOLEAN, init : BOOLEAN]
Services == [Role -> [MwInst -> Service]]

MimicHost == [base : BOOLEAN, snippet : [MwInst -> Entry], block : [MwInst -> Entry], on : BOOLEAN,
              boot : BOOLEAN, loaded : [MwInst -> Entry]]
Assets == [Asset -> 0..2]
MwCommand == Asset \cup
  {"upsert", "write_init", "reload", "enable", "restart", "start", "stop", "disable", "disable_now",
   "remove", "unlink_init", "snippet", "system", "unlink_snippet", "unlink_system", "raise",
   "restore_file", "restore_snippet", "restore_system", "reload_again", "start_again", "stop_again",
   "put_back_binary", "put_back_services"}
MwOperation == [kind : {"none", "apply", "start", "stop", "delete", "install"},
                inst : MwInst \cup {NoInst}, roles : SUBSET Role, args : Entry,
                todo : Seq(MwCommand \X Role),
                stage : {"idle", "before", "rollback", "ok", "failed", "restored"}, clean : BOOLEAN,
                udp : Services, mimic : MimicHost, assets : Assets]

MwTypeOK ==
  /\ hostKind \in Hosts /\ rejected \subseteq Args
  /\ udp \in Services /\ assets \in Assets /\ mimic \in MimicHost
  /\ mwOp \in MwOperation
  /\ mwCount \in [ops : 0..MaxMwOps, faults : 0..MaxMwFaults]
  \* A process runs only for a service that is on.
  /\ \A r \in Role, i \in MwInst : udp[r][i].run # 0 => udp[r][i].on

\* An instance as an apply leaves it.
Deployed == [line |-> 1, on |-> TRUE, run |-> 1, boot |-> TRUE, init |-> hostKind = "openwrt"]

\* udp2raw may be installed, from an older release of the controller; mimic is, and
\* the administrator may have configured it.  One link may use it.
MwInit ==
  /\ hostKind \in Hosts
  /\ rejected \in SUBSET (Args \ {1})
  /\ mwOp = NoMwOp
  /\ mwCount = [ops |-> 0, faults |-> 0]
  /\ \E v \in {0, 1}, user \in {{}} \cup {{i} : i \in MwInst}, r \in Role, base \in BOOLEAN :
       LET entry == [i \in MwInst |-> IF i \in user THEN 1 ELSE 0]
       IN /\ v = 0 => user = {}
          /\ IF hostKind = "mimic"
             THEN /\ mimic = [base |-> base, snippet |-> entry, block |-> entry, on |-> user # {},
                              boot |-> user # {}, loaded |-> entry]
                  /\ udp = [q \in Role |-> [i \in MwInst |-> NoService]] /\ assets = [a \in Asset |-> 0]
             ELSE /\ udp = [q \in Role |-> [i \in MwInst |-> IF i \in user /\ q = r THEN Deployed ELSE NoService]]
                  /\ assets = [a \in Asset |-> IF hostKind = "openwrt" /\ a # "binary" THEN 0 ELSE v]
                  /\ mimic = NoMwOp.mimic

-----------------------------------------------------------------------------
(* The services of the host.                                               *)

\* The wrapper reads the instance's line when the process starts.
Spawned(s)  == IF s.line \in Args \ rejected THEN s.line ELSE 0
SwitchOn(s) == [s EXCEPT !.on = TRUE, !.run = Spawned(s)]
SwitchOff(s) == [s EXCEPT !.on = FALSE, !.run = 0]

Loadable(m) == \A i \in MwInst : m.block[i] \notin rejected
LoadMimic(m) == IF Loadable(m) THEN [m EXCEPT !.on = TRUE, !.loaded = m.block]
                ELSE [m EXCEPT !.on = FALSE, !.loaded = Nobody]
UnloadMimic(m) == [m EXCEPT !.on = FALSE, !.loaded = Nobody]

-----------------------------------------------------------------------------
(* The operations, as sequences of steps <<command, role>>.                *)

EachOf(roles, cmds) ==
  LET of(r) == IF r \in roles THEN [k \in DOMAIN cmds |-> <<cmds[k], r>>] ELSE <<>>
  IN of("server") \o of("client")
Host(cmds) == [k \in DOMAIN cmds |-> <<cmds[k], "client">>]

\* upsert_instance and apply_service.
UdpApply(r) == EachOf({r}, IF hostKind = "openwrt" THEN <<"upsert", "write_init", "enable", "restart">>
                           ELSE <<"upsert", "reload", "enable", "restart">>)

\* delete_udp2raw: every role is stopped and disabled before a line is removed.
UdpDelete(roles) ==
  EachOf(roles, IF hostKind = "openwrt" THEN <<"stop", "disable">> ELSE <<"disable_now">>)
  \o EachOf(roles, IF hostKind = "openwrt" THEN <<"remove", "unlink_init">> ELSE <<"remove">>)
  \o (IF hostKind = "openwrt" THEN <<>> ELSE Host(<<"reload">>))

\* apply_mimic and delete_mimic.
MimicApply == Host(<<"snippet", "system", "reload", "enable", "restart">>)

\* The rest of the configuration decides: it is loaded, or the service is disabled.
MimicDelete(i) ==
  Host(IF mimic.base \/ \E j \in MwInst \ {i} : mimic.snippet[j] # 0
       THEN <<"unlink_snippet", "system", "restart">>
       ELSE <<"unlink_snippet", "unlink_system", "disable_now">>)

\* install_udp2raw.
UdpInstall == Host(IF hostKind = "openwrt" THEN <<"binary">>
                   ELSE <<"binary", "wrapper", "server_unit", "client_unit", "reload">>)

\* payload_modes of a task without a mode: the files that have the instance.
RolesOf(i) == LET S == {r \in Role : udp[r][i].line # 0} IN IF S = {} THEN Role ELSE S

StepsOf(kind, i, roles) ==
  CASE kind = "install" -> UdpInstall
    [] kind = "apply"  -> IF hostKind = "mimic" THEN MimicApply ELSE UdpApply(CHOOSE r \in roles : TRUE)
    [] kind = "delete" -> IF hostKind = "mimic" THEN MimicDelete(i) ELSE UdpDelete(roles)
    [] kind \in {"start", "stop"} -> IF hostKind = "mimic" THEN Host(<<kind>>) ELSE EachOf(roles, <<kind>>)

MwDone == mwOp.stage \notin {"before", "rollback"}

BeginMw(kind, i, roles, v) ==
  /\ MwDone /\ mwCount.ops < MaxMwOps
  /\ mwOp' = [kind |-> kind, inst |-> i, roles |-> roles, args |-> v, todo |-> StepsOf(kind, i, roles),
              stage |-> "before", clean |-> TRUE, udp |-> udp, mimic |-> mimic, assets |-> assets]
  /\ mwCount' = [mwCount EXCEPT !.ops = @ + 1]
  /\ UNCHANGED <<hostKind, rejected, udp, assets, mimic>>

-----------------------------------------------------------------------------
(* One step.                                                               *)

MutantRemoveLine(S, i) == [j \in MwInst |-> [S[j] EXCEPT !.line = 0]]
\* remove_instance: the other lines of the file are written back.
RemoveLine(S, i) == [S EXCEPT ![i].line = 0]

UdpAfter(cmd, r, i) ==
  CASE cmd = "upsert"      -> [udp EXCEPT ![r][i].line = mwOp.args]
    [] cmd = "write_init"  -> [udp EXCEPT ![r][i].init = TRUE]
    [] cmd = "unlink_init" -> [udp EXCEPT ![r][i].init = FALSE]
    [] cmd = "enable"      -> [udp EXCEPT ![r][i].boot = TRUE]
    [] cmd = "disable"     -> [udp EXCEPT ![r][i].boot = FALSE]
    [] cmd \in {"restart", "start_again"} -> [udp EXCEPT ![r][i] = SwitchOn(@)]
    [] cmd = "start"       -> [udp EXCEPT ![r][i] = IF @.on THEN @ ELSE SwitchOn(@)]
    [] cmd = "stop"        -> [udp EXCEPT ![r][i] = SwitchOff(@)]
    [] cmd = "disable_now" -> [udp EXCEPT ![r][i] = [SwitchOff(@) EXCEPT !.boot = FALSE]]
    [] cmd = "remove"      -> [udp EXCEPT ![r] = RemoveLine(@, i)]
    [] cmd = "restore_file" -> [udp EXCEPT ![r] = [j \in MwInst |-> [@[j] EXCEPT !.line = mwOp.udp[r][j].line]]]
    [] OTHER -> udp

MutantRendered(m) == [j \in MwInst |-> IF j = mwOp.inst THEN m.snippet[j] ELSE 0]
\* render_mimic_config: every snippet of the directory.
Rendered(m) == m.snippet

MimicAfter(cmd, i) ==
  CASE cmd = "snippet"        -> [mimic EXCEPT !.snippet[i] = mwOp.args]
    [] cmd = "unlink_snippet" -> [mimic EXCEPT !.snippet[i] = 0]
    [] cmd = "system"         -> [mimic EXCEPT !.block = Rendered(mimic)]
    [] cmd = "unlink_system"  -> [mimic EXCEPT !.block = Nobody, !.base = FALSE]
    [] cmd = "enable"         -> [mimic EXCEPT !.boot = TRUE]
    [] cmd \in {"restart", "start_again"} -> LoadMimic(mimic)
    [] cmd = "start"          -> IF mimic.on THEN mimic ELSE LoadMimic(mimic)
    [] cmd \in {"stop", "stop_again"} -> UnloadMimic(mimic)
    [] cmd = "disable_now"    -> [UnloadMimic(mimic) EXCEPT !.boot = FALSE]
    [] cmd = "restore_snippet" -> [mimic EXCEPT !.snippet[i] = mwOp.mimic.snippet[i]]
    [] cmd = "restore_system" -> [mimic EXCEPT !.block = mwOp.mimic.block, !.base = mwOp.mimic.base]
    [] OTHER -> mimic

AssetsAfter(cmd, r) ==
  CASE cmd \in Asset -> [assets EXCEPT ![cmd] = 2]
    [] cmd = "put_back_binary" -> [assets EXCEPT !["binary"] = mwOp.assets["binary"]]
    [] cmd = "put_back_services" -> [a \in Asset |-> IF a = "binary" THEN assets[a] ELSE mwOp.assets[a]]
    [] OTHER -> assets

Takes(step) ==
  IF hostKind = "mimic" THEN mimic' = MimicAfter(step[1], mwOp.inst) /\ UNCHANGED <<udp, assets>>
  ELSE IF mwOp.kind = "install" THEN assets' = AssetsAfter(step[1], step[2]) /\ UNCHANGED <<udp, mimic>>
  ELSE udp' = UdpAfter(step[1], step[2], mwOp.inst) /\ UNCHANGED <<assets, mimic>>

\* Whether the step does what it is asked: an OpenWrt script has to exist, mimic
\* has to accept its configuration.
MwWorks(step) ==
  IF step[1] = "raise" THEN FALSE ELSE IF hostKind = "mimic" THEN step[1] \in {"restart", "start", "start_again"} => Loadable(mimic)
  ELSE hostKind = "openwrt" /\ step[1] \in {"enable", "disable", "restart", "start", "stop", "start_again"} =>
         udp[step[2]][mwOp.inst].init

\* service_action and mimic_service_action report a failing command and go on, but
\* a script that does not exist raises; so do all steps of the rollback's services.
Ignored(step) ==
  \/ mwOp.stage = "rollback" /\ step[1] \in {"start_again", "stop_again", "reload_again", "put_back_binary",
                                             "put_back_services"}
  \/ mwOp.kind \in {"start", "stop"} /\ (hostKind = "openwrt" => MwWorks(step))

MutantMwRollback ==
  IF hostKind = "mimic" THEN Host(<<"restore_system", "reload_again", "start_again">>) ELSE <<>>
\* The except branches of the operations.
MwRollback ==
  CASE mwOp.kind = "install" -> Host(<<"put_back_binary", "put_back_services">>)
    [] mwOp.kind # "install" /\ hostKind = "mimic" ->
         Host(<<"restore_snippet", "restore_system", "reload_again",
                IF mwOp.mimic.base \/ mwOp.mimic.block # Nobody THEN "start_again" ELSE "stop_again">>)
    [] OTHER -> EachOf(mwOp.roles, IF hostKind = "openwrt" THEN <<"restore_file", "start_again">>
                                   ELSE <<"restore_file", "reload_again", "start_again">>)

\* What is restored at all: delete_udp2raw is not, and upsert_instance is not in
\* the try block.  delete_service on OpenWrt gives both its commands before it
\* looks at their results.
MwFailure(step) ==
  CASE mwOp.stage = "before" /\ mwOp.kind \notin {"start", "stop"} /\ step[1] # "upsert"
         /\ (mwOp.kind \in {"install", "apply"} \/ hostKind = "mimic") ->
         [mwOp EXCEPT !.stage = "rollback", !.todo = MwRollback]
    [] mwOp.kind = "delete" /\ hostKind = "openwrt" /\ step[1] = "stop" /\ MwWorks(step) ->
         [mwOp EXCEPT !.todo = <<<<"disable", step[2]>>, <<"raise", step[2]>>>>, !.clean = FALSE]
    [] OTHER -> [mwOp EXCEPT !.stage = "failed", !.todo = <<>>, !.clean = FALSE]

MwStep ==
  /\ ~ MwDone /\ mwOp.todo # <<>>
  /\ LET step == Head(mwOp.todo) IN
       IF MwWorks(step)
       THEN Takes(step) /\ mwOp' = [mwOp EXCEPT !.todo = Tail(@)]
       ELSE /\ mwOp' = IF Ignored(step) THEN [mwOp EXCEPT !.todo = Tail(@)] ELSE MwFailure(step)
            /\ IF hostKind = "mimic" THEN Takes(step) ELSE UNCHANGED <<udp, assets, mimic>>
  /\ UNCHANGED <<hostKind, rejected, mwCount>>

\* A step fails for another reason or exceeds its timeout.
MwStepFails ==
  /\ ~ MwDone /\ mwOp.todo # <<>> /\ mwCount.faults < MaxMwFaults
  /\ mwCount' = [mwCount EXCEPT !.faults = @ + 1]
  /\ LET step == Head(mwOp.todo) IN
       /\ (MwWorks(step) /\ Takes(step)) \/ UNCHANGED <<udp, assets, mimic>>
       /\ mwOp' = IF Ignored(step) THEN [mwOp EXCEPT !.todo = Tail(@), !.clean = FALSE] ELSE MwFailure(step)
  /\ UNCHANGED <<hostKind, rejected>>

MwFinish ==
  /\ ~ MwDone /\ mwOp.todo = <<>>
  /\ mwOp' = [mwOp EXCEPT !.stage = IF @ = "rollback" THEN "restored" ELSE "ok"]
  /\ UNCHANGED <<hostKind, rejected, udp, assets, mimic, mwCount>>

\* The service manager starts a udp2raw process that has ended again.
ServiceRespawns(r, i) ==
  /\ udp[r][i].on /\ udp[r][i].run = 0 /\ Spawned(udp[r][i]) # 0
  /\ udp' = [udp EXCEPT ![r][i] = SwitchOn(@)]
  /\ UNCHANGED <<hostKind, rejected, assets, mimic, mwOp, mwCount>>

AgentKilled ==
  /\ ~ MwDone /\ mwCount.faults < MaxMwFaults
  /\ mwOp' = NoMwOp
  /\ mwCount' = [mwCount EXCEPT !.faults = @ + 1]
  /\ UNCHANGED <<hostKind, rejected, udp, assets, mimic>>

HostReboots ==
  /\ mwCount.faults < MaxMwFaults
  /\ mwOp' = NoMwOp
  /\ mwCount' = [mwCount EXCEPT !.faults = @ + 1]
  /\ udp' = [r \in Role |-> [i \in MwInst |->
       IF udp[r][i].boot THEN SwitchOn(udp[r][i]) ELSE SwitchOff(udp[r][i])]]
  /\ mimic' = IF mimic.boot THEN LoadMimic(mimic) ELSE UnloadMimic(mimic)
  /\ UNCHANGED <<hostKind, rejected, assets>>

\* The roles a task can name; mimic has none.  Bound: no udp2raw operation before the
\* program is there (the controller queues middleware.install in front of them).
Modes(S) == CASE hostKind = "mimic" -> {{}} [] hostKind # "mimic" /\ assets["binary"] = 0 -> {} [] OTHER -> S

MwNext ==
  \/ \E i \in MwInst, v \in Args : \E roles \in Modes({{"server"}, {"client"}}) :
       BeginMw("apply", i, roles, v)
  \/ \E i \in MwInst, kind \in {"start", "stop", "delete"} :
       \E roles \in Modes({{"server"}, {"client"}, RolesOf(i)}) : BeginMw(kind, i, roles, 0)
  \/ hostKind # "mimic" /\ BeginMw("install", NoInst, {}, 0)
  \/ MwStep \/ MwStepFails \/ MwFinish \/ AgentKilled \/ HostReboots
  \/ \E r \in Role, i \in MwInst : ServiceRespawns(r, i)

MwSpec == MwInit /\ [][MwNext]_mwVars

-----------------------------------------------------------------------------
(* Properties.                                                             *)

Others == MwInst \ {mwOp.inst}

\* An operation on one link's instance, its failure and its rollback leave the
\* others' parameters in the shared files, and the administrator's own mimic text,
\* as they were.
OthersKept ==
  mwOp.stage # "idle" =>
    /\ \A r \in Role, i \in Others : udp[r][i].line = mwOp.udp[r][i].line
    /\ \A i \in Others : mimic.snippet[i] = mwOp.mimic.snippet[i]
    /\ MwDone => mimic.base = mwOp.mimic.base

\* A failed apply, delete (mimic) or installation whose rollback was not disturbed has
\* put the files back, and what ran according to them runs again.
MwFailureRestores ==
  mwOp.stage = "restored" /\ mwOp.clean =>
    /\ assets = mwOp.assets
    /\ \A r \in Role, i \in MwInst :
         /\ udp[r][i].line = mwOp.udp[r][i].line
         /\ mwOp.udp[r][i].run # 0 /\ mwOp.udp[r][i].run = mwOp.udp[r][i].line
              => udp[r][i].run = mwOp.udp[r][i].run
    /\ mimic.snippet = mwOp.mimic.snippet /\ mimic.block = mwOp.mimic.block
    /\ mwOp.mimic.on /\ mwOp.mimic.loaded = mwOp.mimic.block => mimic.loaded = mwOp.mimic.loaded

\* An operation that reports success has done it, for this link and for the others
\* that share the service.
MwSuccessIsReal ==
  mwOp.stage = "ok" =>
    CASE mwOp.kind = "install" -> \A a \in Asset : assets[a] = (IF hostKind = "openwrt" /\ a # "binary" THEN 0 ELSE 2)
      [] mwOp.kind = "apply" /\ hostKind # "mimic" -> \A r \in mwOp.roles :
           LET s == udp[r][mwOp.inst] IN s.line = mwOp.args /\ s.on /\ s.run = Spawned(s)
      [] mwOp.kind = "delete" /\ hostKind # "mimic" -> \A r \in mwOp.roles :
           LET s == udp[r][mwOp.inst] IN s.line = 0 /\ ~ s.on /\ ~ s.boot
      [] mwOp.kind \in {"apply", "delete"} /\ hostKind = "mimic" ->
           /\ mimic.snippet[mwOp.inst] = mwOp.args
           /\ mimic.loaded = mimic.snippet
      [] OTHER -> TRUE
=============================================================================
