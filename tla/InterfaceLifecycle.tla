------------------------- MODULE InterfaceLifecycle -------------------------
(***************************************************************************)
(* One WireGuard configuration (a wg_interfaces row of                     *)
(* apps/api/link42_api/main.py), the agent tasks that its operations queue, *)
(* what those tasks do to the interface on the node                        *)
(* (apps/agent/link42_agent/system.py), and what agent_task_result writes   *)
(* back.  The configuration keeps its name; renaming is left out.          *)
(*                                                                         *)
(* The delivery of tasks is that of AgentTaskQueue, reduced to what matters *)
(* here: a poll claims rows in one step and reads their payload in the next *)
(* (the commit expires the loaded rows); the agent polls only when it has   *)
(* executed its batch and every report is acknowledged; a report may be    *)
(* delivered late, out of order, or never.                                 *)
(*                                                                         *)
(* Atomicity.  The operations that read a task or the row before they take  *)
(* the write lock are two steps, Begin (the SELECTs) and Commit (from the   *)
(* first write on).  Once a handler has written, it sees the database as it *)
(* is.                                                                     *)
(***************************************************************************)
EXTENDS Integers, FiniteSets

CONSTANTS
  Kinds,         \* bound: the sources that are created
  Config,        \* rendered configurations
  NoConfig,      \* no text: nothing deployed, no file, no plan
  Handler,       \* bound: requests inside the controller at a time
  Refreshes,     \* bound: the refreshes that are asked for
  BatchSize,     \* AGENT_TASK_POLL_BATCH_SIZE
  MaxTasks,      \* bound: tasks ever created
  MaxInstances   \* bound: rows ever created, all with the same id

ASSUME KindAssumption == Kinds \subseteq {"managed-node", "manual"}
ASSUME BoundAssumption == /\ MaxTasks \in Nat \ {0}
                          /\ MaxInstances \in Nat \ {0}
                          /\ BatchSize \in Nat \ {0}
ASSUME RefreshAssumption == Refreshes \subseteq {"status", "read"}
ASSUME ConfigAssumption == NoConfig \notin Config \cup {"running", "stopped"}

Task       == 1..MaxTasks
NoTask     == 0
Deployment == {"apply", "start"}
StateType  == {"apply", "start", "stop"}
TaskType   == StateType \cup {"status", "read", "delete"}
Status     == {"absent", "pending", "running", "succeeded", "failed", "cancelled"}
Settled    == {"succeeded", "failed", "cancelled"}
Runtime    == {"stopped", "starting", "running", "stopping"}

VARIABLES
  \* the row
  exists,      \* the row is there
  kind,        \* WireGuardInterface.source
  inst,        \* which instance it is: config_identity
  desired,     \* the configuration it renders to
  deployed,    \* deployed_config
  runtime,     \* runtime_status
  plan,        \* the configuration of the draft change plan
  \* the tasks of this interface id
  task,        \* type and payload: identity, configuration, dependency; and
               \* whether the row has a dedup_key
  tstatus,     \* AgentTask.status
  \* requests of the administrator under way
  handler,     \* what the handler has read
  \* the node and its agent
  up,          \* the interface is in the kernel
  file,        \* the configuration file
  answering,   \* tasks that a poll has claimed and not yet answered
  batch,       \* tasks fetched and not executed
  told,        \* apply: the configuration that was delivered; status and
               \* read: what the agent found
  ran,         \* how the execution ended
  unacked,     \* reports the agent keeps
  late,        \* reports that outlived the agent process
  \* history, for the properties
  superseded   \* the deployments that a stop was accepted to undo

rowVars   == <<exists, kind, inst, desired, deployed, runtime, plan>>
taskVars  == <<task, tstatus>>
nodeVars  == <<up, file>>
agentVars == <<answering, batch, told, ran, unacked, late>>
vars == <<rowVars, taskVars, handler, nodeVars, agentVars, superseded>>

Idle == [op |-> "none", inst |-> 0, config |-> NoConfig, seen |-> NoTask, dep |-> NoTask,
         cancel |-> {}, live |-> {}, was |-> "stopped"]

TypeOK ==
  /\ exists \in BOOLEAN /\ kind \in {"managed-node", "manual"} /\ inst \in 0..MaxInstances
  /\ desired \in Config \cup {NoConfig} /\ deployed \in Config \cup {NoConfig}
  /\ runtime \in Runtime /\ plan \in Config \cup {NoConfig}
  /\ task \in [Task -> [type : TaskType, inst : 0..MaxInstances,
                        config : Config \cup {NoConfig},
                        dep : Task \cup {NoTask}, dedup : BOOLEAN]]
  /\ tstatus \in [Task -> Status]
  /\ handler \in [Handler -> [op : {"none", "update", "start", "stop", "delete"},
                              inst : 0..MaxInstances, config : Config \cup {NoConfig},
                              seen : Task \cup {NoTask}, dep : Task \cup {NoTask},
                              cancel : SUBSET Task, live : SUBSET Task, was : Runtime]]
  /\ up \in BOOLEAN /\ file \in Config \cup {NoConfig}
  /\ answering \in SUBSET Task /\ batch \in SUBSET Task
  /\ unacked \in SUBSET Task /\ late \in SUBSET Task
  /\ told \in [Task -> Config \cup {NoConfig, "running", "stopped"}]
  /\ ran \in [Task -> {"no", "ok", "failed"}]
  /\ superseded \in [Task -> SUBSET Task]

Init ==
  /\ exists = FALSE /\ kind = "manual" /\ inst = 0 /\ desired = NoConfig /\ deployed = NoConfig
  /\ runtime = "stopped" /\ plan = NoConfig
  /\ task = [t \in Task |-> [type |-> "status", inst |-> 0, config |-> NoConfig,
                             dep |-> NoTask, dedup |-> FALSE]]
  /\ tstatus = [t \in Task |-> "absent"]
  /\ handler = [h \in Handler |-> Idle]
  /\ up = FALSE /\ file = NoConfig
  /\ answering = {} /\ batch = {} /\ unacked = {} /\ late = {}
  /\ told = [t \in Task |-> NoConfig]
  /\ ran = [t \in Task |-> "no"]
  /\ superseded = [t \in Task |-> {}]

-----------------------------------------------------------------------------
(* The task table.                                                         *)

\* Tasks of some types in some statuses; get_interface_task takes the oldest.
Find(types, st) == {t \in Task : task[t].type \in types /\ tstatus[t] \in st}
Oldest(S) == IF S = {} THEN NoTask ELSE CHOOSE t \in S : \A u \in S : t <= u
Newest(S) == IF S = {} THEN NoTask ELSE CHOOSE t \in S : \A u \in S : u <= t

\* The id of the next row.
NextId == Cardinality({t \in Task : tstatus[t] # "absent"}) + 1

\* uq_agent_tasks_pending_dedup_key refuses another pending row of the type.
Refused(type) == \E t \in Find({type}, {"pending"}) : task[t].dedup

Payload(type, i, c, d, dedup) ==
  [type |-> type, inst |-> i, config |-> c, dep |-> d, dedup |-> dedup]

\* The row that enqueue_interface_task_once_with_task changes, given the pending
\* task it has seen: that one, a new one, or, when the index refuses a new one,
\* the oldest active task if that is pending.  NoTask: changed is False.
Target(seen, type) ==
  LET active == Oldest(Find({type}, {"pending", "running"})) IN
  CASE seen # NoTask -> seen
    [] seen = NoTask /\ ~ Refused(type) -> NextId
    [] seen = NoTask /\ Refused(type) -> IF tstatus[active] = "pending" THEN active ELSE NoTask

\* The payload p is written to row t, over tasks whose statuses are st by now:
\* a new row is pending, another one keeps its status (an ORM write by key).
Write(t, p, st) ==
  IF t = NoTask
  THEN UNCHANGED task /\ tstatus' = st
  ELSE /\ t \in Task
       /\ task' = [task EXCEPT ![t] =
                     IF t = NextId THEN p ELSE [p EXCEPT !.dedup = task[t].dedup]]
       /\ tstatus' = IF t = NextId THEN [st EXCEPT ![t] = "pending"] ELSE st

Cancelled(S) == [t \in Task |-> IF t \in S /\ tstatus[t] = "pending" THEN "cancelled"
                                ELSE tstatus[t]]

\* A request that changed task t sets the runtime status; the column is written
\* only if the session changes the value it had loaded.
Accept(t, was, new) ==
  runtime' = IF t = NoTask \/ was = new THEN runtime ELSE new

Release(h) == handler' = [handler EXCEPT ![h] = Idle]

-----------------------------------------------------------------------------
(* Creating a configuration, and the plans of a manual one.                *)

\* create_managed_link: one side of it.  The flush of the new row takes the
\* lock before enqueue_apply_config looks for a pending task of this id.
CreateManaged(c) ==
  /\ "managed-node" \in Kinds /\ ~ exists /\ inst < MaxInstances
  /\ exists' = TRUE /\ kind' = "managed-node" /\ inst' = inst + 1
  /\ desired' = c /\ deployed' = NoConfig /\ runtime' = "starting"
  /\ Write(Target(Oldest(Find({"apply"}, {"pending"})), "apply"),
           Payload("apply", inst + 1, c, NoTask, TRUE), tstatus)
  /\ UNCHANGED <<plan, handler, nodeVars, agentVars, superseded>>

\* create_interface: the row only.
CreateManual(c) ==
  /\ "manual" \in Kinds /\ ~ exists /\ inst < MaxInstances
  /\ exists' = TRUE /\ kind' = "manual" /\ inst' = inst + 1
  /\ desired' = c /\ deployed' = NoConfig /\ runtime' = "stopped"
  /\ UNCHANGED <<plan, taskVars, handler, nodeVars, agentVars, superseded>>

\* update_interface, and setting the peer.
Edit(c) ==
  /\ kind = "manual" /\ exists
  /\ desired' = c
  /\ UNCHANGED <<exists, kind, inst, deployed, runtime, plan, taskVars, handler, nodeVars,
                 agentVars, superseded>>

\* plan_apply; a plan without a difference could not be confirmed.
PlanApply ==
  /\ kind = "manual" /\ exists /\ desired # deployed
  /\ plan' = desired
  /\ UNCHANGED <<exists, kind, inst, desired, deployed, runtime, taskVars, handler, nodeVars,
                 agentVars, superseded>>

\* confirm_change_plan: the plan's configuration, whatever has been edited
\* since.  The task has no dedup_key and runtime_status stays.
ConfirmPlan ==
  /\ exists /\ plan # NoConfig
  /\ plan' = NoConfig
  /\ Write(NextId, Payload("apply", inst, plan, NoTask, FALSE), tstatus)
  /\ UNCHANGED <<exists, kind, inst, desired, deployed, runtime, handler, nodeVars, agentVars,
                 superseded>>

\* refresh_interface_status and refresh_deployed_config.
Refresh(type) ==
  /\ exists
  /\ Find({type}, {"pending", "running"}) = {}
  /\ Write(NextId, Payload(type, inst, NoConfig, NoTask, TRUE), tstatus)
  /\ UNCHANGED <<rowVars, handler, nodeVars, agentVars, superseded>>

-----------------------------------------------------------------------------
(* Operations in two steps.                                                *)

Unsettled(types) == Find(types, {"pending", "running"})

Begin(h, op, read) ==
  /\ exists /\ handler[h] = Idle
  /\ handler' = [handler EXCEPT ![h] = [read EXCEPT !.op = op, !.inst = inst, !.was = runtime]]
  /\ UNCHANGED <<rowVars, taskVars, nodeVars, agentVars, superseded>>

\* update_managed_link, one side: enqueue_apply_config with the new text.
UpdateBegin(h, c) ==
  /\ kind = "managed-node"
  /\ Begin(h, "update", [Idle EXCEPT !.config = c, !.seen = Oldest(Find({"apply"}, {"pending"}))])

\* A pending apply that was seen gets the new payload, whatever it is by now.
UpdateCommit(h) ==
  LET t == Target(handler[h].seen, "apply") IN
  /\ handler[h].op = "update" /\ exists
  /\ desired' = handler[h].config
  /\ Write(t, Payload("apply", handler[h].inst, handler[h].config, NoTask, TRUE), tstatus)
  /\ Accept(t, handler[h].was, "starting")
  /\ Release(h)
  /\ UNCHANGED <<exists, kind, inst, deployed, plan, nodeVars, agentVars, superseded>>

\* start_managed_link, one side, and start_interface.  An active start is
\* reused and nothing is written.
StartBegin(h) ==
  /\ kind = "manual" => deployed # NoConfig
  /\ runtime \notin {"running", "starting"}
  /\ Unsettled({"start"}) = {}
  /\ Begin(h, "start", Idle)

StartCommit(h) ==
  LET t == IF Refused("start") THEN NoTask ELSE NextId IN
  /\ handler[h].op = "start" /\ exists
  /\ Write(t, Payload("start", handler[h].inst, NoConfig, NoTask, TRUE), tstatus)
  /\ Accept(t, handler[h].was, "starting")
  /\ Release(h)
  /\ UNCHANGED <<exists, kind, inst, desired, deployed, plan, nodeVars, agentVars, superseded>>

\* stop_managed_link, one side, and stop_interface, up to the first write.  With
\* no deployment to cancel and no pending stop, a running stop is reused and
\* nothing is written.
StopBegin(h) ==
  /\ runtime \notin {"stopped", "stopping"}
  /\ \/ Find(Deployment \cup {"stop"}, {"pending"}) # {}
     \/ Find({"stop"}, {"running"}) = {}
  /\ Begin(h, "stop", [Idle EXCEPT
       !.cancel = Find(Deployment, {"pending"}),
       !.live = Unsettled(Deployment),
       !.dep = Newest(Find(Deployment, {"running"})),
       !.seen = Oldest(Find({"stop"}, {"pending"}))])

\* The request ends with stop task s: queued, reused, or (NoTask) dropped.
StopCommits(h, s, dep, st) ==
  /\ handler[h].op = "stop" /\ exists
  /\ Write(s, Payload("stop", handler[h].inst, NoConfig, dep, TRUE), st)
  /\ Accept(s, handler[h].was, "stopping")
  /\ superseded' = [t \in Task |-> IF t = s THEN superseded[t] \cup handler[h].live
                                   ELSE superseded[t]]
  /\ Release(h)
  /\ UNCHANGED <<exists, kind, inst, desired, deployed, plan, nodeVars, agentVars>>

\* Mutant: the pending deployments stay.
MutantStopCancels(h) ==
  LET seen == Oldest(Find({"stop"}, {"pending"})) IN
  /\ handler[h].cancel # {}
  /\ StopCommits(h, IF seen = NoTask /\ Find({"stop"}, {"running"}) # {} THEN NoTask
                    ELSE Target(seen, "stop"),
                 Newest(Find(Deployment, {"running"})), tstatus)

\* Pending deployments were seen: cancelling them takes the lock, so the rest
\* of the handler works on the database as it is.  A running stop is reused and
\* nothing is queued.
StopCancels(h) ==
  LET seen == Oldest(Find({"stop"}, {"pending"})) IN
  /\ handler[h].cancel # {}
  /\ StopCommits(h, IF seen = NoTask /\ Find({"stop"}, {"running"}) # {} THEN NoTask
                    ELSE Target(seen, "stop"),
                 Newest(Find(Deployment, {"running"})), Cancelled(handler[h].cancel))

\* Nothing to cancel: the handler still goes by what it has read.
StopQueues(h) ==
  /\ handler[h].cancel = {}
  /\ StopCommits(h, Target(handler[h].seen, "stop"), handler[h].dep, tstatus)

\* delete_interface and delete_managed_link, one side.
DeleteBegin(h) ==
  /\ runtime \notin {"running", "starting", "stopping"}
  /\ Begin(h, "delete", [Idle EXCEPT !.cancel = Find(Deployment, {"pending"})])

DeleteCommit(h, deleteNodeConfig) ==
  /\ handler[h].op = "delete"
  /\ exists' = FALSE /\ kind' = "manual" /\ plan' = NoConfig
  /\ desired' = NoConfig /\ deployed' = NoConfig /\ runtime' = "stopped"
  /\ Write(IF deleteNodeConfig /\ Unsettled({"delete"}) = {} THEN NextId ELSE NoTask,
           Payload("delete", handler[h].inst, NoConfig, NoTask, TRUE),
           Cancelled(handler[h].cancel))
  /\ Release(h)
  /\ UNCHANGED <<inst, nodeVars, agentVars, superseded>>

\* The handler's UPDATE finds no row, or the request fails for another reason:
\* the session is rolled back.
HandlerFails(h) ==
  /\ handler[h] # Idle
  /\ Release(h)
  /\ UNCHANGED <<rowVars, taskVars, nodeVars, agentVars, superseded>>

-----------------------------------------------------------------------------
(* Delivery.                                                               *)

\* is_task_ready_for_poll: only stops depend on a task here, and they go on
\* after it has failed.
Ready(t) == tstatus[t] = "pending" /\ (task[t].dep = NoTask \/ tstatus[task[t].dep] \in Settled)

Claimable == {t \in Task : Ready(t) /\ Cardinality({u \in Task : Ready(u) /\ u < t}) < BatchSize}

PollClaim ==
  /\ answering = {} /\ batch = {} /\ unacked = {} /\ Claimable # {}
  /\ answering' = Claimable
  /\ tstatus' = [t \in Task |-> IF t \in Claimable THEN "running" ELSE tstatus[t]]
  /\ UNCHANGED <<rowVars, task, handler, nodeVars, batch, told, ran, unacked, late, superseded>>

\* The answer is built from the rows as they are after the commit, and it
\* arrives or is lost.
PollAnswer ==
  /\ answering # {}
  /\ answering' = {}
  /\ \/ /\ batch' = answering
        /\ told' = [t \in Task |-> IF t \in answering THEN task[t].config ELSE told[t]]
     \/ UNCHANGED <<batch, told>>
  /\ UNCHANGED <<rowVars, taskVars, handler, nodeVars, ran, unacked, late, superseded>>

\* expire_stale_running_agent_tasks.
Expire(t) ==
  /\ tstatus[t] = "running"
  /\ tstatus' = [tstatus EXCEPT ![t] = "failed"]
  /\ UNCHANGED <<rowVars, task, handler, nodeVars, agentVars, superseded>>

\* The agent process ends; the reports it was sending may arrive at any time.
AgentRestart ==
  /\ batch \cup unacked \cup answering # {}
  /\ batch' = {} /\ unacked' = {} /\ answering' = {} /\ late' = late \cup unacked
  /\ UNCHANGED <<rowVars, taskVars, handler, nodeVars, told, ran, superseded>>

-----------------------------------------------------------------------------
(* What the agent does on the node (system.py).                            *)

\* The interface and the file after a task of this type has succeeded.  A stop
\* or start that finds the interface as it should be does nothing; a
\* configuration is not deleted under a running interface.
Succeeds(t) ==
  \/ task[t].type = "apply" /\ up' = TRUE /\ file' = told[t]
  \/ task[t].type = "start" /\ (up \/ file # NoConfig) /\ up' = TRUE /\ UNCHANGED file
  \/ task[t].type = "stop" /\ up' = FALSE /\ UNCHANGED file
  \/ task[t].type = "delete" /\ ~ up /\ file' = NoConfig /\ UNCHANGED up
  \/ task[t].type \in {"status", "read"} /\ UNCHANGED nodeVars

\* After a failure: an apply restores the old file, if it can, and restarts or
\* stops the interface; a start or a stop may have had its effect.
Fails(t) ==
  \/ task[t].type = "apply" /\ up' \in BOOLEAN /\ file' \in {file, told[t]}
  \/ task[t].type = "start" /\ ~ up /\ up' \in BOOLEAN /\ UNCHANGED file
  \/ task[t].type = "stop" /\ up /\ up' \in BOOLEAN /\ UNCHANGED file
  \/ task[t].type = "delete" /\ UNCHANGED nodeVars

Found(t) == CASE task[t].type = "status" -> IF up THEN "running" ELSE "stopped"
              [] task[t].type = "read" -> file
              [] OTHER -> told[t]

Execute(t) ==
  /\ t \in batch /\ \A u \in batch : t <= u
  /\ batch' = batch \ {t}
  /\ unacked' = unacked \cup {t}
  /\ \/ Succeeds(t) /\ ran' = [ran EXCEPT ![t] = "ok"]
     \/ Fails(t) /\ ran' = [ran EXCEPT ![t] = "failed"]
  /\ told' = [told EXCEPT ![t] = Found(t)]
  /\ UNCHANGED <<rowVars, taskVars, handler, answering, late, superseded>>

-----------------------------------------------------------------------------
(* agent_task_result.                                                      *)

\* Mutant: the result is matched by the interface id alone.
MutantTargets(t) == exists

\* task_targets: the row is the instance that the task was made for.
Targets(t) == exists /\ task[t].inst = inst

\* Mutant: only the tasks still under way count as newer.
MutantHasNewer(t) ==
  \E u \in Task : /\ u > t /\ task[u].type \in StateType
                  /\ tstatus[u] \in {"pending", "running"}

\* has_newer_interface_state_task.
HasNewerStateTask(t) ==
  \E u \in Task : /\ u > t /\ task[u].type \in StateType
                  /\ tstatus[u] \notin {"absent", "cancelled"}

\* What a result writes to the row.
Effects(t) ==
  IF ran[t] = "ok" /\ Targets(t)
  THEN /\ deployed' = CASE task[t].type = "apply" -> task[t].config
                        [] task[t].type = "read" -> told[t]
                        [] OTHER -> deployed
       /\ runtime' = CASE task[t].type \in Deployment -> "running"
                       [] task[t].type = "stop" -> "stopped"
                       [] task[t].type = "status" /\ ~ HasNewerStateTask(t) -> told[t]
                       [] OTHER -> runtime
  ELSE UNCHANGED <<deployed, runtime>>

\* A report is handled.  Only a running row is written.
Handle(t) ==
  /\ IF tstatus[t] = "running"
     THEN /\ tstatus' = [tstatus EXCEPT ![t] = IF ran[t] = "ok" THEN "succeeded" ELSE "failed"]
          /\ Effects(t)
     ELSE UNCHANGED <<tstatus, deployed, runtime>>
  /\ UNCHANGED <<exists, kind, inst, desired, plan, task, handler, nodeVars, answering, batch, told,
                 ran, superseded>>

Report(t) == t \in unacked /\ unacked' = unacked \ {t} /\ UNCHANGED late /\ Handle(t)

LateReport(t) == t \in late /\ late' = late \ {t} /\ UNCHANGED unacked /\ Handle(t)

-----------------------------------------------------------------------------
Administrator ==
  \/ \E c \in Config : CreateManaged(c) \/ CreateManual(c) \/ Edit(c)
  \/ PlanApply \/ ConfirmPlan
  \/ \E type \in Refreshes : Refresh(type)
  \/ \E h \in Handler :
       \/ \E c \in Config : UpdateBegin(h, c)
       \/ UpdateCommit(h)
       \/ StartBegin(h) \/ StartCommit(h)
       \/ StopBegin(h) \/ StopCancels(h) \/ StopQueues(h)
       \/ DeleteBegin(h) \/ \E keep \in BOOLEAN : DeleteCommit(h, keep)
       \/ HandlerFails(h)

Delivery ==
  \/ PollClaim \/ PollAnswer \/ AgentRestart
  \/ \E t \in Task : Expire(t) \/ Execute(t) \/ Report(t) \/ LateReport(t)

Next == Administrator \/ Delivery

Spec == Init /\ [][Next]_vars

-----------------------------------------------------------------------------
(***************************************************************************)
(* A stop that the controller has accepted undoes the deployments that were *)
(* under way when it was requested: once the stop has been carried out on   *)
(* the node, none of them is, although a new request may reuse an old       *)
(* pending stop (cancel_pending_interface_deployment_tasks and the          *)
(* dependency on the running deployment).                                   *)
(***************************************************************************)
StopSupersedes ==
  [][\A s \in Task : \A t \in superseded[s] :
       ran[s] # "no" /\ ran[t] = "no" => ran'[t] = "no"]_vars

(***************************************************************************)
(* What a row shows was found out for that very configuration: a row that   *)
(* has a baseline or is shown as running is backed by a task of its own     *)
(* instance that succeeded, even when SQLite has given it the id of a       *)
(* deleted row whose tasks still report (task_identity.py:1).               *)
(***************************************************************************)
ShownStateIsOwn ==
  exists /\ (deployed # NoConfig \/ runtime = "running") =>
    \E t \in Task : tstatus[t] = "succeeded" /\ task[t].inst = inst

(***************************************************************************)
(* "After a successful deployment record the configuration deployed on the  *)
(* node, so that later change plans compare with the real baseline"         *)
(* (main.py:7520): the configuration recorded for a succeeded apply is the  *)
(* one that the agent was given.                                            *)
(***************************************************************************)
BaselineWasApplied ==
  \A t \in Task : tstatus[t] = "succeeded" /\ task[t].type = "apply" =>
    task[t].config = told[t]

(***************************************************************************)
(* "A status query may have been claimed before a start or stop; its late   *)
(* result must not overwrite the real state change that was queued or       *)
(* completed after it" (main.py:7537): the result of a status query that    *)
(* was asked for before a state change is not shown once that change has    *)
(* been carried out on the node, however late its report is.                *)
(***************************************************************************)
LateStatusIsIgnored ==
  [][\A t, u \in Task :
       /\ task[t].type = "status" /\ tstatus[t] = "running" /\ tstatus'[t] = "succeeded"
       /\ u > t /\ task[u].type \in StateType /\ ran[u] # "no"
       => runtime' = runtime]_vars

(***************************************************************************)
(* "A configuration that is running must be closed first" (main.py:6750):   *)
(* when no task is under way, each one has succeeded or was cancelled, and  *)
(* the check of a deletion lets it pass, the interface is down on the node. *)
(***************************************************************************)
DeletedOnlyWhenDown ==
  [][\A h \in Handler :
       /\ handler[h].op # "delete" /\ handler'[h].op = "delete"
       /\ \A t \in Task : tstatus[t] \in {"absent", "succeeded", "cancelled"}
       => ~ up]_vars
=============================================================================
