---------------------------- MODULE GreEndpoint -----------------------------
(***************************************************************************)
(* One GRE endpoint (a connection_endpoints row of                         *)
(* apps/api/link42_api/main.py), the agent tasks of its id, and the tunnel  *)
(* devices and configuration files on its node                             *)
(* (apps/agent/link42_agent/gre.py).  A deployment is two tasks, apply and  *)
(* then start; an edit may rename the device.                              *)
(*                                                                         *)
(* Every request reads the row and, before its first write, some tasks      *)
(* (Begin); from the first write on it holds the lock (Commit).  One        *)
(* request is under way at a time; polls and reports come in between.  A    *)
(* payload is only rewritten while its row is pending, so that claiming a   *)
(* task and answering the poll are one step here.                          *)
(***************************************************************************)
EXTENDS Integers, FiniteSets

CONSTANTS
  Name,         \* interface names
  Config,       \* tunnel parameters; two devices cannot share them
  NoName, NoConfig,
  Requests,     \* bound: the requests that the administrator makes
  BatchSize,    \* AGENT_TASK_POLL_BATCH_SIZE
  MaxTasks,     \* bound: tasks ever created
  MaxInstances  \* bound: rows ever created, all with the same id

ASSUME GreBoundAssumption == /\ MaxTasks \in Nat \ {0}
                             /\ MaxInstances \in Nat \ {0}
                             /\ BatchSize \in Nat \ {0}
ASSUME GreRequestAssumption ==
  Requests \subseteq {"create", "update", "start", "stop", "delete", "refresh"}
ASSUME GreNullAssumption == NoName \notin Name /\ NoConfig \notin Config \cup {"running", "stopped"}

Task       == 1..MaxTasks
NoTask     == 0
Deployment == {"apply", "start"}
StateType  == {"apply", "start", "stop"}
TaskType   == StateType \cup {"status", "delete"}
Status     == {"absent", "pending", "running", "succeeded", "failed", "cancelled"}
Runtime    == {"starting", "running", "stopping", "stopped", "failed"}

VARIABLES
  row,      \* the endpoint: exists, inst (its identity), name, prev
            \* (previous_interface_name), config, deployed, runtime
  task,     \* type and payload
  tstatus,  \* AgentTask.status
  request,  \* the request under way: what it has read
  dev,      \* device name -> the parameters it is up with
  file,     \* device name -> the configuration file
  batch,    \* tasks fetched and not executed
  ran,      \* how the execution ended
  seen,     \* what the agent has carried out, or found
  unacked,  \* reports the agent keeps
  late      \* reports that outlived the agent process

taskVars  == <<task, tstatus>>
nodeVars  == <<dev, file>>
agentVars == <<batch, ran, seen, unacked, late>>
vars == <<row, taskVars, request, nodeVars, agentVars>>

MaybeConfig == Config \cup {NoConfig}
MaybeName   == Name \cup {NoName}

Row == [exists : BOOLEAN, inst : 0..MaxInstances, name : MaybeName, prev : MaybeName,
        config : MaybeConfig, deployed : MaybeConfig, runtime : Runtime]

NoRow == [exists |-> FALSE, inst |-> 0, name |-> NoName, prev |-> NoName,
          config |-> NoConfig, deployed |-> NoConfig, runtime |-> "stopped"]

Idle == [op |-> "none", row |-> NoRow, name |-> NoName, config |-> NoConfig,
         dep |-> NoTask, pending |-> NoTask, running |-> NoTask]

TypeOK ==
  /\ row \in Row
  /\ task \in [Task -> [type : TaskType, inst : 0..MaxInstances, name : MaybeName,
                        prev : MaybeName, config : MaybeConfig,
                        dep : Task \cup {NoTask}, goes : BOOLEAN]]
  /\ tstatus \in [Task -> Status]
  /\ request \in [op : {"none", "update", "start", "stop", "delete"}, row : Row,
                  name : MaybeName, config : MaybeConfig, dep : Task \cup {NoTask},
                  pending : Task \cup {NoTask}, running : Task \cup {NoTask}]
  /\ dev \in [Name -> MaybeConfig] /\ file \in [Name -> MaybeConfig]
  /\ batch \in SUBSET Task /\ unacked \in SUBSET Task /\ late \in SUBSET Task
  /\ ran \in [Task -> {"no", "ok", "failed"}]
  /\ seen \in [Task -> MaybeConfig \cup {"running", "stopped"}]

\* A node without GRE, or one with an endpoint that has been deployed and runs.
Init ==
  /\ \/ row = NoRow
     \/ \E n \in Name, c \in Config :
          row = [exists |-> TRUE, inst |-> 1, name |-> n, prev |-> NoName, config |-> c,
                 deployed |-> c, runtime |-> "running"]
  /\ dev = [n \in Name |-> IF n = row.name THEN row.config ELSE NoConfig]
  /\ file = dev
  /\ task = [t \in Task |-> [type |-> "status", inst |-> 0, name |-> NoName, prev |-> NoName,
                             config |-> NoConfig, dep |-> NoTask, goes |-> FALSE]]
  /\ tstatus = [t \in Task |-> "absent"]
  /\ request = Idle
  /\ batch = {} /\ unacked = {} /\ late = {}
  /\ ran = [t \in Task |-> "no"]
  /\ seen = [t \in Task |-> NoConfig]

-----------------------------------------------------------------------------
(* The task table as a value, since one request makes several tasks.       *)

Table == [task |-> task, st |-> tstatus, full |-> FALSE]

Find(T, types, st) == {t \in Task : T.task[t].type \in types /\ T.st[t] \in st}
Oldest(S) == IF S = {} THEN NoTask ELSE CHOOSE t \in S : \A u \in S : t <= u
Newest(S) == IF S = {} THEN NoTask ELSE CHOOSE t \in S : \A u \in S : u <= t
NextId(T) == Cardinality({t \in Task : T.st[t] # "absent"}) + 1

\* Table T with a new row for payload p, if the bound leaves one.
Insert(T, p) == [task |-> [T.task EXCEPT ![NextId(T)] = p],
                 st |-> [T.st EXCEPT ![NextId(T)] = "pending"],
                 full |-> T.full \/ NextId(T) > MaxTasks]

\* gre_task_payload of a row; an old name equal to the new one is left out.
Payload(type, r, dep, goes) ==
  [type |-> type, inst |-> r.inst, name |-> r.name,
   prev |-> IF r.prev = r.name THEN NoName ELSE r.prev,
   config |-> r.config, dep |-> dep, goes |-> goes]

\* Mutant: the payload is written whatever the status of the row is by now.
MutantRewritable(T, t) == t # NoTask

\* The guard of the UPDATE that refreshes the payload of a pending task.
Rewritable(T, t) == t # NoTask /\ T.st[t] = "pending"

Rewrite(T, t, p) == [T EXCEPT !.task[t] = p]

\* create_connection_endpoint_task on table T: the table after it and the task
\* it returns.  pending and running are the tasks of the type that it has read;
\* update: update_pending_payload; after: queue_after_running.
Create(T, p, update, after, pending, running) ==
  LET lost  == pending # NoTask /\ update   \* when the refresh changes no row
      now   == IF lost THEN Newest(Find(T, {p.type}, {"running"})) ELSE running
      q     == IF now # NoTask /\ p.dep = NoTask THEN [p EXCEPT !.dep = now] ELSE p
      clash == Oldest(Find(T, {p.type}, {"pending"}))
  IN CASE pending # NoTask /\ ~ update -> [tab |-> T, id |-> pending]
       [] lost /\ Rewritable(T, pending) -> [tab |-> Rewrite(T, pending, p), id |-> pending]
       [] OTHER ->
            IF now # NoTask /\ ~ after THEN [tab |-> T, id |-> now]
            ELSE IF clash = NoTask THEN [tab |-> Insert(T, q), id |-> NextId(T)]
            ELSE [tab |-> IF update THEN Rewrite(T, clash, q) ELSE T, id |-> clash]

\* The same inside the transaction: what it reads is the table itself.
CreateNow(T, p, update, after) ==
  Create(T, p, update, after, Oldest(Find(T, {p.type}, {"pending"})),
         Newest(Find(T, {p.type}, {"running"})))

\* The table becomes T.
SetTable(T) == ~ T.full /\ task' = T.task /\ tstatus' = T.st

-----------------------------------------------------------------------------
(* Requests.                                                               *)

Begin(op, read) ==
  /\ op \in Requests /\ row.exists /\ request = Idle
  /\ request' = [read EXCEPT !.op = op, !.row = row]
  /\ UNCHANGED <<row, taskVars, nodeVars, agentVars>>

\* A column that the session sets to new, having loaded old, and whose value in
\* the database is now current: equal values are not written.
Column(new, old, current) == IF new = old THEN current ELSE new

\* Mutant: a task that exists is reused as it is.
MutantApplyAndStart(T, r, dep, pending, running) ==
  LET a == Create(T, Payload("apply", r, dep, FALSE), FALSE, FALSE, pending, running)
  IN CreateNow(a.tab, Payload("start", r, a.id, FALSE), FALSE, FALSE).tab

\* enqueue_gre_apply_and_start for the row r, given what it has read.
ApplyAndStart(T, r, dep, pending, running) ==
  LET a == Create(T, Payload("apply", r, dep, FALSE), TRUE, TRUE, pending, running)
  IN CreateNow(a.tab, Payload("start", r, a.id, FALSE), TRUE, TRUE).tab

\* create_managed_connection (one side of it) and create_manual_connection.
CreateEndpoint(n, c) ==
  LET r == [exists |-> TRUE, inst |-> row.inst + 1, name |-> n, prev |-> NoName, config |-> c,
            deployed |-> NoConfig, runtime |-> "starting"] IN
  /\ "create" \in Requests /\ ~ row.exists /\ row.inst < MaxInstances
  /\ row' = r
  /\ SetTable(ApplyAndStart(Table, r, Newest(Find(Table, StateType, {"running"})),
                            Oldest(Find(Table, {"apply"}, {"pending"})),
                            Newest(Find(Table, {"apply"}, {"running"}))))
  /\ UNCHANGED <<request, nodeVars, agentVars>>

\* record_endpoint_rename: the old name after a change of the name to n, in the
\* session's copy r of the row.
PrevAfter(r, n) ==
  CASE r.name = n -> r.prev
    [] r.name # n /\ r.prev = n -> NoName
    [] r.name # n /\ r.prev = NoName -> r.name
    [] OTHER -> r.prev

\* update_connection (one side of it) and update_manual_connection.
UpdateBegin(n, c) ==
  Begin("update", [Idle EXCEPT
    !.name = n, !.config = c,
    !.dep = Newest(Find(Table, StateType, {"running"})),
    !.pending = Oldest(Find(Table, {"apply"}, {"pending"})),
    !.running = Newest(Find(Table, {"apply"}, {"running"}))])

UpdateCommit ==
  LET g    == request
      mine == [g.row EXCEPT !.name = g.name, !.config = g.config,
                            !.prev = PrevAfter(g.row, g.name)] IN
  /\ g.op = "update" /\ row.exists
  /\ row' = [row EXCEPT !.name = Column(g.name, g.row.name, row.name),
                        !.config = Column(g.config, g.row.config, row.config),
                        !.prev = Column(mine.prev, g.row.prev, row.prev),
                        !.runtime = Column("starting", g.row.runtime, row.runtime)]
  /\ SetTable(ApplyAndStart(Table, mine, g.dep, g.pending, g.running))
  /\ request' = Idle
  /\ UNCHANGED <<nodeVars, agentVars>>

\* start_connection, one endpoint.
StartBegin ==
  Begin("start", [Idle EXCEPT !.pending = Oldest(Find(Table, {"start"}, {"pending"})),
                                 !.running = Newest(Find(Table, {"start"}, {"running"}))])

StartCommit ==
  LET g == request IN
  /\ g.op = "start" /\ row.exists
  /\ row' = [row EXCEPT !.runtime = Column("starting", g.row.runtime, row.runtime)]
  /\ SetTable(Create(Table, Payload("start", g.row, NoTask, FALSE), FALSE, FALSE,
                     g.pending, g.running).tab)
  /\ request' = Idle
  /\ UNCHANGED <<nodeVars, agentVars>>

\* cancel_pending_gre_deployment_tasks.
CancelDeployment(T) ==
  [T EXCEPT !.st = [t \in Task |-> IF t \in Find(T, Deployment, {"pending"}) THEN "cancelled"
                                   ELSE T.st[t]]]

\* The stop task of stop_connection and delete_connection, behind the running
\* deployment.
QueueStop(r) ==
  LET T   == CancelDeployment(Table)
      dep == Newest(Find(T, Deployment, {"running"}))
  IN CreateNow(T, Payload("stop", r, dep, dep # NoTask), TRUE, FALSE)

StopBegin == Begin("stop", Idle)

\* stop_connection, one endpoint.
StopCommit ==
  LET g == request IN
  /\ g.op = "stop" /\ row.exists
  /\ row' = [row EXCEPT !.runtime = Column("stopping", g.row.runtime, row.runtime)]
  /\ SetTable(QueueStop(g.row).tab)
  /\ request' = Idle
  /\ UNCHANGED <<nodeVars, agentVars>>

DeleteBegin == Begin("delete", Idle)

\* delete_connection, one endpoint.
DeleteCommit ==
  LET g    == request
      stop == QueueStop(g.row) IN
  /\ g.op = "delete" /\ row.exists
  /\ row' = [NoRow EXCEPT !.inst = row.inst]
  /\ SetTable(CreateNow(stop.tab, Payload("delete", g.row, stop.id, FALSE), FALSE, FALSE).tab)
  /\ request' = Idle
  /\ UNCHANGED <<nodeVars, agentVars>>

\* refresh_connection_status, one endpoint.
Refresh ==
  /\ "refresh" \in Requests /\ row.exists
  /\ SetTable(CreateNow(Table, Payload("status", row, NoTask, FALSE), FALSE, FALSE).tab)
  /\ UNCHANGED <<row, request, nodeVars, agentVars>>

\* The request ends without a commit.
RequestFails ==
  /\ request # Idle
  /\ request' = Idle
  /\ UNCHANGED <<row, taskVars, nodeVars, agentVars>>

-----------------------------------------------------------------------------
(* Delivery, as in AgentTaskQueue.                                         *)

Ended == {"failed", "cancelled"}

Ready(t) ==
  /\ tstatus[t] = "pending"
  /\ \/ task[t].dep = NoTask
     \/ tstatus[task[t].dep] = "succeeded"
     \/ task[t].goes /\ tstatus[task[t].dep] \in Ended

\* Tasks that the poll fails because what they wait for has failed, if only in
\* this very poll.
Doomed ==
  LET fails[t \in Task] ==
        /\ task[t].dep # NoTask /\ ~ task[t].goes
        /\ \/ tstatus[task[t].dep] \in Ended
           \/ task[t].dep < t /\ tstatus[task[t].dep] = "pending" /\ fails[task[t].dep]
  IN {t \in Task : tstatus[t] = "pending" /\ fails[t]}

Claimable == {t \in Task : Ready(t) /\ Cardinality({u \in Task : Ready(u) /\ u < t}) < BatchSize}

\* The answer arrives or is lost.
Poll ==
  /\ batch = {} /\ unacked = {} /\ Claimable \cup Doomed # {}
  /\ tstatus' = [t \in Task |-> IF t \in Claimable THEN "running"
                                ELSE IF t \in Doomed THEN "failed" ELSE tstatus[t]]
  /\ batch' \in {Claimable, {}}
  /\ UNCHANGED <<row, task, request, nodeVars, ran, seen, unacked, late>>

\* expire_stale_running_agent_tasks.
Expire(t) ==
  /\ tstatus[t] = "running"
  /\ tstatus' = [tstatus EXCEPT ![t] = "failed"]
  /\ UNCHANGED <<row, task, request, nodeVars, agentVars>>

\* The agent process ends; the reports it was sending may arrive at any time.
AgentRestart ==
  /\ batch \cup unacked # {}
  /\ batch' = {} /\ unacked' = {} /\ late' = late \cup unacked
  /\ UNCHANGED <<row, taskVars, request, nodeVars, ran, seen>>

-----------------------------------------------------------------------------
(* The node (gre.py).                                                      *)

Cleared(f, names) == [n \in Name |-> IF n \in names THEN NoConfig ELSE f[n]]

\* After a success.  A start removes the device and the file of the old name,
\* recreates its own device, and fails while another device has its parameters.
Succeeds(p) ==
  \/ p.type = "apply" /\ file' = [file EXCEPT ![p.name] = p.config] /\ UNCHANGED dev
  \/ /\ p.type = "start"
     /\ \A n \in Name \ {p.name, p.prev} : dev[n] # p.config
     /\ dev' = [Cleared(dev, {p.prev}) EXCEPT ![p.name] = p.config]
     /\ file' = [Cleared(file, {p.prev}) EXCEPT ![p.name] = p.config]
  \/ p.type = "stop" /\ dev' = Cleared(dev, {p.name}) /\ UNCHANGED file
  \/ /\ p.type = "delete"
     /\ dev' = Cleared(dev, {p.name, p.prev}) /\ file' = Cleared(file, {p.name, p.prev})
  \/ p.type = "status" /\ UNCHANGED nodeVars

\* After a failure: whatever of it has been done.
Fails(p) ==
  \/ p.type \in {"apply", "status"} /\ UNCHANGED nodeVars
  \/ /\ p.type = "start"
     /\ dev' \in {dev, Cleared(dev, {p.prev}), Cleared(dev, {p.prev, p.name}),
                  [Cleared(dev, {p.prev}) EXCEPT ![p.name] = p.config]}
     /\ file' \in {file, [file EXCEPT ![p.name] = p.config]}
  \/ p.type = "stop" /\ dev' \in {dev, Cleared(dev, {p.name})} /\ UNCHANGED file
  \/ /\ p.type = "delete"
     /\ dev' \in {dev, Cleared(dev, {p.name}), Cleared(dev, {p.name, p.prev})}
     /\ file' \in {file, Cleared(file, {p.name})}

Execute(t) ==
  /\ t \in batch /\ \A u \in batch : t <= u
  /\ batch' = batch \ {t} /\ unacked' = unacked \cup {t}
  /\ \/ Succeeds(task[t]) /\ ran' = [ran EXCEPT ![t] = "ok"]
     \/ Fails(task[t]) /\ ran' = [ran EXCEPT ![t] = "failed"]
  /\ seen' = [seen EXCEPT ![t] = CASE task[t].type \in Deployment -> task[t].config
                                   [] task[t].type = "status" ->
                                        IF dev[task[t].name] # NoConfig THEN "running" ELSE "stopped"
                                   [] OTHER -> NoConfig]
  /\ UNCHANGED <<row, taskVars, request, late>>

-----------------------------------------------------------------------------
(* agent_task_result.                                                      *)

\* task_targets.
Targets(t) == row.exists /\ task[t].inst = row.inst

\* has_newer_endpoint_state_task.
HasNewerStateTask(t) == \E u \in Find(Table, StateType, Status \ {"absent", "cancelled"}) : u > t

\* The row after a succeeded task.
AfterSuccess(t) ==
  LET p == task[t] IN
  CASE p.type = "apply" -> [row EXCEPT !.deployed = p.config]
    [] p.type = "start" ->
         [row EXCEPT !.runtime = "running",
                     !.prev = IF p.name = row.name /\ p.prev = row.prev THEN NoName ELSE row.prev]
    [] p.type = "stop" -> [row EXCEPT !.runtime = "stopped"]
    [] p.type = "status" /\ ~ HasNewerStateTask(t) -> [row EXCEPT !.runtime = seen[t]]
    [] OTHER -> row

Handle(t) ==
  /\ IF tstatus[t] # "running"
     THEN UNCHANGED <<tstatus, row>>
     ELSE /\ tstatus' = [tstatus EXCEPT ![t] = IF ran[t] = "ok" THEN "succeeded" ELSE "failed"]
          /\ row' = IF ~ Targets(t) THEN row
                    ELSE IF ran[t] = "ok" THEN AfterSuccess(t)
                    ELSE [row EXCEPT !.runtime = "failed"]
  /\ UNCHANGED <<task, request, nodeVars, batch, ran, seen>>

Report(t) == t \in unacked /\ unacked' = unacked \ {t} /\ UNCHANGED late /\ Handle(t)

LateReport(t) == t \in late /\ late' = late \ {t} /\ UNCHANGED unacked /\ Handle(t)

-----------------------------------------------------------------------------
Administrator ==
  \/ \E n \in Name, c \in Config : CreateEndpoint(n, c) \/ UpdateBegin(n, c)
  \/ UpdateCommit
  \/ StartBegin \/ StartCommit
  \/ StopBegin \/ StopCommit
  \/ DeleteBegin \/ DeleteCommit
  \/ Refresh
  \/ RequestFails

Delivery ==
  \/ Poll \/ AgentRestart
  \/ \E t \in Task : Expire(t) \/ Execute(t) \/ Report(t) \/ LateReport(t)

Next == Administrator \/ Delivery

Spec == Init /\ [][Next]_vars

-----------------------------------------------------------------------------
\* No task is under way, and each one has succeeded or was cancelled.
AllDone == /\ \A t \in Task : tstatus[t] \in {"absent", "succeeded", "cancelled"}
           /\ request = Idle

\* The newest start was cancelled, so that a stop or a deletion came after what it was for.
Withdrawn ==
  LET last == Newest(Find(Table, {"start"}, Status \ {"absent"}))
  IN last # NoTask /\ tstatus[last] = "cancelled"

(***************************************************************************)
(* "An edit updates the pending tasks or queues behind the claimed ones; it *)
(* must not reuse an old apply or start and save the wish in the database   *)
(* only" (main.py:3592): when all is done and the last start was not        *)
(* withdrawn, a tunnel that is up has the parameters that the row asks for. *)
(***************************************************************************)
EditReachesNode ==
  AllDone /\ row.exists /\ ~ Withdrawn => dev[row.name] \in {row.config, NoConfig}

(***************************************************************************)
(* "On a stop or a deletion cancel the deployments that were not fetched,   *)
(* so that no old task brings the interface up again" (main.py:3619): when  *)
(* all is done and the last start was withdrawn, the device is down.        *)
(***************************************************************************)
WithdrawnStaysDown ==
  AllDone /\ row.exists /\ Withdrawn => dev[row.name] = NoConfig

(***************************************************************************)
(* "The baseline comes from the task snapshot that was really executed, not *)
(* from the endpoint, which may be edited meanwhile" (main.py:7555): what a  *)
(* result records as deployed is what the agent has written.                *)
(***************************************************************************)
BaselineWasApplied ==
  [][row'.deployed \notin {row.deployed, NoConfig} =>
       \E t \in Task : /\ tstatus[t] = "running" /\ tstatus'[t] = "succeeded"
                       /\ task[t].type = "apply" /\ seen[t] = row'.deployed]_vars

(***************************************************************************)
(* "Record the name before a rename, so that the agent can remove the old   *)
(* device" (main.py:3693): when all is done, every device on the node has   *)
(* the name of the endpoint or the recorded old one.                        *)
(***************************************************************************)
OldDeviceIsRecorded ==
  AllDone /\ row.exists => \A n \in Name : dev[n] # NoConfig => n \in {row.name, row.prev}
=============================================================================
