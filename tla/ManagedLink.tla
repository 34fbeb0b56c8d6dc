----------------------------- MODULE ManagedLink -----------------------------
(***************************************************************************)
(* A managed link (apps/api/link42_api/main.py): two WireGuard interfaces   *)
(* on two nodes that are created, edited, renamed, started, stopped and     *)
(* deleted together, with an optional middleware in front of them, udp2raw  *)
(* or mimic.  An operation is one transaction that queues several tasks on  *)
(* each node; the nodes carry them out independently.                       *)
(*                                                                         *)
(* The tasks of a side are a sequence in the order of their ids.  A poll    *)
(* claims the ready ones, the agent executes them in their order and        *)
(* reports each at once: lost and late reports are the subject of           *)
(* AgentTaskQueue and InterfaceLifecycle.  What a task does on the node is  *)
(* one step (WireGuardApply and Middleware take it apart); a failed task    *)
(* has done nothing.  Nodes stay online.                                    *)
(***************************************************************************)
EXTENDS Naturals, Sequences, FiniteSets

CONSTANTS
  Side,            \* the two interfaces of the link
  Scenarios,       \* bound: the sets of requests made in one behaviour
  Plugins,         \* bound: middleware types that are used
  MaxConfig,       \* bound: versions of the configuration and of the middleware
  MaxName,         \* bound: names an interface has had
  MaxLinkRequests, \* bound: requests after the creation
  MaxTaskFailures, \* bound: tasks that fail
  LinkBatchSize    \* AGENT_TASK_POLL_BATCH_SIZE

\* Requests are made at any time, or, in a scenario with "settled", when the tasks
\* queued so far are done.  In one with "faultless", no task fails.
LinkRequest == {"update", "middleware", "rename", "start", "stop", "delete"}

ASSUME LinkAssumption ==
  /\ Cardinality(Side) = 2 /\ Plugins \subseteq {"udp2raw", "mimic"}
  /\ \A S \in Scenarios : S \subseteq LinkRequest \cup {"settled", "faultless"}
  /\ {MaxConfig, MaxName, LinkBatchSize} \subseteq Nat \ {0}
  /\ {MaxLinkRequests, MaxTaskFailures} \subseteq Nat

NoMw == [plugin |-> "none", v |-> 0]
MwActions == {"install", "mw_apply", "mw_start", "mw_stop", "mw_delete"}
LinkTaskType == {"apply", "start", "stop", "delete"} \cup MwActions

VARIABLES
  scenario,   \* the requests of this behaviour
  link,       \* the shared part of both rows: exists, config version, middleware
  side,       \* per side: name, previous_interface_name (0: none), runtime_status
  queue,      \* per side: its tasks, in the order of their ids
  work,       \* per side: indices of the tasks the agent has fetched
  box,        \* per side, the node: file and running configuration of each name,
              \* and of each middleware plugin
  linkHist    \* counters of the bounds, whether a task has failed, and whether a
              \* rename was recorded while an apply of the old name was running

linkVars == <<scenario, link, side, queue, work, box, linkHist>>

IfName == 1..MaxName
Ver  == 0..MaxConfig

LinkTypeOK ==
  /\ scenario \in Scenarios
  /\ link.exists \in BOOLEAN /\ link.config \in Ver
  /\ link.mw \in [plugin : Plugins \cup {"none"}, v : Ver]
  /\ side \in [Side -> [name : IfName, prev : 0..MaxName,
                        runtime : {"stopped", "starting", "running", "stopping"}]]
  /\ \A s \in Side : \A k \in DOMAIN queue[s] :
       /\ queue[s][k].type \in LinkTaskType
       /\ queue[s][k].name \in IfName /\ queue[s][k].prev \in 0..MaxName
       /\ queue[s][k].dep \in 0..Len(queue[s])
       /\ queue[s][k].status \in {"pending", "running", "succeeded", "failed", "cancelled"}
  /\ \A s \in Side : work[s] \subseteq DOMAIN queue[s]
  /\ box \in [Side -> [file : [IfName -> Ver], up : [IfName -> Ver],
                       mwFile : [Plugins -> Ver], mwUp : [Plugins -> Ver]]]
  /\ linkHist \in [requests : 0..MaxLinkRequests, failures : 0..MaxTaskFailures,
                   failed : BOOLEAN, overtook : BOOLEAN]

-----------------------------------------------------------------------------
(* The task table of one side.                                             *)

TaskOf(type, name, prev, v, mw, dep, cont) ==
  [type |-> type, name |-> name, prev |-> prev, v |-> v, mw |-> mw, dep |-> dep,
   cont |-> cont, status |-> "pending"]

Earliest(S) == CHOOSE k \in S : \A j \in S : k <= j
Like(q, t, st) == {k \in DOMAIN q : q[k].type = t.type /\ q[k].status \in st
                                    /\ (t.type \in MwActions => q[k].mw.plugin = t.mw.plugin)}

MutantEnqueue(q, t, upd, after) ==
  LET pending == Like(q, t, {"pending"})
      running == Like(q, t, {"running"})
  IN CASE pending # {} -> [q |-> q, changed |-> FALSE, id |-> Earliest(pending)]
       [] pending = {} /\ running # {} /\ ~ after -> [q |-> q, changed |-> FALSE, id |-> Earliest(running)]
       [] OTHER -> [q |-> Append(q, t), changed |-> TRUE, id |-> Len(q) + 1]

\* enqueue_interface_task_once_with_task: the pending task of the type is reused
\* (and rewritten if asked), a running one is reused unless the new one may queue
\* after it.  Also the task that took part, for dependencies.
Enqueue(q, t, upd, after) ==
  LET pending == Like(q, t, {"pending"})
      running == Like(q, t, {"running"})
  IN CASE pending # {} /\ upd   -> [q |-> [q EXCEPT ![Earliest(pending)] = t], changed |-> TRUE,
                                    id |-> Earliest(pending)]
       [] pending # {} /\ ~ upd -> [q |-> q, changed |-> FALSE, id |-> Earliest(pending)]
       [] pending = {} /\ running # {} /\ ~ after -> [q |-> q, changed |-> FALSE, id |-> Earliest(running)]
       [] OTHER -> [q |-> Append(q, t), changed |-> TRUE, id |-> Len(q) + 1]

\* cancel_pending_interface_tasks.
CancelPending(q, types) ==
  [k \in DOMAIN q |-> IF q[k].type \in types /\ q[k].status = "pending"
                      THEN [q[k] EXCEPT !.status = "cancelled"] ELSE q[k]]

\* running_interface_deployment_task_id: the newest one, 0 for none.
RunningDeployment(q) ==
  LET R == {k \in DOMAIN q : q[k].type \in {"apply", "start"} /\ q[k].status = "running"}
  IN IF R = {} THEN 0 ELSE CHOOSE k \in R : \A j \in R : j <= k

\* enqueue_apply_config: after a rename the old name is stopped and deleted first.
EnqueueApply(q, row, config) ==
  IF row.prev \notin {0, row.name}
  THEN LET stop == Enqueue(CancelPending(q, {"apply"}),
                           TaskOf("stop", row.prev, 0, 0, NoMw, 0, FALSE), TRUE, FALSE)
           del  == Enqueue(stop.q, TaskOf("delete", row.prev, 0, 0, NoMw, stop.id, FALSE), TRUE, FALSE)
       IN Enqueue(del.q, TaskOf("apply", row.name, row.prev, config, NoMw, del.id, FALSE), TRUE, TRUE)
  ELSE Enqueue(q, TaskOf("apply", row.name, 0, config, NoMw, 0, FALSE), TRUE, TRUE)

-----------------------------------------------------------------------------
(* Middleware tasks of one side.                                           *)

MwTask(action, name, mw, dep) == TaskOf(action, name, 0, 0, mw, dep, TRUE)

\* enqueue_middleware_tasks: udp2raw is installed first, and its configuration
\* replaces a pending one; mimic's is only queued if there is none.
EnqueueMw(q, name, mw) ==
  CASE mw.plugin = "none"    -> q
    [] mw.plugin = "udp2raw" ->
         Enqueue(Enqueue(q, MwTask("install", name, mw, 0), FALSE, FALSE).q,
                 MwTask("mw_apply", name, mw, 0), TRUE, TRUE).q
    [] mw.plugin = "mimic"   -> Enqueue(q, MwTask("mw_apply", name, mw, 0), FALSE, FALSE).q

\* enqueue_middleware_cleanup_tasks when the configuration differs, and the same
\* two tasks in delete_managed_link.
EnqueueMwCleanup(q, name, old) ==
  IF old = NoMw THEN q
  ELSE LET stop == Enqueue(q, MwTask("mw_stop", name, old, 0), TRUE, FALSE)
       IN Enqueue(stop.q, MwTask("mw_delete", name, old, stop.id), TRUE, FALSE).q

-----------------------------------------------------------------------------
(* The administrator.                                                      *)

SideActive(s)  == \E k \in DOMAIN queue[s] : queue[s][k].status \in {"pending", "running"}
LinkQuiet  == \A s \in Side : ~ SideActive(s)

Asks(request) ==
  /\ request \in scenario /\ link.exists /\ linkHist.requests < MaxLinkRequests
  /\ "settled" \in scenario => LinkQuiet
  /\ linkHist' = [linkHist EXCEPT !.requests = @ + 1,
       !.overtook = @ \/ (request = "rename" /\ \E s \in Side : RunningDeployment(queue[s]) # 0)]
  /\ UNCHANGED <<scenario, work, box>>

\* create_managed_link has just committed: nothing else has happened yet.  Only
\* the scenarios that edit the middleware start with one.
LinkInit ==
  /\ scenario \in Scenarios
  /\ \E mw \in {NoMw} \cup (IF "middleware" \in scenario THEN [plugin : Plugins, v : {1}] ELSE {}) :
       /\ link = [exists |-> TRUE, config |-> 1, mw |-> mw]
       /\ side = [s \in Side |-> [name |-> 1, prev |-> 0, runtime |-> "starting"]]
       /\ queue = [s \in Side |-> EnqueueApply(EnqueueMw(<<>>, 1, mw), [name |-> 1, prev |-> 0], 1).q]
  /\ work = [s \in Side |-> {}]
  /\ box = [s \in Side |-> [file |-> [n \in IfName |-> 0], up |-> [n \in IfName |-> 0],
                            mwFile |-> [p \in Plugins |-> 0], mwUp |-> [p \in Plugins |-> 0]]]
  /\ linkHist = [requests |-> 0, failures |-> 0, failed |-> FALSE, overtook |-> FALSE]

MutantRecordRename(row, name) == [row EXCEPT !.name = name]
\* record_interface_rename.
RecordRename(row, name) ==
  [row EXCEPT !.name = name,
              !.prev = CASE row.name = name -> @ [] row.name # name /\ @ = name -> 0
                         [] row.name # name /\ @ = 0 -> row.name [] OTHER -> @]

\* update_managed_link: new configuration, middleware and names.
UpdateLink(mw, name) ==
  LET rows == [s \in Side |-> RecordRename(side[s], name[s])]
      queued(s) == EnqueueApply(
                     EnqueueMw(IF mw # link.mw THEN EnqueueMwCleanup(queue[s], name[s], link.mw)
                               ELSE queue[s], name[s], mw),
                     rows[s], link.config + 1)
  IN /\ link.config < MaxConfig
     /\ link' = [link EXCEPT !.config = @ + 1, !.mw = mw]
     /\ queue' = [s \in Side |-> queued(s).q]
     /\ side' = [s \in Side |-> IF queued(s).changed THEN [rows[s] EXCEPT !.runtime = "starting"]
                                ELSE rows[s]]

IfNames == [s \in Side |-> side[s].name]
UpdateOnly == Asks("update") /\ UpdateLink(link.mw, IfNames)
\* Another middleware, none, or other parameters of the same one.
UpdateMiddleware(mw) == Asks("middleware") /\ mw # link.mw /\ UpdateLink(mw, IfNames)
Rename(S) == /\ Asks("rename") /\ \A s \in S : side[s].name < MaxName
             /\ UpdateLink(link.mw, [s \in Side |-> IF s \in S THEN IfNames[s] + 1 ELSE IfNames[s]])

\* start_managed_link.
Start ==
  LET startsMw(s) == IF link.mw = NoMw THEN queue[s]
                     ELSE Enqueue(queue[s], MwTask("mw_start", IfNames[s], link.mw, 0), FALSE, FALSE).q
      starts(s) == Enqueue(startsMw(s), TaskOf("start", IfNames[s], 0, 0, NoMw, 0, FALSE), FALSE, FALSE)
      idle(s) == side[s].runtime \notin {"running", "starting"}
  IN /\ Asks("start") /\ UNCHANGED link
     /\ queue' = [s \in Side |-> IF idle(s) THEN starts(s).q ELSE startsMw(s)]
     /\ side' = [s \in Side |-> IF idle(s) /\ starts(s).changed
                                THEN [side[s] EXCEPT !.runtime = "starting"] ELSE side[s]]

MutantStopSide(s) ==
  LET dep == RunningDeployment(queue[s])
  IN Enqueue(queue[s], TaskOf("stop", side[s].name, 0, 0, NoMw, dep, TRUE), TRUE, FALSE)

\* One side of stop_managed_link: what is not delivered is withdrawn, what is
\* being carried out is waited for.
StopSide(s) ==
  LET q == CancelPending(queue[s], {"apply", "start"})
  IN Enqueue(q, TaskOf("stop", side[s].name, 0, 0, NoMw, RunningDeployment(q), TRUE), TRUE, FALSE)

Stop ==
  LET busy(s) == side[s].runtime \notin {"stopped", "stopping"}
      q(s) == IF busy(s) THEN StopSide(s).q ELSE queue[s]
  IN /\ Asks("stop") /\ UNCHANGED link
     /\ queue' = [s \in Side |-> IF link.mw = NoMw THEN q(s)
                                 ELSE Enqueue(q(s), MwTask("mw_stop", IfNames[s], link.mw, 0), FALSE, FALSE).q]
     /\ side' = [s \in Side |-> IF busy(s) /\ StopSide(s).changed
                                THEN [side[s] EXCEPT !.runtime = "stopping"] ELSE side[s]]

\* delete_managed_link, with or without the files on the nodes.
Delete(files) ==
  LET q(s) == CancelPending(IF files THEN EnqueueMwCleanup(queue[s], IfNames[s], link.mw) ELSE queue[s],
                            {"apply", "start"})
  IN /\ Asks("delete")
     /\ \A s \in Side : side[s].runtime = "stopped"
     /\ link' = [link EXCEPT !.exists = FALSE]
     /\ queue' = [s \in Side |-> IF files
                    THEN Enqueue(q(s), TaskOf("delete", IfNames[s], 0, 0, NoMw, 0, FALSE), FALSE, FALSE).q
                    ELSE q(s)]
     /\ UNCHANGED side

-----------------------------------------------------------------------------
(* The nodes.                                                              *)

\* is_task_ready_for_poll for the short chains of a link: ready, waiting or failed.
LinkReady(q, k) ==
  \/ q[k].dep = 0
  \/ q[q[k].dep].status = "succeeded"
  \/ q[k].cont /\ q[k].type \in {"stop", "mw_delete"} /\ q[q[k].dep].status \in {"failed", "cancelled"}
MutantLinkDoomed(q, k) == FALSE
\* resolve_task_dependency: behind one that ended otherwise.
LinkDoomed(q, k) == q[k].dep # 0 /\ ~ LinkReady(q, k) /\ q[q[k].dep].status \in {"failed", "cancelled"}

\* agent_poll: tasks behind a failed one fail, the first ready ones are claimed.
NodePolls(s) ==
  LET q == queue[s]
      pending == {k \in DOMAIN q : q[k].status = "pending"}
      doomed  == {k \in pending : LinkDoomed(q, k)}
      ready   == {k \in pending : LinkReady(q, k)}
      taken   == {k \in ready : Cardinality({j \in ready : j < k}) < LinkBatchSize}
  IN /\ work[s] = {} /\ taken \cup doomed # {}
     /\ work' = [work EXCEPT ![s] = taken]
     /\ queue' = [queue EXCEPT ![s] = [k \in DOMAIN q |->
                    CASE k \in doomed -> [q[k] EXCEPT !.status = "failed"]
                      [] k \in taken -> [q[k] EXCEPT !.status = "running"]
                      [] OTHER -> q[k]]]
     /\ linkHist' = [linkHist EXCEPT !.failed = @ \/ doomed # {}]
     /\ UNCHANGED <<scenario, link, side, box>>

\* Whether the node can carry a task out, and what it does.
Feasible(b, t) ==
  CASE t.type = "start"  -> b.up[t.name] # 0 \/ b.file[t.name] # 0
    [] t.type = "delete" -> b.up[t.name] = 0
    [] OTHER -> TRUE
NodeAfter(b, t) ==
  CASE t.type = "apply"  ->
         LET c == [b EXCEPT !.file[t.name] = t.v, !.up[t.name] = t.v]
         IN IF t.prev = 0 THEN c ELSE [c EXCEPT !.file[t.prev] = 0, !.up[t.prev] = 0]
    [] t.type = "start"  -> IF b.up[t.name] # 0 THEN b ELSE [b EXCEPT !.up[t.name] = b.file[t.name]]
    [] t.type = "stop"   -> [b EXCEPT !.up[t.name] = 0]
    [] t.type = "delete" -> [b EXCEPT !.file[t.name] = 0]
    [] t.type = "mw_apply"  -> [b EXCEPT !.mwFile[t.mw.plugin] = t.mw.v, !.mwUp[t.mw.plugin] = t.mw.v]
    [] t.type = "mw_start"  -> [b EXCEPT !.mwUp[t.mw.plugin] = b.mwFile[t.mw.plugin]]
    [] t.type = "mw_stop"   -> [b EXCEPT !.mwUp[t.mw.plugin] = 0]
    [] t.type = "mw_delete" -> [b EXCEPT !.mwFile[t.mw.plugin] = 0, !.mwUp[t.mw.plugin] = 0]
    [] OTHER -> b

\* agent_task_result: runtime_status, and previous_interface_name once the
\* clean-up that the apply waited for has succeeded.
Reported(row, t) ==
  IF ~ link.exists THEN row
  ELSE CASE t.type = "apply" -> [row EXCEPT !.runtime = "running", !.prev = 0]
         [] t.type = "start" -> [row EXCEPT !.runtime = "running"]
         [] t.type = "stop"  -> [row EXCEPT !.runtime = "stopped"]
         [] OTHER -> row

NodeExecutes(s) ==
  LET k == Earliest(work[s])
      t == queue[s][k]
  IN /\ work[s] # {}
     /\ work' = [work EXCEPT ![s] = @ \ {k}]
     /\ \/ /\ Feasible(box[s], t)
           /\ box' = [box EXCEPT ![s] = NodeAfter(@, t)]
           /\ queue' = [queue EXCEPT ![s][k].status = "succeeded"]
           /\ side' = [side EXCEPT ![s] = Reported(@, t)]
           /\ UNCHANGED linkHist
        \/ /\ \/ ~ Feasible(box[s], t) /\ linkHist' = [linkHist EXCEPT !.failed = TRUE]
              \/ /\ linkHist.failures < MaxTaskFailures /\ "faultless" \notin scenario
                 /\ linkHist' = [linkHist EXCEPT !.failures = @ + 1, !.failed = TRUE]
           /\ queue' = [queue EXCEPT ![s][k].status = "failed"]
           /\ UNCHANGED <<box, side>>
     /\ UNCHANGED <<scenario, link>>

LinkNext ==
  \/ UpdateOnly \/ Start \/ Stop
  \/ \E mw \in {NoMw} \cup [plugin : Plugins, v : {link.config + 1}] : UpdateMiddleware(mw)
  \/ \E S \in SUBSET Side \ {{}} : Rename(S)
  \/ \E files \in BOOLEAN : Delete(files)
  \/ \E s \in Side : NodePolls(s) \/ NodeExecutes(s)

LinkSpec == LinkInit /\ [][LinkNext]_linkVars

-----------------------------------------------------------------------------
(* Properties.                                                             *)

UpNames(s) == {n \in IfName : box[s].up[n] # 0}

\* When everything that was queued is done and nothing failed, each node carries
\* what the link says: running, the latest configuration under the current name
\* and no other; stopped, nothing.
NodesFollowLink ==
  LinkQuiet /\ link.exists /\ ~ linkHist.failed => \A s \in Side :
    /\ side[s].runtime \in {"running", "stopped"}
    /\ side[s].runtime = "running" =>
         UpNames(s) = {side[s].name} /\ box[s].up[side[s].name] = link.config
    /\ side[s].runtime = "stopped" => UpNames(s) = {}

\* Both sides end alike: no request leaves one side running and the other stopped
\* unless a task has failed.
SidesEndAlike ==
  LinkQuiet /\ link.exists /\ ~ linkHist.failed =>
    \A s, r \in Side : side[s].runtime = side[r].runtime

\* A name that is up on a node is never forgotten: it is the current one, the one
\* previous_interface_name records, or one that a task to come takes down, also
\* when tasks fail.  Except that an apply of the old name which is running when the
\* rename is recorded clears the record when it succeeds
\* (should_clear_previous_interface_name): then only the queued chain knows, until
\* it fails or a second rename rewrites it.
OldNameIsRecorded ==
  link.exists => \A s \in Side :
    ~ (linkHist.overtook /\ (linkHist.failed \/ side[s].name > 2)) =>
      \A n \in UpNames(s) :
        \/ n \in {side[s].name, side[s].prev}
        \/ \E k \in DOMAIN queue[s] : /\ queue[s][k].status \in {"pending", "running"}
                                      /\ n \in {queue[s][k].name, queue[s][k].prev}

\* "The mark previous_interface_name is cleared only once the clean-up chain of the
\* old interface has succeeded" (main.py:2171), so that when everything that was queued
\* is done and nothing failed, no interface is up but under the name of the side and the
\* recorded old one.
OldNamesAreCleaned ==
  LinkQuiet /\ link.exists /\ ~ linkHist.failed =>
    \A s \in Side : UpNames(s) \subseteq {side[s].name, side[s].prev}

\* No task of the link waits for ever, whatever fails, is withdrawn or is rewritten:
\* while a side has an unfinished one, its agent has something to execute or to fetch.
NoTaskStuck ==
  \A s \in Side : SideActive(s) =>
    \/ work[s] # {}
    \/ \E k \in DOMAIN queue[s] : /\ queue[s][k].status = "pending"
                                  /\ LinkReady(queue[s], k) \/ LinkDoomed(queue[s], k)
=============================================================================
