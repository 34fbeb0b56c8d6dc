--------------------------- MODULE AgentTaskQueue ---------------------------
(***************************************************************************)
(* One node's task queue: the agent_tasks rows the controller keeps for it  *)
(* (apps/api/link42_api/main.py), the agent that polls, executes and        *)
(* reports them (apps/agent/link42_agent/main.py, client.py), and the lossy *)
(* HTTP exchange between them.                                              *)
(*                                                                         *)
(* Atomicity.  A handler is a thread with its own SQLAlchemy session        *)
(* (autoflush off) on SQLite in WAL mode: its SELECTs take no lock, and the *)
(* write lock is held from its first UPDATE or flush to its commit.  The    *)
(* write phase is one step here.  A handler whose reads matter after        *)
(* another commit, agent_poll, is two steps: PollLoad is the SELECT of the  *)
(* candidates, PollCommit everything from the first write on, judging rows  *)
(* by what the session still believes about them.  Every other handler of   *)
(* this module decides by the WHERE clause of its UPDATE.                   *)
(***************************************************************************)
EXTENDS Integers, FiniteSets, TaskDependencies

CONSTANTS
  MaxTasks,        \* bound: rows ever created for the node
  Plan,            \* change plans
  NoPlan,          \* AgentTask.change_plan_id is NULL
  Capability,      \* what an agent may announce
  Requires,        \* TASK_REQUIREMENTS: task type -> capabilities
  Outcome,         \* the reports the agent of this run may come to make
  Input,           \* the rows callers create, without dependency and plan
  BatchSize,       \* AGENT_TASK_POLL_BATCH_SIZE
  ScanLimit,       \* AGENT_TASK_POLL_SCAN_LIMIT
  MaxDepth,        \* MAX_AGENT_TASK_DEPENDENCY_DEPTH
  RunningTimeout,  \* AGENT_TASK_RUNNING_TIMEOUT, in ticks
  QueryTtl,        \* LOOKING_GLASS_QUEUE_TIMEOUT, in ticks
  Request,         \* bound: poll requests in flight
  NoRequest

TaskId == 1..MaxTasks

\* The task types the queue tells apart: the stop of an interface, the other
\* clean-ups that may follow a failed dependency (GRE stop, middleware
\* delete), the Looking Glass queries, and every other control task.
TaskType == {"wg_stop", "cleanup", "control", "query"}

\* AgentTask.payload: an object, a legacy non-object, or an object whose
\* encoding exceeds MAX_AGENT_TASK_PAYLOAD_BYTES.
PayloadKind == {"object", "malformed", "oversized"}

Status  == {"absent", "pending", "running", "succeeded", "failed", "cancelled"}
Settled == {"succeeded", "failed", "cancelled"}

\* What AgentTask.result says about how the row was closed.
Result == {"none", "reported", "rejected", "timeout", "deadline",
           "dependency", "payload", "cancelled"}

\* A report as the agent posts it: "tolerated" is the old agents' success
\* whose stop command had failed, "invalid" a result whose JSON exceeds the
\* limits of validate_agent_result_json.
Report == {"succeeded", "failed", "tolerated", "invalid"}

PlanStatus == {"draft", "confirmed", "succeeded", "failed", "cancelled"}

Attr == [type : TaskType, payload : PayloadKind, cont : BOOLEAN,
         dep : TaskId \cup {NoTask}, plan : Plan \cup {NoPlan}]

ASSUME SizeAssumption == /\ MaxTasks \in Nat \ {0}
                         /\ MaxDepth \in Nat \ {0}
                         /\ BatchSize \in Nat \ {0}
                         /\ ScanLimit \in Nat \ {0}
ASSUME TimeAssumption == RunningTimeout \in Nat /\ QueryTtl \in Nat \ {0}
ASSUME InputAssumption ==
  /\ Input \subseteq [type : TaskType, payload : PayloadKind, cont : BOOLEAN]
  /\ Requires \in [TaskType -> SUBSET Capability]
  /\ Outcome \subseteq Report
ASSUME DistinctAssumption == NoPlan \notin Plan /\ NoRequest \notin Request

VARIABLES
  \* the controller's database
  status,       \* AgentTask.status, "absent" where there is no row
  attr,         \* the columns of a row that never change
  result,       \* AgentTask.result
  age,          \* ticks since started_at while running, saturated once stale
  ttl,          \* ticks to deadline_at while pending, query tasks only
  planStatus,   \* ChangePlan.status
  caps,         \* Node.agent_capabilities
  \* poll requests on their way to, or inside, the controller
  poll,         \* phase; the candidates loaded; the other rows they depend
                \* on that had not settled when they were loaded
  \* the agent process
  pc,           \* where run_once stands
  waiting,      \* the poll request whose answer run_once awaits
  batch,        \* tasks of the last answer not executed yet
  current,      \* the task being reported
  reports,      \* AgentClient.pending_task_reports
  retry,        \* what retry_task_reports has still to send
  refreshing,   \* overdue queries that a GET has found pending
  late,         \* report requests whose client has given up
  \* history, for the properties
  executions,   \* how often the agent executed a task, 2 for "more than once"
  outcome       \* what the execution really did on the node

dbVars    == <<status, attr, result, age, ttl, planStatus, caps>>
agentVars == <<pc, waiting, batch, current, reports, retry>>
ghostVars == <<executions, outcome>>
vars == <<dbVars, poll, agentVars, late, refreshing, ghostVars>>

FreeRequest == [phase |-> "free", cand |-> {}, unsettled |-> {}]

TypeOK ==
  /\ status \in [TaskId -> Status]
  /\ attr \in [TaskId -> Attr]
  /\ result \in [TaskId -> Result]
  /\ age \in [TaskId -> 0..(RunningTimeout + 1)]
  /\ ttl \in [TaskId -> 0..QueryTtl]
  /\ planStatus \in [Plan -> PlanStatus]
  /\ caps \in SUBSET Capability
  /\ poll \in [Request -> [phase : {"free", "arrived", "loaded"},
                           cand : SUBSET TaskId, unsettled : SUBSET TaskId]]
  /\ pc \in {"idle", "retry", "polling", "run", "report"}
  /\ waiting \in Request \cup {NoRequest}
  /\ batch \in SUBSET TaskId
  /\ current \in TaskId \cup {NoTask}
  /\ reports \in [TaskId -> Report \cup {"none"}]
  /\ retry \in SUBSET TaskId
  /\ refreshing \in SUBSET TaskId
  /\ late \in SUBSET (TaskId \X Report)
  /\ executions \in [TaskId -> 0..2]
  /\ outcome \in [TaskId -> {"none", "succeeded", "failed"}]

Init ==
  /\ status = [t \in TaskId |-> "absent"]
  /\ attr = [t \in TaskId |-> [type |-> "control", payload |-> "object", cont |-> FALSE,
                               dep |-> NoTask, plan |-> NoPlan]]
  /\ result = [t \in TaskId |-> "none"]
  /\ age = [t \in TaskId |-> 0]
  /\ ttl = [t \in TaskId |-> 0]
  /\ planStatus = [p \in Plan |-> "draft"]
  /\ caps \in SUBSET Capability
  /\ poll = [q \in Request |-> FreeRequest]
  /\ pc = "idle"
  /\ waiting = NoRequest
  /\ batch = {} /\ current = NoTask
  /\ reports = [t \in TaskId |-> "none"]
  /\ retry = {} /\ late = {} /\ refreshing = {}
  /\ executions = [t \in TaskId |-> 0]
  /\ outcome = [t \in TaskId |-> "none"]

-----------------------------------------------------------------------------
(* Reading the table.                                                      *)

\* ORDER BY queue = 'query', priority, id.  Query tasks alone have another
\* priority than the default, so priority never decides within a queue.
Before(t, u) ==
  IF (attr[t].type = "query") = (attr[u].type = "query")
  THEN t < u
  ELSE attr[u].type = "query"

IsFirst(t, S) == t \in S /\ \A u \in S \ {t} : Before(t, u)

\* The rows db.get can find, and what task_dependency_id reads from each.
Rows == {t \in TaskId : status[t] # "absent"}
Dep  == [t \in TaskId |-> attr[t].dep]

AgentSatisfies(t) == Requires[attr[t].type] \subseteq caps

\* Mutant: the expiry selects the wrong status.
MutantStale(t) == status[t] = "pending" /\ age[t] > RunningTimeout

Stale(t)   == status[t] = "running" /\ age[t] > RunningTimeout
Overdue(t) == status[t] = "pending" /\ attr[t].type = "query" /\ ttl[t] = 0

\* Mutant: a cancelled task does not fail its plan.
MutantPlansAfter(S, st) ==
  [p \in Plan |->
     LET tasks == {t \in Rows : attr[t].plan = p}
     IN  IF p \notin {attr[t].plan : t \in S} THEN planStatus[p]
         ELSE IF \E t \in tasks : st[t] = "failed" THEN "failed"
         ELSE IF tasks # {} /\ \A t \in tasks : st[t] = "succeeded" THEN "succeeded"
         ELSE "confirmed"]

\* update_change_plan_task_status for the plans of the tasks in S, given every
\* row's status st: one failed or cancelled task fails the plan, all succeeded
\* makes it succeed, anything else leaves it confirmed (and failed, failed).
PlansAfter(S, st) ==
  [p \in Plan |->
     LET tasks == {t \in Rows : attr[t].plan = p}
     IN  IF p \notin {attr[t].plan : t \in S} THEN planStatus[p]
         ELSE IF \E t \in tasks : st[t] \in {"failed", "cancelled"} THEN "failed"
         ELSE IF tasks # {} /\ \A t \in tasks : st[t] = "succeeded" THEN "succeeded"
         ELSE IF planStatus[p] # "failed" THEN "confirmed"
         ELSE "failed"]

-----------------------------------------------------------------------------
(* The control plane: requests of the administrator.                       *)

\* The id the database gives the next row.
IsNext(t) == t \in TaskId /\ Rows = 1..(t - 1)

\* started_at matters while a row is running and deadline_at while it is
\* pending; both clocks are kept at zero otherwise.
RunClock(after) == [t \in TaskId |-> IF status[t] = "running" /\ after[t] = "running"
                                     THEN age[t] ELSE 0]
DeadlineClock(after) == [t \in TaskId |-> IF after[t] = "pending" THEN ttl[t] ELSE 0]

\* Existing rows are written and the plans of the tasks in S aggregated again.
WriteRows(after, results, S) ==
  /\ status' = after
  /\ result' = results
  /\ planStatus' = PlansAfter(S, after)
  /\ age' = RunClock(after)
  /\ ttl' = DeadlineClock(after)

\* expire_stale_running_agent_tasks, and with it
\* expire_overdue_pending_agent_tasks: each row's UPDATE is guarded by the
\* status it was selected with.  X is the set of rows that the caller expires.
StaleTasks   == {t \in TaskId : Stale(t)}
OverdueTasks == {t \in TaskId : Overdue(t)}

\* Mutant: an expired task is queued again.
MutantExpiredStatus(X) == [t \in TaskId |-> IF t \in X THEN "pending" ELSE status[t]]

ExpiredStatus(X) == [t \in TaskId |-> IF t \in X THEN "failed" ELSE status[t]]
ExpiredResult(X) == [t \in TaskId |-> IF t \notin X THEN result[t]
                                      ELSE IF status[t] = "running" THEN "timeout"
                                      ELSE "deadline"]

\* The row AgentTask(...) inserts next to what the same transaction expired.
InsertAfterExpiry(n, row, X) ==
  LET after == ExpiredStatus(X) IN
  /\ IsNext(n)
  /\ status' = [after EXCEPT ![n] = "pending"]
  /\ attr' = [attr EXCEPT ![n] = row]
  /\ result' = ExpiredResult(X)
  /\ planStatus' = PlansAfter(X, after)
  /\ age' = RunClock(after)
  /\ ttl' = [DeadlineClock(after) EXCEPT ![n] = IF row.type = "query" THEN QueryTtl ELSE 0]

Row(in, d, p) == [type |-> in.type, payload |-> in.payload, cont |-> in.cont,
                  dep |-> d, plan |-> p]

\* A control task is created for the node, after the stale running tasks have
\* been expired (enqueue_interface_task_once_with_task and the other creators
\* of single tasks).  A dependency is an existing control task; a malformed
\* payload carries none.
EnqueueTask(n, in, d) ==
  /\ in.type # "query"
  /\ in.payload = "malformed" => d = NoTask /\ ~ in.cont
  /\ d \in {u \in Rows : attr[u].type # "query"} \cup {NoTask}
  /\ InsertAfterExpiry(n, Row(in, d, NoPlan), StaleTasks)
  /\ UNCHANGED <<caps, poll, agentVars, late, refreshing, ghostVars>>

\* create_looking_glass_query_task inserts the query's task next to both
\* expiries.  Whether the query is admitted at all (an equal query, the queue
\* limit) is decided in the same transaction and modelled in LookingGlass.
EnqueueQuery(n, in) ==
  /\ in.type = "query" /\ in.payload = "object" /\ ~ in.cont
  /\ InsertAfterExpiry(n, Row(in, NoTask, NoPlan), StaleTasks \cup OverdueTasks)
  /\ UNCHANGED <<caps, poll, agentVars, late, refreshing, ghostVars>>

\* get_agent_task_status: reading a running task expires the stale ones.
ReadTaskStatus ==
  /\ StaleTasks # {}
  /\ WriteRows(ExpiredStatus(StaleTasks), ExpiredResult(StaleTasks), StaleTasks)
  /\ UNCHANGED <<attr, caps, poll, agentVars, late, refreshing, ghostVars>>

\* refresh_looking_glass_query_from_task, called when a query is read: the row
\* is found overdue in one step and closed in the next, by an ORM write that
\* is not guarded by the status found.
RefreshRead(t) ==
  /\ Overdue(t)
  /\ refreshing' = refreshing \cup {t}
  /\ UNCHANGED <<dbVars, poll, agentVars, late, ghostVars>>

RefreshWrite(t) ==
  /\ t \in refreshing
  /\ WriteRows([status EXCEPT ![t] = "failed"], [result EXCEPT ![t] = "deadline"], {})
  /\ refreshing' = refreshing \ {t}
  /\ UNCHANGED <<attr, caps, poll, agentVars, late, ghostVars>>

\* confirm_change_plan: the UPDATE guarded by status = 'draft' decides, then
\* create_change_plan_agent_tasks inserts the plan's task or, when the
\* interface was renamed, the chain stop <- delete <- apply.
ConfirmPlan(n, p) ==
  /\ planStatus[p] = "draft"
  /\ IsNext(n)
  /\ planStatus' = [planStatus EXCEPT ![p] = "confirmed"]
  /\ status' = [status EXCEPT ![n] = "pending"]
  /\ \E in \in {i \in Input : i.payload # "malformed" /\ i.type = "control"} :
       attr' = [attr EXCEPT ![n] = Row(in, NoTask, p)]
  /\ UNCHANGED <<result, age, ttl, caps, poll, agentVars, late, refreshing, ghostVars>>

ConfirmRenamePlan(n, p) ==
  LET plain == [type |-> "control", payload |-> "object", cont |-> FALSE] IN
  /\ planStatus[p] = "draft"
  /\ IsNext(n) /\ n + 2 \in TaskId
  /\ planStatus' = [planStatus EXCEPT ![p] = "confirmed"]
  /\ status' = [t \in TaskId |-> IF t \in {n, n + 1, n + 2} THEN "pending" ELSE status[t]]
  /\ attr' = [attr EXCEPT ![n] = Row([plain EXCEPT !.type = "wg_stop"], NoTask, p),
                          ![n + 1] = Row(plain, n, p),
                          ![n + 2] = Row(plain, n + 1, p)]
  /\ UNCHANGED <<result, age, ttl, caps, poll, agentVars, late, refreshing, ghostVars>>

\* cancel_draft_interface_change_plans, when the interface is deleted.
CancelDraftPlan(p) ==
  /\ planStatus[p] = "draft"
  /\ planStatus' = [planStatus EXCEPT ![p] = "cancelled"]
  /\ UNCHANGED <<status, attr, result, age, ttl, caps, poll, agentVars, late, refreshing, ghostVars>>

\* cancel_pending_interface_tasks and its GRE and middleware counterparts: the
\* UPDATE of each row is guarded by status = 'pending'.
CancelTasks(S) ==
  /\ S # {}
  /\ \A t \in S : status[t] = "pending" /\ attr[t].type # "query"
  /\ WriteRows([t \in TaskId |-> IF t \in S THEN "cancelled" ELSE status[t]],
               [t \in TaskId |-> IF t \in S THEN "cancelled" ELSE result[t]], S)
  /\ UNCHANGED <<attr, caps, poll, agentVars, late, refreshing, ghostVars>>

\* Time passes.  Only running tasks age and only pending deadlines matter.
Tick ==
  /\ age' = [t \in TaskId |-> IF status[t] = "running" /\ age[t] <= RunningTimeout
                              THEN age[t] + 1 ELSE age[t]]
  /\ ttl' = [t \in TaskId |-> IF status[t] = "pending" /\ ttl[t] > 0
                              THEN ttl[t] - 1 ELSE ttl[t]]
  /\ <<age, ttl>>' # <<age, ttl>>
  /\ UNCHANGED <<status, attr, result, planStatus, caps, poll, agentVars, late, refreshing, ghostVars>>

-----------------------------------------------------------------------------
(* agent_poll.                                                             *)

\* The first ScanLimit pending rows, as the SELECT finds them in statuses st.
Candidates(st) ==
  {t \in TaskId : st[t] = "pending" /\
     Cardinality({u \in TaskId : st[u] = "pending" /\ Before(u, t)}) < ScanLimit}

Claims(res)     == {t \in DOMAIN res : res[t] = "claim"}
Rejections(res) == {t \in DOMAIN res : res[t] \in {"dependency", "payload"}}

\* The status of task d as the session sees it when the loop reaches t: a
\* candidate is the loaded object with the loop's own writes, another row is
\* read from the database.
SessionStatus(d, t, res, read) ==
  IF d \notin DOMAIN res THEN read[d]
  ELSE IF Before(d, t) /\ d \in Claims(res) THEN "running"
  ELSE IF Before(d, t) /\ d \in Rejections(res) THEN "failed"
  ELSE "pending"

\* continue_after_failure: stops and clean-ups may follow a failed dependency.
ContinuesAfterFailure(t) == attr[t].type \in {"wg_stop", "cleanup"} /\ attr[t].cont

\* Mutant: a task only has to wait for a dependency that is running.
MutantReadiness(t, depStatus) ==
  IF attr[t].dep # NoTask /\ depStatus = "running" THEN "waits" ELSE "ready"

\* is_task_ready_for_poll, given the status of the task's dependency.
Readiness(t, depStatus) ==
  LET chain == ChainVerdict(t, Dep, [u \in TaskId |-> 0], Rows, MaxDepth) IN
  IF chain = "none" THEN "ready"
  ELSE IF chain # "ok" THEN "rejected"
  ELSE IF depStatus = "succeeded" THEN "ready"
  ELSE IF depStatus \notin {"failed", "cancelled"} THEN "waits"
  ELSE IF ContinuesAfterFailure(t) THEN "ready"
  ELSE "rejected"

\* The claim is UPDATE ... WHERE id = t AND status = 'pending'; it owns the row
\* if rowcount is 1.
MutantClaimWon(now) == TRUE    \* Mutant: the claim trusts the loaded object.

ClaimWon(now) == now = "pending"

\* One turn of the loop over the candidates: what happens to t, given what
\* happened to the candidates before it (res), the other rows (read) and the
\* row of t at the time of the write (now).
Turn(t, res, read, now) ==
  LET depStatus == IF attr[t].dep = NoTask THEN "absent"
                   ELSE SessionStatus(attr[t].dep, t, res, read)
  IN
  IF Cardinality({u \in Claims(res) : Before(u, t)}) >= BatchSize THEN "unseen"
  ELSE IF ~ AgentSatisfies(t) THEN "unsupported"
  ELSE IF attr[t].payload = "malformed" THEN "payload"
  ELSE IF Readiness(t, depStatus) = "rejected" THEN "dependency"
  ELSE IF Readiness(t, depStatus) = "waits" THEN "waits"
  ELSE IF attr[t].payload = "oversized" THEN "payload"
  ELSE IF ClaimWon(now) THEN "claim"
  ELSE "lost"

TurnResult == {"unseen", "unsupported", "waits", "lost", "claim", "dependency", "payload"}

\* The outcomes of the whole loop over the candidates, with rows that are in
\* statuses now when they are written.
Scans(cand, read, now) ==
  {res \in [cand -> TurnResult] : \A t \in cand : res[t] = Turn(t, res, read, now[t])}

\* The commit of the loop over base statuses st and results rs: claims start
\* their clock, rejections are written whatever the row has become, and the
\* plans of rejected and expired (X) rows are aggregated again.
PollWrites(res, st, rs, X) ==
  /\ WriteRows([t \in TaskId |-> IF t \in Claims(res) THEN "running"
                                 ELSE IF t \in Rejections(res) THEN "failed"
                                 ELSE st[t]],
               [t \in TaskId |-> IF t \in Rejections(res) THEN res[t] ELSE rs[t]],
               X \cup Rejections(res))
  /\ UNCHANGED <<attr, caps>>

Release(q) == poll' = [poll EXCEPT ![q] = FreeRequest]

\* The answer to request q reaches run_once, or it does not: the agent may
\* have given up before, or the answer is lost now and run_once raises.
Answer(q, tasks) ==
  \/ /\ waiting = q
     /\ waiting' = NoRequest
     /\ batch' = tasks
     /\ pc' = IF tasks = {} THEN "idle" ELSE "run"
     /\ UNCHANGED <<current, reports, retry>>
  \/ /\ waiting = q
     /\ waiting' = NoRequest
     /\ pc' = "idle"
     /\ UNCHANGED <<batch, current, reports, retry>>
  \/ /\ waiting # q
     /\ UNCHANGED agentVars

\* Something has expired: the first UPDATE takes the write lock before the
\* candidates are selected, so that the rest of the handler is atomic.
PollExpireAndClaim(q) ==
  LET X == StaleTasks \cup OverdueTasks
      after == ExpiredStatus(X)
  IN
  /\ poll[q].phase = "arrived"
  /\ X # {}
  /\ \E res \in Scans(Candidates(after), after, after) :
       /\ PollWrites(res, after, ExpiredResult(X), X)
       /\ Answer(q, Claims(res))
  /\ Release(q)
  /\ UNCHANGED <<late, refreshing, ghostVars>>

\* Nothing has expired: the candidates are selected without a lock.
PollLoad(q) ==
  /\ poll[q].phase = "arrived"
  /\ StaleTasks \cup OverdueTasks = {}
  /\ poll' = [poll EXCEPT ![q] =
       [phase |-> "loaded",
        cand |-> Candidates(status),
        unsettled |-> {d \in {attr[t].dep : t \in Candidates(status)} \cap Rows :
                         status[d] \notin Settled} \ Candidates(status)]]
  /\ UNCHANGED <<dbVars, agentVars, late, refreshing, ghostVars>>

\* The loop and the commit.  A dependency that is not a candidate was read at
\* some time between the two steps, possibly before it settled.
PollCommit(q) ==
  /\ poll[q].phase = "loaded"
  /\ \E early \in SUBSET poll[q].unsettled :
       LET read == [t \in TaskId |-> IF t \in early THEN "running" ELSE status[t]] IN
       \E res \in Scans(poll[q].cand, read, status) :
         /\ PollWrites(res, status, result, {})
         /\ Answer(q, Claims(res))
  /\ Release(q)
  /\ UNCHANGED <<late, refreshing, ghostVars>>

\* The request is lost, or its handler fails and rolls back.
PollFails(q) ==
  /\ poll[q].phase # "free"
  /\ Release(q)
  /\ IF waiting = q
     THEN pc' = "idle" /\ waiting' = NoRequest /\ UNCHANGED <<batch, current, reports, retry>>
     ELSE UNCHANGED agentVars
  /\ UNCHANGED <<dbVars, late, refreshing, ghostVars>>

-----------------------------------------------------------------------------
(* agent_task_result.                                                      *)

\* normalize_agent_task_report, and the failure an invalid result is closed
\* with.  The interface row of a stop exists while the stop is running.
MutantNormalized(r) == IF r \in {"succeeded", "tolerated"} THEN "succeeded" ELSE "failed"
MutantVerbatim(r) == r    \* Mutant: the posted status is stored as it is.

Normalized(r) == IF r = "succeeded" THEN "succeeded" ELSE "failed"

\* Mutant: the row is written whatever its status.
MutantRecordResult(t, r) ==
  /\ WriteRows([status EXCEPT ![t] = Normalized(r)],
               [result EXCEPT ![t] = IF r = "invalid" THEN "rejected" ELSE "reported"], {t})
  /\ UNCHANGED <<attr, caps>>

\* The report r of task t is handled: only a running row is written, once; any
\* other answer (recorded before, 400, 409) leaves the database alone.
RecordResult(t, r) ==
  IF status[t] = "running"
  THEN /\ WriteRows([status EXCEPT ![t] = Normalized(r)],
                    [result EXCEPT ![t] = IF r = "invalid" THEN "rejected" ELSE "reported"],
                    {t})
       /\ UNCHANGED <<attr, caps>>
  ELSE UNCHANGED dbVars

-----------------------------------------------------------------------------
(* The agent: run_once and AgentClient.                                    *)

Unacknowledged == {t \in TaskId : reports[t] # "none"}

\* The loop of main(): register and heartbeat succeed and store the agent's
\* capabilities; retry_task_reports then works through a copy of the pending
\* reports.
BeginCycle(c) ==
  /\ pc = "idle"
  /\ pc' = "retry"
  /\ retry' = Unacknowledged
  /\ caps' = c
  /\ UNCHANGED <<status, attr, result, age, ttl, planStatus, poll, waiting, batch, current,
                 reports, late, refreshing, ghostVars>>

\* Reports are still unacknowledged: no poll in this cycle.
SkipPoll ==
  /\ pc = "retry" /\ retry = {} /\ Unacknowledged # {}
  /\ pc' = "idle"
  /\ UNCHANGED <<dbVars, poll, waiting, batch, current, reports, retry, late, refreshing, ghostVars>>

SendPoll(q) ==
  /\ pc = "retry" /\ retry = {} /\ Unacknowledged = {}
  /\ poll[q].phase = "free"
  /\ pc' = "polling"
  /\ waiting' = q
  /\ poll' = [poll EXCEPT ![q].phase = "arrived"]
  /\ UNCHANGED <<dbVars, batch, current, reports, retry, late, refreshing, ghostVars>>

\* The client times out while the controller still works on the request.
PollTimeout ==
  /\ pc = "polling"
  /\ pc' = "idle"
  /\ waiting' = NoRequest
  /\ UNCHANGED <<dbVars, poll, batch, current, reports, retry, late, refreshing, ghostVars>>

\* execute_task: the task is done on the node, well or not, and its report is
\* entered in pending_task_reports before it is sent.
Execute(t, r) ==
  /\ pc = "run" /\ IsFirst(t, batch)
  /\ r = "tolerated" => attr[t].type = "wg_stop"
  /\ pc' = "report"
  /\ batch' = batch \ {t}
  /\ current' = t
  /\ reports' = [reports EXCEPT ![t] = r]
  /\ executions' = [executions EXCEPT ![t] = IF @ < 2 THEN @ + 1 ELSE @]
  /\ \E o \in {"succeeded", "failed"} :
       /\ r = "succeeded" => o = "succeeded"
       /\ r \in {"failed", "tolerated"} => o = "failed"
       /\ outcome' = [outcome EXCEPT ![t] = o]
  /\ UNCHANGED <<dbVars, poll, waiting, retry, late, refreshing>>

\* _send_task_report is posting the report of t, for run_once or for
\* retry_task_reports.
Sending(t) ==
  \/ pc = "report" /\ t = current
  \/ pc = "retry" /\ IsFirst(t, retry)

\* run_once goes on after the call, whether or not it raised.
AfterSending(t) ==
  \/ /\ pc = "report"
     /\ pc' = IF batch = {} THEN "idle" ELSE "run"
     /\ current' = NoTask
     /\ UNCHANGED retry
  \/ /\ pc = "retry"
     /\ retry' = retry \ {t}
     /\ UNCHANGED <<pc, current>>

\* Mutant: a report the controller refuses as invalid is kept and sent again.
MutantReportAnswered(t) ==
  /\ Sending(t)
  /\ RecordResult(t, reports[t])
  /\ reports' = [reports EXCEPT ![t] = IF @ = "invalid" THEN @ ELSE "none"]
  /\ AfterSending(t)
  /\ UNCHANGED <<poll, waiting, batch, late, refreshing, ghostVars>>

\* The controller handles the report and its answer, whatever it says,
\* arrives: the report is dropped.
ReportAnswered(t) ==
  /\ Sending(t)
  /\ RecordResult(t, reports[t])
  /\ reports' = [reports EXCEPT ![t] = "none"]
  /\ AfterSending(t)
  /\ UNCHANGED <<poll, waiting, batch, late, refreshing, ghostVars>>

\* The controller handles the report but the answer is lost.
ReportAnswerLost(t) ==
  /\ Sending(t)
  /\ RecordResult(t, reports[t])
  /\ AfterSending(t)
  /\ UNCHANGED <<poll, waiting, batch, reports, late, refreshing, ghostVars>>

\* The report is lost, or refused with a status the client retries on (401,
\* 403, 408, 429, 5xx).
ReportLost(t) ==
  /\ Sending(t)
  /\ AfterSending(t)
  /\ UNCHANGED <<dbVars, poll, waiting, batch, reports, late, refreshing, ghostVars>>

\* The client times out and the request is still under way.  A timeout while
\* reading the answer is not an AgentConnectionError: in retry_task_reports it
\* ends the cycle, in the loop over the batch it is caught.
ReportTimesOut(t) ==
  /\ Sending(t)
  /\ late' = late \cup {<<t, reports[t]>>}
  /\ \/ AfterSending(t)
     \/ pc = "retry" /\ pc' = "idle" /\ retry' = {} /\ UNCHANGED current
  /\ UNCHANGED <<dbVars, poll, waiting, batch, reports, refreshing, ghostVars>>

LateReport(t, r) ==
  /\ <<t, r>> \in late
  /\ RecordResult(t, r) \/ UNCHANGED dbVars
  /\ late' = late \ {<<t, r>>}
  /\ UNCHANGED <<poll, agentVars, refreshing, ghostVars>>

\* The process ends: the batch and the unacknowledged reports are in memory
\* only.
AgentRestart ==
  /\ pc # "idle" \/ Unacknowledged # {}
  /\ pc' = "idle"
  /\ waiting' = NoRequest
  /\ batch' = {} /\ current' = NoTask /\ retry' = {}
  /\ reports' = [t \in TaskId |-> "none"]
  /\ UNCHANGED <<dbVars, poll, late, refreshing, ghostVars>>

-----------------------------------------------------------------------------
ControlPlane ==
  \/ \E n \in TaskId, in \in Input, d \in TaskId \cup {NoTask} : EnqueueTask(n, in, d)
  \/ \E n \in TaskId, in \in Input : EnqueueQuery(n, in)
  \/ \E n \in TaskId, p \in Plan : ConfirmPlan(n, p) \/ ConfirmRenamePlan(n, p)
  \/ \E p \in Plan : CancelDraftPlan(p)
  \/ \E S \in SUBSET TaskId : CancelTasks(S)
  \/ ReadTaskStatus
  \/ \E t \in TaskId : RefreshRead(t) \/ RefreshWrite(t)

PollHandling ==
  \E q \in Request : \/ PollExpireAndClaim(q)
                     \/ PollLoad(q)
                     \/ PollCommit(q)
                     \/ PollFails(q)

Agent ==
  \/ \E c \in SUBSET Capability : BeginCycle(c)
  \/ SkipPoll
  \/ \E q \in Request : SendPoll(q)
  \/ PollTimeout
  \/ \E t \in TaskId, r \in Outcome : Execute(t, r)
  \/ AgentRestart

Reporting ==
  \/ \E t \in TaskId : \/ ReportAnswered(t)
                       \/ ReportAnswerLost(t)
                       \/ ReportLost(t)
                       \/ ReportTimesOut(t)
  \/ \E t \in TaskId, r \in Report : LateReport(t, r)

Next == ControlPlane \/ Tick \/ PollHandling \/ Agent \/ Reporting

Spec == Init /\ [][Next]_vars

-----------------------------------------------------------------------------
(* Safety.                                                                 *)

(***************************************************************************)
(* A task is carried out on the node at most once, whatever polls overlap,  *)
(* answers get lost, reports are retried and processes restart: the claim   *)
(* of agent_poll gives a row to one poll only, and the agent repeats        *)
(* reports, never work ("only retransmit the result, do not execute the     *)
(* local task again", client.py:105).                                       *)
(***************************************************************************)
AtMostOnceExecution == \A t \in TaskId : executions[t] <= 1

(***************************************************************************)
(* A control task that the controller closed on its own account, cancelled  *)
(* by an administrator's later request or rejected by a poll, has not been  *)
(* carried out and is not in the agent's hands.                             *)
(***************************************************************************)
WithdrawnNeverExecuted ==
  \A t \in TaskId :
    result[t] \in {"cancelled", "dependency", "payload"} =>
      executions[t] = 0 /\ t \notin batch

(***************************************************************************)
(* What a row says was reported is what happened on the node: success means *)
(* the execution succeeded, and a success is turned into a failure only by  *)
(* the timeout or by a result the controller cannot store ("a network       *)
(* operation that succeeded must not be reported as failed", agent          *)
(* main.py:540).                                                            *)
(***************************************************************************)
RecordedOutcomeIsReal ==
  \A t \in TaskId :
    /\ status[t] = "succeeded" => outcome[t] = "succeeded"
    /\ result[t] = "reported" /\ status[t] = "failed" => outcome[t] = "failed"

(***************************************************************************)
(* The order the controller asked for is the order on the node: when a      *)
(* dependent task is in the agent's hands its dependency has succeeded, or  *)
(* has ended in any way if the task is a clean-up that goes on regardless.  *)
(***************************************************************************)
DependencyFirst ==
  \A t \in TaskId :
    (t \in batch \/ executions[t] > 0) /\ attr[t].dep # NoTask =>
      \/ status[attr[t].dep] = "succeeded"
      \/ ContinuesAfterFailure(t) /\ status[attr[t].dep] \in {"failed", "cancelled"}

(***************************************************************************)
(* A task that the controller gave up on after the running timeout does not *)
(* start on the node after the task that was queued behind it: no           *)
(* dependency is executed later than its dependent.                         *)
(***************************************************************************)
NoLateDependency ==
  [][\A t \in TaskId :
       executions[t] > 0 /\ attr[t].dep # NoTask =>
         executions'[attr[t].dep] = executions[attr[t].dep]]_vars

(***************************************************************************)
(* A confirmed change plan always shows the aggregate of its tasks, across  *)
(* every way a task can end (report, expiry, cancellation, rejection).      *)
(***************************************************************************)
PlanShowsItsTasks ==
  \A p \in Plan :
    LET tasks == {t \in Rows : attr[t].plan = p} IN
    planStatus[p] \notin {"draft", "cancelled"} =>
      /\ planStatus[p] = "failed" <=> \E t \in tasks : status[t] \in {"failed", "cancelled"}
      /\ planStatus[p] = "succeeded" <=> \A t \in tasks : status[t] = "succeeded"

(***************************************************************************)
(* A terminal result of a control task is final: a late or repeated report, *)
(* an expiry or an overlapping poll never rewrites it ("the late result of  *)
(* an expired task must not overwrite the failure already recorded",        *)
(* main.py:7376).  The one exception is a cancelled row that a poll with a  *)
(* stale session closes as failed.                                          *)
(***************************************************************************)
ResultsAreFinal ==
  [][\A t \in TaskId :
       status[t] \in Settled /\ attr[t].type # "query" =>
         \/ status'[t] = status[t] /\ result'[t] = result[t]
         \/ status[t] = "cancelled" /\ status'[t] = "failed"]_vars

-----------------------------------------------------------------------------
(* The queue implements the lifecycle it promises for control tasks.  A     *)
(* row was dispatched if it is running or was closed as a running row.      *)

Control(t) == attr[t].type # "query"

Lifecycle == INSTANCE TaskLifecycle WITH
  Task       <- TaskId,
  NoWait     <- NoTask,
  status     <- [t \in TaskId |-> IF Control(t) THEN status[t] ELSE "absent"],
  waitsFor   <- [t \in TaskId |-> IF Control(t) THEN attr[t].dep ELSE NoTask],
  dispatched <- [t \in TaskId |-> /\ Control(t)
                                  /\ \/ status[t] = "running"
                                     \/ result[t] \in {"reported", "rejected", "timeout"}],
  performed  <- [t \in TaskId |-> Control(t) /\ executions[t] > 0],
  outcome    <- [t \in TaskId |-> IF Control(t) THEN outcome[t] ELSE "none"]

(***************************************************************************)
(* Seen from the outside, polling, lost answers, retried reports and        *)
(* restarts amount to the lifecycle of TaskLifecycle.                       *)
(***************************************************************************)
ImplementsLifecycle == Lifecycle!Spec

-----------------------------------------------------------------------------
(***************************************************************************)
(* Fairness.  Time passes and handler threads run to completion (weak       *)
(* fairness).  The agent's main loop has no exit: it begins another cycle   *)
(* after every failure and executes what it has fetched (weak fairness).    *)
(* The network and the process supervisor may fail again and again, but     *)
(* not at every attempt for ever: a poll that is sent again and again is    *)
(* eventually handled and a report sent again and again is eventually       *)
(* answered (strong fairness).  Nothing is assumed about single messages:   *)
(* every answer to a poll may be lost.                                      *)
(***************************************************************************)
Fairness ==
  /\ WF_vars(Tick)
  /\ WF_vars(\E c \in SUBSET Capability : BeginCycle(c))
  /\ WF_vars(SkipPoll)
  /\ WF_vars(\E t \in TaskId, r \in Outcome : Execute(t, r))
  /\ \A q \in Request : /\ SF_vars(SendPoll(q))
                        /\ SF_vars(PollExpireAndClaim(q))
                        /\ SF_vars(PollLoad(q))
                        /\ SF_vars(PollCommit(q))
  /\ \A t \in TaskId : SF_vars(ReportAnswered(t))

FairSpec == Spec /\ Fairness

(***************************************************************************)
(* No task is stuck: with an agent that supports it, every task that was    *)
(* created ends, by its report, the running timeout, the deadline, or the   *)
(* end of what it depends on, although a claimed task can be lost with an   *)
(* answer or with the agent's memory.                                       *)
(***************************************************************************)
EveryTaskSettles ==
  \A t \in TaskId : (status[t] \in {"pending", "running"}) ~> (status[t] \in Settled)

(***************************************************************************)
(* The agent does not hold back polling for ever: every report it keeps is  *)
(* eventually acknowledged or given up, whatever the controller answers.    *)
(***************************************************************************)
ReportsDrain ==
  \A t \in TaskId : (reports[t] # "none") ~> (reports[t] = "none")
=============================================================================
