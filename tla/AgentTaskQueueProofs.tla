------------------------ MODULE AgentTaskQueueProofs ------------------------
(***************************************************************************)
(* Proofs about AgentTaskQueue, for every value of its constants: types,    *)
(* single execution, real outcomes; then, from how rows move, which tasks   *)
(* are handed out and in what order, what a poll with a stale session may   *)
(* overwrite, and that the queue implements TaskLifecycle.                  *)
(***************************************************************************)
EXTENDS AgentTaskQueue, TaskDependenciesProofs, TLAPS

-----------------------------------------------------------------------------
(* What the operators of the module preserve.                              *)

\* The columns a transaction writes have their types.
RowsOK == /\ status \in [TaskId -> Status]
          /\ result \in [TaskId -> Result]
          /\ age \in [TaskId -> 0..(RunningTimeout + 1)]
          /\ ttl \in [TaskId -> 0..QueryTtl]
          /\ planStatus \in [Plan -> PlanStatus]

\* Aggregating plans yields plan statuses (update_change_plan_task_status).
LEMMA PlansAfterType ==
  ASSUME TypeOK, NEW S, NEW st
  PROVE  PlansAfter(S, st) \in [Plan -> PlanStatus]
BY DEF TypeOK, PlansAfter, PlanStatus

\* The clocks of rows that are rewritten stay within their bounds.
LEMMA ClocksType ==
  ASSUME TypeOK, NEW after
  PROVE  /\ RunClock(after) \in [TaskId -> 0..(RunningTimeout + 1)]
         /\ DeadlineClock(after) \in [TaskId -> 0..QueryTtl]
BY TimeAssumption DEF TypeOK, RunClock, DeadlineClock

\* Rewriting rows with typed columns keeps the table typed.
LEMMA WriteRowsType ==
  ASSUME TypeOK,
         NEW after \in [TaskId -> Status], NEW results \in [TaskId -> Result], NEW S,
         WriteRows(after, results, S)
  PROVE  RowsOK'
BY PlansAfterType, ClocksType DEF WriteRows, RowsOK

\* Expiry closes rows as failed and leaves the others alone.
LEMMA ExpiryType ==
  ASSUME TypeOK, NEW X
  PROVE  /\ ExpiredStatus(X) \in [TaskId -> Status]
         /\ ExpiredResult(X) \in [TaskId -> Result]
BY DEF TypeOK, ExpiredStatus, ExpiredResult, Status, Result

\* The row a caller's input makes.
LEMMA RowType ==
  ASSUME NEW in \in [type : TaskType, payload : PayloadKind, cont : BOOLEAN],
         NEW d \in TaskId \cup {NoTask}, NEW p \in Plan \cup {NoPlan}
  PROVE  Row(in, d, p) \in Attr
BY DEF Row, Attr

\* An insertion keeps the table typed.
LEMMA InsertType ==
  ASSUME TypeOK, NEW n \in TaskId, NEW row \in Attr, NEW X,
         InsertAfterExpiry(n, row, X)
  PROVE  RowsOK' /\ attr' \in [TaskId -> Attr]
<1>1. /\ ExpiredStatus(X) \in [TaskId -> Status]
      /\ ExpiredResult(X) \in [TaskId -> Result]
  BY ExpiryType
<1>2. status' \in [TaskId -> Status] /\ result' \in [TaskId -> Result]
  BY <1>1 DEF InsertAfterExpiry, Status
<1>3. planStatus' \in [Plan -> PlanStatus]
  BY PlansAfterType DEF InsertAfterExpiry
<1>4. age' \in [TaskId -> 0..(RunningTimeout + 1)]
  BY ClocksType DEF InsertAfterExpiry
<1>5. ttl' \in [TaskId -> 0..QueryTtl]
  <2>1. DeadlineClock(ExpiredStatus(X)) \in [TaskId -> 0..QueryTtl]
    BY ClocksType
  <2>2. 0 \in 0..QueryTtl /\ QueryTtl \in 0..QueryTtl
    BY TimeAssumption
  <2> QED BY <2>1, <2>2 DEF InsertAfterExpiry
<1>6. attr' \in [TaskId -> Attr]
  BY DEF InsertAfterExpiry, TypeOK
<1> QED BY <1>2, <1>3, <1>4, <1>5, <1>6 DEF RowsOK

\* A report is recorded with a terminal status, or not at all.
LEMMA RecordResultType ==
  ASSUME TypeOK, NEW t \in TaskId, NEW r, RecordResult(t, r)
  PROVE  RowsOK' /\ attr' = attr /\ caps' = caps
<1>1. CASE status[t] = "running"
  <2>1. [status EXCEPT ![t] = Normalized(r)] \in [TaskId -> Status]
    BY DEF TypeOK, Normalized, Status
  <2>2. [result EXCEPT ![t] = IF r = "invalid" THEN "rejected" ELSE "reported"]
          \in [TaskId -> Result]
    BY DEF TypeOK, Result
  <2>3. RowsOK'
    BY <1>1, <2>1, <2>2, WriteRowsType DEF RecordResult
  <2> QED BY <1>1, <2>3 DEF RecordResult
<1>2. CASE status[t] # "running"
  BY <1>2 DEF RecordResult, dbVars, RowsOK, TypeOK
<1> QED BY <1>1, <1>2

\* The writes of a poll, over typed statuses and results.
LEMMA PollWritesType ==
  ASSUME TypeOK, NEW cand \in SUBSET TaskId, NEW res \in [cand -> TurnResult],
         NEW st \in [TaskId -> Status], NEW rs \in [TaskId -> Result], NEW X,
         PollWrites(res, st, rs, X)
  PROVE  RowsOK' /\ attr' = attr /\ caps' = caps
<1> DEFINE after == [t \in TaskId |-> IF t \in Claims(res) THEN "running"
                                      ELSE IF t \in Rejections(res) THEN "failed"
                                      ELSE st[t]]
           results == [t \in TaskId |-> IF t \in Rejections(res) THEN res[t] ELSE rs[t]]
<1>1. after \in [TaskId -> Status]
  BY DEF Status
<1>2. results \in [TaskId -> Result]
  BY DEF Rejections, Result
<1>3. WriteRows(after, results, X \cup Rejections(res))
  BY DEF PollWrites
<1>4. RowsOK'
  BY <1>1, <1>2, <1>3, WriteRowsType
<1> QED BY <1>4 DEF PollWrites

-----------------------------------------------------------------------------
(* Type correctness.                                                       *)

\* The rest of TypeOK: everything that is not a column written above.
RestOK ==
  /\ attr \in [TaskId -> Attr]
  /\ caps \in SUBSET Capability
  /\ poll \in [Request -> [phase : {"free", "arrived", "loaded"},
                           cand : SUBSET TaskId, unsettled : SUBSET TaskId]]
  /\ pc \in {"idle", "retry", "polling", "run", "report"}
  /\ waiting \in Request \cup {NoRequest}
  /\ batch \in SUBSET TaskId
  /\ current \in TaskId \cup {NoTask}
  /\ reports \in [TaskId -> Report \cup {"none"}]
  /\ retry \in SUBSET TaskId
  /\ refreshing \in SUBSET TaskId
  /\ late \in SUBSET (TaskId \X Report)
  /\ executions \in [TaskId -> 0..2]
  /\ outcome \in [TaskId -> {"none", "succeeded", "failed"}]

\* TypeOK is the two together, before and after a step.
LEMMA TypeOKParts == /\ TypeOK <=> RowsOK /\ RestOK
                     /\ TypeOK' <=> RowsOK' /\ RestOK'
BY DEF TypeOK, RowsOK, RestOK

\* Requests of the administrator.
LEMMA ControlPlaneType == TypeOK /\ ControlPlane => TypeOK'
<1> SUFFICES ASSUME TypeOK, ControlPlane PROVE TypeOK'
  OBVIOUS
<1> USE TypeOKParts
<1>1. ASSUME NEW n \in TaskId, NEW in \in Input, NEW d \in TaskId \cup {NoTask},
             EnqueueTask(n, in, d)
      PROVE  TypeOK'
  <2>1. Row(in, d, NoPlan) \in Attr
    BY RowType, InputAssumption
  <2>2. RowsOK' /\ attr' \in [TaskId -> Attr]
    BY <1>1, <2>1, InsertType DEF EnqueueTask
  <2> QED BY <1>1, <2>2 DEF EnqueueTask, RestOK, agentVars, ghostVars
<1>2. ASSUME NEW n \in TaskId, NEW in \in Input, EnqueueQuery(n, in)
      PROVE  TypeOK'
  <2>1. Row(in, NoTask, NoPlan) \in Attr
    BY RowType, InputAssumption
  <2>2. RowsOK' /\ attr' \in [TaskId -> Attr]
    BY <1>2, <2>1, InsertType DEF EnqueueQuery
  <2> QED BY <1>2, <2>2 DEF EnqueueQuery, RestOK, agentVars, ghostVars
<1>3. ASSUME NEW n \in TaskId, NEW p \in Plan, ConfirmPlan(n, p)
      PROVE  TypeOK'
  <2>1. PICK in \in Input : attr' = [attr EXCEPT ![n] = Row(in, NoTask, p)]
    BY <1>3 DEF ConfirmPlan
  <2>2. Row(in, NoTask, p) \in Attr
    BY RowType, InputAssumption
  <2>3. attr' \in [TaskId -> Attr]
    BY <2>1, <2>2 DEF TypeOK
  <2>4. RowsOK'
    BY <1>3 DEF ConfirmPlan, RowsOK, Status, PlanStatus
  <2> QED BY <1>3, <2>3, <2>4 DEF ConfirmPlan, RestOK, agentVars, ghostVars
<1>4. ASSUME NEW n \in TaskId, NEW p \in Plan, ConfirmRenamePlan(n, p)
      PROVE  TypeOK'
  <2> DEFINE plain == [type |-> "control", payload |-> "object", cont |-> FALSE]
             stop == [plain EXCEPT !.type = "wg_stop"]
  <2>1. /\ plain \in [type : TaskType, payload : PayloadKind, cont : BOOLEAN]
        /\ stop \in [type : TaskType, payload : PayloadKind, cont : BOOLEAN]
    BY DEF TaskType, PayloadKind
  <2>2. n + 1 \in TaskId /\ n + 2 \in TaskId
    BY <1>4, SizeAssumption DEF ConfirmRenamePlan, TaskId
  <2> HIDE DEF plain, stop
  <2>3. Row(stop, NoTask, p) \in Attr /\ Row(plain, n, p) \in Attr /\ Row(plain, n + 1, p) \in Attr
    BY <2>1, <2>2, RowType
  <2>4. attr' = [attr EXCEPT ![n] = Row(stop, NoTask, p),
                             ![n + 1] = Row(plain, n, p),
                             ![n + 2] = Row(plain, n + 1, p)]
    BY <1>4 DEF ConfirmRenamePlan, plain, stop
  <2>5. attr' \in [TaskId -> Attr]
    BY <2>2, <2>3, <2>4 DEF TypeOK
  <2>6. RowsOK'
    BY <1>4 DEF ConfirmRenamePlan, RowsOK, Status, PlanStatus
  <2> QED BY <1>4, <2>5, <2>6 DEF ConfirmRenamePlan, RestOK, agentVars, ghostVars
<1>5. ASSUME NEW p \in Plan, CancelDraftPlan(p)
      PROVE  TypeOK'
  <2>1. RowsOK'
    BY <1>5 DEF CancelDraftPlan, RowsOK, PlanStatus
  <2> QED BY <1>5, <2>1 DEF CancelDraftPlan, RestOK, agentVars, ghostVars
<1>6. ASSUME NEW S \in SUBSET TaskId, CancelTasks(S)
      PROVE  TypeOK'
  <2> DEFINE after == [t \in TaskId |-> IF t \in S THEN "cancelled" ELSE status[t]]
             results == [t \in TaskId |-> IF t \in S THEN "cancelled" ELSE result[t]]
  <2>1. after \in [TaskId -> Status] /\ results \in [TaskId -> Result]
    BY DEF TypeOK, Status, Result
  <2>2. WriteRows(after, results, S)
    BY <1>6 DEF CancelTasks
  <2>3. RowsOK'
    BY <2>1, <2>2, WriteRowsType
  <2> QED BY <1>6, <2>3 DEF CancelTasks, RestOK, agentVars, ghostVars
<1>7. CASE ReadTaskStatus
  <2>1. RowsOK'
    BY <1>7, ExpiryType, WriteRowsType DEF ReadTaskStatus
  <2> QED BY <1>7, <2>1 DEF ReadTaskStatus, RestOK, agentVars, ghostVars
<1>8. ASSUME NEW t \in TaskId, RefreshRead(t)
      PROVE  TypeOK'
  BY <1>8 DEF RefreshRead, RowsOK, RestOK, dbVars, agentVars, ghostVars
<1>9. ASSUME NEW t \in TaskId, RefreshWrite(t)
      PROVE  TypeOK'
  <2>1. /\ [status EXCEPT ![t] = "failed"] \in [TaskId -> Status]
        /\ [result EXCEPT ![t] = "deadline"] \in [TaskId -> Result]
    BY DEF TypeOK, Status, Result
  <2>2. RowsOK'
    BY <1>9, <2>1, WriteRowsType DEF RefreshWrite
  <2> QED BY <1>9, <2>2 DEF RefreshWrite, RestOK, agentVars, ghostVars
<1> QED BY <1>1, <1>2, <1>3, <1>4, <1>5, <1>6, <1>7, <1>8, <1>9 DEF ControlPlane

\* An answer leaves the agent typed: it takes a set of tasks, or nothing.
LEMMA AnswerType ==
  ASSUME TypeOK, NEW q \in Request, NEW tasks \in SUBSET TaskId, Answer(q, tasks)
  PROVE  /\ pc' \in {"idle", "retry", "polling", "run", "report"}
         /\ waiting' \in Request \cup {NoRequest}
         /\ batch' \in SUBSET TaskId
         /\ current' = current /\ reports' = reports /\ retry' = retry
BY DEF TypeOK, Answer, agentVars

\* The tasks a scan claims, among the candidates it was given.
LEMMA ClaimsAreCandidates ==
  ASSUME NEW cand \in SUBSET TaskId, NEW read, NEW now,
         NEW res \in Scans(cand, read, now)
  PROVE  res \in [cand -> TurnResult] /\ Claims(res) \subseteq cand /\ Rejections(res) \subseteq cand
BY DEF Scans, Claims, Rejections

\* Freeing a request keeps the requests typed.
LEMMA ReleaseType ==
  ASSUME TypeOK, NEW q \in Request, Release(q)
  PROVE  poll' \in [Request -> [phase : {"free", "arrived", "loaded"},
                                cand : SUBSET TaskId, unsettled : SUBSET TaskId]]
BY DEF TypeOK, Release, FreeRequest

\* The steps of agent_poll.
LEMMA PollHandlingType == TypeOK /\ PollHandling => TypeOK'
<1> SUFFICES ASSUME TypeOK, NEW q \in Request,
                    \/ PollExpireAndClaim(q)
                    \/ PollLoad(q)
                    \/ PollCommit(q)
                    \/ PollFails(q)
             PROVE  TypeOK'
  BY DEF PollHandling
<1>1. CASE PollExpireAndClaim(q)
  <2> DEFINE X == StaleTasks \cup OverdueTasks
             after == ExpiredStatus(X)
  <2>1. after \in [TaskId -> Status] /\ ExpiredResult(X) \in [TaskId -> Result]
    BY ExpiryType
  <2>2. Candidates(after) \in SUBSET TaskId
    BY DEF Candidates
  <2>3. PICK res \in Scans(Candidates(after), after, after) :
          PollWrites(res, after, ExpiredResult(X), X) /\ Answer(q, Claims(res))
    BY <1>1 DEF PollExpireAndClaim
  <2> HIDE DEF X, after
  <2>4. res \in [Candidates(after) -> TurnResult] /\ Claims(res) \in SUBSET TaskId
    BY <2>2, <2>3, ClaimsAreCandidates
  <2>5. RowsOK' /\ attr' = attr /\ caps' = caps
    BY <2>1, <2>2, <2>3, <2>4, PollWritesType
  <2>6. RestOK'
    BY <1>1, <2>3, <2>4, <2>5, AnswerType, ReleaseType
       DEF PollExpireAndClaim, TypeOK, RestOK, ghostVars
  <2> QED BY <2>5, <2>6, TypeOKParts
<1>2. CASE PollLoad(q)
  <2>1. Candidates(status) \in SUBSET TaskId
    BY DEF Candidates
  <2>2. poll' \in [Request -> [phase : {"free", "arrived", "loaded"},
                               cand : SUBSET TaskId, unsettled : SUBSET TaskId]]
    BY <1>2, <2>1 DEF PollLoad, TypeOK, Rows
  <2> QED BY <1>2, <2>2, TypeOKParts
       DEF PollLoad, RowsOK, RestOK, dbVars, agentVars, ghostVars
<1>3. CASE PollCommit(q)
  <2>1. poll[q].cand \in SUBSET TaskId
    BY DEF TypeOK
  <2>2. PICK read : \E res \in Scans(poll[q].cand, read, status) :
          PollWrites(res, status, result, {}) /\ Answer(q, Claims(res))
    BY <1>3 DEF PollCommit
  <2>3. PICK res \in Scans(poll[q].cand, read, status) :
          PollWrites(res, status, result, {}) /\ Answer(q, Claims(res))
    BY <2>2
  <2>4. res \in [poll[q].cand -> TurnResult] /\ Claims(res) \in SUBSET TaskId
    BY <2>1, <2>3, ClaimsAreCandidates
  <2>5. RowsOK' /\ attr' = attr /\ caps' = caps
    BY <2>1, <2>3, <2>4, PollWritesType DEF TypeOK
  <2>6. RestOK'
    BY <1>3, <2>3, <2>4, <2>5, AnswerType, ReleaseType DEF PollCommit, TypeOK, RestOK, ghostVars
  <2> QED BY <2>5, <2>6, TypeOKParts
<1>4. CASE PollFails(q)
  <2>1. RowsOK'
    BY <1>4, TypeOKParts DEF PollFails, RowsOK, dbVars
  <2>2. RestOK'
    BY <1>4, ReleaseType DEF PollFails, TypeOK, RestOK, dbVars, agentVars, ghostVars
  <2> QED BY <2>1, <2>2, TypeOKParts
<1> QED BY <1>1, <1>2, <1>3, <1>4

\* The agent's own steps.
LEMMA AgentType == TypeOK /\ Agent => TypeOK'
<1> SUFFICES ASSUME TypeOK, Agent PROVE TypeOK'
  OBVIOUS
<1>1. ASSUME NEW c \in SUBSET Capability, BeginCycle(c) PROVE TypeOK'
  BY <1>1 DEF BeginCycle, Unacknowledged, TypeOK, ghostVars
<1>2. CASE SkipPoll
  BY <1>2 DEF SkipPoll, TypeOK, dbVars, ghostVars
<1>3. ASSUME NEW q \in Request, SendPoll(q) PROVE TypeOK'
  BY <1>3, SMTT(30) DEF SendPoll, TypeOK, dbVars, ghostVars
<1>4. CASE PollTimeout
  BY <1>4 DEF PollTimeout, TypeOK, dbVars, ghostVars
<1>5. ASSUME NEW t \in TaskId, NEW r \in Outcome, Execute(t, r) PROVE TypeOK'
  <2>1. r \in Report
    BY InputAssumption
  <2>2. executions' \in [TaskId -> 0..2]
    BY <1>5 DEF Execute, TypeOK
  <2>3. outcome' \in [TaskId -> {"none", "succeeded", "failed"}]
    BY <1>5 DEF Execute, TypeOK
  <2> QED BY <1>5, <2>1, <2>2, <2>3 DEF Execute, TypeOK, dbVars
<1>6. CASE AgentRestart
  BY <1>6 DEF AgentRestart, TypeOK, dbVars, ghostVars
<1> QED BY <1>1, <1>2, <1>3, <1>4, <1>5, <1>6 DEF Agent

\* The report being sent is one AgentClient keeps (report_task enters it before
\* it posts it, retry_task_reports copies the dictionary).
SendingOK ==
  /\ pc = "report" => current \in TaskId /\ reports[current] # "none"
  /\ pc = "retry"  => \A t \in retry : reports[t] # "none"

\* Sending, answering and delaying reports.
LEMMA ReportingType == TypeOK /\ SendingOK /\ Reporting => TypeOK'
<1> SUFFICES ASSUME TypeOK, SendingOK, Reporting PROVE TypeOK'
  OBVIOUS
<1>1. ASSUME NEW t \in TaskId, AfterSending(t)
      PROVE  /\ pc' \in {"idle", "retry", "polling", "run", "report"}
             /\ current' \in TaskId \cup {NoTask}
             /\ retry' \in SUBSET TaskId
  BY <1>1 DEF AfterSending, TypeOK
<1>2. ASSUME NEW t \in TaskId, ReportAnswered(t) PROVE TypeOK'
  <2>1. RowsOK' /\ attr' = attr /\ caps' = caps
    BY <1>2, RecordResultType DEF ReportAnswered
  <2>2. RestOK'
    BY <1>1, <1>2, <2>1 DEF ReportAnswered, TypeOK, RestOK, ghostVars
  <2> QED BY <2>1, <2>2, TypeOKParts
<1>3. ASSUME NEW t \in TaskId, ReportAnswerLost(t) PROVE TypeOK'
  <2>1. RowsOK' /\ attr' = attr /\ caps' = caps
    BY <1>3, RecordResultType DEF ReportAnswerLost
  <2>2. RestOK'
    BY <1>1, <1>3, <2>1 DEF ReportAnswerLost, TypeOK, RestOK, ghostVars
  <2> QED BY <2>1, <2>2, TypeOKParts
<1>4. ASSUME NEW t \in TaskId, ReportLost(t) PROVE TypeOK'
  BY <1>1, <1>4 DEF ReportLost, TypeOK, dbVars, ghostVars
<1>5. ASSUME NEW t \in TaskId, ReportTimesOut(t) PROVE TypeOK'
  <2>1. late' \in SUBSET (TaskId \X Report)
    <3>1. reports[t] \in Report
      BY <1>5 DEF ReportTimesOut, Sending, SendingOK, IsFirst, TypeOK
    <3> QED BY <1>5, <3>1 DEF ReportTimesOut, TypeOK
  <2>2. /\ pc' \in {"idle", "retry", "polling", "run", "report"}
        /\ current' \in TaskId \cup {NoTask}
        /\ retry' \in SUBSET TaskId
    BY <1>1, <1>5 DEF ReportTimesOut, TypeOK
  <2> QED BY <1>5, <2>1, <2>2 DEF ReportTimesOut, TypeOK, dbVars, ghostVars
<1>6. ASSUME NEW t \in TaskId, NEW r \in Report, LateReport(t, r) PROVE TypeOK'
  <2>1. RowsOK' /\ attr' = attr /\ caps' = caps
    BY <1>6, RecordResultType, TypeOKParts DEF LateReport, RowsOK, dbVars
  <2>2. RestOK'
    BY <1>6, <2>1 DEF LateReport, TypeOK, RestOK, agentVars, ghostVars
  <2> QED BY <2>1, <2>2, TypeOKParts
<1> QED BY <1>2, <1>3, <1>4, <1>5, <1>6 DEF Reporting

\* Time passes within the bounds of the clocks.
LEMMA TickType == TypeOK /\ Tick => TypeOK'
<1> SUFFICES ASSUME TypeOK, Tick PROVE TypeOK'
  OBVIOUS
<1>1. age' \in [TaskId -> 0..(RunningTimeout + 1)]
  BY TimeAssumption DEF Tick, TypeOK
<1>2. ttl' \in [TaskId -> 0..QueryTtl]
  BY TimeAssumption DEF Tick, TypeOK
<1> QED BY <1>1, <1>2 DEF Tick, TypeOK, agentVars, ghostVars

\* What the agent is sending is in pending_task_reports, initially and always.
LEMMA SendingOKInit == Init => SendingOK
BY DEF Init, SendingOK

\* Every step keeps the reports the agent is sending among the pending ones:
\* they leave that map only when their own answer arrives, or with the process.
LEMMA SendingOKStep == TypeOK /\ SendingOK /\ [Next]_vars => SendingOK'
<1> SUFFICES ASSUME TypeOK, SendingOK, [Next]_vars PROVE SendingOK'
  OBVIOUS
<1>1. ASSUME UNCHANGED agentVars PROVE SendingOK'
  BY <1>1 DEF SendingOK, agentVars
<1>2. CASE ControlPlane
  BY <1>1, <1>2 DEF ControlPlane, EnqueueTask, EnqueueQuery, ConfirmPlan, ConfirmRenamePlan,
     CancelDraftPlan, CancelTasks, ReadTaskStatus, RefreshRead, RefreshWrite
<1>3. CASE Tick
  BY <1>1, <1>3 DEF Tick
<1>4. CASE PollHandling
  <2>1. ASSUME NEW q, NEW tasks, Answer(q, tasks) PROVE SendingOK'
    BY <1>1, <2>1 DEF Answer, SendingOK
  <2>2. PICK q \in Request : \/ PollExpireAndClaim(q)
                             \/ PollLoad(q)
                             \/ PollCommit(q)
                             \/ PollFails(q)
    BY <1>4 DEF PollHandling
  <2>3. CASE PollExpireAndClaim(q)
    BY <2>1, <2>3 DEF PollExpireAndClaim
  <2>4. CASE PollLoad(q)
    BY <1>1, <2>4 DEF PollLoad
  <2>5. CASE PollCommit(q)
    BY <2>1, <2>5 DEF PollCommit
  <2>6. CASE PollFails(q)
    BY <1>1, <2>6 DEF PollFails, SendingOK
  <2> QED BY <2>2, <2>3, <2>4, <2>5, <2>6
<1>5. CASE Agent
  <2>1. ASSUME NEW c \in SUBSET Capability, BeginCycle(c) PROVE SendingOK'
    BY <2>1 DEF BeginCycle, Unacknowledged, SendingOK
  <2>2. ASSUME NEW t \in TaskId, NEW r \in Outcome, Execute(t, r) PROVE SendingOK'
    BY <2>2, InputAssumption DEF Execute, SendingOK, TypeOK, Report
  <2> QED BY <1>5, <2>1, <2>2 DEF Agent, SkipPoll, SendPoll, PollTimeout, AgentRestart, SendingOK
<1>6. CASE Reporting
  <2>1. ASSUME NEW t \in TaskId, Sending(t), AfterSending(t),
               \A u \in TaskId \ {t} : reports'[u] = reports[u]
        PROVE  SendingOK'
    BY <2>1 DEF AfterSending, Sending, SendingOK, TypeOK
  <2>2. ASSUME NEW t \in TaskId, ReportAnswered(t) PROVE SendingOK'
    BY <2>1, <2>2 DEF ReportAnswered, TypeOK
  <2>3. ASSUME NEW t \in TaskId, ReportAnswerLost(t) \/ ReportLost(t) PROVE SendingOK'
    BY <2>1, <2>3 DEF ReportAnswerLost, ReportLost
  <2>4. ASSUME NEW t \in TaskId, ReportTimesOut(t) PROVE SendingOK'
    BY <2>1, <2>4 DEF ReportTimesOut, SendingOK
  <2>5. ASSUME NEW t \in TaskId, NEW r \in Report, LateReport(t, r) PROVE SendingOK'
    BY <1>1, <2>5 DEF LateReport
  <2> QED BY <1>6, <2>2, <2>3, <2>4, <2>5 DEF Reporting
<1>7. CASE UNCHANGED vars
  BY <1>1, <1>7 DEF vars
<1> QED BY <1>2, <1>3, <1>4, <1>5, <1>6, <1>7 DEF Next

\* The empty queue is typed.
LEMMA InitType == Init => TypeOK
BY SizeAssumption, TimeAssumption DEF Init, TypeOK, Status, Result, Attr, TaskType, PayloadKind,
   PlanStatus, FreeRequest

\* Every step of controller, agent and network keeps the state typed.
LEMMA TypeStep == TypeOK /\ SendingOK /\ [Next]_vars => TypeOK'
<1>1. TypeOK /\ UNCHANGED vars => TypeOK'
  BY DEF TypeOK, vars, dbVars, agentVars, ghostVars
<1> QED BY <1>1, ControlPlaneType, TickType, PollHandlingType, AgentType, ReportingType DEF Next

(***************************************************************************)
(* Every variable of the queue keeps its type: the statuses, results, plan  *)
(* states and clocks the handlers write, the requests in flight and the     *)
(* agent's memory.  TypeOK alone is not inductive: that a delayed request   *)
(* carries a real report needs SendingOK.                                   *)
(***************************************************************************)
THEOREM TypeCorrect == Spec => []TypeOK
<1>1. Init => TypeOK /\ SendingOK
  BY InitType, SendingOKInit
<1>2. TypeOK /\ SendingOK /\ [Next]_vars => (TypeOK /\ SendingOK)'
  BY TypeStep, SendingOKStep
<1> QED BY <1>1, <1>2, PTL DEF Spec

-----------------------------------------------------------------------------
(* How the controller's own transactions move a row.                       *)

Waiting == {"absent", "pending"}

\* A row that left the queue does not return to it, and only a report makes a
\* row succeed or fail with a reported result.
Moves(t) ==
  /\ status'[t] \in Waiting => status[t] \in Waiting
  /\ status'[t] = "succeeded" => status[t] = "succeeded"
  /\ status'[t] = "failed" /\ result'[t] = "reported" =>
       status[t] = "failed" /\ result[t] = "reported"

\* A scan claims only rows whose claim UPDATE found them pending.
LEMMA ClaimsArePending ==
  ASSUME NEW cand \in SUBSET TaskId, NEW read, NEW now,
         NEW res \in Scans(cand, read, now), NEW t \in Claims(res)
  PROVE  now[t] = "pending"
<1>1. t \in cand /\ res[t] = "claim" /\ res[t] = Turn(t, res, read, now[t])
  BY DEF Scans, Claims
<1> QED BY <1>1 DEF Turn, ClaimWon

\* Expiry moves rows to failed, with a result of its own.
LEMMA ExpiryMoves ==
  ASSUME NEW X, NEW t \in TaskId
  PROVE  IF t \in X THEN ExpiredStatus(X)[t] = "failed" /\ ExpiredResult(X)[t] # "reported"
                    ELSE ExpiredStatus(X)[t] = status[t] /\ ExpiredResult(X)[t] = result[t]
BY DEF ExpiredStatus, ExpiredResult

\* Inserting a row next to an expiry.
LEMMA InsertMoves ==
  ASSUME TypeOK, NEW n \in TaskId, NEW row, NEW X, InsertAfterExpiry(n, row, X), NEW t \in TaskId
  PROVE  Moves(t)
<1>1. status[n] \in Waiting
  <2>1. n \notin Rows
    BY SizeAssumption DEF InsertAfterExpiry, IsNext, TaskId
  <2> QED BY <2>1 DEF Rows, Waiting
<1>2. ExpiredStatus(X) \in [TaskId -> Status]
  BY ExpiryType
<1>3. t = n => status'[t] = "pending"
  BY <1>2 DEF InsertAfterExpiry
<1>4. t # n => status'[t] = ExpiredStatus(X)[t]
  BY <1>2 DEF InsertAfterExpiry
<1>5. result'[t] = ExpiredResult(X)[t]
  BY DEF InsertAfterExpiry
<1> QED BY <1>1, <1>3, <1>4, <1>5, ExpiryMoves DEF Moves, Waiting

\* A poll's writes over the statuses st and results rs of the same rows after
\* an expiry of X (possibly none).
LEMMA PollMoves ==
  ASSUME TypeOK, NEW cand \in SUBSET TaskId, NEW read, NEW X,
         NEW res \in Scans(cand, read, ExpiredStatus(X)), NEW Y,
         PollWrites(res, ExpiredStatus(X), ExpiredResult(X), Y), NEW t \in TaskId
  PROVE  Moves(t)
<1>1. status'[t] = IF t \in Claims(res) THEN "running"
                   ELSE IF t \in Rejections(res) THEN "failed" ELSE ExpiredStatus(X)[t]
  BY DEF PollWrites, WriteRows
<1>2. result'[t] = IF t \in Rejections(res) THEN res[t] ELSE ExpiredResult(X)[t]
  BY DEF PollWrites, WriteRows
<1>3. t \in Rejections(res) => res[t] # "reported"
  BY DEF Rejections
<1> QED BY <1>1, <1>2, <1>3, ExpiryMoves DEF Moves, Waiting

\* Nothing expired: the table as it is.
LEMMA NoExpiry == TypeOK => ExpiredStatus({}) = status /\ ExpiredResult({}) = result
BY DEF TypeOK, ExpiredStatus, ExpiredResult

\* The steps that do not handle a report move rows in these ways only.
LEMMA TableMoves ==
  ASSUME TypeOK, ControlPlane \/ Tick \/ PollHandling \/ Agent, NEW t \in TaskId
  PROVE  Moves(t)
<1>1. ASSUME UNCHANGED <<status, result>> PROVE Moves(t)
  BY <1>1 DEF Moves
<1>2. CASE ControlPlane
  <2>1. ASSUME NEW n \in TaskId, NEW in, NEW d, EnqueueTask(n, in, d) PROVE Moves(t)
    BY <2>1, InsertMoves DEF EnqueueTask
  <2>2. ASSUME NEW n \in TaskId, NEW in, EnqueueQuery(n, in) PROVE Moves(t)
    BY <2>2, InsertMoves DEF EnqueueQuery
  <2>3. ASSUME NEW n \in TaskId, NEW p \in Plan, ConfirmPlan(n, p) PROVE Moves(t)
    <3>1. n \notin Rows
      BY <2>3, SizeAssumption DEF ConfirmPlan, IsNext, TaskId
    <3> QED BY <2>3, <3>1 DEF ConfirmPlan, Rows, TypeOK, Moves, Waiting
  <2>4. ASSUME NEW n \in TaskId, NEW p \in Plan, ConfirmRenamePlan(n, p) PROVE Moves(t)
    <3>1. \A u \in {n, n + 1, n + 2} : u \notin Rows
      BY <2>4, SizeAssumption DEF ConfirmRenamePlan, IsNext, TaskId
    <3> QED BY <2>4, <3>1 DEF ConfirmRenamePlan, Rows, TypeOK, Moves, Waiting
  <2>5. ASSUME NEW p \in Plan, CancelDraftPlan(p) PROVE Moves(t)
    BY <1>1, <2>5 DEF CancelDraftPlan
  <2>6. ASSUME NEW S \in SUBSET TaskId, CancelTasks(S) PROVE Moves(t)
    BY <2>6 DEF CancelTasks, WriteRows, Moves, Waiting
  <2>7. CASE ReadTaskStatus
    BY <2>7, ExpiryMoves DEF ReadTaskStatus, WriteRows, Moves, Waiting
  <2>8. ASSUME NEW u \in TaskId, RefreshRead(u) PROVE Moves(t)
    BY <1>1, <2>8 DEF RefreshRead, dbVars
  <2>9. ASSUME NEW u \in TaskId, RefreshWrite(u) PROVE Moves(t)
    BY <2>9 DEF RefreshWrite, WriteRows, TypeOK, Moves, Waiting
  <2> QED BY <1>2, <2>1, <2>2, <2>3, <2>4, <2>5, <2>6, <2>7, <2>8, <2>9 DEF ControlPlane
<1>3. CASE Tick
  BY <1>1, <1>3 DEF Tick
<1>4. CASE PollHandling
  <2>1. PICK q \in Request : \/ PollExpireAndClaim(q)
                             \/ PollLoad(q)
                             \/ PollCommit(q)
                             \/ PollFails(q)
    BY <1>4 DEF PollHandling
  <2>2. CASE PollExpireAndClaim(q)
    BY <2>2, PollMoves DEF PollExpireAndClaim, Candidates
  <2>3. CASE PollLoad(q) \/ PollFails(q)
    BY <1>1, <2>3 DEF PollLoad, PollFails, dbVars
  <2>4. CASE PollCommit(q)
    BY <2>4, PollMoves, NoExpiry DEF PollCommit, TypeOK
  <2> QED BY <2>1, <2>2, <2>3, <2>4
<1>5. CASE Agent
  BY <1>1, <1>5 DEF Agent, BeginCycle, SkipPoll, SendPoll, PollTimeout, Execute, AgentRestart, dbVars
<1> QED BY <1>2, <1>3, <1>4, <1>5

\* Handling a report takes a running row out of the queue for good.
LEMMA RecordMoves ==
  ASSUME TypeOK, NEW u \in TaskId, NEW r, RecordResult(u, r), NEW t \in TaskId
  PROVE  /\ status'[t] \in Waiting => status[t] \in Waiting
         /\ \/ status'[t] = status[t] /\ result'[t] = result[t]
            \/ /\ t = u /\ status[t] = "running"
               /\ status'[t] = Normalized(r)
               /\ result'[t] = IF r = "invalid" THEN "rejected" ELSE "reported"
BY DEF RecordResult, WriteRows, TypeOK, Normalized, Waiting, dbVars

-----------------------------------------------------------------------------
(* At most one execution.                                                  *)

\* Work in the agent's hands has left the queue, and is either still to be done
\* or was done once.
OnceOK ==
  \A t \in TaskId :
    /\ executions[t] <= 1
    /\ t \in batch => executions[t] = 0
    /\ t \in batch \/ executions[t] > 0 => status[t] \notin Waiting

\* A step that hands out no new work and does none keeps OnceOK.
LEMMA OnceOKKept ==
  ASSUME OnceOK, UNCHANGED executions, batch' \subseteq batch,
         \A t \in TaskId : status'[t] \in Waiting => status[t] \in Waiting
  PROVE  OnceOK'
BY DEF OnceOK

\* The answer to a poll hands out rows that were pending: nobody has them.
LEMMA OnceOKClaim ==
  ASSUME TypeOK, OnceOK, NEW cand \in SUBSET TaskId, NEW read, NEW X,
         NEW res \in Scans(cand, read, ExpiredStatus(X)), NEW Y, NEW q,
         PollWrites(res, ExpiredStatus(X), ExpiredResult(X), Y),
         Answer(q, Claims(res)), UNCHANGED executions
  PROVE  OnceOK'
<1>1. \A t \in TaskId : status'[t] \in Waiting => status[t] \in Waiting
  BY PollMoves DEF Moves
<1>2. \A t \in Claims(res) : t \in TaskId /\ status[t] = "pending" /\ status'[t] = "running"
  <2> SUFFICES ASSUME NEW t \in Claims(res)
               PROVE  t \in TaskId /\ status[t] = "pending" /\ status'[t] = "running"
    OBVIOUS
  <2>1. t \in TaskId
    BY ClaimsAreCandidates
  <2>2. ExpiredStatus(X)[t] = "pending"
    BY ClaimsArePending
  <2>3. status[t] = "pending"
    BY <2>1, <2>2, ExpiryMoves
  <2>4. status'[t] = "running"
    BY <2>1 DEF PollWrites, WriteRows
  <2> QED BY <2>1, <2>3, <2>4
<1>3. CASE batch' = batch
  BY <1>1, <1>3, OnceOKKept
<1>4. CASE batch' = Claims(res)
  <2> SUFFICES ASSUME NEW t \in TaskId
               PROVE  /\ executions[t] <= 1
                      /\ t \in batch' => executions[t] = 0
                      /\ t \in batch' \/ executions[t] > 0 => status'[t] \notin Waiting
    BY DEF OnceOK
  <2>1. t \in batch' => executions[t] = 0
    BY <1>2, <1>4 DEF OnceOK, Waiting, TypeOK
  <2>2. t \in batch' => status'[t] \notin Waiting
    BY <1>2, <1>4 DEF Waiting
  <2> QED BY <1>1, <2>1, <2>2 DEF OnceOK
<1> QED BY <1>3, <1>4 DEF Answer, agentVars

\* Nothing has been handed out in the empty queue.
LEMMA OnceOKInit == Init => OnceOK
BY DEF Init, OnceOK

\* Every step keeps a task in at most one pair of hands.
LEMMA OnceOKStep == TypeOK /\ OnceOK /\ [Next]_vars => OnceOK'
<1> SUFFICES ASSUME TypeOK, OnceOK, [Next]_vars PROVE OnceOK'
  OBVIOUS
<1>1. ASSUME ControlPlane \/ Tick, UNCHANGED <<batch, executions>> PROVE OnceOK'
  BY <1>1, TableMoves, OnceOKKept DEF Moves
<1>2. CASE ControlPlane \/ Tick
  BY <1>1, <1>2 DEF ControlPlane, EnqueueTask, EnqueueQuery, ConfirmPlan, ConfirmRenamePlan,
     CancelDraftPlan, CancelTasks, ReadTaskStatus, RefreshRead, RefreshWrite, Tick, agentVars, ghostVars
<1>3. CASE PollHandling
  <2>1. PICK q \in Request : \/ PollExpireAndClaim(q)
                             \/ PollLoad(q)
                             \/ PollCommit(q)
                             \/ PollFails(q)
    BY <1>3 DEF PollHandling
  <2>2. CASE PollExpireAndClaim(q)
    BY <2>2, OnceOKClaim DEF PollExpireAndClaim, Candidates, ghostVars
  <2>3. CASE PollLoad(q) \/ PollFails(q)
    BY <2>3, OnceOKKept DEF PollLoad, PollFails, dbVars, agentVars, ghostVars
  <2>4. CASE PollCommit(q)
    BY <2>4, OnceOKClaim, NoExpiry DEF PollCommit, TypeOK, ghostVars
  <2> QED BY <2>1, <2>2, <2>3, <2>4
<1>4. CASE Agent
  <2>1. ASSUME NEW t \in TaskId, NEW r \in Outcome, Execute(t, r) PROVE OnceOK'
    <3>1. t \in batch /\ executions[t] = 0 /\ status[t] \notin Waiting
      BY <2>1 DEF Execute, IsFirst, OnceOK
    <3>2. executions' = [executions EXCEPT ![t] = 1]
      BY <2>1, <3>1 DEF Execute, TypeOK
    <3>3. batch' = batch \ {t} /\ status' = status
      BY <2>1 DEF Execute, dbVars
    <3> QED BY <3>1, <3>2, <3>3 DEF OnceOK, TypeOK
  <2>2. ASSUME UNCHANGED <<status, executions>>, batch' \subseteq batch PROVE OnceOK'
    BY <2>2, OnceOKKept
  <2> QED BY <1>4, <2>1, <2>2
       DEF Agent, BeginCycle, SkipPoll, SendPoll, PollTimeout, AgentRestart, dbVars, ghostVars
<1>5. CASE Reporting
  <2>1. ASSUME NEW t \in TaskId, NEW r, RecordResult(t, r), UNCHANGED <<batch, executions>>
        PROVE  OnceOK'
    BY <2>1, RecordMoves, OnceOKKept
  <2>2. ASSUME UNCHANGED <<status, batch, executions>> PROVE OnceOK'
    BY <2>2, OnceOKKept
  <2> QED BY <1>5, <2>1, <2>2
       DEF Reporting, ReportAnswered, ReportAnswerLost, ReportLost, ReportTimesOut, LateReport,
           dbVars, agentVars, ghostVars
<1>6. CASE UNCHANGED vars
  BY <1>6, OnceOKKept DEF vars, dbVars, agentVars, ghostVars
<1> QED BY <1>2, <1>3, <1>4, <1>5, <1>6 DEF Next

(***************************************************************************)
(* Whatever is lost, delayed, repeated or restarted, for any number of      *)
(* tasks, overlapping polls, batch and scan limits: the claim UPDATE of     *)
(* agent_poll and the agent's bookkeeping make a task run at most once.     *)
(***************************************************************************)
THEOREM ExecutesAtMostOnce == Spec => []AtMostOnceExecution
<1>1. Init => TypeOK /\ SendingOK /\ OnceOK
  BY InitType, SendingOKInit, OnceOKInit
<1>2. TypeOK /\ SendingOK /\ OnceOK /\ [Next]_vars => (TypeOK /\ SendingOK /\ OnceOK)'
  BY TypeStep, SendingOKStep, OnceOKStep
<1>3. OnceOK => AtMostOnceExecution
  BY DEF OnceOK, AtMostOnceExecution
<1> QED BY <1>1, <1>2, <1>3, PTL DEF Spec

-----------------------------------------------------------------------------
(* What is recorded happened.                                              *)

\* A report that says the truth about a task that was carried out.
Truthful(t, r) ==
  /\ executions[t] > 0
  /\ r = "succeeded" => outcome[t] = "succeeded"
  /\ r \in {"failed", "tolerated"} => outcome[t] = "failed"

\* Reports the agent keeps and reports still under way are truthful, and so is
\* what the rows say was reported.
HonestOK ==
  \A t \in TaskId :
    /\ reports[t] # "none" => Truthful(t, reports[t])
    /\ \A r \in Report : <<t, r>> \in late => Truthful(t, r)
    /\ status[t] = "succeeded" => executions[t] > 0 /\ outcome[t] = "succeeded"
    /\ status[t] = "failed" /\ result[t] = "reported" => executions[t] > 0 /\ outcome[t] = "failed"

\* A step that does no work, adds no report and moves rows as the controller
\* does by itself keeps HonestOK.
LEMMA HonestOKKept ==
  ASSUME HonestOK, UNCHANGED <<executions, outcome>>, late' \subseteq late,
         \A t \in TaskId : reports'[t] \in {reports[t], "none"},
         \A t \in TaskId : Moves(t)
  PROVE  HonestOK'
BY DEF HonestOK, Truthful, Moves

\* Recording a truthful report keeps HonestOK.
LEMMA HonestOKRecord ==
  ASSUME TypeOK, HonestOK, NEW u \in TaskId, NEW r \in Report, Truthful(u, r), RecordResult(u, r),
         UNCHANGED <<executions, outcome>>, late' \subseteq late,
         \A t \in TaskId : reports'[t] \in {reports[t], "none"}
  PROVE  HonestOK'
<1> SUFFICES ASSUME NEW t \in TaskId
             PROVE  /\ reports'[t] # "none" => Truthful(t, reports'[t])
                    /\ \A x \in Report : <<t, x>> \in late' => Truthful(t, x)
                    /\ status'[t] = "succeeded" => executions[t] > 0 /\ outcome[t] = "succeeded"
                    /\ status'[t] = "failed" /\ result'[t] = "reported" =>
                         executions[t] > 0 /\ outcome[t] = "failed"
  BY DEF HonestOK, Truthful
<1>1. reports'[t] # "none" => Truthful(t, reports'[t])
  BY DEF HonestOK
<1>2. \A x \in Report : <<t, x>> \in late' => Truthful(t, x)
  BY DEF HonestOK
<1>3. CASE status'[t] = status[t] /\ result'[t] = result[t]
  BY <1>1, <1>2, <1>3 DEF HonestOK
<1>4. CASE /\ t = u
           /\ status'[t] = Normalized(r)
           /\ result'[t] = IF r = "invalid" THEN "rejected" ELSE "reported"
  BY <1>1, <1>2, <1>4 DEF Truthful, Normalized, Report
<1> QED BY <1>3, <1>4, RecordMoves

\* Nothing has been reported in the empty queue.
LEMMA HonestOKInit == Init => HonestOK
BY DEF Init, HonestOK

\* Every step keeps reports and recorded results true to the execution.
LEMMA HonestOKStep == TypeOK /\ SendingOK /\ OnceOK /\ HonestOK /\ [Next]_vars => HonestOK'
<1> SUFFICES ASSUME TypeOK, SendingOK, OnceOK, HonestOK, [Next]_vars PROVE HonestOK'
  OBVIOUS
<1>1. CASE ControlPlane \/ Tick
  <2>1. UNCHANGED <<executions, outcome, late, reports>>
    BY <1>1 DEF ControlPlane, EnqueueTask, EnqueueQuery, ConfirmPlan, ConfirmRenamePlan,
       CancelDraftPlan, CancelTasks, ReadTaskStatus, RefreshRead, RefreshWrite, Tick, agentVars, ghostVars
  <2> QED BY <1>1, <2>1, TableMoves, HonestOKKept
<1>2. CASE PollHandling
  <2>1. UNCHANGED <<executions, outcome, late, reports>>
    BY <1>2 DEF PollHandling, PollExpireAndClaim, PollLoad, PollCommit, PollFails, Answer,
       agentVars, ghostVars
  <2> QED BY <1>2, <2>1, TableMoves, HonestOKKept
<1>3. CASE Agent
  <2>1. ASSUME NEW t \in TaskId, NEW r \in Outcome, Execute(t, r) PROVE HonestOK'
    <3>1. executions[t] = 0
      BY <2>1 DEF Execute, IsFirst, OnceOK
    <3>2. /\ status' = status /\ result' = result /\ late' = late
          /\ executions' = [executions EXCEPT ![t] = 1]
          /\ reports' = [reports EXCEPT ![t] = r]
      BY <2>1, <3>1 DEF Execute, TypeOK, dbVars
    <3>3. PICK o \in {"succeeded", "failed"} :
            /\ r = "succeeded" => o = "succeeded"
            /\ r \in {"failed", "tolerated"} => o = "failed"
            /\ outcome' = [outcome EXCEPT ![t] = o]
      BY <2>1 DEF Execute
    <3> QED BY <3>1, <3>2, <3>3 DEF HonestOK, Truthful, TypeOK
  <2>2. ASSUME UNCHANGED <<executions, outcome, late>>,
               \A t \in TaskId : reports'[t] \in {reports[t], "none"}
        PROVE  HonestOK'
    BY <1>3, <2>2, TableMoves, HonestOKKept
  <2> QED BY <1>3, <2>1, <2>2
       DEF Agent, BeginCycle, SkipPoll, SendPoll, PollTimeout, AgentRestart, ghostVars
<1>4. CASE Reporting
  <2>1. ASSUME NEW t \in TaskId, Sending(t)
        PROVE  reports[t] \in Report /\ Truthful(t, reports[t])
    BY <2>1 DEF Sending, SendingOK, IsFirst, HonestOK, TypeOK
  <2>2. ASSUME NEW t \in TaskId, ReportAnswered(t) \/ ReportAnswerLost(t) PROVE HonestOK'
    <3>1. \A u \in TaskId : reports'[u] \in {reports[u], "none"}
      BY <2>2 DEF ReportAnswered, ReportAnswerLost, TypeOK
    <3> QED BY <2>1, <2>2, <3>1, HonestOKRecord DEF ReportAnswered, ReportAnswerLost, ghostVars
  <2>3. ASSUME NEW t \in TaskId, ReportLost(t) PROVE HonestOK'
    BY <2>3, HonestOKKept DEF ReportLost, Moves, dbVars, ghostVars
  <2>4. ASSUME NEW t \in TaskId, ReportTimesOut(t) PROVE HonestOK'
    <3>1. reports[t] \in Report /\ Truthful(t, reports[t])
      BY <2>1, <2>4 DEF ReportTimesOut
    <3>2. /\ UNCHANGED <<status, result, executions, outcome, reports>>
          /\ late' = late \cup {<<t, reports[t]>>}
      BY <2>4 DEF ReportTimesOut, dbVars, ghostVars
    <3> QED BY <3>1, <3>2 DEF HonestOK, Truthful
  <2>5. ASSUME NEW t \in TaskId, NEW r \in Report, LateReport(t, r) PROVE HonestOK'
    <3>1. Truthful(t, r)
      BY <2>5 DEF LateReport, HonestOK
    <3>2. UNCHANGED <<executions, outcome, reports>> /\ late' \subseteq late
      BY <2>5 DEF LateReport, agentVars, ghostVars
    <3>3. CASE RecordResult(t, r)
      BY <3>1, <3>2, <3>3, HonestOKRecord
    <3>4. CASE UNCHANGED dbVars
      BY <3>2, <3>4, HonestOKKept DEF Moves, dbVars
    <3> QED BY <2>5, <3>3, <3>4 DEF LateReport
  <2> QED BY <1>4, <2>2, <2>3, <2>4, <2>5 DEF Reporting
<1>5. CASE UNCHANGED vars
  BY <1>5, HonestOKKept DEF vars, dbVars, agentVars, ghostVars, Moves
<1> QED BY <1>1, <1>2, <1>3, <1>4, <1>5 DEF Next

(***************************************************************************)
(* A row that says succeeded, or failed with a reported result, tells what  *)
(* the agent's one execution did.  The argument needs OnceOK: a second      *)
(* execution could contradict a report that is already under way.           *)
(***************************************************************************)
THEOREM RecordsAreReal == Spec => []RecordedOutcomeIsReal
<1>1. Init => TypeOK /\ SendingOK /\ OnceOK /\ HonestOK
  BY InitType, SendingOKInit, OnceOKInit, HonestOKInit
<1>2. TypeOK /\ SendingOK /\ OnceOK /\ HonestOK /\ [Next]_vars =>
        (TypeOK /\ SendingOK /\ OnceOK /\ HonestOK)'
  BY TypeStep, SendingOKStep, OnceOKStep, HonestOKStep
<1>3. HonestOK => RecordedOutcomeIsReal
  BY DEF HonestOK, RecordedOutcomeIsReal
<1> QED BY <1>1, <1>2, <1>3, PTL DEF Spec

-----------------------------------------------------------------------------
(* The inductive invariant.                                                *)

\* The verdict of the dependency walk on task t, as Readiness asks for it.
Verdict(t) == ChainVerdict(t, Dep, [u \in TaskId |-> 0], Rows, MaxDepth)

\* In the statuses st the dependency of t, if it has one, lets t be handed out,
\* or keeps it from ever being handed out.
DepDone(t, st) ==
  attr[t].dep # NoTask => \/ st[attr[t].dep] = "succeeded"
                          \/ /\ ContinuesAfterFailure(t)
                             /\ st[attr[t].dep] \in {"failed", "cancelled"}
DepFailed(t, st) ==
  ~ ContinuesAfterFailure(t) /\ st[attr[t].dep] \in {"failed", "cancelled"}

Ready(t, st)  == Verdict(t) \in {"none", "ok"} /\ DepDone(t, st)
Doomed(t, st) == Verdict(t) # "none" /\ (Verdict(t) = "ok" => DepFailed(t, st))

\* The results a row is closed with that was given to an agent.
Delivered == {"reported", "rejected", "timeout"}

\* Task t was given to an agent, or is marked so.
Handed(t) == \/ status[t] = "running" \/ result[t] \in Delivered
             \/ t \in batch \/ executions[t] > 0

\* A row: a dependency is an earlier control task, a query depends on nothing,
\* belongs to no plan and is an object.
RowShape(t) ==
  /\ attr[t].dep # NoTask => /\ attr[t].dep \in TaskId /\ attr[t].dep < t
                             /\ status[attr[t].dep] # "absent"
                             /\ attr[attr[t].dep].type # "query"
  /\ attr[t].type = "query" => /\ attr[t].payload = "object"
                               /\ attr[t].dep = NoTask /\ attr[t].plan = NoPlan
  /\ status[t] = "absent" => /\ attr[t].type = "control"
                             /\ attr[t].dep = NoTask /\ attr[t].plan = NoPlan
ShapeOK ==
  /\ \A t \in TaskId : RowShape(t)
  /\ \A t \in refreshing : attr[t].type = "query" /\ status[t] # "absent"
  /\ \A q \in Request : \A t \in poll[q].cand : status[t] # "absent"

\* The result column agrees with the status column.
RecordShape(t) ==
  /\ status[t] \in {"absent", "pending", "running"} => result[t] = "none"
  /\ status[t] = "succeeded" => result[t] = "reported"
  /\ status[t] = "cancelled" => result[t] = "cancelled"
  /\ status[t] = "failed" => result[t] \notin {"none", "cancelled"}
  /\ result[t] = "deadline" => attr[t].type = "query"
  /\ attr[t].type = "query" => result[t] \notin {"cancelled", "dependency", "payload"}

\* What was handed out could be handed out, and the row still says so.
HandedShape(t) ==
  /\ Handed(t) => attr[t].payload = "object" /\ Ready(t, status)
  /\ (t \in batch \/ executions[t] > 0) /\ attr[t].type # "query" =>
       status[t] = "running" \/ result[t] \in Delivered

\* What a poll closed could not be handed out, for the reason it gave.
RejectedShape(t) ==
  /\ result[t] = "payload" => \/ attr[t].payload = "malformed"
                              \/ attr[t].payload = "oversized" /\ Ready(t, status)
  /\ result[t] = "dependency" => attr[t].payload # "malformed" /\ Doomed(t, status)

OrderOK ==
  /\ ShapeOK
  /\ \A t \in TaskId : RecordShape(t) /\ HandedShape(t) /\ RejectedShape(t)

-----------------------------------------------------------------------------
(* The ways a step moves one row.                                          *)

Untouched(t) == status'[t] = status[t] /\ result'[t] = result[t]
Created(t)   == status[t] = "absent" /\ status'[t] = "pending" /\ result'[t] = result[t]
TimedOut(t)  == status[t] = "running" /\ status'[t] = "failed" /\ result'[t] = "timeout"
Overran(t)   == /\ attr[t].type = "query" /\ status[t] # "absent"
                /\ status'[t] = "failed" /\ result'[t] = "deadline"
Withdrawn(t) == /\ attr[t].type # "query" /\ status[t] = "pending"
                /\ status'[t] = "cancelled" /\ result'[t] = "cancelled"
HandedOut(t) == /\ status[t] = "pending" /\ status'[t] = "running" /\ result'[t] = result[t]
                /\ attr[t].payload = "object" /\ Ready(t, status')
Refused(t) ==
  /\ attr[t].type # "query" /\ status[t] # "absent" /\ ~ Handed(t)
  /\ status'[t] = "failed" /\ result'[t] \in {"dependency", "payload"}
  /\ status[t] = "failed" => result'[t] = result[t]
  /\ result'[t] = "payload" => \/ attr[t].payload = "malformed"
                               \/ attr[t].payload = "oversized" /\ Ready(t, status')
  /\ result'[t] = "dependency" => attr[t].payload # "malformed" /\ Doomed(t, status')
Reported(t) ==
  /\ status[t] = "running"
  /\ \/ status'[t] = "succeeded" /\ result'[t] = "reported"
     \/ status'[t] = "failed" /\ result'[t] \in {"reported", "rejected"}

RowStep(t) == \/ Untouched(t) \/ Created(t) \/ TimedOut(t) \/ Overran(t) \/ Withdrawn(t)
              \/ HandedOut(t) \/ Refused(t) \/ Reported(t)

\* What becomes of the columns that do not change.
AttrStep(t) ==
  \/ attr'[t] = attr[t] /\ (status[t] = "absent" => status'[t] = "absent")
  \/ status[t] = "absent" /\ status'[t] = "pending" /\ RowShape(t)'

\* What becomes of the work: only rows claimed in this step enter the batch, and
\* only work of the batch is done.
WorkStep(t) ==
  /\ t \in batch' => t \in batch \/ (status[t] = "pending" /\ status'[t] = "running")
  /\ executions'[t] > 0 => executions[t] > 0 \/ t \in batch

-----------------------------------------------------------------------------
(* A poll.                                                                 *)

\* What is known of the poll whose loop comes to the results res: cand are rows,
\* X are the rows it expires, running ones or queries, and it reads a row that is
\* not a candidate as it is or as it was before it settled.
PollOf(cand, read, X, res) ==
  /\ cand \in SUBSET TaskId /\ \A t \in cand : status[t] # "absent"
  /\ X \in SUBSET TaskId
  /\ \A t \in X : status[t] = "running" \/ (status[t] = "pending" /\ attr[t].type = "query")
  /\ \A t \in TaskId : read[t] = ExpiredStatus(X)[t] \/ read[t] = "running"
  /\ res \in Scans(cand, read, ExpiredStatus(X))

\* The status of its dependency that the loop goes by when it comes to t.
SeenDep(t, res, read) ==
  IF attr[t].dep = NoTask THEN "absent" ELSE SessionStatus(attr[t].dep, t, res, read)

\* A task is closed for its dependency or its payload only as Turn says.
LEMMA RejectionReason ==
  ASSUME NEW cand, NEW read, NEW now, NEW res \in Scans(cand, read, now), NEW t \in Rejections(res)
  PROVE  /\ t \in cand /\ res[t] \in {"dependency", "payload"}
         /\ res[t] = "payload" =>
              \/ attr[t].payload = "malformed"
              \/ attr[t].payload = "oversized" /\ Readiness(t, SeenDep(t, res, read)) = "ready"
         /\ res[t] = "dependency" => /\ attr[t].payload # "malformed"
                                     /\ Readiness(t, SeenDep(t, res, read)) = "rejected"
<1>1. t \in cand /\ res[t] \in {"dependency", "payload"} /\ res[t] = Turn(t, res, read, now[t])
  BY DEF Scans, Rejections
<1>2. Readiness(t, SeenDep(t, res, read)) \in {"ready", "rejected", "waits"}
  BY DEF Readiness
<1> QED BY <1>1, <1>2 DEF Turn, SeenDep

\* A task is claimed only when it is an object and ready, and the row is pending.
LEMMA ClaimReason ==
  ASSUME TypeOK, NEW cand \in SUBSET TaskId, NEW read, NEW now,
         NEW res \in Scans(cand, read, now), NEW t \in Claims(res)
  PROVE  /\ t \in cand /\ now[t] = "pending" /\ attr[t].payload = "object"
         /\ Readiness(t, SeenDep(t, res, read)) = "ready"
<1>1. t \in cand /\ res[t] = "claim" /\ res[t] = Turn(t, res, read, now[t])
  BY DEF Scans, Claims
<1>2. Readiness(t, SeenDep(t, res, read)) \in {"ready", "rejected", "waits"}
  BY DEF Readiness
<1>3. attr[t].payload \in {"object", "malformed", "oversized"}
  BY <1>1 DEF TypeOK, Attr, PayloadKind
<1> QED BY <1>1, <1>2, <1>3 DEF Turn, SeenDep, ClaimWon

\* Readiness in terms of the verdict.
LEMMA ReadinessMeans ==
  ASSUME TypeOK, NEW t \in TaskId, NEW s
  PROVE  /\ Verdict(t) = "none" <=> attr[t].dep = NoTask
         /\ Readiness(t, s) = "ready" <=>
              \/ Verdict(t) = "none"
              \/ /\ Verdict(t) = "ok"
                 /\ \/ s = "succeeded"
                    \/ s \in {"failed", "cancelled"} /\ ContinuesAfterFailure(t)
         /\ Readiness(t, s) = "rejected" <=>
              /\ Verdict(t) # "none"
              /\ Verdict(t) = "ok" => s \in {"failed", "cancelled"} /\ ~ ContinuesAfterFailure(t)
<1>1. Verdict(t) = "none" <=> Dep[t] = NoTask
  BY VerdictNone DEF Verdict
<1>2. Dep[t] = attr[t].dep
  BY DEF Dep
<1> QED BY <1>1, <1>2 DEF Readiness, Verdict

\* What the loop takes for the status of a dependency that has settled.
LEMMA SeenDepMeans ==
  ASSUME TypeOK, OrderOK, NEW cand, NEW read, NEW X, NEW res, PollOf(cand, read, X, res),
         NEW t \in cand, attr[t].dep # NoTask
  PROVE  LET d == attr[t].dep
             s == SeenDep(t, res, read)
         IN  /\ d \in TaskId /\ d < t /\ attr[d].type # "query"
             /\ s = "succeeded" => d \notin cand /\ ExpiredStatus(X)[d] = "succeeded"
             /\ s \in {"failed", "cancelled"} =>
                  \/ d \notin cand /\ ExpiredStatus(X)[d] = s
                  \/ d \in Rejections(res)
<1> DEFINE d == attr[t].dep
           s == SeenDep(t, res, read)
<1>1. t \in TaskId /\ RowShape(t)
  BY DEF OrderOK, ShapeOK, PollOf
<1>2. d \in TaskId /\ d < t /\ attr[d].type # "query"
  BY <1>1 DEF RowShape
<1>3. DOMAIN res = cand
  BY DEF PollOf, Scans
<1>4. s = IF d \notin cand THEN read[d]
          ELSE IF Before(d, t) /\ d \in Claims(res) THEN "running"
          ELSE IF Before(d, t) /\ d \in Rejections(res) THEN "failed" ELSE "pending"
  BY <1>3 DEF SeenDep, SessionStatus
<1>5. read[d] = ExpiredStatus(X)[d] \/ read[d] = "running"
  BY <1>2 DEF PollOf
<1> QED BY <1>2, <1>4, <1>5

\* A poll closes no task that was handed out, whatever its session believes: take
\* the first task that it would.
LEMMA HandedNotRejected ==
  ASSUME TypeOK, OrderOK, NEW cand, NEW read, NEW X, NEW res, PollOf(cand, read, X, res),
         NEW u \in Rejections(res)
  PROVE  ~ Handed(u)
<1> DEFINE B == {t \in Rejections(res) : Handed(t)}
<1> SUFFICES ASSUME Handed(u) PROVE FALSE
  OBVIOUS
<1>1. res \in Scans(cand, read, ExpiredStatus(X)) /\ cand \in SUBSET TaskId
  BY DEF PollOf
<1>2. B \in SUBSET Nat /\ B # {} /\ B \subseteq cand
  <2>1. B \subseteq cand
    BY <1>1, RejectionReason
  <2>2. TaskId \subseteq Nat
    BY SizeAssumption DEF TaskId
  <2> QED BY <1>1, <2>1, <2>2
<1>3. PICK t \in B : \A y \in B : t <= y
  BY <1>2, LeastElement
<1>4. t \in cand /\ t \in TaskId /\ t \in Rejections(res) /\ Handed(t)
  BY <1>1, <1>2, <1>3
<1>5. attr[t].payload = "object" /\ Ready(t, status)
  BY <1>4 DEF OrderOK, HandedShape
<1>6. Readiness(t, SeenDep(t, res, read)) = "rejected"
  BY <1>1, <1>4, <1>5, RejectionReason
<1>7. /\ Verdict(t) = "ok" /\ attr[t].dep # NoTask
      /\ SeenDep(t, res, read) \in {"failed", "cancelled"} /\ ~ ContinuesAfterFailure(t)
  BY <1>4, <1>5, <1>6, ReadinessMeans DEF Ready
<1> DEFINE d == attr[t].dep
<1>8. status[d] = "succeeded"
  BY <1>5, <1>7 DEF Ready, DepDone
<1>9. /\ d \in TaskId /\ d < t
      /\ \/ d \notin cand /\ ExpiredStatus(X)[d] \in {"failed", "cancelled"}
         \/ d \in Rejections(res)
  BY <1>4, <1>7, SeenDepMeans
<1>10. ExpiredStatus(X)[d] = "succeeded"
  BY <1>8, <1>9, ExpiryMoves DEF PollOf
<1>11. d \in Rejections(res) /\ Handed(d)
  BY <1>8, <1>9, <1>10 DEF OrderOK, RecordShape, Handed, Delivered
<1>12. t \in Nat /\ d \in Nat
  BY <1>4, <1>9, SizeAssumption DEF TaskId
<1> QED BY <1>3, <1>9, <1>11, <1>12

\* The statuses a poll leaves behind.
LEMMA PollStatus ==
  ASSUME TypeOK, NEW cand, NEW read, NEW X, NEW res, PollOf(cand, read, X, res), NEW Y,
         PollWrites(res, ExpiredStatus(X), ExpiredResult(X), Y), NEW t \in TaskId
  PROVE  /\ status'[t] = IF t \in Claims(res) THEN "running"
                         ELSE IF t \in Rejections(res) THEN "failed" ELSE ExpiredStatus(X)[t]
         /\ result'[t] = IF t \in Rejections(res) THEN res[t] ELSE ExpiredResult(X)[t]
         /\ t \in Claims(res) => t \notin Rejections(res) /\ t \in cand
         /\ t \in Rejections(res) => t \in cand
BY ClaimsAreCandidates DEF PollOf, PollWrites, WriteRows, Claims, Rejections

\* A poll that finds t ready does so because its dependency is done when the poll
\* commits; one that closes it does so because it is not.
LEMMA PollReady ==
  ASSUME TypeOK, OrderOK, NEW cand, NEW read, NEW X, NEW res, PollOf(cand, read, X, res), NEW Y,
         PollWrites(res, ExpiredStatus(X), ExpiredResult(X), Y), NEW t \in cand
  PROVE  /\ Readiness(t, SeenDep(t, res, read)) = "ready" => Ready(t, status')
         /\ Readiness(t, SeenDep(t, res, read)) = "rejected" => Doomed(t, status')
<1> DEFINE d == attr[t].dep
           s == SeenDep(t, res, read)
<1>1. t \in TaskId
  BY DEF PollOf
<1>2. CASE d = NoTask
  BY <1>1, <1>2, ReadinessMeans DEF Ready, DepDone
<1>3. CASE d # NoTask
  <2>1. /\ d \in TaskId
        /\ s = "succeeded" => d \notin cand /\ ExpiredStatus(X)[d] = "succeeded"
        /\ s \in {"failed", "cancelled"} =>
             \/ d \notin cand /\ ExpiredStatus(X)[d] = s
             \/ d \in Rejections(res)
    BY <1>3, SeenDepMeans
  <2> HIDE DEF s
  <2>2. s = "succeeded" => status'[d] = "succeeded"
    BY <2>1, PollStatus
  <2>3. s \in {"failed", "cancelled"} => status'[d] \in {"failed", "cancelled"}
    BY <2>1, PollStatus
  <2>4. Readiness(t, s) = "ready" => Ready(t, status')
    BY <1>1, <2>2, <2>3, ReadinessMeans DEF Ready, DepDone
  <2>5. Readiness(t, s) = "rejected" => Doomed(t, status')
    BY <1>1, <2>3, ReadinessMeans DEF Doomed, DepFailed
  <2> QED BY <2>4, <2>5 DEF s
<1> QED BY <1>2, <1>3

\* A row that was closed by one poll is closed with the same reason by another
\* whose session had loaded it before.
LEMMA SameReason ==
  ASSUME TypeOK, OrderOK, NEW cand, NEW read, NEW X, NEW res, PollOf(cand, read, X, res),
         NEW t \in Rejections(res), status[t] = "failed", attr[t].type # "query"
  PROVE  res[t] = result[t]
<1>1. res \in Scans(cand, read, ExpiredStatus(X)) /\ cand \in SUBSET TaskId
  BY DEF PollOf
<1>2. t \in cand /\ t \in TaskId /\ res[t] \in {"dependency", "payload"}
  BY <1>1, RejectionReason
<1> DEFINE d == attr[t].dep
           s == SeenDep(t, res, read)
<1>3. ~ Handed(t)
  BY HandedNotRejected
<1>4. result[t] \in {"dependency", "payload"}
  <2>1. RecordShape(t) /\ result[t] \in Result
    BY <1>2 DEF OrderOK, TypeOK
  <2> QED BY <1>3, <2>1 DEF RecordShape, Result, Handed, Delivered
<1>5. RejectedShape(t)
  BY <1>2 DEF OrderOK
<1>6. ASSUME result[t] = "payload", res[t] = "dependency" PROVE FALSE
  <2>1. attr[t].payload # "malformed" /\ Readiness(t, s) = "rejected"
    BY <1>1, <1>6, RejectionReason
  <2>2. Ready(t, status)
    BY <1>5, <1>6, <2>1 DEF RejectedShape
  <2>3. /\ d # NoTask /\ ~ ContinuesAfterFailure(t)
        /\ s \in {"failed", "cancelled"}
    BY <1>2, <2>1, <2>2, ReadinessMeans DEF Ready
  <2>4. status[d] = "succeeded"
    BY <2>2, <2>3 DEF Ready, DepDone
  <2>5. /\ d \in TaskId
        /\ \/ d \notin cand /\ ExpiredStatus(X)[d] \in {"failed", "cancelled"}
           \/ d \in Rejections(res)
    BY <1>2, <2>3, SeenDepMeans
  <2>6. ExpiredStatus(X)[d] = "succeeded"
    BY <2>4, <2>5, ExpiryMoves DEF PollOf
  <2>7. d \in Rejections(res) /\ Handed(d)
    BY <2>4, <2>5, <2>6 DEF OrderOK, RecordShape, Handed, Delivered
  <2> QED BY <2>7, HandedNotRejected
<1>7. ASSUME result[t] = "dependency", res[t] = "payload" PROVE FALSE
  <2>1. attr[t].payload # "malformed" /\ Doomed(t, status)
    BY <1>5, <1>7 DEF RejectedShape
  <2>2. Readiness(t, s) = "ready"
    BY <1>1, <1>7, <2>1, RejectionReason
  <2>3. d # NoTask /\ DepFailed(t, status) /\ s = "succeeded"
    BY <1>2, <2>1, <2>2, ReadinessMeans DEF Doomed, DepFailed
  <2>4. d \in TaskId /\ ExpiredStatus(X)[d] = "succeeded"
    BY <1>2, <2>3, SeenDepMeans
  <2>5. status[d] = "succeeded"
    BY <2>4, ExpiryMoves DEF PollOf
  <2> QED BY <2>3, <2>5 DEF DepFailed
<1> QED BY <1>2, <1>4, <1>6, <1>7

\* Expiry closes running rows and overdue queries.
LEMMA ExpiredRow ==
  ASSUME NEW X \in SUBSET TaskId, NEW t \in TaskId,
         \A u \in X : status[u] = "running" \/ (status[u] = "pending" /\ attr[u].type = "query"),
         status'[t] = ExpiredStatus(X)[t], result'[t] = ExpiredResult(X)[t]
  PROVE  Untouched(t) \/ TimedOut(t) \/ Overran(t)
BY DEF ExpiredStatus, ExpiredResult, Untouched, TimedOut, Overran

\* How a poll moves a row.
LEMMA PollRowStep ==
  ASSUME TypeOK, OrderOK, NEW cand, NEW read, NEW X, NEW res, PollOf(cand, read, X, res), NEW Y,
         PollWrites(res, ExpiredStatus(X), ExpiredResult(X), Y), NEW t \in TaskId
  PROVE  RowStep(t)
<1>1. res \in Scans(cand, read, ExpiredStatus(X)) /\ cand \in SUBSET TaskId
  BY DEF PollOf
<1>2. CASE t \in Claims(res)
  <2>1. /\ t \in cand /\ ExpiredStatus(X)[t] = "pending" /\ attr[t].payload = "object"
        /\ Readiness(t, SeenDep(t, res, read)) = "ready"
    BY <1>1, <1>2, ClaimReason
  <2>2. Ready(t, status')
    BY <2>1, PollReady
  <2>3. status'[t] = "running" /\ result'[t] = ExpiredResult(X)[t]
    BY <1>2, PollStatus
  <2>4. status[t] = "pending" /\ ExpiredResult(X)[t] = result[t]
    BY <2>1, ExpiryMoves
  <2> QED BY <2>1, <2>2, <2>3, <2>4 DEF RowStep, HandedOut
<1>3. CASE t \in Rejections(res)
  <2>1. /\ t \in cand /\ res[t] \in {"dependency", "payload"}
        /\ res[t] = "payload" =>
              \/ attr[t].payload = "malformed"
              \/ attr[t].payload = "oversized" /\ Readiness(t, SeenDep(t, res, read)) = "ready"
        /\ res[t] = "dependency" => /\ attr[t].payload # "malformed"
                                    /\ Readiness(t, SeenDep(t, res, read)) = "rejected"
    BY <1>1, <1>3, RejectionReason
  <2>2. attr[t].type # "query"
    <3>1. RowShape(t)
      BY DEF OrderOK, ShapeOK
    <3> QED BY <2>1, <3>1, ReadinessMeans DEF RowShape
  <2>3. ~ Handed(t) /\ status[t] # "absent"
    BY <1>3, <2>1, HandedNotRejected DEF PollOf
  <2>4. status'[t] = "failed" /\ result'[t] = res[t]
    BY <1>3, PollStatus
  <2>5. status[t] = "failed" => res[t] = result[t]
    BY <1>3, <2>2, SameReason
  <2>6. /\ Readiness(t, SeenDep(t, res, read)) = "ready" => Ready(t, status')
        /\ Readiness(t, SeenDep(t, res, read)) = "rejected" => Doomed(t, status')
    BY <2>1, PollReady
  <2> QED BY <2>1, <2>2, <2>3, <2>4, <2>5, <2>6 DEF RowStep, Refused
<1>4. CASE t \notin Claims(res) /\ t \notin Rejections(res)
  <2>1. status'[t] = ExpiredStatus(X)[t] /\ result'[t] = ExpiredResult(X)[t]
    BY <1>4, PollStatus
  <2> QED BY <2>1, ExpiredRow DEF PollOf, RowStep
<1> QED BY <1>2, <1>3, <1>4

\* Both steps of agent_poll that write are polls in this sense.
LEMMA PollSteps ==
  ASSUME TypeOK, OrderOK, NEW q \in Request, PollExpireAndClaim(q) \/ PollCommit(q)
  PROVE  \E cand, read, X, res : /\ PollOf(cand, read, X, res)
                                 /\ PollWrites(res, ExpiredStatus(X), ExpiredResult(X), X)
                                 /\ Answer(q, Claims(res))
<1>1. CASE PollExpireAndClaim(q)
  <2> DEFINE X == StaleTasks \cup OverdueTasks
             now == ExpiredStatus(X)
  <2>1. PICK res \in Scans(Candidates(now), now, now) :
          PollWrites(res, now, ExpiredResult(X), X) /\ Answer(q, Claims(res))
    BY <1>1 DEF PollExpireAndClaim
  <2>2. /\ X \in SUBSET TaskId
        /\ \A t \in X : status[t] = "running" \/ (status[t] = "pending" /\ attr[t].type = "query")
    BY DEF StaleTasks, OverdueTasks, Stale, Overdue
  <2> HIDE DEF X
  <2>3. Candidates(now) \in SUBSET TaskId /\ \A t \in Candidates(now) : status[t] # "absent"
    BY DEF Candidates, ExpiredStatus
  <2>4. PollOf(Candidates(now), now, X, res)
    BY <2>1, <2>2, <2>3 DEF PollOf
  <2> QED BY <2>1, <2>4
<1>2. CASE PollCommit(q)
  <2>1. PICK early \in SUBSET poll[q].unsettled :
          \E res \in Scans(poll[q].cand,
                           [t \in TaskId |-> IF t \in early THEN "running" ELSE status[t]], status) :
            PollWrites(res, status, result, {}) /\ Answer(q, Claims(res))
    BY <1>2 DEF PollCommit
  <2> DEFINE read == [t \in TaskId |-> IF t \in early THEN "running" ELSE status[t]]
  <2>2. PICK res \in Scans(poll[q].cand, read, status) :
          PollWrites(res, status, result, {}) /\ Answer(q, Claims(res))
    BY <2>1
  <2>3. ExpiredStatus({}) = status /\ ExpiredResult({}) = result
    BY NoExpiry
  <2>4. poll[q].cand \in SUBSET TaskId /\ \A t \in poll[q].cand : status[t] # "absent"
    BY DEF TypeOK, OrderOK, ShapeOK
  <2>5. \A t \in TaskId : read[t] = status[t] \/ read[t] = "running"
    OBVIOUS
  <2> HIDE DEF read
  <2>6. PollOf(poll[q].cand, read, {}, res)
    BY <2>2, <2>3, <2>4, <2>5 DEF PollOf
  <2> QED BY <2>2, <2>3, <2>6
<1> QED BY <1>1, <1>2

\* The rows that are stale or overdue.
LEMMA ExpirySets ==
  /\ StaleTasks \in SUBSET TaskId /\ OverdueTasks \in SUBSET TaskId
  /\ \A u \in StaleTasks \cup OverdueTasks :
       status[u] = "running" \/ (status[u] = "pending" /\ attr[u].type = "query")
BY DEF StaleTasks, OverdueTasks, Stale, Overdue

\* An insertion creates one row, of the shape that its caller gave it, and expires.
LEMMA InsertRowStep ==
  ASSUME TypeOK, OrderOK, NEW n \in TaskId, NEW row \in Attr, NEW X \in SUBSET TaskId,
         \A u \in X : status[u] = "running" \/ (status[u] = "pending" /\ attr[u].type = "query"),
         InsertAfterExpiry(n, row, X),
         row.dep # NoTask => row.dep \in Rows /\ attr[row.dep].type # "query",
         row.type = "query" => row.payload = "object" /\ row.dep = NoTask /\ row.plan = NoPlan,
         NEW t \in TaskId
  PROVE  RowStep(t) /\ AttrStep(t)
<1>1. n \notin Rows /\ \A u \in Rows : u < n
  BY SizeAssumption DEF InsertAfterExpiry, IsNext, TaskId
<1>2. status[n] = "absent"
  BY <1>1 DEF Rows
<1>3. /\ ExpiredStatus(X) \in [TaskId -> Status] /\ ExpiredResult(X) \in [TaskId -> Result]
      /\ attr \in [TaskId -> Attr]
  BY ExpiryType DEF TypeOK
<1>4. /\ status' = [ExpiredStatus(X) EXCEPT ![n] = "pending"]
      /\ attr' = [attr EXCEPT ![n] = row] /\ result' = ExpiredResult(X)
  BY DEF InsertAfterExpiry
<1>5. CASE t = n
  <2>1. status'[n] = "pending" /\ result'[n] = result[n] /\ attr'[n] = row
    BY <1>2, <1>3, <1>4, ExpiryMoves
  <2>2. RowShape(n)'
    <3>1. ASSUME row.dep # NoTask
          PROVE  /\ row.dep \in TaskId /\ row.dep < n
                 /\ status'[row.dep] # "absent" /\ attr'[row.dep].type # "query"
      <4>1. row.dep \in Rows /\ row.dep \in TaskId /\ row.dep # n
        BY <1>1, <3>1 DEF Rows
      <4>2. status'[row.dep] = ExpiredStatus(X)[row.dep] /\ attr'[row.dep] = attr[row.dep]
        BY <1>3, <1>4, <4>1
      <4> QED BY <1>1, <3>1, <4>1, <4>2, ExpiryMoves DEF Rows
    <3> QED BY <2>1, <3>1 DEF RowShape
  <2> QED BY <1>2, <1>5, <2>1, <2>2 DEF RowStep, Created, AttrStep
<1>6. CASE t # n
  <2>1. status'[t] = ExpiredStatus(X)[t] /\ result'[t] = ExpiredResult(X)[t] /\ attr'[t] = attr[t]
    BY <1>3, <1>4, <1>6
  <2>2. RowStep(t)
    BY <2>1, ExpiredRow DEF RowStep
  <2>3. status[t] = "absent" => status'[t] = "absent"
    BY <2>1, ExpiryMoves
  <2> QED BY <2>1, <2>2, <2>3 DEF AttrStep
<1> QED BY <1>5, <1>6

\* Requests of the administrator.
LEMMA ControlPlaneRowStep ==
  ASSUME TypeOK, OrderOK, ControlPlane, NEW t \in TaskId
  PROVE  RowStep(t) /\ AttrStep(t)
<1>1. ASSUME NEW n \in TaskId, NEW in \in Input, NEW d \in TaskId \cup {NoTask}, EnqueueTask(n, in, d)
      PROVE  RowStep(t) /\ AttrStep(t)
  <2> DEFINE row == Row(in, d, NoPlan)
  <2>1. row \in Attr
    BY RowType, InputAssumption
  <2>2. /\ row.dep # NoTask => row.dep \in Rows /\ attr[row.dep].type # "query"
        /\ row.type # "query"
    BY <1>1 DEF EnqueueTask, Row
  <2>3. InsertAfterExpiry(n, row, StaleTasks)
    BY <1>1 DEF EnqueueTask
  <2> HIDE DEF row
  <2> QED BY <2>1, <2>2, <2>3, ExpirySets, InsertRowStep
<1>2. ASSUME NEW n \in TaskId, NEW in \in Input, EnqueueQuery(n, in)
      PROVE  RowStep(t) /\ AttrStep(t)
  <2> DEFINE row == Row(in, NoTask, NoPlan)
             X == StaleTasks \cup OverdueTasks
  <2>1. row \in Attr
    BY RowType, InputAssumption
  <2>2. row.dep = NoTask /\ row.plan = NoPlan /\ row.payload = "object"
    BY <1>2 DEF EnqueueQuery, Row
  <2>3. InsertAfterExpiry(n, row, X)
    BY <1>2 DEF EnqueueQuery
  <2>4. X \in SUBSET TaskId
    BY ExpirySets
  <2>5. \A u \in X : status[u] = "running" \/ (status[u] = "pending" /\ attr[u].type = "query")
    BY ExpirySets
  <2> HIDE DEF row, X
  <2> QED BY <2>1, <2>2, <2>3, <2>4, <2>5, InsertRowStep
<1>3. ASSUME NEW n \in TaskId, NEW p \in Plan, ConfirmPlan(n, p)
      PROVE  RowStep(t) /\ AttrStep(t)
  <2>1. PICK in \in Input : in.type = "control" /\ attr' = [attr EXCEPT ![n] = Row(in, NoTask, p)]
    BY <1>3 DEF ConfirmPlan
  <2>2. status[n] = "absent"
    BY <1>3, SizeAssumption DEF ConfirmPlan, IsNext, TaskId, Rows
  <2>3. status' = [status EXCEPT ![n] = "pending"] /\ result' = result
    BY <1>3 DEF ConfirmPlan
  <2>4. t = n => RowShape(t)'
    BY <2>1, <2>3 DEF RowShape, Row, TypeOK
  <2>5. RowStep(t)
    BY <2>2, <2>3 DEF RowStep, Created, Untouched, TypeOK
  <2> QED BY <2>1, <2>2, <2>3, <2>4, <2>5 DEF AttrStep, TypeOK
<1>4. ASSUME NEW n \in TaskId, NEW p \in Plan, ConfirmRenamePlan(n, p)
      PROVE  RowStep(t) /\ AttrStep(t)
  <2> DEFINE plain == [type |-> "control", payload |-> "object", cont |-> FALSE]
             stop == [plain EXCEPT !.type = "wg_stop"]
  <2>1. /\ n + 1 \in TaskId /\ n + 2 \in TaskId /\ n < n + 1 /\ n + 1 < n + 2
        /\ n # n + 1 /\ n # n + 2 /\ n + 1 # n + 2 /\ n \in Nat
    BY <1>4, SizeAssumption DEF ConfirmRenamePlan, TaskId
  <2>2. \A u \in {n, n + 1, n + 2} : u \notin Rows
    BY <1>4, SizeAssumption DEF ConfirmRenamePlan, IsNext, TaskId
  <2>3. \A u \in {n, n + 1, n + 2} : status[u] = "absent" /\ status'[u] = "pending"
    BY <1>4, <2>1, <2>2 DEF Rows, ConfirmRenamePlan
  <2>4. attr' = [attr EXCEPT ![n] = Row(stop, NoTask, p),
                             ![n + 1] = Row(plain, n, p),
                             ![n + 2] = Row(plain, n + 1, p)]
    BY <1>4 DEF ConfirmRenamePlan
  <2>5. /\ attr'[n] = Row(stop, NoTask, p) /\ attr'[n + 1] = Row(plain, n, p)
        /\ attr'[n + 2] = Row(plain, n + 1, p)
        /\ t \notin {n, n + 1, n + 2} => attr'[t] = attr[t]
    BY <2>1, <2>4 DEF TypeOK
  <2>6. result' = result /\ (t \notin {n, n + 1, n + 2} => status'[t] = status[t])
    BY <1>4 DEF ConfirmRenamePlan
  <2>7. RowShape(n)' /\ RowShape(n + 1)' /\ RowShape(n + 2)'
    BY <2>1, <2>3, <2>5 DEF RowShape, Row
  <2>8. RowStep(t)
    BY <2>3, <2>6 DEF RowStep, Created, Untouched
  <2> QED BY <2>3, <2>5, <2>6, <2>7, <2>8 DEF AttrStep
<1>5. ASSUME NEW p \in Plan, CancelDraftPlan(p) PROVE RowStep(t) /\ AttrStep(t)
  BY <1>5 DEF CancelDraftPlan, RowStep, Untouched, AttrStep
<1>6. ASSUME NEW S \in SUBSET TaskId, CancelTasks(S) PROVE RowStep(t) /\ AttrStep(t)
  BY <1>6 DEF CancelTasks, WriteRows, RowStep, Untouched, Withdrawn, AttrStep
<1>7. CASE ReadTaskStatus
  <2>1. /\ status'[t] = ExpiredStatus(StaleTasks)[t] /\ result'[t] = ExpiredResult(StaleTasks)[t]
        /\ attr' = attr
    BY <1>7 DEF ReadTaskStatus, WriteRows
  <2>2. RowStep(t)
    BY <2>1, ExpirySets, ExpiredRow DEF RowStep
  <2>3. status[t] = "absent" => status'[t] = "absent"
    BY <2>1, ExpiryMoves, ExpirySets
  <2> QED BY <2>1, <2>2, <2>3 DEF AttrStep
<1>8. ASSUME NEW u \in TaskId, RefreshRead(u) PROVE RowStep(t) /\ AttrStep(t)
  BY <1>8 DEF RefreshRead, dbVars, RowStep, Untouched, AttrStep
<1>9. ASSUME NEW u \in TaskId, RefreshWrite(u) PROVE RowStep(t) /\ AttrStep(t)
  <2>1. attr[u].type = "query" /\ status[u] # "absent"
    BY <1>9 DEF RefreshWrite, OrderOK, ShapeOK
  <2> QED BY <1>9, <2>1 DEF RefreshWrite, WriteRows, TypeOK, RowStep, Untouched, Overran, AttrStep
<1> QED BY <1>1, <1>2, <1>3, <1>4, <1>5, <1>6, <1>7, <1>8, <1>9 DEF ControlPlane

\* Handling a report.
LEMMA RecordRowStep ==
  ASSUME TypeOK, NEW u \in TaskId, NEW r, RecordResult(u, r), NEW t \in TaskId
  PROVE  RowStep(t) /\ attr' = attr
<1>1. attr' = attr
  BY DEF RecordResult, dbVars
<1>2. RowStep(t)
  BY RecordMoves DEF RowStep, Untouched, Reported, Normalized
<1> QED BY <1>1, <1>2

\* Every step moves every row, its attributes and its work in one of these ways.
LEMMA NextRowStep ==
  ASSUME TypeOK, OrderOK, [Next]_vars, NEW t \in TaskId
  PROVE  RowStep(t) /\ AttrStep(t) /\ WorkStep(t)
<1>1. ASSUME UNCHANGED <<status, attr, result>> PROVE RowStep(t) /\ AttrStep(t)
  BY <1>1 DEF RowStep, Untouched, AttrStep
<1>2. ASSUME UNCHANGED executions, batch' \subseteq batch PROVE WorkStep(t)
  BY <1>2 DEF WorkStep
<1>3. CASE ControlPlane
  <2>1. UNCHANGED <<batch, executions>>
    BY <1>3 DEF ControlPlane, EnqueueTask, EnqueueQuery, ConfirmPlan, ConfirmRenamePlan,
       CancelDraftPlan, CancelTasks, ReadTaskStatus, RefreshRead, RefreshWrite, agentVars, ghostVars
  <2> QED BY <1>2, <1>3, <2>1, ControlPlaneRowStep
<1>4. CASE Tick
  BY <1>1, <1>2, <1>4 DEF Tick, agentVars, ghostVars
<1>5. CASE PollHandling
  <2>1. PICK q \in Request : \/ PollExpireAndClaim(q)
                             \/ PollLoad(q)
                             \/ PollCommit(q)
                             \/ PollFails(q)
    BY <1>5 DEF PollHandling
  <2>2. CASE PollExpireAndClaim(q) \/ PollCommit(q)
    <3>1. PICK cand, read, X, res : /\ PollOf(cand, read, X, res)
                                    /\ PollWrites(res, ExpiredStatus(X), ExpiredResult(X), X)
                                    /\ Answer(q, Claims(res))
      BY <2>2, PollSteps
    <3>2. RowStep(t)
      BY <3>1, PollRowStep
    <3>3. attr' = attr /\ UNCHANGED executions
      BY <2>2, <3>1 DEF PollWrites, PollExpireAndClaim, PollCommit, ghostVars
    <3>4. status[t] = "absent" => status'[t] = "absent"
      <4>1. status[t] = "absent" => t \notin cand /\ ExpiredStatus(X)[t] = "absent"
        BY <3>1, ExpiryMoves DEF PollOf
      <4> QED BY <3>1, <4>1, PollStatus
    <3>5. t \in Claims(res) => status[t] = "pending" /\ status'[t] = "running"
      <4>1. t \in Claims(res) => ExpiredStatus(X)[t] = "pending"
        BY <3>1, ClaimsArePending DEF PollOf
      <4> QED BY <3>1, <4>1, ExpiryMoves, PollStatus
    <3>6. batch' \subseteq batch \/ batch' = Claims(res)
      BY <3>1 DEF Answer, agentVars
    <3> QED BY <3>2, <3>3, <3>4, <3>5, <3>6 DEF AttrStep, WorkStep
  <2>3. CASE PollLoad(q) \/ PollFails(q)
    BY <1>1, <1>2, <2>3 DEF PollLoad, PollFails, dbVars, agentVars, ghostVars
  <2> QED BY <2>1, <2>2, <2>3
<1>6. CASE Agent
  <2>1. ASSUME NEW u \in TaskId, NEW r \in Outcome, Execute(u, r) PROVE WorkStep(t)
    BY <2>1 DEF Execute, IsFirst, WorkStep, TypeOK
  <2>2. UNCHANGED <<status, attr, result>>
    BY <1>6 DEF Agent, BeginCycle, SkipPoll, SendPoll, PollTimeout, Execute, AgentRestart, dbVars
  <2> QED BY <1>1, <1>2, <1>6, <2>1, <2>2
       DEF Agent, BeginCycle, SkipPoll, SendPoll, PollTimeout, AgentRestart, ghostVars
<1>7. CASE Reporting
  <2>1. UNCHANGED <<batch, executions>>
    BY <1>7 DEF Reporting, ReportAnswered, ReportAnswerLost, ReportLost, ReportTimesOut, LateReport,
       agentVars, ghostVars
  <2>2. (\E u \in TaskId : \E r : RecordResult(u, r)) \/ UNCHANGED <<status, attr, result>>
    BY <1>7 DEF Reporting, ReportAnswered, ReportAnswerLost, ReportLost, ReportTimesOut, LateReport, dbVars
  <2>3. ASSUME NEW u \in TaskId, NEW r, RecordResult(u, r) PROVE RowStep(t) /\ AttrStep(t)
    <3>1. RowStep(t) /\ attr' = attr
      BY <2>3, RecordRowStep
    <3>2. status[t] = "absent" => status'[t] = "absent"
      BY <2>3, RecordMoves
    <3> QED BY <3>1, <3>2 DEF AttrStep
  <2> QED BY <1>1, <1>2, <2>1, <2>2, <2>3
<1>8. CASE UNCHANGED vars
  BY <1>1, <1>2, <1>8 DEF vars, dbVars, agentVars, ghostVars
<1> QED BY <1>3, <1>4, <1>5, <1>6, <1>7, <1>8 DEF Next

-----------------------------------------------------------------------------
(* The invariant is inductive.                                             *)

\* A row stays, with its columns.
LEMMA RowStays ==
  ASSUME NEW t \in TaskId, RowStep(t), AttrStep(t), status[t] # "absent"
  PROVE  attr'[t] = attr[t] /\ status'[t] # "absent"
BY DEF RowStep, Untouched, Created, TimedOut, Overran, Withdrawn, HandedOut, Refused, Reported, AttrStep

\* What the dependency walk says about a task, it says for good: later rows are
\* on no walk that starts at an earlier one.
LEMMA VerdictKept ==
  ASSUME TypeOK, OrderOK, \A u \in TaskId : RowStep(u) /\ AttrStep(u),
         NEW t \in TaskId, status[t] # "absent"
  PROVE  Verdict(t)' = Verdict(t)
<1>1. t \in Rows /\ MaxDepth \in Nat
  BY SizeAssumption DEF Rows
<1>2. \A u \in Rows : Dep[u] \in Rows \cup {NoTask}
  BY DEF Rows, Dep, OrderOK, ShapeOK, RowShape
<1>3. Rows \subseteq Rows' /\ \A u \in Rows : Dep'[u] = Dep[u]
  BY RowStays DEF Rows, Dep
<1>4. NoTask \notin Rows'
  BY SizeAssumption DEF Rows, TaskId, NoTask
<1>5. ChainVerdict(t, Dep', [u \in TaskId |-> 0], Rows', MaxDepth) =
        ChainVerdict(t, Dep, [u \in TaskId |-> 0], Rows, MaxDepth)
  BY <1>1, <1>2, <1>3, <1>4, VerdictStable
<1> QED BY <1>5 DEF Verdict

\* A control task that has ended stays ended, and a success stays one.
LEMMA EndedStays ==
  ASSUME OrderOK, NEW t \in TaskId, RowStep(t), attr[t].type # "query"
  PROVE  /\ status[t] = "succeeded" => status'[t] = "succeeded"
         /\ status[t] \in {"failed", "cancelled"} => status'[t] \in {"failed", "cancelled"}
<1>1. status[t] = "succeeded" => Handed(t)
  BY DEF OrderOK, RecordShape, Handed, Delivered
<1> QED BY <1>1 DEF RowStep, Untouched, Created, TimedOut, Overran, Withdrawn, HandedOut, Refused,
           Reported

\* What was ready, or doomed, remains so.
LEMMA ReadyKept ==
  ASSUME TypeOK, OrderOK, \A u \in TaskId : RowStep(u) /\ AttrStep(u),
         NEW t \in TaskId, status[t] # "absent"
  PROVE  /\ Ready(t, status) => Ready(t, status)'
         /\ Doomed(t, status) => Doomed(t, status)'
         /\ Ready(t, status') => Ready(t, status)'
         /\ Doomed(t, status') => Doomed(t, status)'
<1>1. Verdict(t)' = Verdict(t) /\ attr'[t] = attr[t]
  BY VerdictKept, RowStays
<1>2. ContinuesAfterFailure(t)' <=> ContinuesAfterFailure(t)
  BY <1>1 DEF ContinuesAfterFailure
<1> DEFINE d == attr[t].dep
<1>3. ASSUME d # NoTask
      PROVE  /\ status[d] = "succeeded" => status'[d] = "succeeded"
             /\ status[d] \in {"failed", "cancelled"} => status'[d] \in {"failed", "cancelled"}
  BY <1>3, EndedStays DEF OrderOK, ShapeOK, RowShape
<1>4. Verdict(t) = "none" <=> d = NoTask
  BY ReadinessMeans
<1>5. Ready(t, status) => Ready(t, status)'
  BY <1>1, <1>2, <1>3 DEF Ready, DepDone
<1>6. Doomed(t, status) => Doomed(t, status)'
  BY <1>1, <1>2, <1>3, <1>4 DEF Doomed, DepFailed
<1>7. Ready(t, status') => Ready(t, status)'
  BY <1>1, <1>2 DEF Ready, DepDone
<1>8. Doomed(t, status') => Doomed(t, status)'
  BY <1>1, <1>2 DEF Doomed, DepFailed
<1> QED BY <1>5, <1>6, <1>7, <1>8

\* Nothing is handed out without a row.
LEMMA HandedIsRow ==
  ASSUME OrderOK, NEW t \in TaskId, Handed(t)
  PROVE  status[t] # "absent"
BY DEF OrderOK, ShapeOK, RowShape, RecordShape, HandedShape, Handed, Delivered

\* Rows keep their shape.
LEMMA ShapeStep ==
  ASSUME TypeOK, OrderOK, \A u \in TaskId : RowStep(u) /\ AttrStep(u), NEW t \in TaskId
  PROVE  RowShape(t)'
<1>1. CASE status[t] = "absent" /\ status'[t] = "pending" /\ RowShape(t)'
  BY <1>1
<1>2. CASE attr'[t] = attr[t] /\ (status[t] = "absent" => status'[t] = "absent")
  <2>1. RowShape(t)
    BY DEF OrderOK, ShapeOK
  <2>2. status[t] # "absent" => status'[t] # "absent"
    BY RowStays
  <2>3. ASSUME attr[t].dep # NoTask
        PROVE  attr'[attr[t].dep] = attr[attr[t].dep] /\ status'[attr[t].dep] # "absent"
    BY <2>1, <2>3, RowStays DEF RowShape
  <2> QED BY <1>2, <2>1, <2>2, <2>3 DEF RowShape
<1> QED BY <1>1, <1>2 DEF AttrStep

\* The result column keeps agreeing with the status column.
LEMMA RecordStep ==
  ASSUME TypeOK, OrderOK, NEW t \in TaskId, RowStep(t), AttrStep(t)
  PROVE  RecordShape(t)'
<1>1. RecordShape(t) /\ RowShape(t)
  BY DEF OrderOK, ShapeOK
<1>2. CASE status[t] = "absent"
  BY <1>1, <1>2 DEF RowStep, Untouched, Created, TimedOut, Overran, Withdrawn, HandedOut, Refused,
     Reported, RecordShape
<1>3. CASE status[t] # "absent"
  <2>1. attr'[t] = attr[t]
    BY <1>3, RowStays
  <2> QED BY <1>1, <1>3, <2>1 DEF RowStep, Untouched, Created, TimedOut, Overran, Withdrawn, HandedOut,
           Refused, Reported, RecordShape
<1> QED BY <1>2, <1>3

\* What is handed out stays so, and was ready.
LEMMA HandedStep ==
  ASSUME TypeOK, OrderOK, \A u \in TaskId : RowStep(u) /\ AttrStep(u), NEW t \in TaskId, WorkStep(t)
  PROVE  HandedShape(t)'
<1>1. RecordShape(t) /\ HandedShape(t)
  BY DEF OrderOK
<1>2. ASSUME Handed(t)'
      PROVE  Handed(t) \/ HandedOut(t)
  <2>1. status'[t] = "running" => Handed(t) \/ HandedOut(t)
    BY DEF RowStep, Untouched, Created, TimedOut, Overran, Withdrawn, HandedOut, Refused, Reported, Handed
  <2>2. result'[t] \in Delivered => Handed(t) \/ HandedOut(t)
    BY <1>1 DEF RowStep, Untouched, Created, TimedOut, Overran, Withdrawn, HandedOut, Refused, Reported,
       Handed, Delivered, RecordShape
  <2>3. t \in batch' \/ executions'[t] > 0 => Handed(t) \/ HandedOut(t)
    BY <2>1 DEF WorkStep, Handed
  <2> QED BY <1>2, <2>1, <2>2, <2>3 DEF Handed, Delivered
<1>3. ASSUME Handed(t) \/ HandedOut(t)
      PROVE  status[t] # "absent" /\ attr'[t] = attr[t]
  BY <1>3, HandedIsRow, RowStays DEF HandedOut
<1>4. Handed(t)' => (attr[t].payload = "object" /\ Ready(t, status))'
  <2>1. Handed(t) => attr[t].payload = "object" /\ Ready(t, status)
    BY <1>1 DEF HandedShape
  <2>2. HandedOut(t) => attr[t].payload = "object" /\ Ready(t, status')
    BY DEF HandedOut
  <2> QED BY <1>2, <1>3, <2>1, <2>2, ReadyKept
<1>5. ASSUME t \in batch' \/ executions'[t] > 0, attr'[t].type # "query"
      PROVE  status'[t] = "running" \/ result'[t] \in Delivered
  <2>1. CASE status[t] = "pending" /\ status'[t] = "running"
    BY <2>1
  <2>2. CASE t \in batch \/ executions[t] > 0
    <3>1. Handed(t)
      BY <2>2 DEF Handed
    <3>2. attr[t].type # "query"
      BY <1>3, <1>5, <3>1
    <3>3. status[t] = "running" \/ result[t] \in Delivered
      BY <1>1, <2>2, <3>2 DEF HandedShape
    <3> QED BY <1>1, <3>1, <3>2, <3>3 DEF RowStep, Untouched, Created, TimedOut, Overran, Withdrawn,
             HandedOut, Refused, Reported, RecordShape, Delivered
  <2> QED BY <1>5, <2>1, <2>2 DEF WorkStep
<1> QED BY <1>4, <1>5 DEF HandedShape, Delivered

\* The reasons a poll gave remain true.
LEMMA RejectedStep ==
  ASSUME TypeOK, OrderOK, \A u \in TaskId : RowStep(u) /\ AttrStep(u), NEW t \in TaskId
  PROVE  RejectedShape(t)'
<1>1. RecordShape(t) /\ RejectedShape(t) /\ RowStep(t)
  BY DEF OrderOK
<1>2. SUFFICES ASSUME result'[t] \in {"payload", "dependency"}
               PROVE  RejectedShape(t)'
  BY DEF RejectedShape
<1>3. status[t] # "absent" /\ (Untouched(t) \/ Refused(t))
  BY <1>1, <1>2 DEF RowStep, Untouched, Created, TimedOut, Overran, Withdrawn, HandedOut, Refused, Reported,
     RecordShape
<1>4. attr'[t] = attr[t]
  BY <1>3, RowStays
<1>5. CASE Untouched(t)
  BY <1>1, <1>3, <1>4, <1>5, ReadyKept DEF Untouched, RejectedShape
<1>6. CASE Refused(t)
  BY <1>3, <1>4, <1>6, ReadyKept DEF Refused, RejectedShape
<1> QED BY <1>3, <1>5, <1>6

\* The empty queue has the shape.
LEMMA OrderOKInit == Init => OrderOK
<1> SUFFICES ASSUME Init PROVE OrderOK
  OBVIOUS
<1>1. ShapeOK
  BY DEF Init, ShapeOK, RowShape, FreeRequest
<1>2. \A t \in TaskId : RecordShape(t) /\ ~ Handed(t) /\ RejectedShape(t)
  BY DEF Init, RecordShape, Handed, Delivered, RejectedShape
<1> QED BY <1>1, <1>2 DEF OrderOK, HandedShape, Handed

\* Overdue queries that a reader found, and the rows that a poll loaded, are rows.
LEMMA SessionsStep ==
  ASSUME TypeOK, OrderOK, [Next]_vars, \A u \in TaskId : RowStep(u) /\ AttrStep(u)
  PROVE  /\ \A t \in refreshing' : attr'[t].type = "query" /\ status'[t] # "absent"
         /\ \A q \in Request : \A t \in poll'[q].cand : status'[t] # "absent"
<1>1. refreshing' \subseteq refreshing \/ \E t \in TaskId : Overdue(t) /\ refreshing' = refreshing \cup {t}
  BY DEF Next, ControlPlane, EnqueueTask, EnqueueQuery, ConfirmPlan, ConfirmRenamePlan,
       CancelDraftPlan, CancelTasks, ReadTaskStatus, RefreshRead, RefreshWrite, Tick,
       PollHandling, PollExpireAndClaim, PollLoad, PollCommit, PollFails,
       Agent, BeginCycle, SkipPoll, SendPoll, PollTimeout, Execute, AgentRestart,
       Reporting, ReportAnswered, ReportAnswerLost, ReportLost, ReportTimesOut, LateReport, vars
<1>2. ASSUME NEW t \in refreshing' PROVE attr'[t].type = "query" /\ status'[t] # "absent"
  <2>1. t \in TaskId /\ attr[t].type = "query" /\ status[t] # "absent"
    BY <1>1, <1>2 DEF OrderOK, ShapeOK, Overdue, TypeOK
  <2> QED BY <2>1, RowStays
<1>3. ASSUME NEW q \in Request
      PROVE  poll'[q].cand \subseteq poll[q].cand \/ poll'[q].cand = Candidates(status)
  <2>1. CASE UNCHANGED poll
    BY <2>1
  <2>2. ASSUME NEW p \in Request, Release(p)
        PROVE  poll'[q].cand \subseteq poll[q].cand
    BY <2>2 DEF Release, FreeRequest, TypeOK
  <2>3. ASSUME NEW p \in Request, SendPoll(p) PROVE poll'[q].cand = poll[q].cand
    BY <2>3 DEF SendPoll, TypeOK
  <2>4. ASSUME NEW p \in Request, PollLoad(p)
        PROVE  poll'[q].cand = poll[q].cand \/ poll'[q].cand = Candidates(status)
    BY <2>4 DEF PollLoad, TypeOK
  <2>5. \/ UNCHANGED poll
        \/ \E p \in Request : Release(p) \/ SendPoll(p) \/ PollLoad(p)
    BY DEF Next, ControlPlane, EnqueueTask, EnqueueQuery, ConfirmPlan, ConfirmRenamePlan,
       CancelDraftPlan, CancelTasks, ReadTaskStatus, RefreshRead, RefreshWrite, Tick,
       PollHandling, PollExpireAndClaim, PollCommit, PollFails,
       Agent, BeginCycle, SkipPoll, PollTimeout, Execute, AgentRestart,
       Reporting, ReportAnswered, ReportAnswerLost, ReportLost, ReportTimesOut, LateReport, vars
  <2> QED BY <2>1, <2>2, <2>3, <2>4, <2>5
<1>4. ASSUME NEW q \in Request, NEW t \in poll'[q].cand PROVE status'[t] # "absent"
  <2>1. t \in TaskId /\ status[t] # "absent"
    BY <1>3, <1>4 DEF OrderOK, ShapeOK, Candidates, TypeOK
  <2> QED BY <2>1, RowStays
<1> QED BY <1>2, <1>4

\* Every step keeps the order.
LEMMA OrderOKStep == TypeOK /\ OrderOK /\ [Next]_vars => OrderOK'
<1> SUFFICES ASSUME TypeOK, OrderOK, [Next]_vars PROVE OrderOK'
  OBVIOUS
<1>1. \A t \in TaskId : RowStep(t) /\ AttrStep(t) /\ WorkStep(t)
  BY NextRowStep
<1>2. \A t \in TaskId : RowShape(t)'
  BY <1>1, ShapeStep
<1>3. ShapeOK'
  BY <1>1, <1>2, SessionsStep DEF ShapeOK
<1>4. \A t \in TaskId : RecordShape(t)' /\ HandedShape(t)' /\ RejectedShape(t)'
  BY <1>1, RecordStep, HandedStep, RejectedStep
<1> QED BY <1>3, <1>4 DEF OrderOK

\* The invariants together, for the theorems below.
QueueInv == TypeOK /\ SendingOK /\ OnceOK /\ HonestOK /\ OrderOK

\* They hold in every state.
LEMMA QueueInvariant == Spec => []QueueInv
<1>1. Init => QueueInv
  BY InitType, SendingOKInit, OnceOKInit, HonestOKInit, OrderOKInit DEF QueueInv
<1>2. QueueInv /\ [Next]_vars => QueueInv'
  BY TypeStep, SendingOKStep, OnceOKStep, HonestOKStep, OrderOKStep DEF QueueInv
<1> QED BY <1>1, <1>2, PTL DEF Spec

-----------------------------------------------------------------------------
(* What follows for single tasks.                                          *)

(***************************************************************************)
(* The controller withdraws only work that nobody has: a task it cancelled, *)
(* or rejected for its dependency or payload, was never carried out and is  *)
(* not in the agent's hands, although the poll that rejects a row judges it *)
(* by a session older than other commits and does not guard the write.      *)
(* HandedNotRejected is the reason: the dependency of a task that was       *)
(* handed out has succeeded and stays so, and the first task of a loop that *)
(* would break the rule has no earlier one to blame.                        *)
(***************************************************************************)
THEOREM WithdrawnIsNeverExecuted == Spec => []WithdrawnNeverExecuted
<1>1. QueueInv => WithdrawnNeverExecuted
  <2> SUFFICES ASSUME QueueInv, NEW t \in TaskId,
                      result[t] \in {"cancelled", "dependency", "payload"}
               PROVE  executions[t] = 0 /\ t \notin batch
    BY DEF WithdrawnNeverExecuted
  <2>1. RecordShape(t) /\ HandedShape(t) /\ status[t] \in Status /\ executions[t] \in 0..2
    BY DEF QueueInv, OrderOK, TypeOK
  <2>2. attr[t].type # "query" /\ status[t] # "running"
    BY <2>1 DEF RecordShape
  <2>3. ~ (t \in batch \/ executions[t] > 0)
    BY <2>1, <2>2 DEF HandedShape, Delivered
  <2> QED BY <2>1, <2>3
<1> QED BY <1>1, QueueInvariant, PTL

(***************************************************************************)
(* The order the controller asked for is the order on the node, for chains  *)
(* of any depth and polls that overlap in any way: a dependent task reaches *)
(* the agent only when its dependency has ended as it must, and that stays  *)
(* true afterwards.                                                         *)
(***************************************************************************)
THEOREM DependenciesComeFirst == Spec => []DependencyFirst
<1>1. QueueInv => DependencyFirst
  <2> SUFFICES ASSUME QueueInv, NEW t \in TaskId, t \in batch \/ executions[t] > 0,
                      attr[t].dep # NoTask
               PROVE  \/ status[attr[t].dep] = "succeeded"
                      \/ /\ ContinuesAfterFailure(t)
                         /\ status[attr[t].dep] \in {"failed", "cancelled"}
    BY DEF DependencyFirst
  <2>1. HandedShape(t) /\ Handed(t)
    BY DEF QueueInv, OrderOK, Handed
  <2> QED BY <2>1 DEF HandedShape, Ready, DepDone
<1> QED BY <1>1, QueueInvariant, PTL

(***************************************************************************)
(* The end of a control task is final: late and repeated reports, expiries, *)
(* cancellations and overlapping polls leave it alone.  What remains is the *)
(* cancelled row that a poll with a stale session closes once more.  That a *)
(* second poll cannot give a failed row another reason either is            *)
(* SameReason.                                                              *)
(***************************************************************************)
THEOREM EndsAreFinal == Spec => ResultsAreFinal
<1>1. QueueInv /\ [Next]_vars =>
        [\A t \in TaskId :
           status[t] \in Settled /\ attr[t].type # "query" =>
             \/ status'[t] = status[t] /\ result'[t] = result[t]
             \/ status[t] = "cancelled" /\ status'[t] = "failed"]_vars
  <2> SUFFICES ASSUME QueueInv, [Next]_vars, NEW t \in TaskId, status[t] \in Settled,
                      attr[t].type # "query"
               PROVE  \/ status'[t] = status[t] /\ result'[t] = result[t]
                      \/ status[t] = "cancelled" /\ status'[t] = "failed"
    OBVIOUS
  <2>1. RowStep(t) /\ RecordShape(t)
    BY NextRowStep DEF QueueInv, OrderOK
  <2>2. status[t] = "succeeded" => Handed(t)
    BY <2>1 DEF RecordShape, Handed, Delivered
  <2> QED BY <2>1, <2>2 DEF RowStep, Untouched, Created, TimedOut, Overran, Withdrawn, HandedOut,
           Refused, Reported, Settled
<1> QED BY <1>1, QueueInvariant, PTL DEF Spec, ResultsAreFinal

-----------------------------------------------------------------------------
(* The work of the agent.                                                  *)

\* No dependency is in the batch when its dependent is there or done, and what
\* was not executed has no outcome.
WorkOK ==
  \A t \in TaskId :
    /\ (t \in batch \/ executions[t] > 0) /\ attr[t].dep # NoTask => attr[t].dep \notin batch
    /\ executions[t] = 0 => outcome[t] = "none"

\* A new batch is what one poll has just claimed.
LEMMA BatchStep ==
  ASSUME TypeOK, OrderOK, [Next]_vars
  PROVE  batch' \subseteq batch \/ \A t \in batch' : t \in TaskId /\ status'[t] = "running"
<1>1. CASE PollHandling
  <2>1. PICK q \in Request : \/ PollExpireAndClaim(q)
                             \/ PollLoad(q)
                             \/ PollCommit(q)
                             \/ PollFails(q)
    BY <1>1 DEF PollHandling
  <2>2. CASE PollExpireAndClaim(q) \/ PollCommit(q)
    <3>1. PICK cand, read, X, res : /\ PollOf(cand, read, X, res)
                                    /\ PollWrites(res, ExpiredStatus(X), ExpiredResult(X), X)
                                    /\ Answer(q, Claims(res))
      BY <2>2, PollSteps
    <3>2. \A t \in Claims(res) : t \in TaskId
      BY <3>1, ClaimsAreCandidates DEF PollOf
    <3>3. \A t \in Claims(res) : status'[t] = "running"
      BY <3>1, <3>2, PollStatus
    <3> QED BY <3>1, <3>2, <3>3 DEF Answer, agentVars
  <2> QED BY <2>1, <2>2 DEF PollLoad, PollFails, agentVars
<1>2. CASE ~ PollHandling
  BY <1>2 DEF Next, ControlPlane, EnqueueTask, EnqueueQuery, ConfirmPlan, ConfirmRenamePlan,
       CancelDraftPlan, CancelTasks, ReadTaskStatus, RefreshRead, RefreshWrite, Tick,
       Agent, BeginCycle, SkipPoll, SendPoll, PollTimeout, Execute, AgentRestart,
       Reporting, ReportAnswered, ReportAnswerLost, ReportLost, ReportTimesOut, LateReport, vars, agentVars
<1> QED BY <1>1, <1>2

\* Work is done one task of the batch at a time, and the controller's tables do not
\* move in that step.
LEMMA ExecuteStep ==
  ASSUME TypeOK, OnceOK, [Next]_vars
  PROVE  \/ UNCHANGED <<executions, outcome>>
         \/ /\ UNCHANGED <<status, attr, result>> /\ batch' \subseteq batch
            /\ \E u \in batch : /\ u \in TaskId /\ executions[u] = 0
                                /\ executions' = [executions EXCEPT ![u] = 1]
                                /\ \E o \in {"succeeded", "failed"} :
                                     outcome' = [outcome EXCEPT ![u] = o]
<1>1. ASSUME NEW u \in TaskId, NEW r \in Outcome, Execute(u, r)
      PROVE  /\ UNCHANGED <<status, attr, result>> /\ batch' \subseteq batch
             /\ u \in batch /\ executions[u] = 0
             /\ executions' = [executions EXCEPT ![u] = 1]
             /\ \E o \in {"succeeded", "failed"} : outcome' = [outcome EXCEPT ![u] = o]
  <2>1. u \in batch /\ executions[u] = 0
    BY <1>1 DEF Execute, IsFirst, OnceOK
  <2>2. executions' = [executions EXCEPT ![u] = 1]
    BY <1>1, <2>1 DEF Execute, TypeOK
  <2> QED BY <1>1, <2>1, <2>2 DEF Execute, dbVars
<1>2. \/ UNCHANGED <<executions, outcome>>
      \/ \E u \in TaskId, r \in Outcome : Execute(u, r)
  BY DEF Next, ControlPlane, EnqueueTask, EnqueueQuery, ConfirmPlan, ConfirmRenamePlan,
       CancelDraftPlan, CancelTasks, ReadTaskStatus, RefreshRead, RefreshWrite, Tick,
       PollHandling, PollExpireAndClaim, PollLoad, PollCommit, PollFails,
       Agent, BeginCycle, SkipPoll, SendPoll, PollTimeout, AgentRestart,
       Reporting, ReportAnswered, ReportAnswerLost, ReportLost, ReportTimesOut, LateReport, vars, ghostVars
<1> QED BY <1>1, <1>2

\* Every step keeps WorkOK: a new batch holds running rows only, and the dependency
\* of a task that was handed out has ended.
LEMMA WorkOKStep == QueueInv /\ QueueInv' /\ WorkOK /\ [Next]_vars => WorkOK'
<1> SUFFICES ASSUME QueueInv, QueueInv', WorkOK, [Next]_vars, NEW t \in TaskId
             PROVE  /\ (t \in batch' \/ executions'[t] > 0) /\ attr'[t].dep # NoTask =>
                         attr'[t].dep \notin batch'
                    /\ executions'[t] = 0 => outcome'[t] = "none"
  BY DEF WorkOK
<1> USE DEF QueueInv
<1>1. executions'[t] = 0 => outcome'[t] = "none"
  BY ExecuteStep DEF WorkOK, TypeOK
<1>2. ASSUME t \in batch' \/ executions'[t] > 0, attr'[t].dep # NoTask, attr'[t].dep \in batch'
      PROVE  FALSE
  <2>1. (HandedShape(t) /\ Handed(t))'
    BY <1>2 DEF OrderOK, Handed
  <2>2. status'[attr'[t].dep] \in {"succeeded", "failed", "cancelled"}
    BY <1>2, <2>1 DEF HandedShape, Ready, DepDone
  <2>3. batch' \subseteq batch
    BY <1>2, <2>2, BatchStep
  <2>4. t \in batch \/ executions[t] > 0
    BY <1>2, <2>3, NextRowStep DEF WorkStep
  <2>5. attr'[t] = attr[t]
    BY <2>4, HandedIsRow, NextRowStep, RowStays DEF Handed
  <2> QED BY <1>2, <2>3, <2>4, <2>5 DEF WorkOK
<1> QED BY <1>1, <1>2

\* Both together, in every state.
LEMMA WorkInvariant == Spec => [](QueueInv /\ WorkOK)
<1>1. Init => WorkOK
  BY DEF Init, WorkOK
<1> QED BY <1>1, WorkOKStep, QueueInvariant, PTL DEF Spec

(***************************************************************************)
(* A dependency is never carried out after its dependent, even when the     *)
(* controller had given it up at the running timeout while it still lay in  *)
(* the agent's batch: the next batch replaces what is left of the old one.  *)
(***************************************************************************)
THEOREM DependenciesAreNotLate == Spec => NoLateDependency
<1>1. QueueInv /\ WorkOK /\ [Next]_vars =>
        [\A t \in TaskId : executions[t] > 0 /\ attr[t].dep # NoTask =>
                             executions'[attr[t].dep] = executions[attr[t].dep]]_vars
  <2> SUFFICES ASSUME QueueInv, WorkOK, [Next]_vars, NEW t \in TaskId, executions[t] > 0,
                      attr[t].dep # NoTask
               PROVE  executions'[attr[t].dep] = executions[attr[t].dep]
    OBVIOUS
  <2>1. attr[t].dep \notin batch
    BY DEF WorkOK
  <2>2. attr[t].dep \in TaskId
    BY DEF QueueInv, OrderOK, ShapeOK, RowShape
  <2> QED BY <2>1, <2>2, ExecuteStep DEF QueueInv, TypeOK
<1> QED BY <1>1, WorkInvariant, PTL DEF Spec, NoLateDependency

-----------------------------------------------------------------------------
(* Change plans.                                                           *)

TasksOf(p) == {t \in Rows : attr[t].plan = p}

\* A plan has tasks once it is confirmed, and then shows what they are.
PlanOK ==
  \A p \in Plan :
    IF planStatus[p] \in {"draft", "cancelled"}
    THEN TasksOf(p) = {}
    ELSE /\ TasksOf(p) # {}
         /\ planStatus[p] = "failed" <=>
              \E t \in TasksOf(p) : status[t] \in {"failed", "cancelled"}
         /\ planStatus[p] = "succeeded" <=> \A t \in TasksOf(p) : status[t] = "succeeded"

\* A transaction that creates no task of a plan aggregates the plan of every task
\* that it ends.
Aggregated ==
  /\ \A t \in TaskId : status[t] = "absent" => status'[t] = "absent" \/ attr'[t].plan = NoPlan
  /\ \E S \in SUBSET TaskId :
       /\ planStatus' = PlansAfter(S, status')
       /\ \A t \in TaskId \ S : attr[t].plan \in Plan =>
            \/ status'[t] = status[t]
            \/ status[t] \in {"pending", "running"} /\ status'[t] \in {"pending", "running"}

\* Such a transaction keeps the plans right.
LEMMA AggregatedKeeps ==
  ASSUME TypeOK, OrderOK, PlanOK, \A t \in TaskId : RowStep(t) /\ AttrStep(t), Aggregated
  PROVE  PlanOK'
<1>1. PICK S \in SUBSET TaskId :
        /\ planStatus' = PlansAfter(S, status')
        /\ \A t \in TaskId \ S : attr[t].plan \in Plan =>
            \/ status'[t] = status[t]
            \/ status[t] \in {"pending", "running"} /\ status'[t] \in {"pending", "running"}
  BY DEF Aggregated
<1> SUFFICES ASSUME NEW p \in Plan
             PROVE  IF planStatus'[p] \in {"draft", "cancelled"}
                    THEN TasksOf(p)' = {}
                    ELSE /\ TasksOf(p)' # {}
                         /\ planStatus'[p] = "failed" <=>
                              \E t \in TasksOf(p)' : status'[t] \in {"failed", "cancelled"}
                         /\ planStatus'[p] = "succeeded" <=>
                              \A t \in TasksOf(p)' : status'[t] = "succeeded"
  BY DEF PlanOK
<1>2. TasksOf(p)' = TasksOf(p)
  <2>1. ASSUME NEW t \in TaskId PROVE t \in TasksOf(p)' <=> t \in TasksOf(p)
    <3>1. CASE status[t] # "absent"
      BY <3>1, RowStays DEF TasksOf, Rows
    <3>2. CASE status[t] = "absent"
      BY <3>2, DistinctAssumption DEF Aggregated, TasksOf, Rows
    <3> QED BY <3>1, <3>2
  <2> QED BY <2>1 DEF TasksOf, Rows
<1>3. \A t \in TasksOf(p) : t \in TaskId /\ attr[t].plan = p /\ attr[t].type # "query"
  BY DistinctAssumption DEF TasksOf, Rows, OrderOK, ShapeOK, RowShape
<1>4. \A t \in TasksOf(p) : status[t] \in {"failed", "cancelled"} => status'[t] \in {"failed", "cancelled"}
  BY <1>3, EndedStays
<1>5. CASE p \notin {attr[t].plan : t \in S}
  <2>1. planStatus'[p] = planStatus[p]
    BY <1>1, <1>5 DEF PlansAfter
  <2>2. \A t \in TasksOf(p) :
          \/ status'[t] = status[t]
          \/ status[t] \in {"pending", "running"} /\ status'[t] \in {"pending", "running"}
    BY <1>1, <1>3, <1>5
  <2> QED BY <1>2, <2>1, <2>2 DEF PlanOK
<1>6. CASE p \in {attr[t].plan : t \in S}
  <2>1. TasksOf(p) # {}
    <3>1. PICK t \in S : attr[t].plan = p
      BY <1>6
    <3>2. status[t] # "absent"
      BY <3>1, DistinctAssumption DEF OrderOK, ShapeOK, RowShape
    <3> QED BY <3>1, <3>2 DEF TasksOf, Rows
  <2>2. planStatus'[p] = IF \E t \in TasksOf(p) : status'[t] \in {"failed", "cancelled"} THEN "failed"
                         ELSE IF \A t \in TasksOf(p) : status'[t] = "succeeded" THEN "succeeded"
                         ELSE IF planStatus[p] # "failed" THEN "confirmed" ELSE "failed"
    BY <1>1, <1>6, <2>1 DEF PlansAfter, TasksOf
  <2>3. planStatus[p] = "failed" => \E t \in TasksOf(p) : status'[t] \in {"failed", "cancelled"}
    BY <1>4 DEF PlanOK
  <2> QED BY <1>2, <2>1, <2>2, <2>3
<1> QED BY <1>5, <1>6

\* Nothing about rows and plans changes.
LEMMA PlanOKKept ==
  ASSUME PlanOK, UNCHANGED <<status, attr, planStatus>>
  PROVE  PlanOK'
BY DEF PlanOK, TasksOf, Rows

\* Insertions, expiries, cancellations, polls and reports aggregate.
LEMMA InsertAggregates ==
  ASSUME TypeOK, OrderOK, NEW n \in TaskId, NEW row, row.plan = NoPlan, NEW X \in SUBSET TaskId,
         \A u \in X : status[u] # "absent", InsertAfterExpiry(n, row, X)
  PROVE  Aggregated
<1>1. n \notin Rows
  BY SizeAssumption DEF InsertAfterExpiry, IsNext, TaskId
<1>2. ExpiredStatus(X) \in [TaskId -> Status]
  BY ExpiryType
<1>3. /\ status' = [ExpiredStatus(X) EXCEPT ![n] = "pending"]
      /\ attr' = [attr EXCEPT ![n] = row]
      /\ planStatus' = PlansAfter(X, ExpiredStatus(X))
  BY DEF InsertAfterExpiry
<1>4. \A t \in TaskId \ {n} : status'[t] = ExpiredStatus(X)[t] /\ attr'[t] = attr[t]
  BY <1>2, <1>3 DEF TypeOK
<1>5. PlansAfter(X, status') = PlansAfter(X, ExpiredStatus(X))
  <2>1. \A t \in Rows : status'[t] = ExpiredStatus(X)[t]
    BY <1>1, <1>4 DEF Rows
  <2> QED BY <2>1 DEF PlansAfter
<1>6. status[n] = "absent" /\ attr'[n].plan = NoPlan
  BY <1>1, <1>3 DEF Rows, TypeOK
<1>7. \A t \in TaskId : status[t] = "absent" => status'[t] = "absent" \/ attr'[t].plan = NoPlan
  BY <1>4, <1>6, ExpiryMoves
<1>8. \A t \in TaskId \ X : attr[t].plan \in Plan => status'[t] = status[t]
  <2>1. attr[n].plan = NoPlan
    BY <1>6 DEF OrderOK, ShapeOK, RowShape
  <2> QED BY <1>4, <2>1, ExpiryMoves, DistinctAssumption
<1> QED BY <1>3, <1>5, <1>7, <1>8 DEF Aggregated

\* A plan is confirmed together with its first tasks.
LEMMA ConfirmKeeps ==
  ASSUME TypeOK, OrderOK, PlanOK, NEW p \in Plan, planStatus[p] = "draft",
         planStatus' = [planStatus EXCEPT ![p] = "confirmed"],
         NEW New \in SUBSET TaskId, New # {},
         \A t \in New : status[t] = "absent" /\ status'[t] = "pending" /\ attr'[t].plan = p,
         \A t \in TaskId \ New : status'[t] = status[t] /\ attr'[t] = attr[t]
  PROVE  PlanOK'
<1>1. TasksOf(p) = {}
  BY DEF PlanOK
<1>2. TasksOf(p)' = New
  BY <1>1 DEF TasksOf, Rows
<1>3. planStatus'[p] = "confirmed"
  BY DEF TypeOK
<1>4. \A t \in New : attr[t].plan = NoPlan
  BY DEF OrderOK, ShapeOK, RowShape
<1>5. ASSUME NEW r \in Plan, r # p
      PROVE  /\ planStatus'[r] = planStatus[r] /\ TasksOf(r)' = TasksOf(r)
             /\ \A t \in TasksOf(r) : status'[t] = status[t]
  BY <1>4, <1>5, DistinctAssumption DEF TypeOK, TasksOf, Rows
<1> QED BY <1>2, <1>3, <1>5 DEF PlanOK

\* Every step keeps the plans right.
LEMMA PlanOKStep == QueueInv /\ PlanOK /\ [Next]_vars => PlanOK'
<1> SUFFICES ASSUME QueueInv, PlanOK, [Next]_vars PROVE PlanOK'
  OBVIOUS
<1> USE DEF QueueInv
<1>1. ASSUME Aggregated PROVE PlanOK'
  BY <1>1, AggregatedKeeps, NextRowStep
<1>2. ASSUME NEW after, NEW results, NEW S \in SUBSET TaskId, WriteRows(after, results, S), attr' = attr,
             \A t \in TaskId : status[t] = "absent" => status'[t] = "absent",
             \A t \in TaskId \ S : attr[t].plan \in Plan =>
               \/ status'[t] = status[t]
               \/ status[t] \in {"pending", "running"} /\ status'[t] \in {"pending", "running"}
      PROVE  PlanOK'
  BY <1>1, <1>2 DEF WriteRows, Aggregated
<1>3. CASE ControlPlane
  <2>1. ASSUME NEW n \in TaskId, NEW in \in Input, NEW d \in TaskId \cup {NoTask}, EnqueueTask(n, in, d)
        PROVE  PlanOK'
    <3>1. Row(in, d, NoPlan).plan = NoPlan
      BY DEF Row
    <3> QED BY <1>1, <2>1, <3>1, ExpirySets, InsertAggregates DEF EnqueueTask
  <2>2. ASSUME NEW n \in TaskId, NEW in \in Input, EnqueueQuery(n, in) PROVE PlanOK'
    <3>1. Row(in, NoTask, NoPlan).plan = NoPlan
      BY DEF Row
    <3> DEFINE X == StaleTasks \cup OverdueTasks
    <3>2. X \in SUBSET TaskId /\ \A u \in X : status[u] # "absent"
      BY ExpirySets
    <3>3. InsertAfterExpiry(n, Row(in, NoTask, NoPlan), X)
      BY <2>2 DEF EnqueueQuery
    <3> HIDE DEF X
    <3> QED BY <1>1, <3>1, <3>2, <3>3, InsertAggregates
  <2>3. ASSUME NEW n \in TaskId, NEW p \in Plan, ConfirmPlan(n, p) PROVE PlanOK'
    <3>1. status[n] = "absent"
      BY <2>3, SizeAssumption DEF ConfirmPlan, IsNext, TaskId, Rows
    <3>2. /\ planStatus[p] = "draft" /\ planStatus' = [planStatus EXCEPT ![p] = "confirmed"]
          /\ status'[n] = "pending" /\ attr'[n].plan = p
          /\ \A t \in TaskId \ {n} : status'[t] = status[t] /\ attr'[t] = attr[t]
      BY <2>3 DEF ConfirmPlan, Row, TypeOK
    <3>3. {n} \in SUBSET TaskId /\ {n} # {}
      OBVIOUS
    <3> QED BY <3>1, <3>2, <3>3, ConfirmKeeps
  <2>4. ASSUME NEW n \in TaskId, NEW p \in Plan, ConfirmRenamePlan(n, p) PROVE PlanOK'
    <3> DEFINE New == {n, n + 1, n + 2}
    <3>1. /\ New \in SUBSET TaskId /\ New # {}
          /\ n # n + 1 /\ n # n + 2 /\ n + 1 # n + 2
      BY <2>4, SizeAssumption DEF ConfirmRenamePlan, TaskId
    <3>2. \A t \in New : status[t] = "absent"
      BY <2>4, <3>1, SizeAssumption DEF ConfirmRenamePlan, IsNext, TaskId, Rows
    <3>3. /\ planStatus[p] = "draft" /\ planStatus' = [planStatus EXCEPT ![p] = "confirmed"]
          /\ \A t \in New : status'[t] = "pending"
          /\ \A t \in TaskId \ New : status'[t] = status[t]
      BY <2>4, <3>1 DEF ConfirmRenamePlan
    <3>4. PICK a, b : attr' = [attr EXCEPT ![n] = Row(a, NoTask, p),
                                           ![n + 1] = Row(b, n, p), ![n + 2] = Row(b, n + 1, p)]
      BY <2>4 DEF ConfirmRenamePlan
    <3>5. /\ \A t \in New : attr'[t].plan = p
          /\ \A t \in TaskId \ New : attr'[t] = attr[t]
      BY <3>1, <3>4 DEF Row, TypeOK
    <3> HIDE DEF New
    <3>6. /\ \A t \in New : status[t] = "absent" /\ status'[t] = "pending" /\ attr'[t].plan = p
          /\ \A t \in TaskId \ New : status'[t] = status[t] /\ attr'[t] = attr[t]
      BY <3>2, <3>3, <3>5
    <3> QED BY <3>1, <3>3, <3>6, ConfirmKeeps
  <2>5. ASSUME NEW p \in Plan, CancelDraftPlan(p) PROVE PlanOK'
    <3>1. \A r \in Plan : TasksOf(r)' = TasksOf(r)
      BY <2>5 DEF CancelDraftPlan, TasksOf, Rows
    <3>2. planStatus[p] = "draft" /\ planStatus' = [planStatus EXCEPT ![p] = "cancelled"]
          /\ status' = status
      BY <2>5 DEF CancelDraftPlan
    <3> QED BY <3>1, <3>2 DEF PlanOK, TypeOK
  <2>6. ASSUME NEW S \in SUBSET TaskId, CancelTasks(S) PROVE PlanOK'
    BY <1>2, <2>6 DEF CancelTasks, WriteRows
  <2>7. CASE ReadTaskStatus
    <3>1. /\ WriteRows(ExpiredStatus(StaleTasks), ExpiredResult(StaleTasks), StaleTasks)
          /\ attr' = attr /\ status' = ExpiredStatus(StaleTasks)
      BY <2>7 DEF ReadTaskStatus, WriteRows
    <3> QED BY <1>2, <3>1, ExpirySets, ExpiryMoves
  <2>8. ASSUME NEW u \in TaskId, RefreshRead(u) PROVE PlanOK'
    BY <2>8, PlanOKKept DEF RefreshRead, dbVars
  <2>9. ASSUME NEW u \in TaskId, RefreshWrite(u) PROVE PlanOK'
    <3>1. attr[u].type = "query" /\ status[u] # "absent" /\ attr[u].plan = NoPlan
      BY <2>9 DEF RefreshWrite, OrderOK, ShapeOK, RowShape
    <3>2. /\ WriteRows([status EXCEPT ![u] = "failed"], [result EXCEPT ![u] = "deadline"], {})
          /\ attr' = attr /\ status' = [status EXCEPT ![u] = "failed"]
      BY <2>9 DEF RefreshWrite, WriteRows
    <3> QED BY <1>2, <3>1, <3>2, DistinctAssumption DEF TypeOK
  <2> QED BY <1>3, <2>1, <2>2, <2>3, <2>4, <2>5, <2>6, <2>7, <2>8, <2>9 DEF ControlPlane
<1>4. CASE PollHandling
  <2>1. PICK q \in Request : \/ PollExpireAndClaim(q)
                             \/ PollLoad(q)
                             \/ PollCommit(q)
                             \/ PollFails(q)
    BY <1>4 DEF PollHandling
  <2>2. CASE PollLoad(q) \/ PollFails(q)
    BY <2>2, PlanOKKept DEF PollLoad, PollFails, dbVars
  <2>3. CASE PollExpireAndClaim(q) \/ PollCommit(q)
    <3>1. PICK cand, read, X, res : /\ PollOf(cand, read, X, res)
                                    /\ PollWrites(res, ExpiredStatus(X), ExpiredResult(X), X)
                                    /\ Answer(q, Claims(res))
      BY <2>3, PollSteps
    <3>2. X \in SUBSET TaskId /\ Rejections(res) \in SUBSET TaskId /\ Claims(res) \in SUBSET cand
      BY <3>1, ClaimsAreCandidates DEF PollOf
    <3>3. PICK after, results : WriteRows(after, results, X \cup Rejections(res))
      BY <3>1 DEF PollWrites
    <3>4. \A t \in TaskId : status[t] = "absent" => status'[t] = "absent"
      <4> SUFFICES ASSUME NEW t \in TaskId, status[t] = "absent" PROVE status'[t] = "absent"
        OBVIOUS
      <4>1. t \notin cand /\ ExpiredStatus(X)[t] = "absent"
        BY <3>1, ExpiryMoves DEF PollOf
      <4> QED BY <3>1, <4>1, PollStatus
    <3>5. ASSUME NEW t \in TaskId \ (X \cup Rejections(res))
          PROVE  \/ status'[t] = status[t]
                 \/ status[t] \in {"pending", "running"} /\ status'[t] \in {"pending", "running"}
      <4>1. ExpiredStatus(X)[t] = status[t]
        BY ExpiryMoves
      <4>2. t \in Claims(res) => ExpiredStatus(X)[t] = "pending"
        BY <3>1, ClaimsArePending DEF PollOf
      <4> QED BY <3>1, <4>1, <4>2, PollStatus
    <3>6. attr' = attr
      BY <3>1 DEF PollWrites
    <3> QED BY <1>2, <3>2, <3>3, <3>4, <3>5, <3>6
  <2> QED BY <2>1, <2>2, <2>3
<1>5. CASE Reporting
  <2>1. (\E u \in TaskId : \E r : RecordResult(u, r)) \/ UNCHANGED <<status, attr, planStatus>>
    BY <1>5 DEF Reporting, ReportAnswered, ReportAnswerLost, ReportLost, ReportTimesOut, LateReport, dbVars
  <2>2. ASSUME NEW u \in TaskId, NEW r, RecordResult(u, r), status[u] = "running" PROVE PlanOK'
    <3>1. PICK after, results : WriteRows(after, results, {u}) /\ attr' = attr
      BY <2>2 DEF RecordResult
    <3>2. \A t \in TaskId \ {u} : status'[t] = status[t]
      BY <2>2, RecordMoves
    <3>3. \A t \in TaskId : status[t] = "absent" => status'[t] = "absent"
      BY <2>2, <3>2
    <3> QED BY <1>2, <3>1, <3>2, <3>3
  <2>3. ASSUME NEW u \in TaskId, NEW r, RecordResult(u, r), status[u] # "running" PROVE PlanOK'
    BY <2>3, PlanOKKept DEF RecordResult, dbVars
  <2> QED BY <2>1, <2>2, <2>3, PlanOKKept
<1>6. CASE Tick \/ Agent \/ UNCHANGED vars
  BY <1>6, PlanOKKept DEF Tick, Agent, BeginCycle, SkipPoll, SendPoll, PollTimeout, Execute, AgentRestart,
     vars, dbVars
<1> QED BY <1>3, <1>4, <1>5, <1>6 DEF Next

(***************************************************************************)
(* A plan that was confirmed shows the aggregate of its tasks whichever     *)
(* handler ended them, for any number of plans and tasks: every transaction *)
(* that ends a task of a plan also aggregates that plan, claims move no     *)
(* aggregate, and no later step takes back the failure of a task.           *)
(***************************************************************************)
THEOREM PlansAlwaysShowTheirTasks == Spec => []PlanShowsItsTasks
<1>1. Init => PlanOK
  BY DEF Init, PlanOK, TasksOf, Rows
<1>2. PlanOK => PlanShowsItsTasks
  BY DEF PlanOK, PlanShowsItsTasks, TasksOf
<1> QED BY <1>1, <1>2, PlanOKStep, QueueInvariant, PTL DEF Spec

-----------------------------------------------------------------------------
(* The queue implements TaskLifecycle.                                     *)

\* What the refinement mapping shows of a control task.
Dispatched(t) == status[t] = "running" \/ result[t] \in Delivered

\* How TaskLifecycle reads under the mapping, for a row that is a control task.
LEMMA MappedParts ==
  ASSUME NEW t \in TaskId, Control(t), Control(t)'
  PROVE  /\ Lifecycle!SameStatus(t) <=> status'[t] = status[t]
         /\ Lifecycle!SameWait(t) <=> attr'[t].dep = attr[t].dep
         /\ Lifecycle!SameOffer(t) <=> (Dispatched(t)' <=> Dispatched(t))
         /\ Lifecycle!SameWork(t) <=> /\ executions'[t] > 0 <=> executions[t] > 0
                                      /\ outcome'[t] = outcome[t]
BY DEF Lifecycle!SameStatus, Lifecycle!SameWait, Lifecycle!SameOffer, Lifecycle!SameWork, Control,
   Dispatched, Delivered

\* The same for its steps.
LEMMA MappedSteps ==
  ASSUME NEW t \in TaskId, Control(t), Control(t)'
  PROVE  /\ Lifecycle!Withdraw(t) <=>
              /\ \/ status[t] = "pending" /\ status'[t] \in {"cancelled", "failed"}
                 \/ status[t] = "cancelled" /\ status'[t] = "failed" /\ ~ Dispatched(t)
              /\ Lifecycle!SameWait(t) /\ Lifecycle!SameOffer(t) /\ Lifecycle!SameWork(t)
         /\ Lifecycle!Perform(t) <=>
              /\ Dispatched(t) /\ ~ (executions[t] > 0)
              /\ executions'[t] > 0 /\ outcome'[t] \in {"succeeded", "failed"}
              /\ Lifecycle!SameStatus(t) /\ Lifecycle!SameWait(t) /\ Lifecycle!SameOffer(t)
         /\ Lifecycle!Record(t) <=>
              /\ status[t] = "running"
              /\ \/ status'[t] = "succeeded" /\ executions[t] > 0 /\ outcome[t] = "succeeded"
                 \/ status'[t] = "failed"
              /\ Lifecycle!SameWait(t) /\ Lifecycle!SameOffer(t) /\ Lifecycle!SameWork(t)
<1>1. Lifecycle!Withdraw(t) <=>
        /\ \/ status[t] = "pending" /\ status'[t] \in {"cancelled", "failed"}
           \/ status[t] = "cancelled" /\ status'[t] = "failed" /\ ~ Dispatched(t)
        /\ Lifecycle!SameWait(t) /\ Lifecycle!SameOffer(t) /\ Lifecycle!SameWork(t)
  BY DEF Lifecycle!Withdraw, Control, Dispatched, Delivered
<1>2. Lifecycle!Perform(t) <=>
        /\ Dispatched(t) /\ ~ (executions[t] > 0)
        /\ executions'[t] > 0 /\ outcome'[t] \in {"succeeded", "failed"}
        /\ Lifecycle!SameStatus(t) /\ Lifecycle!SameWait(t) /\ Lifecycle!SameOffer(t)
  BY DEF Lifecycle!Perform, Control, Dispatched, Delivered
<1>3. Lifecycle!Record(t) <=>
        /\ status[t] = "running"
        /\ \/ status'[t] = "succeeded" /\ executions[t] > 0 /\ outcome[t] = "succeeded"
           \/ status'[t] = "failed"
        /\ Lifecycle!SameWait(t) /\ Lifecycle!SameOffer(t) /\ Lifecycle!SameWork(t)
  BY DEF Lifecycle!Record, Control
<1> QED BY <1>1, <1>2, <1>3

\* A step of the queue is, for each task, a step of the lifecycle or none.
LEMMA TaskRefines ==
  ASSUME QueueInv, QueueInv', WorkOK, WorkOK', [Next]_vars, NEW t \in TaskId
  PROVE  \/ Lifecycle!Rest(t) \/ Lifecycle!Create(t) \/ Lifecycle!Withdraw(t)
         \/ Lifecycle!Dispatch(t) \/ Lifecycle!Perform(t) \/ Lifecycle!Record(t)
<1> USE DEF QueueInv
<1>1. RowStep(t) /\ AttrStep(t) /\ WorkStep(t)
  BY NextRowStep
<1>2. RowShape(t) /\ RecordShape(t) /\ HandedShape(t) /\ RowShape(t)' /\ RecordShape(t)'
  BY DEF OrderOK, ShapeOK
<1>3. CASE status[t] = "absent"
  <2>1. Control(t) /\ attr[t].dep = NoTask /\ ~ Dispatched(t)
    BY <1>2, <1>3 DEF RowShape, RecordShape, Control, Dispatched, Delivered
  <2>2. t \notin batch /\ ~ (executions[t] > 0)
    BY <1>3, HandedIsRow DEF Handed
  <2>3. ~ (executions'[t] > 0) /\ outcome[t] = "none" /\ outcome'[t] = "none"
    BY <1>1, <2>2 DEF WorkStep, WorkOK, TypeOK
  <2>4. CASE status'[t] = "absent"
    <3>1. Control(t)' /\ attr'[t].dep = NoTask /\ ~ Dispatched(t)'
      BY <1>2, <2>4 DEF RowShape, RecordShape, Control, Dispatched, Delivered
    <3> QED BY <1>3, <2>1, <2>2, <2>3, <2>4, <3>1, MappedParts DEF Lifecycle!Rest
  <2>5. CASE status'[t] # "absent"
    <3>1. status'[t] = "pending" /\ ~ Dispatched(t)'
      BY <1>1, <1>2, <1>3, <2>5 DEF AttrStep, RecordShape, Dispatched, Delivered
    <3>2. CASE Control(t)'
      <4>1. Lifecycle!SameOffer(t) /\ Lifecycle!SameWork(t)
        BY <2>1, <2>2, <2>3, <3>1, <3>2, MappedParts
      <4>2. attr'[t].dep \in TaskId \cup {NoTask}
        BY <1>2 DEF RowShape
      <4> QED BY <1>3, <2>1, <3>1, <3>2, <4>1, <4>2 DEF Lifecycle!Create
    <3>3. CASE ~ Control(t)'
      BY <1>3, <2>1, <2>2, <2>3, <3>3
         DEF Lifecycle!Rest, Lifecycle!SameStatus, Lifecycle!SameWait, Lifecycle!SameOffer,
             Lifecycle!SameWork, Control, Dispatched, Delivered
    <3> QED BY <3>2, <3>3
  <2> QED BY <2>4, <2>5
<1>4. CASE status[t] # "absent" /\ ~ Control(t)
  <2>1. attr'[t] = attr[t] /\ ~ Control(t)'
    BY <1>1, <1>4, RowStays DEF Control
  <2> QED BY <1>4, <2>1 DEF Lifecycle!Rest, Lifecycle!SameStatus, Lifecycle!SameWait,
           Lifecycle!SameOffer, Lifecycle!SameWork, Control
<1>5. CASE status[t] # "absent" /\ Control(t)
  <2>1. attr'[t] = attr[t] /\ Control(t)'
    BY <1>1, <1>5, RowStays DEF Control
  <2>2. Lifecycle!SameWait(t)
    BY <1>5, <2>1, MappedParts
  <2>3. CASE ~ UNCHANGED <<executions, outcome>>
    <3>1. PICK u \in batch, o \in {"succeeded", "failed"} :
            /\ u \in TaskId /\ executions[u] = 0
            /\ executions' = [executions EXCEPT ![u] = 1] /\ outcome' = [outcome EXCEPT ![u] = o]
            /\ UNCHANGED <<status, attr, result>>
      BY <2>3, ExecuteStep
    <3>2. Lifecycle!SameStatus(t) /\ Lifecycle!SameOffer(t)
      BY <1>5, <2>1, <3>1, MappedParts DEF Dispatched
    <3>3. CASE t = u
      <4>1. Dispatched(t)
        BY <1>2, <1>5, <3>1, <3>3 DEF HandedShape, Dispatched, Control
      <4>2. executions[t] = 0 /\ executions'[t] = 1 /\ outcome'[t] \in {"succeeded", "failed"}
        BY <3>1, <3>3 DEF TypeOK
      <4> QED BY <1>5, <2>1, <2>2, <3>2, <4>1, <4>2, MappedSteps
    <3>4. CASE t # u
      <4>1. Lifecycle!SameWork(t)
        BY <1>5, <2>1, <3>1, <3>4, MappedParts DEF TypeOK
      <4> QED BY <2>2, <3>2, <4>1 DEF Lifecycle!Rest
    <3> QED BY <3>3, <3>4
  <2>4. CASE UNCHANGED <<executions, outcome>>
    <3>1. Lifecycle!SameWork(t)
      BY <1>5, <2>1, <2>4, MappedParts
    <3>2. CASE Untouched(t)
      BY <1>5, <2>1, <2>2, <3>1, <3>2, MappedParts DEF Untouched, Dispatched, Lifecycle!Rest
    <3>3. CASE TimedOut(t)
      BY <1>5, <2>1, <2>2, <3>1, <3>3, MappedParts, MappedSteps
         DEF TimedOut, Dispatched, Delivered
    <3>4. CASE Withdrawn(t)
      <4>1. ~ Dispatched(t) /\ ~ Dispatched(t)'
        BY <1>2, <3>4 DEF Withdrawn, RecordShape, Dispatched, Delivered
      <4> QED BY <1>5, <2>1, <2>2, <3>1, <3>4, <4>1, MappedParts, MappedSteps DEF Withdrawn
    <3>5. CASE HandedOut(t)
      <4> DEFINE d == attr[t].dep
      <4>1. d # NoTask => /\ d \in TaskId /\ Control(d)'
                          /\ status'[d] \in {"succeeded", "failed", "cancelled"}
        BY <1>2, <2>1, <3>5 DEF HandedOut, Ready, DepDone, RowShape, Control
      <4>2. Dispatched(t)'
        BY <3>5 DEF HandedOut, Dispatched
      <4> QED BY <1>5, <2>1, <2>2, <3>1, <3>5, <4>1, <4>2
               DEF HandedOut, Lifecycle!Dispatch, Lifecycle!Settled, Dispatched, Delivered, Control
    <3>6. CASE Refused(t)
      <4>1. ~ Dispatched(t) /\ ~ Dispatched(t)' /\ status[t] \in {"pending", "failed", "cancelled"}
        BY <1>2, <1>5, <3>6 DEF Refused, Handed, RecordShape, Dispatched, Delivered, TypeOK, Status
      <4>2. Lifecycle!SameOffer(t)
        BY <1>5, <2>1, <4>1, MappedParts
      <4>3. CASE status[t] = "failed"
        BY <1>5, <2>1, <2>2, <3>1, <3>6, <4>2, <4>3, MappedParts DEF Refused, Lifecycle!Rest
      <4>4. CASE status[t] \in {"pending", "cancelled"}
        BY <1>5, <2>1, <2>2, <3>1, <3>6, <4>1, <4>2, <4>4, MappedSteps
           DEF Refused
      <4> QED BY <4>1, <4>3, <4>4
    <3>7. CASE Reported(t)
      <4>1. Dispatched(t) /\ Dispatched(t)'
        BY <3>7 DEF Reported, Dispatched, Delivered
      <4>2. Lifecycle!SameOffer(t)
        BY <1>5, <2>1, <4>1, MappedParts
      <4>3. status'[t] = "succeeded" => executions[t] > 0 /\ outcome[t] = "succeeded"
        BY <2>4 DEF HonestOK
      <4> QED BY <1>5, <2>1, <2>2, <3>1, <3>7, <4>2, <4>3, MappedSteps DEF Reported
    <3> QED BY <1>1, <1>5, <3>2, <3>3, <3>4, <3>5, <3>6, <3>7
             DEF RowStep, Created, Overran, Control
  <2> QED BY <2>3, <2>4
<1> QED BY <1>3, <1>4, <1>5

(***************************************************************************)
(* Whoever creates a control task may rely on TaskLifecycle: with any       *)
(* number of tasks, overlapping polls, lost answers, repeated and late      *)
(* reports, expiries and restarts, a task is withdrawn before anyone works  *)
(* on it or dispatched once after what it waits for has settled, performed  *)
(* at most once, recorded as succeeded only if it was, and then left alone. *)
(***************************************************************************)
THEOREM QueueImplementsLifecycle == Spec => ImplementsLifecycle
<1>1. Init => Lifecycle!Init
  <2> SUFFICES ASSUME Init PROVE Lifecycle!Init
    OBVIOUS
  <2>1. \A t \in TaskId : /\ Control(t) /\ status[t] = "absent" /\ attr[t].dep = NoTask
                          /\ result[t] = "none" /\ executions[t] = 0 /\ outcome[t] = "none"
    BY DEF Init, Control
  <2>2. \A t \in TaskId : /\ (Control(t) /\ (status[t] = "running" \/ result[t] \in Delivered)) = FALSE
                          /\ (Control(t) /\ executions[t] > 0) = FALSE
    BY <2>1 DEF Delivered
  <2> QED BY <2>1, <2>2 DEF Lifecycle!Init, Delivered
<1>2. QueueInv /\ QueueInv' /\ WorkOK /\ WorkOK' /\ [Next]_vars => [Lifecycle!Next]_(Lifecycle!vars)
  BY TaskRefines DEF Lifecycle!Next
<1> QED BY <1>1, <1>2, WorkInvariant, PTL DEF Spec, ImplementsLifecycle, Lifecycle!Spec
=============================================================================
