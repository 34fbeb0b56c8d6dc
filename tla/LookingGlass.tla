----------------------------- MODULE LookingGlass ---------------------------
(***************************************************************************)
(* The Looking Glass API of one node: queries (looking_glass_queries) that  *)
(* integrations submit and read, and the agent tasks that answer them       *)
(* (apps/api/link42_api/main.py).  A query and its task are inserted        *)
(* together and share an index here.  The fingerprint stands for the API    *)
(* key, the operation and its arguments.                                    *)
(*                                                                         *)
(* A submission reads the clock and then takes the write lock, so that the  *)
(* rest of it is one step.  Reading a query is three: the query, its task,  *)
(* and the commit of what was derived from them, by an ORM write that is    *)
(* not guarded by what was read.  Polls are reduced to what they do to      *)
(* queries; AgentTaskQueue has their detail.                                *)
(***************************************************************************)
EXTENDS Integers, FiniteSets

CONSTANTS
  Fingerprint,     \* looking_glass_request_fingerprint
  Submitter,       \* bound: submissions inside the controller at a time
  Reader,          \* bound: reads inside the controller at a time
  QueueLimit,      \* LOOKING_GLASS_QUERY_QUEUE_LIMIT
  BatchSize,       \* AGENT_TASK_POLL_BATCH_SIZE
  CacheWindow,     \* LOOKING_GLASS_CACHE_WINDOW
  QueueTimeout,    \* LOOKING_GLASS_QUEUE_TIMEOUT
  TotalDeadline,   \* LOOKING_GLASS_TOTAL_DEADLINE
  Retention,       \* LOOKING_GLASS_RESULT_RETENTION
  MaxQueries,      \* bound: queries ever created
  MaxTime          \* bound: the clock

ASSUME QueryTimeAssumption ==
  /\ {CacheWindow, QueueTimeout, TotalDeadline, Retention, MaxTime} \subseteq Nat
  /\ QueueTimeout <= TotalDeadline /\ TotalDeadline <= Retention
ASSUME QueryBoundAssumption ==
  {QueueLimit, BatchSize, MaxQueries} \subseteq Nat \ {0}
ASSUME FingerprintAssumption == Fingerprint # {}

Query  == 1..MaxQueries
Client == Submitter \cup Reader
Active == {"queued", "running"}
QueryStatus == Active \cup {"absent", "succeeded", "failed", "expired"}

\* AgentTask.status, a success told apart by its result: data, or an error_code.
TaskStatus == {"absent", "pending", "running", "data", "error_code", "failed"}

\* How a command ends: it prints, it fails or times out (a succeeded task whose
\* result has an error_code), or the handler raises.
Outcome == {"data", "error_code", "failed"}

VARIABLES
  now,       \* the controller's clock
  fp,        \* request_fingerprint
  asked,     \* the clock that the submission has read: it fixes the deadlines
  created,   \* created_at
  status,    \* LookingGlassQuery.status
  tstatus,   \* status and result of the task
  held,      \* tasks the agent has fetched and not reported
  handler,   \* requests under way: what they have read
  answered   \* history: the queries whose command has returned data on the node

queryVars == <<fp, asked, created, status>>
vars == <<now, queryVars, tstatus, held, handler, answered>>

Time == 0..MaxTime

Idle == [op |-> "none", at |-> 0, q |-> 1, status |-> "absent", task |-> "absent"]

TypeOK ==
  /\ now \in Time
  /\ fp \in [Query -> Fingerprint]
  /\ asked \in [Query -> Time] /\ created \in [Query -> Time]
  /\ status \in [Query -> QueryStatus]
  /\ tstatus \in [Query -> TaskStatus]
  /\ held \subseteq Query /\ answered \subseteq Query
  /\ handler \in [Client -> [op : {"none", "submit", "query", "task"}, at : Time, q : Query,
                             status : QueryStatus, task : TaskStatus]]

Init ==
  /\ now = 0
  /\ fp = [q \in Query |-> CHOOSE f \in Fingerprint : TRUE]
  /\ asked = [q \in Query |-> 0] /\ created = [q \in Query |-> 0]
  /\ status = [q \in Query |-> "absent"] /\ tstatus = [q \in Query |-> "absent"]
  /\ held = {} /\ answered = {}
  /\ handler = [c \in Client |-> Idle]

-----------------------------------------------------------------------------
(* refresh_looking_glass_query_from_task: the query follows its task.      *)

\* A pending task whose deadline has passed is closed by whoever reads it.
TaskAfter(q, ts, at) ==
  IF ts = "pending" /\ asked[q] + QueueTimeout <= at THEN "failed" ELSE ts

\* A task result with an error_code taken for an answer.
MutantFollowsAnswer(ts) ==
  CASE ts = "pending" -> "queued"
    [] ts = "running" -> "running"
    [] ts \in {"data", "error_code"} -> "succeeded"
    [] ts = "failed" -> "failed"

\* The task's status copied.
MutantFollowsCopied(ts) == ts

\* What a task in this state, refreshed above, says of the query.
Follows(ts) ==
  CASE ts = "pending" -> "queued"
    [] ts = "running" -> "running"
    [] ts = "data"    -> "succeeded"
    [] ts \in {"error_code", "failed"} -> "failed"

\* No total deadline.
MutantRefreshed(q, ts, at) == Follows(TaskAfter(q, ts, at))

\* The total deadline ends a query that its task leaves open.
Refreshed(q, ts, at) ==
  LET s == Follows(TaskAfter(q, ts, at)) IN
  IF s \in Active /\ asked[q] + TotalDeadline <= at THEN "failed" ELSE s

-----------------------------------------------------------------------------
(* The expiries that a submission and a poll begin with.  Which tasks have  *)
(* been running for AGENT_TASK_RUNNING_TIMEOUT (stale) is left open: it is  *)
(* much longer than everything that happens to a query.                     *)

Expired(ts, at, stale) ==
  [q \in Query |->
     IF ts[q] = "running" /\ q \in stale THEN "failed" ELSE TaskAfter(q, ts[q], at)]

-----------------------------------------------------------------------------
(* create_looking_glass_query_task.                                        *)

Begin(c, read) ==
  /\ handler[c] = Idle
  /\ handler' = [handler EXCEPT ![c] = read]
  /\ UNCHANGED <<now, queryVars, tstatus, held, answered>>

Release(c) == handler' = [handler EXCEPT ![c] = Idle]

\* The clock is read; bounded so that the deadline is within the clock's range.
SubmitBegin(c) ==
  /\ now + TotalDeadline <= MaxTime
  /\ Begin(c, [Idle EXCEPT !.op = "submit", !.at = now])

\* A query in status s that another submission may return: open, or fresh.
Usable(q, s, at) == s \in Active \/ (s = "succeeded" /\ created[q] >= at - CacheWindow)

Matches(f, at, st) == {q \in Query : fp[q] = f /\ Usable(q, st[q], at)}

\* The one that a submission looks at, if there is one.
Newest(q, f, at, st) == q \in Matches(f, at, st) /\ \A p \in Matches(f, at, st) : p <= q

\* The table without its partial index.
MutantConflict(q, f, s, st) == FALSE

\* uq_looking_glass_active_fingerprint: to write s would give f a second open query.
Conflict(q, f, s, st) ==
  /\ s \in Active
  /\ \E p \in Query \ {q} : fp[p] = f /\ st[p] \in Active

\* It is refreshed, and returned if it is still open or fresh.
SubmitReuses(c, f, q) ==
  LET at == handler[c].at
      s  == Refreshed(q, tstatus[q], at) IN
  /\ handler[c].op = "submit"
  /\ Newest(q, f, at, status) /\ Usable(q, s, at)
  /\ status' = [status EXCEPT ![q] = s]
  /\ tstatus' = [tstatus EXCEPT ![q] = TaskAfter(q, tstatus[q], at)]
  /\ Release(c)
  /\ UNCHANGED <<now, fp, asked, created, held, answered>>

\* Otherwise its refresh is flushed and the overdue and stale tasks expire.
NotReused(c, f) ==
  LET at == handler[c].at IN
  /\ handler[c].op = "submit"
  /\ \A q \in Query : Newest(q, f, at, status) => ~ Usable(q, Refreshed(q, tstatus[q], at), at)

\* The queue is counted: without the running tasks, and as it is.
MutantUnfinished(ts) == {q \in Query : ts[q] = "pending"}

Unfinished(ts) == {q \in Query : ts[q] \in {"pending", "running"}}

Full(c, stale) ==
  Cardinality(Unfinished(Expired(tstatus, handler[c].at, stale))) >= QueueLimit

\* 429: the session is rolled back, the expiries with it.
SubmitRejected(c, f, stale) ==
  /\ NotReused(c, f) /\ Full(c, stale)
  /\ Release(c)
  /\ UNCHANGED <<now, queryVars, tstatus, held, answered>>

\* The lock is not obtained in time: the request fails before its first write.
SubmitFails(c) ==
  /\ handler[c].op = "submit"
  /\ Release(c)
  /\ UNCHANGED <<now, queryVars, tstatus, held, answered>>

NextQuery == Cardinality({q \in Query : status[q] # "absent"}) + 1

\* The query and its task are inserted in a savepoint.  If the index refuses them
\* (the open query is not the newest match: a read has opened it again), the matches
\* are read once more and the newest one is refreshed and returned.
SubmitInserts(c, f, stale) ==
  LET at == handler[c].at
      n  == NextQuery
      flushed == [q \in Query |-> IF Newest(q, f, at, status) THEN Refreshed(q, tstatus[q], at)
                                  ELSE status[q]]
      after == Expired(tstatus, at, stale) IN
  /\ NotReused(c, f) /\ ~ Full(c, stale)
  /\ n \in Query
  /\ IF Conflict(n, f, "queued", flushed)
     THEN /\ status' = [q \in Query |-> IF Newest(q, f, at, flushed) THEN Refreshed(q, after[q], at)
                                        ELSE flushed[q]]
          /\ tstatus' = after
          /\ UNCHANGED <<fp, asked, created>>
     ELSE /\ status' = [flushed EXCEPT ![n] = "queued"]
          /\ tstatus' = [after EXCEPT ![n] = "pending"]
          /\ fp' = [fp EXCEPT ![n] = f]
          /\ asked' = [asked EXCEPT ![n] = at]
          /\ created' = [created EXCEPT ![n] = now]
  /\ Release(c)
  /\ UNCHANGED <<now, held, answered>>

-----------------------------------------------------------------------------
(* get_looking_glass_query.                                                *)

GetBegin(c, q) ==
  /\ status[q] # "absent"
  /\ Begin(c, [Idle EXCEPT !.op = "query", !.at = now, !.q = q, !.status = status[q]])

\* The result's retention is over: 410.
GetExpired(c) ==
  LET h == handler[c] IN
  /\ h.op = "query" /\ asked[h.q] + Retention <= h.at
  /\ status' = IF h.status = "expired" THEN status ELSE [status EXCEPT ![h.q] = "expired"]
  /\ Release(c)
  /\ UNCHANGED <<now, fp, asked, created, tstatus, held, answered>>

\* query.agent_task is loaded.
GetTask(c) ==
  LET h == handler[c] IN
  /\ h.op = "query" /\ asked[h.q] + Retention > h.at
  /\ handler' = [handler EXCEPT ![c].op = "task", ![c].task = tstatus[h.q]]
  /\ UNCHANGED <<now, queryVars, tstatus, held, answered>>

\* The commit writes the columns that the session has changed.
GetCommit(c) ==
  LET h  == handler[c]
      s  == Refreshed(h.q, h.task, h.at)
      ts == TaskAfter(h.q, h.task, h.at) IN
  /\ h.op = "task"
  /\ s # h.status => ~ Conflict(h.q, fp[h.q], s, status)
  /\ status' = IF s = h.status THEN status ELSE [status EXCEPT ![h.q] = s]
  /\ tstatus' = IF ts = h.task THEN tstatus ELSE [tstatus EXCEPT ![h.q] = ts]
  /\ Release(c)
  /\ UNCHANGED <<now, fp, asked, created, held, answered>>

\* IntegrityError: the request fails and nothing is written.
GetConflicts(c) ==
  LET h == handler[c]
      s == Refreshed(h.q, h.task, h.at) IN
  /\ h.op = "task"
  /\ s # h.status /\ Conflict(h.q, fp[h.q], s, status)
  /\ Release(c)
  /\ UNCHANGED <<now, queryVars, tstatus, held, answered>>

-----------------------------------------------------------------------------
(* The agent.                                                              *)

\* agent_poll: expiries by a clock that was read at some earlier time, then the
\* oldest pending tasks are claimed.  The answer may be lost, and then no one
\* works on them.
Poll(delivered, at, stale) ==
  LET after   == Expired(tstatus, at, stale)
      pending == {q \in Query : after[q] = "pending"}
      claimed == {q \in pending : Cardinality({p \in pending : p < q}) < BatchSize} IN
  /\ held = {}
  /\ claimed # {} \/ after # tstatus
  /\ tstatus' = [q \in Query |-> IF q \in claimed THEN "running" ELSE after[q]]
  /\ held' = IF delivered THEN claimed ELSE {}
  /\ UNCHANGED <<now, queryVars, handler, answered>>

\* The command ends and agent_task_result records it, if the task still runs.
Report(q, how) ==
  /\ q \in held
  /\ held' = held \ {q}
  /\ answered' = IF how = "data" THEN answered \cup {q} ELSE answered
  /\ IF tstatus[q] = "running"
     THEN /\ tstatus' = [tstatus EXCEPT ![q] = how]
          /\ status' = [status EXCEPT ![q] = Refreshed(q, how, now)]
     ELSE UNCHANGED <<tstatus, status>>
  /\ UNCHANGED <<now, fp, asked, created, handler>>

\* A result that cannot be stored closes the task and leaves the query alone.
ReportInvalid(q) ==
  /\ q \in held
  /\ held' = held \ {q}
  /\ tstatus' = IF tstatus[q] = "running" THEN [tstatus EXCEPT ![q] = "failed"] ELSE tstatus
  /\ UNCHANGED <<now, queryVars, handler, answered>>

\* The agent's memory is gone.
AgentRestart ==
  /\ held # {}
  /\ held' = {}
  /\ UNCHANGED <<now, queryVars, tstatus, handler, answered>>

Tick ==
  /\ now < MaxTime
  /\ now' = now + 1
  /\ UNCHANGED <<queryVars, tstatus, held, handler, answered>>

-----------------------------------------------------------------------------
SubmitEnds(c) ==
  \/ SubmitFails(c)
  \/ \E f \in Fingerprint, stale \in SUBSET Query :
       SubmitRejected(c, f, stale) \/ SubmitInserts(c, f, stale)
  \/ \E f \in Fingerprint, q \in Query : SubmitReuses(c, f, q)

GetEnds(c) == GetExpired(c) \/ GetTask(c) \/ GetCommit(c) \/ GetConflicts(c)

Next ==
  \/ \E c \in Submitter : SubmitBegin(c) \/ SubmitEnds(c)
  \/ \E c \in Reader : GetEnds(c) \/ \E q \in Query : GetBegin(c, q)
  \/ \E delivered \in BOOLEAN, at \in 0..now, stale \in SUBSET Query : Poll(delivered, at, stale)
  \/ \E q \in Query : ReportInvalid(q) \/ \E how \in Outcome : Report(q, how)
  \/ AgentRestart
  \/ Tick

Spec == Init /\ [][Next]_vars

\* Time goes on up to the deadline of an open query (no further: that the result
\* is dropped after its retention is not an end), a request that was begun ends,
\* and the integration goes on reading its query; the agent may be gone.
Fairness ==
  /\ WF_vars(Tick /\ \E q \in Query : status[q] \in Active /\ now < asked[q] + TotalDeadline)
  /\ \A c \in Submitter : WF_vars(SubmitEnds(c))
  /\ \A c \in Reader : WF_vars(GetEnds(c))
  /\ \A q \in Query : SF_vars(\E c \in Reader : GetBegin(c, q))

FairSpec == Spec /\ Fairness

-----------------------------------------------------------------------------
(***************************************************************************)
(* "For one integration key, only one task is allowed for the same request  *)
(* while it is queued or running" (models.py:452), as far as the queries    *)
(* go: a fingerprint has at most one open query.  The index guards inserts  *)
(* and reads; a submission that refreshes and returns a query, and a        *)
(* report, never open one, so that they need no guard.                      *)
(***************************************************************************)
OneActiveQuery ==
  \A p, q \in Query :
    p # q /\ fp[p] = fp[q] => ~ (status[p] \in Active /\ status[q] \in Active)

(***************************************************************************)
(* The node's query queue holds at most LOOKING_GLASS_QUERY_QUEUE_LIMIT     *)
(* unfinished tasks, whatever submissions, reads, polls and reports         *)
(* overlap (main.py:1326: "concurrent workers all observe the same free     *)
(* slots and exceed" the limit without the lock).                           *)
(***************************************************************************)
QueueLimitHolds ==
  Cardinality({q \in Query : tstatus[q] \in {"pending", "running"}}) <= QueueLimit

(***************************************************************************)
(* A query shown as succeeded is one whose command has run on the node and  *)
(* returned data: neither a stale read nor a late report shows a timeout or *)
(* an error_code as a success.                                              *)
(***************************************************************************)
SuccessIsReal == \A q \in Query : status[q] = "succeeded" => q \in answered

(***************************************************************************)
(* As long as the integration reads its query, the query ends, by its       *)
(* deadline at the latest: it does not stay open when the agent has gone,   *)
(* lost the task or sent a result that cannot be stored, nor because a      *)
(* read that was overtaken opens it again (the total deadline of            *)
(* refresh_looking_glass_query_from_task).                                  *)
(***************************************************************************)
QueryEnds == \A q \in Query : status[q] \in Active ~> status[q] \notin Active
=============================================================================
