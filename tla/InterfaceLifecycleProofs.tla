---------------------- MODULE InterfaceLifecycleProofs ----------------------
(***************************************************************************)
(* One WireGuard configuration, for every number of tasks, requests at a    *)
(* time and configurations: the types, that an accepted stop supersedes     *)
(* the deployments it was to undo, that a late status query is ignored, and *)
(* that a row shows only what was found out for itself.                     *)
(***************************************************************************)
EXTENDS InterfaceLifecycle, WellFoundedInduction, FiniteSetTheorems, TLAPS

MaybeConfig == Config \cup {NoConfig}
MaybeTask   == Task \cup {NoTask}
TaskRow     == [type : TaskType, inst : 0..MaxInstances, config : MaybeConfig, dep : MaybeTask,
                dedup : BOOLEAN]
Request     == [op : {"none", "update", "start", "stop", "delete"}, inst : 0..MaxInstances,
                config : MaybeConfig, seen : MaybeTask, dep : MaybeTask, cancel : SUBSET Task,
                live : SUBSET Task, was : Runtime]

\* The rows that there are have the first ids.
Numbered == \E k \in Nat : {t \in Task : tstatus[t] # "absent"} = 1..k

\* Statuses of a row that a poll has claimed.
Claimed == {"running", "succeeded", "failed"}

\* A task is delivered once: what is on its way to the agent, or waits there, has been
\* claimed and not been executed, and what was executed has been claimed.
Once ==
  /\ answering = {} \/ batch = {}
  /\ \A t \in answering \cup batch : ran[t] = "no" /\ tstatus[t] \in Claimed
  /\ \A t \in Task : ran[t] # "no" => tstatus[t] \in Claimed

\* What a request has read is a row of the type it is about to write.
SeenOK ==
  \A h \in Handler : handler[h].seen # NoTask =>
    /\ tstatus[handler[h].seen] # "absent"
    /\ task[handler[h].seen].type = IF handler[h].op = "update" THEN "apply" ELSE "stop"

\* What the agent has been told, and what it has found.
ToldOK ==
  \A t \in Task :
    /\ ran[t] = "no" \/ task[t].type = "read" => told[t] \in MaybeConfig
    /\ ran[t] # "no" /\ task[t].type = "status" => told[t] \in {"running", "stopped"}

Inv == TypeOK /\ Numbered /\ Once /\ SeenOK /\ ToldOK

-----------------------------------------------------------------------------
(* The task table.                                                         *)

\* Sets of tasks have a least and a greatest element.
LEMMA OldestIn ==
  ASSUME NEW S \in SUBSET Task
  PROVE  Oldest(S) \in MaybeTask /\ (S # {} => Oldest(S) \in S) /\ (S = {} => Oldest(S) = NoTask)
<1>1. CASE S = {}
  BY <1>1 DEF Oldest, MaybeTask
<1>2. CASE S # {}
  <2> DEFINE R == OpToRel(<, Nat)
  <2>1. IsWellFoundedOn(R, Nat)
    BY NatLessThanWellFounded
  <2>2. \A x, y \in Nat : x < y => <<x, y>> \in R
    BY DEF OpToRel
  <2> HIDE DEF R
  <2>3. S \subseteq Nat
    BY BoundAssumption DEF Task
  <2>4. PICK x \in S : \A y \in S : ~ (<<y, x>> \in R)
    BY <1>2, <2>1, <2>3, WFMin
  <2>5. \A y \in S : ~ (y < x)
    BY <2>2, <2>3, <2>4
  <2>6. \A y \in S : x <= y
    BY <2>3, <2>5
  <2> QED BY <1>2, <2>6 DEF Oldest, MaybeTask
<1> QED BY <1>1, <1>2

LEMMA NewestIn ==
  ASSUME NEW S \in SUBSET Task
  PROVE  Newest(S) \in MaybeTask /\ (S # {} => Newest(S) \in S)
<1>1. CASE S = {}
  BY <1>1 DEF Newest, MaybeTask
<1>2. CASE S # {}
  <2> DEFINE R == OpToRel(<, Nat)
             T == {MaxTasks - s : s \in S}
  <2>1. IsWellFoundedOn(R, Nat)
    BY NatLessThanWellFounded
  <2>2. \A x, y \in Nat : x < y => <<x, y>> \in R
    BY DEF OpToRel
  <2> HIDE DEF R
  <2>3. T \subseteq Nat /\ T # {}
    <3>1. \A u \in S : MaxTasks - u \in Nat
      BY BoundAssumption DEF Task
    <3> QED BY <1>2, <3>1
  <2>4. PICK x \in T : \A y \in T : ~ (<<y, x>> \in R)
    BY <2>1, <2>3, WFMin
  <2>5. \A y \in T : ~ (y < x)
    BY <2>2, <2>3, <2>4
  <2>6. PICK s \in S : x = MaxTasks - s
    OBVIOUS
  <2>7. ASSUME NEW u \in S PROVE u <= s
    <3>1. ~ (MaxTasks - u < MaxTasks - s)
      BY <2>5, <2>6
    <3>2. u \in Int /\ s \in Int /\ MaxTasks \in Int
      BY BoundAssumption DEF Task
    <3> QED BY <3>1, <3>2
  <2> QED BY <1>2, <2>7 DEF Newest, MaybeTask
<1> QED BY <1>1, <1>2

\* The id of a new row is free.
LEMMA NextIsFree ==
  ASSUME Numbered, NextId \in Task
  PROVE  /\ tstatus[NextId] = "absent"
         /\ \E k \in Nat : {t \in Task : tstatus[t] # "absent"} \cup {NextId} = 1..k
<1> DEFINE S == {t \in Task : tstatus[t] # "absent"}
<1>1. PICK k \in Nat : S = 1..k
  BY DEF Numbered
<1>2. Cardinality(S) = k
  <2>1. Cardinality(1..k) = IF 1 > k THEN 0 ELSE k - 1 + 1
    BY FS_Interval
  <2> HIDE DEF S
  <2> QED BY <1>1, <2>1
<1>3. NextId = k + 1
  BY <1>2 DEF NextId
<1>4. NextId \notin S
  BY <1>1, <1>3
<1>5. S \cup {NextId} = 1..(k + 1)
  BY <1>1, <1>3
<1> QED BY <1>4, <1>5

LEMMA NumberedKept ==
  ASSUME Numbered, \A t \in Task : tstatus'[t] # "absent" <=> tstatus[t] # "absent"
  PROVE  Numbered'
<1>1. {t \in Task : tstatus'[t] # "absent"} = {t \in Task : tstatus[t] # "absent"}
  OBVIOUS
<1> QED BY <1>1 DEF Numbered

\* What a request may do to the table: rows are created, pending ones cancelled, and
\* none changes its type.
TableStep ==
  /\ task' \in [Task -> TaskRow] /\ tstatus' \in [Task -> Status] /\ Numbered'
  /\ \A u \in Task : \/ tstatus'[u] = tstatus[u]
                     \/ tstatus[u] = "absent" /\ tstatus'[u] = "pending"
                     \/ tstatus[u] = "pending" /\ tstatus'[u] = "cancelled"
  /\ \A u \in Task : tstatus[u] # "absent" => task'[u].type = task[u].type

\* A row that a payload of this type may be written to.
Fits(t, type) == t \in Task /\ t # NextId => task[t].type = type /\ tstatus[t] # "absent"

LEMMA WriteStep ==
  ASSUME TypeOK, Numbered, NEW t, NEW p \in TaskRow, NEW st \in [Task -> Status],
         \A u \in Task : st[u] = tstatus[u] \/ (tstatus[u] = "pending" /\ st[u] = "cancelled"),
         Fits(t, p.type), Write(t, p, st)
  PROVE  /\ TableStep
         /\ \A u \in Task : u # t => task'[u] = task[u] /\ tstatus'[u] = st[u]
         /\ t \in Task => task'[t].inst = p.inst
         /\ t \in Task => tstatus'[t] = IF t = NextId THEN "pending" ELSE st[t]
<1>0. task \in [Task -> TaskRow] /\ tstatus \in [Task -> Status]
  BY DEF TypeOK, TaskRow, MaybeConfig, MaybeTask
<1>1. NoTask \notin Task
  BY BoundAssumption DEF NoTask, Task
<1>2. CASE t = NoTask
  <2>1. task' = task /\ tstatus' = st
    BY <1>2 DEF Write
  <2>2. \A u \in Task : tstatus'[u] # "absent" <=> tstatus[u] # "absent"
    BY <1>0, <2>1
  <2>3. Numbered'
    BY <2>2, NumberedKept
  <2> QED BY <1>0, <1>1, <1>2, <2>1, <2>3 DEF TableStep
<1>3. CASE t # NoTask /\ t # NextId
  <2>0. t \in Task
    BY <1>3 DEF Write
  <2>1. task' = [task EXCEPT ![t] = [p EXCEPT !.dedup = task[t].dedup]] /\ tstatus' = st
    BY <1>3 DEF Write
  <2>2. [p EXCEPT !.dedup = task[t].dedup] \in TaskRow
    BY <1>0, <2>0 DEF TaskRow
  <2>3. task' \in [Task -> TaskRow] /\ \A u \in Task : u # t => task'[u] = task[u]
    BY <1>0, <2>0, <2>1, <2>2
  <2>4. task'[t].type = task[t].type /\ task'[t].inst = p.inst
    BY <1>0, <1>3, <2>0, <2>1 DEF Fits, TaskRow
  <2>5. \A u \in Task : tstatus'[u] # "absent" <=> tstatus[u] # "absent"
    BY <1>0, <2>1
  <2>6. Numbered'
    BY <2>5, NumberedKept
  <2> QED BY <1>0, <1>3, <2>1, <2>3, <2>4, <2>6 DEF TableStep
<1>4. CASE t # NoTask /\ t = NextId
  <2>0. t \in Task
    BY <1>4 DEF Write
  <2>1. task' = [task EXCEPT ![t] = p] /\ tstatus' = [st EXCEPT ![t] = "pending"]
    BY <1>4 DEF Write
  <2>2. /\ tstatus[t] = "absent"
        /\ \E k \in Nat : {u \in Task : tstatus[u] # "absent"} \cup {t} = 1..k
    BY <1>4, <2>0, NextIsFree
  <2>3. task' \in [Task -> TaskRow] /\ tstatus' \in [Task -> Status]
    BY <1>0, <2>1 DEF Status
  <2>4. {u \in Task : tstatus'[u] # "absent"} = {u \in Task : tstatus[u] # "absent"} \cup {t}
    BY <1>0, <2>0, <2>1
  <2>5. Numbered'
    BY <2>2, <2>4 DEF Numbered
  <2>6. task'[t] = p /\ tstatus'[t] = "pending"
    BY <1>0, <2>0, <2>1
  <2>7. \A u \in Task : u # t => task'[u] = task[u] /\ tstatus'[u] = st[u]
    BY <1>0, <2>0, <2>1
  <2> QED BY <1>4, <2>2, <2>3, <2>5, <2>6, <2>7 DEF TableStep
<1> QED BY <1>2, <1>3, <1>4

\* The row that a request goes for is one of its type, and still pending unless it is
\* new or the one the request has read.
LEMMA TargetFits ==
  ASSUME TypeOK, Numbered, NEW seen \in MaybeTask, NEW type \in TaskType,
         seen # NoTask => task[seen].type = type /\ tstatus[seen] # "absent"
  PROVE  /\ Fits(Target(seen, type), type)
         /\ seen # NoTask => Target(seen, type) = seen
         /\ seen = NoTask /\ Target(seen, type) \in Task /\ Target(seen, type) # NextId
              => tstatus[Target(seen, type)] = "pending"
<1> DEFINE active == Oldest(Find({type}, {"pending", "running"}))
<1>1. NoTask \notin Task
  BY BoundAssumption DEF NoTask, Task
<1>2. CASE seen # NoTask
  BY <1>2 DEF Target, Fits
<1>3. CASE seen = NoTask /\ ~ Refused(type)
  BY <1>1, <1>3 DEF Target, Fits
<1>4. CASE seen = NoTask /\ Refused(type)
  <2>1. active \in Find({type}, {"pending", "running"})
    <3>1. Find({type}, {"pending", "running"}) # {}
      BY <1>4 DEF Refused, Find
    <3> QED BY <3>1, OldestIn DEF Find
  <2>2. task[active].type = type /\ tstatus[active] # "absent" /\ active \in Task
    BY <2>1 DEF Find
  <2>3. Target(seen, type) = IF tstatus[active] = "pending" THEN active ELSE NoTask
    BY <1>4 DEF Target
  <2> QED BY <1>1, <1>4, <2>2, <2>3 DEF Fits
<1> QED BY <1>2, <1>3, <1>4

-----------------------------------------------------------------------------
(* What each request does.                                                 *)

RowTyped ==
  /\ exists \in BOOLEAN /\ kind \in {"managed-node", "manual"} /\ inst \in 0..MaxInstances
  /\ desired \in MaybeConfig /\ deployed \in MaybeConfig
  /\ runtime \in Runtime /\ plan \in MaybeConfig

LEMMA TypeParts ==
  TypeOK <=>
    /\ RowTyped /\ task \in [Task -> TaskRow] /\ tstatus \in [Task -> Status]
    /\ handler \in [Handler -> Request]
    /\ up \in BOOLEAN /\ file \in MaybeConfig
    /\ answering \in SUBSET Task /\ batch \in SUBSET Task
    /\ unacked \in SUBSET Task /\ late \in SUBSET Task
    /\ told \in [Task -> Config \cup {NoConfig, "running", "stopped"}]
    /\ ran \in [Task -> {"no", "ok", "failed"}]
    /\ superseded \in [Task -> SUBSET Task]
BY DEF TypeOK, RowTyped, TaskRow, Request, MaybeConfig, MaybeTask

\* The same of the next state.
LEMMA TypePartsNext ==
  ASSUME RowTyped', task' \in [Task -> TaskRow], tstatus' \in [Task -> Status],
         handler' \in [Handler -> Request], up' \in BOOLEAN, file' \in MaybeConfig,
         answering' \in SUBSET Task, batch' \in SUBSET Task,
         unacked' \in SUBSET Task, late' \in SUBSET Task,
         told' \in [Task -> Config \cup {NoConfig, "running", "stopped"}],
         ran' \in [Task -> {"no", "ok", "failed"}], superseded' \in [Task -> SUBSET Task]
  PROVE  TypeOK'
BY DEF TypeOK, RowTyped, TaskRow, Request, MaybeConfig, MaybeTask

LEMMA IdleTyped == Idle \in Request /\ Idle.seen = NoTask /\ Idle.op = "none"
  /\ Idle.live = {} /\ Idle.cancel = {}
BY BoundAssumption DEF Idle, Request, MaybeConfig, MaybeTask, Runtime

\* A request that writes: it changes the table and the row, not the agent, and ends.
WritesStep ==
  /\ TableStep /\ RowTyped'
  /\ \A h \in Handler : handler'[h] = handler[h] \/ handler'[h] = Idle
  /\ handler' \in [Handler -> Request] /\ superseded' \in [Task -> SUBSET Task]
  /\ UNCHANGED <<nodeVars, agentVars>>

\* A request that reads.
ReadsStep ==
  /\ UNCHANGED <<rowVars, taskVars, nodeVars, agentVars, superseded>>
  /\ handler' \in [Handler -> Request]
  /\ \E h \in Handler :
       /\ \A g \in Handler : g # h => handler'[g] = handler[g]
       /\ handler'[h].seen # NoTask =>
            /\ tstatus[handler'[h].seen] = "pending"
            /\ task[handler'[h].seen].type = IF handler'[h].op = "update" THEN "apply" ELSE "stop"

LEMMA SameTable ==
  ASSUME TypeOK, Numbered, UNCHANGED taskVars PROVE TableStep
<1>1. Numbered'
  BY NumberedKept DEF taskVars
<1> QED BY <1>1, TypeParts DEF TableStep, taskVars

LEMMA Typed ==
  ASSUME TypeOK
  PROVE  /\ RowTyped /\ handler \in [Handler -> Request]
         /\ tstatus \in [Task -> Status] /\ task \in [Task -> TaskRow]
         /\ superseded \in [Task -> SUBSET Task]
BY TypeParts

\* The same where the request cancels nothing.
LEMMA WriteOnly ==
  ASSUME TypeOK, Numbered, NEW t, NEW p \in TaskRow, Fits(t, p.type), Write(t, p, tstatus)
  PROVE  /\ TableStep
         /\ \A u \in Task : u # t => task'[u] = task[u]
         /\ t \in Task => task'[t].inst = p.inst
<1>1. tstatus \in [Task -> Status]
  BY Typed
<1>2. \A u \in Task : tstatus[u] = tstatus[u] \/ (tstatus[u] = "pending" /\ tstatus[u] = "cancelled")
  OBVIOUS
<1> QED BY <1>1, <1>2, WriteStep

LEMMA Members ==
  /\ {"apply", "start", "stop", "status", "read", "delete"} \subseteq TaskType
  /\ NoTask \in MaybeTask /\ NoConfig \in MaybeConfig /\ Config \subseteq MaybeConfig
  /\ TRUE \in BOOLEAN /\ FALSE \in BOOLEAN
BY DEF TaskType, StateType, MaybeTask, MaybeConfig

LEMMA FoundType ==
  ASSUME TypeOK, NEW type, NEW st \in SUBSET Status
  PROVE  /\ Oldest(Find({type}, st)) \in MaybeTask
         /\ Oldest(Find({type}, st)) # NoTask =>
              /\ task[Oldest(Find({type}, st))].type = type
              /\ tstatus[Oldest(Find({type}, st))] \in st
<1> DEFINE S == Find({type}, st)
<1>1. S \in SUBSET Task
  BY DEF Find
<1>2. Oldest(S) \in MaybeTask /\ (S # {} => Oldest(S) \in S) /\ (S = {} => Oldest(S) = NoTask)
  BY <1>1, OldestIn
<1>3. \A t \in S : task[t].type = type /\ tstatus[t] \in st
  BY DEF Find
<1> QED BY <1>2, <1>3

LEMMA Released ==
  ASSUME NEW h \in Handler, handler \in [Handler -> Request], Release(h)
  PROVE  /\ handler' \in [Handler -> Request] /\ handler'[h] = Idle
         /\ \A g \in Handler : g # h => handler'[g] = handler[g]
BY IdleTyped DEF Release

LEMMA CreateManagedWrites ==
  ASSUME Inv, NEW c \in Config, CreateManaged(c)
  PROVE  WritesStep
<1> DEFINE seen == Oldest(Find({"apply"}, {"pending"}))
           p == Payload("apply", inst + 1, c, NoTask, TRUE)
<1>0. TypeOK /\ Numbered
  BY DEF Inv
<1>1. inst + 1 \in 0..MaxInstances
  BY <1>0, Typed, BoundAssumption DEF RowTyped, CreateManaged
<1>2. p \in TaskRow /\ p.type = "apply"
  BY <1>1, Members DEF Payload, TaskRow
<1>3. seen \in MaybeTask /\ (seen # NoTask => task[seen].type = "apply" /\ tstatus[seen] = "pending")
  BY <1>0, FoundType DEF Status
<1>4. Fits(Target(seen, "apply"), "apply")
  BY <1>0, <1>3, TargetFits DEF TaskType, StateType
<1>5. Write(Target(seen, "apply"), p, tstatus)
  BY DEF CreateManaged
<1> HIDE DEF p, seen
<1>6. TableStep
  BY <1>0, <1>2, <1>4, <1>5, WriteOnly
<1>7. RowTyped'
  BY <1>0, <1>1, Typed DEF CreateManaged, RowTyped, MaybeConfig, Runtime
<1> QED BY <1>0, <1>6, <1>7, Typed DEF CreateManaged, WritesStep

LEMMA RowWrites ==
  ASSUME Inv, NEW c, (c \in Config /\ (CreateManual(c) \/ Edit(c))) \/ PlanApply
  PROVE  WritesStep
<1>0. TypeOK /\ Numbered
  BY DEF Inv
<1>1. TableStep
  BY <1>0, SameTable DEF CreateManual, Edit, PlanApply
<1>2. UNCHANGED <<handler, nodeVars, agentVars, superseded>>
  BY DEF CreateManual, Edit, PlanApply
<1>3. RowTyped'
  <2>1. RowTyped
    BY <1>0, Typed
  <2>2. CASE c \in Config /\ CreateManual(c)
    BY <2>1, <2>2, BoundAssumption DEF CreateManual, RowTyped, MaybeConfig, Runtime
  <2>3. CASE c \in Config /\ Edit(c)
    BY <2>1, <2>3 DEF Edit, RowTyped, MaybeConfig
  <2>4. CASE PlanApply
    BY <2>1, <2>4 DEF PlanApply, RowTyped
  <2> QED BY <2>2, <2>3, <2>4
<1> QED BY <1>0, <1>1, <1>2, <1>3, Typed DEF WritesStep

LEMMA ConfirmPlanWrites ==
  ASSUME Inv, ConfirmPlan
  PROVE  WritesStep /\ \A u \in Task : tstatus[u] # "absent" => task'[u] = task[u]
<1> DEFINE p == Payload("apply", inst, plan, NoTask, FALSE)
<1>0. TypeOK /\ Numbered
  BY DEF Inv
<1>1. p \in TaskRow /\ p.type = "apply"
  <2>1. inst \in 0..MaxInstances /\ plan \in MaybeConfig
    BY <1>0, Typed DEF RowTyped
  <2> QED BY <2>1, Members DEF Payload, TaskRow
<1>2. Write(NextId, p, tstatus)
  BY DEF ConfirmPlan
<1> HIDE DEF p
<1>6. Fits(NextId, p.type)
  BY DEF Fits
<1>3. TableStep /\ \A u \in Task : u # NextId => task'[u] = task[u]
  BY <1>0, <1>1, <1>2, <1>6, WriteOnly
<1>5. \A u \in Task : tstatus[u] # "absent" => task'[u] = task[u]
  BY <1>0, <1>3, NextIsFree
<1>4. RowTyped'
  BY <1>0, Typed DEF ConfirmPlan, RowTyped, MaybeConfig
<1> QED BY <1>0, <1>3, <1>4, <1>5, Typed DEF ConfirmPlan, WritesStep

LEMMA RefreshWrites ==
  ASSUME Inv, NEW type \in Refreshes, Refresh(type)
  PROVE  WritesStep /\ \A u \in Task : tstatus[u] # "absent" => task'[u] = task[u]
<1> DEFINE p == Payload(type, inst, NoConfig, NoTask, TRUE)
<1>0. TypeOK /\ Numbered
  BY DEF Inv
<1>1. p \in TaskRow /\ p.type = type
  <2>1. inst \in 0..MaxInstances /\ type \in TaskType
    BY <1>0, Typed, RefreshAssumption, Members DEF RowTyped
  <2> QED BY <2>1, Members DEF Payload, TaskRow
<1>2. Write(NextId, p, tstatus)
  BY DEF Refresh
<1> HIDE DEF p
<1>6. Fits(NextId, p.type)
  BY DEF Fits
<1>3. TableStep /\ \A u \in Task : u # NextId => task'[u] = task[u]
  BY <1>0, <1>1, <1>2, <1>6, WriteOnly
<1>5. \A u \in Task : tstatus[u] # "absent" => task'[u] = task[u]
  BY <1>0, <1>3, NextIsFree
<1>4. RowTyped'
  BY <1>0, Typed DEF Refresh, RowTyped, rowVars
<1> QED BY <1>0, <1>3, <1>4, <1>5, Typed DEF Refresh, WritesStep

\* The session's column of the runtime status.
LEMMA AcceptTyped ==
  ASSUME runtime \in Runtime, NEW t, NEW was, NEW new \in Runtime, Accept(t, was, new)
  PROVE  runtime' \in Runtime /\ runtime' \in {runtime, new}
BY DEF Accept

LEMMA CancelledRows ==
  ASSUME TypeOK, NEW S \in SUBSET Task
  PROVE  /\ Cancelled(S) \in [Task -> Status]
         /\ \A u \in Task : \/ Cancelled(S)[u] = tstatus[u]
                            \/ tstatus[u] = "pending" /\ Cancelled(S)[u] = "cancelled"
         /\ \A u \in S : Cancelled(S)[u] # "pending"
BY Typed DEF Cancelled, Status

LEMMA UpdateCommitWrites ==
  ASSUME Inv, NEW h \in Handler, UpdateCommit(h)
  PROVE  /\ WritesStep
         /\ \A u \in Task : task'[u] # task[u] => task'[u].inst = handler[h].inst
<1> DEFINE r == handler[h]
           t == Target(r.seen, "apply")
           p == Payload("apply", r.inst, r.config, NoTask, TRUE)
<1>0. TypeOK /\ Numbered /\ SeenOK /\ r \in Request /\ r.op = "update"
  BY Typed DEF Inv, UpdateCommit
<1>1. r.seen \in MaybeTask /\ r.inst \in 0..MaxInstances /\ r.config \in MaybeConfig
  BY <1>0 DEF Request
<1>2. p \in TaskRow /\ p.type = "apply" /\ p.inst = r.inst
  BY <1>1, Members DEF Payload, TaskRow
<1>3. r.seen # NoTask => task[r.seen].type = "apply" /\ tstatus[r.seen] # "absent"
  BY <1>0 DEF SeenOK
<1>4. Fits(t, "apply")
  BY <1>0, <1>1, <1>3, Members, TargetFits
<1>5. Write(t, p, tstatus) /\ Accept(t, r.was, "starting") /\ Release(h)
  BY DEF UpdateCommit
<1>6. /\ UNCHANGED <<exists, kind, inst, deployed, plan, nodeVars, agentVars, superseded>>
      /\ desired' = r.config
  BY DEF UpdateCommit
<1> HIDE DEF p, t, r
<1>7. TableStep /\ \A u \in Task : task'[u] # task[u] => task'[u].inst = r.inst
  <2>1. /\ TableStep /\ \A u \in Task : u # t => task'[u] = task[u]
        /\ t \in Task => task'[t].inst = p.inst
    BY <1>0, <1>2, <1>4, <1>5, WriteOnly
  <2> QED BY <1>2, <2>1
<1>8. RowTyped'
  BY <1>0, <1>1, <1>5, <1>6, AcceptTyped, Typed DEF RowTyped, Runtime
<1> QED BY <1>0, <1>5, <1>6, <1>7, <1>8, Released, Typed DEF WritesStep, r

LEMMA StartCommitWrites ==
  ASSUME Inv, NEW h \in Handler, StartCommit(h)
  PROVE  /\ WritesStep
         /\ \A u \in Task : task'[u] # task[u] => task'[u].inst = handler[h].inst
<1> DEFINE r == handler[h]
           t == IF Refused("start") THEN NoTask ELSE NextId
           p == Payload("start", r.inst, NoConfig, NoTask, TRUE)
<1>0. TypeOK /\ Numbered /\ r \in Request
  BY Typed DEF Inv
<1>1. r.inst \in 0..MaxInstances
  BY <1>0 DEF Request
<1>2. p \in TaskRow /\ p.type = "start" /\ p.inst = r.inst
  BY <1>1, Members DEF Payload, TaskRow
<1>4. Fits(t, "start")
  BY BoundAssumption DEF Fits, NoTask, Task
<1>5. Write(t, p, tstatus) /\ Accept(t, r.was, "starting") /\ Release(h)
  BY DEF StartCommit
<1>6. UNCHANGED <<exists, kind, inst, desired, deployed, plan, nodeVars, agentVars, superseded>>
  BY DEF StartCommit
<1> HIDE DEF p, t, r
<1>7. TableStep /\ \A u \in Task : task'[u] # task[u] => task'[u].inst = r.inst
  <2>1. /\ TableStep /\ \A u \in Task : u # t => task'[u] = task[u]
        /\ t \in Task => task'[t].inst = p.inst
    BY <1>0, <1>2, <1>4, <1>5, WriteOnly
  <2> QED BY <1>2, <2>1
<1>8. RowTyped'
  BY <1>0, <1>5, <1>6, AcceptTyped, Typed DEF RowTyped, Runtime
<1> QED BY <1>0, <1>5, <1>6, <1>7, <1>8, Released, Typed DEF WritesStep, r

\* Every way that a stop ends.
LEMMA StopCommitsWrites ==
  ASSUME Inv, NEW h \in Handler, NEW s, NEW dep \in MaybeTask, NEW st \in [Task -> Status],
         \A u \in Task : st[u] = tstatus[u] \/ (tstatus[u] = "pending" /\ st[u] = "cancelled"),
         Fits(s, "stop"), StopCommits(h, s, dep, st)
  PROVE  /\ WritesStep
         /\ \A u \in Task : task'[u] # task[u] => task'[u].inst = handler[h].inst
         /\ \A u \in Task : tstatus'[u] = IF u = s /\ u = NextId THEN "pending" ELSE st[u]
         /\ superseded' \in [Task -> SUBSET Task]
<1> DEFINE r == handler[h]
           p == Payload("stop", r.inst, NoConfig, dep, TRUE)
<1>0. TypeOK /\ Numbered /\ r \in Request
  BY Typed DEF Inv
<1>1. r.inst \in 0..MaxInstances /\ r.live \in SUBSET Task
  BY <1>0 DEF Request
<1>2. p \in TaskRow /\ p.type = "stop" /\ p.inst = r.inst
  BY <1>1, Members DEF Payload, TaskRow
<1>5. Write(s, p, st) /\ Accept(s, r.was, "stopping") /\ Release(h)
  BY DEF StopCommits
<1>6. UNCHANGED <<exists, kind, inst, desired, deployed, plan, nodeVars, agentVars>>
  BY DEF StopCommits
<1>7. superseded' \in [Task -> SUBSET Task]
  BY <1>0, <1>1, TypeParts DEF StopCommits
<1> HIDE DEF p, r
<1>8. /\ TableStep /\ \A u \in Task : task'[u] # task[u] => task'[u].inst = r.inst
      /\ \A u \in Task : tstatus'[u] = IF u = s /\ u = NextId THEN "pending" ELSE st[u]
  <2>1. /\ TableStep
        /\ \A u \in Task : u # s => task'[u] = task[u] /\ tstatus'[u] = st[u]
        /\ s \in Task => task'[s].inst = p.inst
        /\ s \in Task => tstatus'[s] = IF s = NextId THEN "pending" ELSE st[s]
    BY <1>0, <1>2, <1>5, WriteStep
  <2> QED BY <1>2, <2>1
<1>9. RowTyped'
  BY <1>0, <1>5, <1>6, AcceptTyped, Typed DEF RowTyped, Runtime
<1> QED BY <1>0, <1>5, <1>6, <1>7, <1>8, <1>9, Released, Typed DEF WritesStep, r

\* What StopCancels passes on.
LEMMA StopCancelsCommits ==
  ASSUME Inv, NEW h \in Handler, StopCancels(h)
  PROVE  \E s, dep \in MaybeTask \cup {NextId} :
           /\ dep \in MaybeTask /\ Fits(s, "stop")
           /\ s \in Task /\ s # NextId => tstatus[s] = "pending"
           /\ StopCommits(h, s, dep, Cancelled(handler[h].cancel))
<1> DEFINE seen == Oldest(Find({"stop"}, {"pending"}))
           s == IF seen = NoTask /\ Find({"stop"}, {"running"}) # {} THEN NoTask ELSE Target(seen, "stop")
           dep == Newest(Find(Deployment, {"running"}))
<1>0. TypeOK /\ Numbered
  BY DEF Inv
<1>1. seen \in MaybeTask /\ (seen # NoTask => task[seen].type = "stop" /\ tstatus[seen] = "pending")
  BY <1>0, FoundType DEF Status
<1>2. /\ Fits(Target(seen, "stop"), "stop")
      /\ seen # NoTask => Target(seen, "stop") = seen
      /\ seen = NoTask /\ Target(seen, "stop") \in Task /\ Target(seen, "stop") # NextId
           => tstatus[Target(seen, "stop")] = "pending"
  BY <1>0, <1>1, Members, TargetFits
<1>3. dep \in MaybeTask
  BY NewestIn DEF Find
<1>4. StopCommits(h, s, dep, Cancelled(handler[h].cancel))
  BY DEF StopCancels
<1>5. NoTask \notin Task
  BY BoundAssumption DEF NoTask, Task
<1>6. s \in MaybeTask \cup {NextId}
  <2>1. Target(seen, "stop") \in MaybeTask \cup {NextId}
    <3>1. Oldest(Find({"stop"}, {"pending", "running"})) \in MaybeTask
      BY OldestIn DEF Find
    <3> QED BY <1>1, <3>1 DEF Target, MaybeTask
  <2> QED BY <2>1 DEF MaybeTask
<1> HIDE DEF seen, dep
<1>7. Fits(s, "stop") /\ (s \in Task /\ s # NextId => tstatus[s] = "pending")
  BY <1>1, <1>2, <1>5 DEF Fits
<1> QED BY <1>3, <1>4, <1>6, <1>7

\* What StopQueues passes on.
LEMMA StopQueuesCommits ==
  ASSUME Inv, NEW h \in Handler, StopQueues(h)
  PROVE  \E s :
           /\ Fits(s, "stop") /\ handler[h].dep \in MaybeTask
           /\ s \in Task /\ s # NextId => tstatus[s] = "pending" \/ s = handler[h].seen
           /\ StopCommits(h, s, handler[h].dep, tstatus)
<1> DEFINE r == handler[h]
           s == Target(r.seen, "stop")
<1>0. TypeOK /\ Numbered /\ SeenOK /\ r \in Request
  BY Typed DEF Inv
<1>1. r.seen \in MaybeTask /\ r.dep \in MaybeTask
  BY <1>0 DEF Request
<1>2. StopCommits(h, s, r.dep, tstatus) /\ r.op = "stop"
  BY DEF StopQueues, StopCommits
<1>3. r.seen # NoTask => task[r.seen].type = "stop" /\ tstatus[r.seen] # "absent"
  BY <1>0, <1>2 DEF SeenOK
<1> HIDE DEF r
<1>4. /\ Fits(s, "stop")
      /\ r.seen # NoTask => s = r.seen
      /\ r.seen = NoTask /\ s \in Task /\ s # NextId => tstatus[s] = "pending"
  BY <1>0, <1>1, <1>3, Members, TargetFits
<1> HIDE DEF s
<1> QED BY <1>1, <1>2, <1>4 DEF r

LEMMA DeleteCommitWrites ==
  ASSUME Inv, NEW h \in Handler, NEW keep \in BOOLEAN, DeleteCommit(h, keep)
  PROVE  WritesStep
<1> DEFINE r == handler[h]
           t == IF keep /\ Unsettled({"delete"}) = {} THEN NextId ELSE NoTask
           p == Payload("delete", r.inst, NoConfig, NoTask, TRUE)
           st == Cancelled(r.cancel)
<1>0. TypeOK /\ Numbered /\ r \in Request
  BY Typed DEF Inv
<1>1. r.inst \in 0..MaxInstances /\ r.cancel \in SUBSET Task
  BY <1>0 DEF Request
<1>2. p \in TaskRow /\ p.type = "delete"
  BY <1>1, Members DEF Payload, TaskRow
<1>3. /\ st \in [Task -> Status]
      /\ \A u \in Task : st[u] = tstatus[u] \/ (tstatus[u] = "pending" /\ st[u] = "cancelled")
  BY <1>0, <1>1, CancelledRows
<1>4. Fits(t, "delete")
  BY BoundAssumption DEF Fits, NoTask, Task
<1>5. Write(t, p, st) /\ Release(h) /\ UNCHANGED <<inst, nodeVars, agentVars, superseded>>
  BY DEF DeleteCommit
<1>6. RowTyped'
  BY <1>0, Typed DEF RowTyped, DeleteCommit, MaybeConfig, Runtime
<1> HIDE DEF p, t, r, st
<1>7. TableStep
  BY <1>0, <1>2, <1>3, <1>4, <1>5, WriteStep
<1> QED BY <1>0, <1>5, <1>6, <1>7, Released, Typed DEF WritesStep

LEMMA HandlerFailsWrites ==
  ASSUME Inv, NEW h \in Handler, HandlerFails(h)
  PROVE  WritesStep
<1>0. TypeOK /\ Numbered
  BY DEF Inv
<1>1. Release(h) /\ UNCHANGED <<rowVars, taskVars, nodeVars, agentVars, superseded>>
  BY DEF HandlerFails
<1>2. TableStep /\ RowTyped'
  BY <1>0, <1>1, SameTable, Typed DEF RowTyped, rowVars
<1> QED BY <1>0, <1>1, <1>2, Released, Typed DEF WritesStep

LEMMA BeginReads ==
  ASSUME Inv, NEW h \in Handler, NEW op \in {"update", "start", "stop", "delete"},
         NEW read \in Request, Begin(h, op, read),
         read.seen # NoTask => /\ tstatus[read.seen] = "pending"
                               /\ task[read.seen].type = IF op = "update" THEN "apply" ELSE "stop"
  PROVE  /\ ReadsStep
         /\ \A g \in Handler : g # h => handler'[g] = handler[g]
         /\ handler'[h] = [read EXCEPT !.op = op, !.inst = inst, !.was = runtime]
<1> DEFINE r == [read EXCEPT !.op = op, !.inst = inst, !.was = runtime]
<1>0. handler \in [Handler -> Request] /\ inst \in 0..MaxInstances /\ runtime \in Runtime
  BY Typed DEF Inv, RowTyped
<1>1. r \in Request /\ r.seen = read.seen /\ r.op = op
  BY <1>0 DEF Request
<1>2. handler' = [handler EXCEPT ![h] = r]
  BY DEF Begin
<1>3. UNCHANGED <<rowVars, taskVars, nodeVars, agentVars, superseded>>
  BY DEF Begin
<1> HIDE DEF r
<1>4. handler' \in [Handler -> Request] /\ handler'[h] = r /\ \A g \in Handler : g # h => handler'[g] = handler[g]
  BY <1>0, <1>1, <1>2
<1>5. r.seen # NoTask => /\ tstatus[r.seen] = "pending"
                         /\ task[r.seen].type = IF r.op = "update" THEN "apply" ELSE "stop"
  BY <1>1
<1>6. ReadsStep
  BY <1>3, <1>4, <1>5 DEF ReadsStep
<1> QED BY <1>4, <1>6 DEF r

LEMMA UpdateBeginReads ==
  ASSUME Inv, NEW h \in Handler, NEW c \in Config, UpdateBegin(h, c)
  PROVE  /\ ReadsStep /\ \A g \in Handler : g # h => handler'[g] = handler[g]
         /\ handler'[h].inst = inst /\ handler'[h].op = "update" /\ handler'[h].live = {}
<1> DEFINE seen == Oldest(Find({"apply"}, {"pending"}))
           read == [Idle EXCEPT !.config = c, !.seen = seen]
<1>0. TypeOK
  BY DEF Inv
<1>1. seen \in MaybeTask /\ (seen # NoTask => task[seen].type = "apply" /\ tstatus[seen] = "pending")
  BY <1>0, FoundType DEF Status
<1>2. Begin(h, "update", read)
  BY DEF UpdateBegin
<1> HIDE DEF seen
<1>3. read \in Request /\ read.seen = seen /\ read.live = {}
  BY <1>1, IdleTyped, Members DEF Request
<1> HIDE DEF read
<1>4. /\ ReadsStep /\ \A g \in Handler : g # h => handler'[g] = handler[g]
      /\ handler'[h] = [read EXCEPT !.op = "update", !.inst = inst, !.was = runtime]
  BY <1>1, <1>2, <1>3, BeginReads
<1> QED BY <1>3, <1>4 DEF Request

LEMMA StartDeleteReads ==
  ASSUME Inv, NEW h \in Handler, StartBegin(h) \/ DeleteBegin(h)
  PROVE  /\ ReadsStep /\ \A g \in Handler : g # h => handler'[g] = handler[g]
         /\ handler'[h].inst = inst /\ handler'[h].op \in {"start", "delete"} /\ handler'[h].live = {}
<1>1. CASE StartBegin(h)
  <2>1. Begin(h, "start", Idle)
    BY <1>1 DEF StartBegin
  <2>2. /\ ReadsStep /\ \A g \in Handler : g # h => handler'[g] = handler[g]
        /\ handler'[h] = [Idle EXCEPT !.op = "start", !.inst = inst, !.was = runtime]
    BY <2>1, IdleTyped, BeginReads
  <2> QED BY <2>2, IdleTyped DEF Request
<1>2. CASE DeleteBegin(h)
  <2> DEFINE C == Find(Deployment, {"pending"})
             read == [Idle EXCEPT !.cancel = C]
  <2>1. Begin(h, "delete", read)
    BY <1>2 DEF DeleteBegin
  <2>2. C \in SUBSET Task
    BY DEF Find
  <2> HIDE DEF C
  <2>3. read \in Request /\ read.seen = NoTask /\ read.live = {}
    BY <2>2, IdleTyped DEF Request
  <2> HIDE DEF read
  <2>4. /\ ReadsStep /\ \A g \in Handler : g # h => handler'[g] = handler[g]
        /\ handler'[h] = [read EXCEPT !.op = "delete", !.inst = inst, !.was = runtime]
    BY <2>1, <2>3, BeginReads
  <2> QED BY <2>3, <2>4 DEF Request
<1> QED BY <1>1, <1>2

LEMMA StopBeginReads ==
  ASSUME Inv, NEW h \in Handler, StopBegin(h)
  PROVE  /\ ReadsStep /\ \A g \in Handler : g # h => handler'[g] = handler[g]
         /\ handler'[h].inst = inst /\ handler'[h].op = "stop"
         /\ handler'[h].cancel = Find(Deployment, {"pending"})
         /\ handler'[h].live = Unsettled(Deployment)
         /\ handler'[h].seen # NoTask => tstatus[handler'[h].seen] = "pending"
<1> DEFINE seen == Oldest(Find({"stop"}, {"pending"}))
           C == Find(Deployment, {"pending"})
           L == Unsettled(Deployment)
           d == Newest(Find(Deployment, {"running"}))
           read == [Idle EXCEPT !.cancel = C, !.live = L, !.dep = d, !.seen = seen]
<1>0. TypeOK
  BY DEF Inv
<1>1. seen \in MaybeTask /\ (seen # NoTask => task[seen].type = "stop" /\ tstatus[seen] = "pending")
  BY <1>0, FoundType DEF Status
<1>2. Begin(h, "stop", read)
  BY DEF StopBegin
<1>3. C \in SUBSET Task /\ L \in SUBSET Task /\ d \in MaybeTask
  BY NewestIn DEF Find, Unsettled
<1> HIDE DEF seen, C, L, d
<1>4. read \in Request /\ read.seen = seen /\ read.cancel = C /\ read.live = L
  BY <1>1, <1>3, IdleTyped DEF Request
<1> HIDE DEF read
<1>5. /\ ReadsStep /\ \A g \in Handler : g # h => handler'[g] = handler[g]
      /\ handler'[h] = [read EXCEPT !.op = "stop", !.inst = inst, !.was = runtime]
  BY <1>1, <1>2, <1>4, BeginReads
<1>6. handler'[h].seen = seen /\ handler'[h].inst = inst /\ handler'[h].op = "stop"
      /\ handler'[h].cancel = C /\ handler'[h].live = L
  BY <1>4, <1>5 DEF Request
<1> QED BY <1>1, <1>5, <1>6 DEF C, L

\* The requests that have just read, and the others.
LEMMA AdministratorCases ==
  ASSUME Inv, Administrator
  PROVE  \/ WritesStep
         \/ \E h \in Handler : \/ \E c \in Config : UpdateBegin(h, c)
                               \/ StartBegin(h) \/ DeleteBegin(h) \/ StopBegin(h)
<1>1. ASSUME NEW h \in Handler, StopCancels(h) \/ StopQueues(h) PROVE WritesStep
  <2>0. TypeOK /\ handler[h].cancel \in SUBSET Task
    BY Typed DEF Inv, Request
  <2>1. CASE StopCancels(h)
    <3>1. PICK s, dep \in MaybeTask \cup {NextId} :
            /\ dep \in MaybeTask /\ Fits(s, "stop")
            /\ StopCommits(h, s, dep, Cancelled(handler[h].cancel))
      BY <2>1, StopCancelsCommits
    <3> QED BY <2>0, <3>1, CancelledRows, StopCommitsWrites
  <2>2. CASE StopQueues(h)
    <3>1. PICK s : /\ Fits(s, "stop") /\ handler[h].dep \in MaybeTask
                   /\ StopCommits(h, s, handler[h].dep, tstatus)
      BY <2>2, StopQueuesCommits
    <3> QED BY <2>0, <3>1, StopCommitsWrites, Typed
  <2> QED BY <1>1, <2>1, <2>2
<1> QED
  BY <1>1, CreateManagedWrites, RowWrites, ConfirmPlanWrites, RefreshWrites, UpdateCommitWrites,
     StartCommitWrites, DeleteCommitWrites, HandlerFailsWrites DEF Administrator

\* A request reads or writes.
LEMMA AdministratorSteps ==
  ASSUME Inv, Administrator
  PROVE  ReadsStep \/ WritesStep
BY AdministratorCases, UpdateBeginReads, StartDeleteReads, StopBeginReads

-----------------------------------------------------------------------------
(* The invariant.                                                          *)

LEMMA InitInv == Init => Inv
<1> SUFFICES ASSUME Init PROVE Inv
  OBVIOUS
<1>1. RowTyped
  <2>1. exists \in BOOLEAN
    BY DEF Init
  <2>2. inst \in 0..MaxInstances
    BY BoundAssumption DEF Init
  <2> QED BY <2>1, <2>2 DEF Init, RowTyped, MaybeConfig, Runtime
<1>2. task \in [Task -> TaskRow]
  BY Members, BoundAssumption DEF Init, TaskRow
<1>3. TypeOK
  BY <1>1, <1>2, TypeParts, IdleTyped DEF Init, MaybeConfig, Status
<1>4. Numbered
  <2>1. {t \in Task : tstatus[t] # "absent"} = 1..0
    BY DEF Init
  <2> QED BY <2>1 DEF Numbered
<1>5. Once /\ SeenOK /\ ToldOK
  BY IdleTyped DEF Init, Once, SeenOK, ToldOK, MaybeConfig
<1> QED BY <1>3, <1>4, <1>5 DEF Inv

LEMMA ReadsInv ==
  ASSUME Inv, ReadsStep PROVE Inv'
<1>0. TypeOK /\ Numbered /\ Once /\ SeenOK /\ ToldOK
  BY DEF Inv
<1>1. UNCHANGED <<rowVars, taskVars, nodeVars, agentVars, superseded>> /\ handler' \in [Handler -> Request]
  BY DEF ReadsStep
<1>2. TypeOK'
  BY <1>0, <1>1, TypeParts, TypePartsNext DEF RowTyped, rowVars, taskVars, nodeVars, agentVars
<1>3. Numbered' /\ Once' /\ ToldOK'
  BY <1>0, <1>1 DEF Numbered, Once, ToldOK, taskVars, agentVars
<1>4. SeenOK'
  <2> SUFFICES ASSUME NEW g \in Handler, handler'[g].seen # NoTask
               PROVE  /\ tstatus[handler'[g].seen] # "absent"
                      /\ task[handler'[g].seen].type = IF handler'[g].op = "update" THEN "apply" ELSE "stop"
    BY <1>1 DEF SeenOK, taskVars
  <2> QED BY <1>0 DEF ReadsStep, SeenOK
<1> QED BY <1>2, <1>3, <1>4 DEF Inv

LEMMA WritesInv ==
  ASSUME Inv, WritesStep PROVE Inv'
<1>0. TypeOK /\ Numbered /\ Once /\ SeenOK /\ ToldOK
  BY DEF Inv
<1>1. TableStep /\ UNCHANGED <<nodeVars, agentVars>>
  BY DEF WritesStep
<1>2. TypeOK'
  BY <1>0, <1>1, TypeParts, TypePartsNext DEF WritesStep, TableStep, nodeVars, agentVars
<1>3. \A u \in Task : /\ tstatus[u] \in Claimed => tstatus'[u] = tstatus[u]
                      /\ tstatus[u] # "absent" => tstatus'[u] # "absent" /\ task'[u].type = task[u].type
  BY <1>1 DEF TableStep, Claimed
<1>4. Once'
  BY <1>0, <1>1, <1>3, TypeParts DEF Once, agentVars
<1>5. SeenOK'
  <2> SUFFICES ASSUME NEW g \in Handler, handler'[g].seen # NoTask
               PROVE  /\ tstatus'[handler'[g].seen] # "absent"
                      /\ task'[handler'[g].seen].type = IF handler'[g].op = "update" THEN "apply" ELSE "stop"
    BY DEF SeenOK
  <2>1. handler'[g] = handler[g]
    BY IdleTyped DEF WritesStep
  <2>2. handler[g].seen \in Task
    BY <1>0, <2>1, TypeParts DEF Request, MaybeTask
  <2> QED BY <1>0, <1>3, <2>1, <2>2 DEF SeenOK
<1>6. ToldOK'
  <2> SUFFICES ASSUME NEW u \in Task
               PROVE  /\ ran[u] = "no" \/ task'[u].type = "read" => told[u] \in MaybeConfig
                      /\ ran[u] # "no" /\ task'[u].type = "status" => told[u] \in {"running", "stopped"}
    BY <1>1 DEF ToldOK, agentVars
  <2>1. CASE ran[u] = "no"
    BY <1>0, <2>1 DEF ToldOK
  <2>2. CASE ran[u] # "no"
    <3>1. task'[u].type = task[u].type
      BY <1>0, <1>3, <2>2 DEF Once, Claimed
    <3> QED BY <1>0, <2>2, <3>1 DEF ToldOK
  <2> QED BY <2>1, <2>2
<1>7. Numbered'
  BY <1>1 DEF TableStep
<1> QED BY <1>2, <1>4, <1>5, <1>6, <1>7 DEF Inv

\* What the delivery of tasks and reports does to the table.
StatusStep ==
  /\ UNCHANGED <<task, handler, superseded>> /\ tstatus' \in [Task -> Status]
  /\ \A u \in Task : \/ tstatus'[u] = tstatus[u]
                     \/ tstatus[u] = "pending" /\ tstatus'[u] = "running"
                     \/ tstatus[u] = "running" /\ tstatus'[u] \in Claimed

LEMMA StatusKeeps ==
  ASSUME Inv, StatusStep
  PROVE  /\ Numbered' /\ SeenOK'
         /\ \A u \in Task : tstatus[u] \in Claimed => tstatus'[u] \in Claimed
<1>0. TypeOK /\ Numbered /\ Once /\ SeenOK
  BY DEF Inv
<1>1. \A u \in Task : tstatus'[u] # "absent" <=> tstatus[u] # "absent"
  BY DEF StatusStep, Claimed
<1>2. \A u \in Task : tstatus[u] \in Claimed => tstatus'[u] \in Claimed
  BY DEF StatusStep, Claimed
<1>3. Numbered'
  BY <1>0, <1>1, NumberedKept
<1>4. SeenOK'
  BY <1>0, <1>1, TypeParts DEF SeenOK, StatusStep, Request, MaybeTask
<1> QED BY <1>2, <1>3, <1>4

LEMMA PollClaimInv ==
  ASSUME Inv, PollClaim PROVE Inv' /\ StatusStep
<1>0. TypeOK /\ Numbered /\ Once /\ SeenOK /\ ToldOK
  BY DEF Inv
<1>1. Claimable \subseteq {t \in Task : tstatus[t] = "pending"}
  BY DEF Claimable, Ready
<1>2. /\ answering' = Claimable /\ batch = {}
      /\ tstatus' = [t \in Task |-> IF t \in Claimable THEN "running" ELSE tstatus[t]]
      /\ UNCHANGED <<rowVars, task, handler, nodeVars, batch, told, ran, unacked, late, superseded>>
  BY DEF PollClaim
<1> HIDE DEF Claimable
<1>3. StatusStep
  BY <1>0, <1>1, <1>2, TypeParts DEF StatusStep, Status
<1>4. Numbered' /\ SeenOK' /\ \A u \in Task : tstatus[u] \in Claimed => tstatus'[u] \in Claimed
  BY <1>3, StatusKeeps
<1>5. TypeOK'
  BY <1>0, <1>1, <1>2, <1>3, TypeParts, TypePartsNext DEF RowTyped, rowVars, nodeVars, StatusStep
<1>6. \A t \in Claimable : ran[t] = "no" /\ tstatus'[t] = "running"
  BY <1>0, <1>1, <1>2 DEF Once, Claimed
<1>7. Once'
  BY <1>0, <1>2, <1>4, <1>6 DEF Once, Claimed
<1>8. ToldOK'
  BY <1>0, <1>2 DEF ToldOK
<1> QED BY <1>3, <1>4, <1>5, <1>7, <1>8 DEF Inv

LEMMA PollAnswerInv ==
  ASSUME Inv, PollAnswer PROVE Inv' /\ StatusStep
<1>0. TypeOK /\ Numbered /\ Once /\ SeenOK /\ ToldOK
  BY DEF Inv
<1>1. /\ answering # {} /\ answering' = {}
      /\ \/ batch' = answering /\ told' = [t \in Task |-> IF t \in answering THEN task[t].config ELSE told[t]]
         \/ UNCHANGED <<batch, told>>
      /\ UNCHANGED <<rowVars, task, tstatus, handler, nodeVars, ran, unacked, late, superseded>>
  BY DEF PollAnswer, taskVars
<1>2. StatusStep
  BY <1>0, <1>1, TypeParts DEF StatusStep
<1>3. Numbered' /\ SeenOK'
  BY <1>2, StatusKeeps
<1>4. \A t \in Task : task[t].config \in MaybeConfig
  BY <1>0, TypeParts DEF TaskRow
<1>5. TypeOK'
  BY <1>0, <1>1, <1>4, TypeParts, TypePartsNext DEF RowTyped, rowVars, nodeVars, MaybeConfig
<1>6. Once'
  BY <1>0, <1>1 DEF Once
<1>7. ToldOK'
  BY <1>0, <1>1, <1>4, TypeParts DEF ToldOK, Once
<1> QED BY <1>2, <1>3, <1>5, <1>6, <1>7 DEF Inv

LEMMA ExpireRestartInv ==
  ASSUME Inv, AgentRestart \/ \E t \in Task : Expire(t)
  PROVE  Inv' /\ StatusStep
<1>0. TypeOK /\ Numbered /\ Once /\ SeenOK /\ ToldOK
  BY DEF Inv
<1>1. UNCHANGED <<rowVars, task, handler, nodeVars, told, ran, superseded>>
  BY DEF AgentRestart, Expire, taskVars, agentVars
<1>2. answering' \subseteq answering /\ batch' \subseteq batch
  BY DEF AgentRestart, Expire, agentVars
<1>3. StatusStep
  BY <1>0, <1>1, TypeParts DEF StatusStep, AgentRestart, Expire, taskVars, Status, Claimed
<1>4. Numbered' /\ SeenOK' /\ \A u \in Task : tstatus[u] \in Claimed => tstatus'[u] \in Claimed
  BY <1>3, StatusKeeps
<1>5. TypeOK'
  <2>1. unacked' \in SUBSET Task /\ late' \in SUBSET Task
    BY <1>0, TypeParts DEF AgentRestart, Expire, agentVars
  <2> QED BY <1>0, <1>1, <1>2, <1>3, <2>1, TypeParts, TypePartsNext DEF RowTyped, rowVars,
             nodeVars, StatusStep
<1>6. Once'
  BY <1>0, <1>1, <1>2, <1>4, TypeParts DEF Once
<1>7. ToldOK'
  BY <1>0, <1>1 DEF ToldOK
<1> QED BY <1>3, <1>4, <1>5, <1>6, <1>7 DEF Inv

LEMMA ExecuteInv ==
  ASSUME Inv, NEW t \in Task, Execute(t) PROVE Inv' /\ StatusStep
<1>0. TypeOK /\ Numbered /\ Once /\ SeenOK /\ ToldOK
  BY DEF Inv
<1>1. /\ t \in batch /\ batch' = batch \ {t} /\ unacked' = unacked \cup {t}
      /\ told' = [told EXCEPT ![t] = Found(t)]
      /\ UNCHANGED <<rowVars, task, tstatus, handler, answering, late, superseded>>
  BY DEF Execute, taskVars
<1>2. \E o \in {"ok", "failed"} : ran' = [ran EXCEPT ![t] = o]
  BY DEF Execute
<1>3. ran[t] = "no" /\ told[t] \in MaybeConfig /\ tstatus[t] \in Claimed /\ answering = {}
  BY <1>0, <1>1 DEF Once, ToldOK
<1>4. StatusStep
  BY <1>0, <1>1, TypeParts DEF StatusStep
<1>5. Numbered' /\ SeenOK'
  BY <1>4, StatusKeeps
<1>6. up' \in BOOLEAN /\ file' \in MaybeConfig
  <2>0. up \in BOOLEAN /\ file \in MaybeConfig /\ (Succeeds(t) \/ Fails(t))
    BY <1>0, TypeParts DEF Execute
  <2>1. up' \in BOOLEAN
    BY <2>0 DEF Succeeds, Fails, nodeVars
  <2>2. file' \in MaybeConfig
    <3>1. file' \in {file, told[t], NoConfig}
      BY <2>0 DEF Succeeds, Fails, nodeVars
    <3> QED BY <1>3, <2>0, <3>1, Members
  <2> QED BY <2>1, <2>2
<1>7. /\ task[t].type = "status" => Found(t) \in {"running", "stopped"}
      /\ task[t].type # "status" => Found(t) \in MaybeConfig
  BY <1>0, <1>3, TypeParts DEF Found
<1>8. TypeOK'
  BY <1>0, <1>1, <1>2, <1>6, <1>7, TypeParts, TypePartsNext DEF RowTyped, rowVars, MaybeConfig
<1>9. Once'
  BY <1>0, <1>1, <1>2, <1>3, TypeParts DEF Once
<1>10. ToldOK'
  BY <1>0, <1>1, <1>2, <1>7, TypeParts DEF ToldOK
<1> QED BY <1>4, <1>5, <1>8, <1>9, <1>10 DEF Inv

LEMMA HandleInv ==
  ASSUME Inv, NEW t \in Task, Report(t) \/ LateReport(t)
  PROVE  Inv' /\ StatusStep
<1>0. TypeOK /\ Numbered /\ Once /\ SeenOK /\ ToldOK
  BY DEF Inv
<1>1. Handle(t) /\ unacked' \subseteq unacked /\ late' \subseteq late
  BY DEF Report, LateReport
<1>2. UNCHANGED <<exists, kind, inst, desired, plan, task, handler, nodeVars, answering, batch, told,
                  ran, superseded>>
  BY <1>1 DEF Handle
<1>3. StatusStep
  BY <1>0, <1>1, <1>2, TypeParts DEF StatusStep, Handle, Status, Claimed
<1>4. Numbered' /\ SeenOK' /\ \A u \in Task : tstatus[u] \in Claimed => tstatus'[u] \in Claimed
  BY <1>3, StatusKeeps
<1>5. deployed' \in MaybeConfig /\ runtime' \in Runtime
  <2>1. deployed \in MaybeConfig /\ runtime \in Runtime /\ task[t].config \in MaybeConfig
    BY <1>0, TypeParts DEF RowTyped, TaskRow
  <2>2. CASE UNCHANGED <<deployed, runtime>>
    BY <2>1, <2>2
  <2>3. CASE ran[t] = "ok" /\ Effects(t)
    BY <1>0, <2>1, <2>3 DEF Effects, ToldOK, Runtime
  <2> QED BY <1>1, <2>2, <2>3 DEF Handle, Effects
<1>6. TypeOK'
  BY <1>0, <1>1, <1>2, <1>3, <1>5, TypeParts, TypePartsNext DEF RowTyped, nodeVars, StatusStep
<1>7. Once'
  BY <1>0, <1>2, <1>4, TypeParts DEF Once
<1>8. ToldOK'
  BY <1>0, <1>2 DEF ToldOK
<1> QED BY <1>3, <1>4, <1>6, <1>7, <1>8 DEF Inv

LEMMA DeliverySteps ==
  ASSUME Inv, Delivery PROVE Inv' /\ StatusStep
BY PollClaimInv, PollAnswerInv, ExpireRestartInv, ExecuteInv, HandleInv DEF Delivery

LEMMA StutterInv ==
  ASSUME Inv, UNCHANGED vars PROVE Inv'
<1>1. UNCHANGED <<rowVars, taskVars, handler, nodeVars, agentVars, superseded>>
  BY DEF vars
<1>2. TypeOK'
  BY <1>1, TypeParts, TypePartsNext DEF Inv, RowTyped, rowVars, taskVars, nodeVars, agentVars
<1>3. Numbered' /\ Once' /\ SeenOK' /\ ToldOK'
  BY <1>1 DEF Inv, Numbered, Once, SeenOK, ToldOK, taskVars, agentVars
<1> QED BY <1>2, <1>3 DEF Inv

LEMMA NextInv ==
  ASSUME Inv, [Next]_vars PROVE Inv'
BY AdministratorSteps, ReadsInv, WritesInv, DeliverySteps, StutterInv DEF Next

LEMMA SpecInv == Spec => []Inv
<1>1. Inv /\ [Next]_vars => Inv'
  BY NextInv
<1> QED BY <1>1, InitInv, PTL DEF Spec

\* The state of the configuration, of its tasks, requests and node is what the model
\* says it is (the columns of wg_interfaces and agent_tasks that main.py writes).
THEOREM InterfaceTypeCorrect == Spec => []TypeOK
<1>1. Inv => TypeOK
  BY DEF Inv
<1> QED BY <1>1, SpecInv, PTL

-----------------------------------------------------------------------------
(* Late results.                                                           *)

\* A report settles one task.
LEMMA HandleOne ==
  ASSUME Inv, NEW t \in Task, Report(t) \/ LateReport(t), NEW u \in Task, tstatus'[u] # tstatus[u]
  PROVE  u = t /\ tstatus[t] = "running" /\ Effects(t)
         /\ (tstatus'[t] = "succeeded" => ran[t] = "ok")
         /\ (ran[t] = "ok" => tstatus'[t] = "succeeded")
<1>1. Handle(t) /\ tstatus \in [Task -> Status]
  BY Typed DEF Inv, Report, LateReport
<1> QED BY <1>1 DEF Handle

\* No step but the handling of its report makes a running task succeed.
LEMMA OnlyReportsSucceed ==
  ASSUME Inv, [Next]_vars, NEW t \in Task, tstatus[t] # "succeeded", tstatus'[t] = "succeeded"
  PROVE  Report(t) \/ LateReport(t)
<1>0. TypeOK
  BY DEF Inv
<1>1. CASE Administrator
  <2>1. ReadsStep \/ WritesStep
    BY <1>1, AdministratorSteps
  <2> QED BY <2>1 DEF ReadsStep, WritesStep, TableStep, taskVars
<1>2. CASE PollClaim
  BY <1>0, <1>2, TypeParts DEF PollClaim
<1>3. CASE PollAnswer \/ AgentRestart \/ \E u \in Task : Execute(u)
  BY <1>3 DEF PollAnswer, AgentRestart, Execute, taskVars
<1>4. CASE \E u \in Task : Expire(u)
  BY <1>0, <1>4, TypeParts DEF Expire
<1>5. CASE \E u \in Task : Report(u) \/ LateReport(u)
  BY <1>5, HandleOne
<1>6. CASE UNCHANGED vars
  BY <1>6 DEF vars, taskVars
<1> QED BY <1>1, <1>2, <1>3, <1>4, <1>5, <1>6 DEF Next, Delivery

\* The result of a status query that was asked for before a state change is not shown
\* once that change has been carried out, however late the report (agent_task_result and
\* has_newer_interface_state_task, main.py): what was executed has been claimed, so that
\* the query's handler finds it.
THEOREM LateStatusIsAlwaysIgnored == Spec => LateStatusIsIgnored
<1> DEFINE A == \A t, u \in Task :
                  /\ task[t].type = "status" /\ tstatus[t] = "running" /\ tstatus'[t] = "succeeded"
                  /\ u > t /\ task[u].type \in StateType /\ ran[u] # "no"
                  => runtime' = runtime
<1>1. ASSUME Inv, [Next]_vars PROVE A
  <2> SUFFICES ASSUME NEW t \in Task, NEW u \in Task, task[t].type = "status",
                      tstatus[t] = "running", tstatus'[t] = "succeeded",
                      u > t, task[u].type \in StateType, ran[u] # "no"
               PROVE  runtime' = runtime
    OBVIOUS
  <2>1. Report(t) \/ LateReport(t)
    BY <1>1, OnlyReportsSucceed
  <2>2. Effects(t)
    BY <1>1, <2>1, HandleOne
  <2>3. tstatus[u] \in Claimed
    BY <1>1 DEF Inv, Once
  <2>4. HasNewerStateTask(t)
    BY <2>3 DEF HasNewerStateTask, Claimed
  <2> QED BY <2>2, <2>4 DEF Effects, Deployment
<1>2. Inv /\ [Next]_vars => [A]_vars
  BY <1>1
<1> HIDE DEF A
<1>3. Spec => [][A]_vars
  BY <1>2, SpecInv, PTL DEF Spec
<1> QED BY <1>3 DEF A, LateStatusIsIgnored

-----------------------------------------------------------------------------
(* Stops.                                                                  *)

\* Nothing will be done of task t once task s has been claimed: t has been claimed or
\* withdrawn, and when s is claimed the agent has nothing left of an earlier poll.
Safe(s, t) ==
  /\ tstatus[t] \notin {"absent", "pending"}
  /\ tstatus[s] \in Claimed => t \notin answering \cup batch

SafeAfter(s, t) ==
  /\ tstatus'[t] \notin {"absent", "pending"}
  /\ tstatus'[s] \in Claimed => t \notin answering' \cup batch'

\* A stop under way: what it cancels, and what it has found running; a pending stop that
\* it reuses without looking again may have been carried out by now.
LiveOK ==
  \A h \in Handler :
    /\ \A t \in handler[h].live : tstatus[t] # "absent"
    /\ \A t \in handler[h].live \ handler[h].cancel : tstatus[t] # "pending"
    /\ handler[h].op = "stop" /\ handler[h].cancel = {} /\ handler[h].seen # NoTask =>
         \A t \in handler[h].live : Safe(handler[h].seen, t)

SupersededOK == \A s \in Task : \A t \in superseded[s] : Safe(s, t)

StopInv == Inv /\ LiveOK /\ SupersededOK

\* What makes a pair safe is not undone.
LEMMA SafeStays ==
  ASSUME Inv, [Next]_vars, NEW s \in Task, NEW t \in Task, Safe(s, t)
  PROVE  SafeAfter(s, t)
<1>0. TypeOK /\ Once
  BY DEF Inv
<1>1. CASE ReadsStep \/ WritesStep
  BY <1>1 DEF ReadsStep, WritesStep, TableStep, Safe, SafeAfter, Claimed, taskVars, agentVars
<1>2. CASE PollClaim
  <2>1. t \notin Claimable
    BY DEF Safe, Claimable, Ready
  <2>2. answering' = Claimable /\ batch' = batch /\ batch = {} /\ answering = {}
    BY <1>2 DEF PollClaim
  <2>3. tstatus'[t] = tstatus[t]
    BY <1>2, <2>1 DEF PollClaim
  <2> QED BY <2>1, <2>2, <2>3 DEF Safe, SafeAfter
<1>3. CASE PollAnswer \/ AgentRestart \/ (\E u \in Task : Execute(u))
  <2>1. tstatus' = tstatus /\ answering' \cup batch' \subseteq answering \cup batch
    BY <1>3 DEF PollAnswer, AgentRestart, Execute, taskVars
  <2> QED BY <2>1 DEF Safe, SafeAfter
<1>4. CASE \E u \in Task : Expire(u) \/ Report(u) \/ LateReport(u)
  <2>1. /\ answering' = answering /\ batch' = batch
        /\ \A u \in Task : tstatus'[u] # tstatus[u] =>
             tstatus[u] = "running" /\ tstatus'[u] \in Claimed
    BY <1>0, <1>4, TypeParts DEF Expire, Report, LateReport, Handle, agentVars, Claimed
  <2> QED BY <2>1 DEF Safe, SafeAfter, Claimed
<1>5. CASE UNCHANGED vars
  BY <1>5 DEF vars, taskVars, agentVars, Safe, SafeAfter
<1> QED BY <1>1, <1>2, <1>3, <1>4, <1>5, AdministratorSteps DEF Next, Delivery

\* A status that is neither absent nor pending stays so.
LEMMA StatusStays ==
  ASSUME Inv, [Next]_vars, NEW t \in Task
  PROVE  /\ tstatus[t] # "absent" => tstatus'[t] # "absent"
         /\ tstatus[t] \notin {"absent", "pending"} => tstatus'[t] \notin {"absent", "pending"}
<1>1. CASE ReadsStep \/ WritesStep
  BY <1>1 DEF ReadsStep, WritesStep, TableStep, taskVars
<1>2. CASE StatusStep
  BY <1>2 DEF StatusStep, Claimed
<1>3. CASE UNCHANGED vars
  BY <1>3 DEF vars, taskVars
<1> QED BY <1>1, <1>2, <1>3, AdministratorSteps, DeliverySteps DEF Next

\* A request that goes on, or ends.
LEMMA LiveStays ==
  ASSUME StopInv, [Next]_vars, NEW h \in Handler, handler'[h] = handler[h] \/ handler'[h] = Idle
  PROVE  /\ \A t \in handler'[h].live : tstatus'[t] # "absent"
         /\ \A t \in handler'[h].live \ handler'[h].cancel : tstatus'[t] # "pending"
         /\ handler'[h].op = "stop" /\ handler'[h].cancel = {} /\ handler'[h].seen # NoTask =>
              \A t \in handler'[h].live : SafeAfter(handler'[h].seen, t)
<1>0. Inv /\ LiveOK /\ TypeOK
  BY DEF StopInv, Inv
<1>1. CASE handler'[h] = Idle
  BY <1>1, IdleTyped
<1>2. CASE handler'[h] = handler[h]
  <2> DEFINE r == handler[h]
  <2>1. r.live \subseteq Task /\ r.seen \in MaybeTask
    BY <1>0, Typed DEF Request
  <2>2. \A t \in r.live : tstatus'[t] # "absent"
    BY <1>0, <2>1, StatusStays DEF LiveOK
  <2>3. \A t \in r.live \ r.cancel : tstatus'[t] # "pending"
    BY <1>0, <2>1, StatusStays DEF LiveOK
  <2>4. ASSUME r.op = "stop", r.cancel = {}, r.seen # NoTask, NEW t \in r.live
        PROVE  SafeAfter(r.seen, t)
    <3>1. r.seen \in Task /\ t \in Task
      BY <2>1, <2>4 DEF MaybeTask
    <3>2. Safe(r.seen, t)
      BY <1>0, <2>4 DEF LiveOK
    <3> QED BY <1>0, <3>1, <3>2, SafeStays
  <2> QED BY <1>2, <2>2, <2>3, <2>4
<1> QED BY <1>1, <1>2

LEMMA LiveStep ==
  ASSUME StopInv, [Next]_vars PROVE LiveOK'
<1>0. Inv /\ TypeOK
  BY DEF StopInv, Inv
<1>1. CASE \A h \in Handler : handler'[h] = handler[h] \/ handler'[h] = Idle
  BY <1>1, LiveStays DEF LiveOK, Safe, SafeAfter
<1>2. ASSUME NEW h \in Handler, (\E c \in Config : UpdateBegin(h, c)) \/ StartBegin(h) \/ DeleteBegin(h)
      PROVE  LiveOK'
  <2>1. /\ \A g \in Handler : g # h => handler'[g] = handler[g]
        /\ handler'[h].live = {}
    BY <1>0, <1>2, UpdateBeginReads, StartDeleteReads
  <2> QED BY <2>1, LiveStays DEF LiveOK, Safe, SafeAfter
<1>3. ASSUME NEW h \in Handler, StopBegin(h)
      PROVE  LiveOK'
  <2>1. /\ \A g \in Handler : g # h => handler'[g] = handler[g]
        /\ handler'[h].cancel = Find(Deployment, {"pending"})
        /\ handler'[h].live = Unsettled(Deployment)
        /\ handler'[h].seen # NoTask => tstatus[handler'[h].seen] = "pending"
        /\ tstatus' = tstatus
    BY <1>0, <1>3, StopBeginReads DEF ReadsStep, taskVars
  <2>2. \A t \in handler'[h].live : tstatus[t] \in {"pending", "running"}
    BY <2>1 DEF Unsettled, Find
  <2>3. \A t \in handler'[h].live \ handler'[h].cancel : tstatus[t] = "running"
    BY <2>1 DEF Unsettled, Find
  <2> QED BY <2>1, <2>2, <2>3, LiveStays DEF LiveOK, Safe, SafeAfter, Claimed
<1>4. CASE Administrator
  BY <1>0, <1>1, <1>2, <1>3, <1>4, AdministratorCases DEF WritesStep
<1>5. CASE Delivery \/ UNCHANGED vars
  <2>1. handler' = handler
    BY <1>0, <1>5, DeliverySteps DEF StatusStep, vars
  <2> QED BY <1>1, <2>1
<1> QED BY <1>4, <1>5 DEF Next

\* A stop is queued, or one that is pending takes over its deployments.
LEMMA StopSafe ==
  ASSUME StopInv, NEW h \in Handler, NEW s, NEW dep \in MaybeTask, NEW C \in SUBSET Task,
         C = handler[h].cancel, handler[h].op = "stop", Fits(s, "stop"),
         StopCommits(h, s, dep, Cancelled(C)),
         s \in Task /\ s # NextId => \/ tstatus[s] = "pending"
                                     \/ s = handler[h].seen /\ C = {},
         NEW t \in handler[h].live, s \in Task
  PROVE  SafeAfter(s, t)
<1>0. Inv /\ LiveOK /\ TypeOK /\ Numbered
  BY DEF StopInv, Inv
<1>1. t \in Task
  BY <1>0, Typed DEF Request
<1>2. /\ Cancelled(C) \in [Task -> Status]
      /\ \A u \in Task : \/ Cancelled(C)[u] = tstatus[u]
                         \/ tstatus[u] = "pending" /\ Cancelled(C)[u] = "cancelled"
      /\ \A u \in C : Cancelled(C)[u] # "pending"
  BY <1>0, CancelledRows
<1>3. /\ \A u \in Task : tstatus'[u] = IF u = s /\ u = NextId THEN "pending" ELSE Cancelled(C)[u]
      /\ UNCHANGED agentVars
  BY <1>0, <1>2, StopCommitsWrites DEF WritesStep
<1>4. tstatus[t] # "absent" /\ (t \notin C => tstatus[t] # "pending")
  BY <1>0 DEF LiveOK
<1>5. t # NextId
  BY <1>0, <1>1, <1>4, NextIsFree
<1>6. tstatus'[t] \notin {"absent", "pending"}
  BY <1>1, <1>2, <1>3, <1>4, <1>5
<1>7. CASE s = NextId \/ tstatus[s] = "pending"
  <2>1. tstatus'[s] \notin Claimed
    BY <1>2, <1>3, <1>7 DEF Claimed
  <2> QED BY <1>6, <2>1 DEF SafeAfter
<1>8. CASE s # NextId /\ s = handler[h].seen /\ C = {}
  <2>1. s # NoTask
    BY BoundAssumption DEF NoTask, Task
  <2>2. Safe(s, t)
    BY <1>0, <1>8, <2>1 DEF LiveOK
  <2>3. tstatus'[s] \in Claimed => tstatus[s] \in Claimed
    BY <1>2, <1>3, <1>8 DEF Claimed
  <2> QED BY <1>3, <1>6, <2>2, <2>3 DEF Safe, SafeAfter, agentVars
<1> QED BY <1>7, <1>8

LEMMA SupersededStep ==
  ASSUME StopInv, [Next]_vars PROVE SupersededOK'
<1>0. Inv /\ TypeOK /\ SupersededOK /\ superseded \in [Task -> SUBSET Task]
  BY Typed DEF StopInv, Inv
<1>1. \A s \in Task : \A t \in superseded[s] : SafeAfter(s, t)
  BY <1>0, SafeStays DEF SupersededOK
<1>2. CASE UNCHANGED superseded
  BY <1>1, <1>2 DEF SupersededOK, Safe, SafeAfter
<1>3. ASSUME NEW h \in Handler, NEW s, NEW dep \in MaybeTask, NEW C \in SUBSET Task,
             C = handler[h].cancel, Fits(s, "stop"), StopCommits(h, s, dep, Cancelled(C)),
             s \in Task /\ s # NextId => \/ tstatus[s] = "pending"
                                         \/ s = handler[h].seen /\ C = {}
      PROVE  SupersededOK'
  <2>1. /\ superseded' = [t \in Task |-> IF t = s THEN superseded[t] \cup handler[h].live
                                         ELSE superseded[t]]
        /\ handler[h].op = "stop"
    BY <1>3 DEF StopCommits
  <2>2. ASSUME NEW t \in handler[h].live, s \in Task PROVE SafeAfter(s, t)
    BY <1>3, <2>1, <2>2, StopSafe
  <2> QED BY <1>1, <2>1, <2>2 DEF SupersededOK, Safe, SafeAfter
<1>4. ASSUME NEW h \in Handler, StopCancels(h) PROVE SupersededOK'
  <2>1. PICK s, dep \in MaybeTask \cup {NextId} :
           /\ dep \in MaybeTask /\ Fits(s, "stop")
           /\ s \in Task /\ s # NextId => tstatus[s] = "pending"
           /\ StopCommits(h, s, dep, Cancelled(handler[h].cancel))
    BY <1>0, <1>4, StopCancelsCommits
  <2>2. handler[h].cancel \in SUBSET Task
    BY <1>0, Typed DEF Request
  <2> QED BY <1>3, <2>1, <2>2
<1>5. ASSUME NEW h \in Handler, StopQueues(h) PROVE SupersededOK'
  <2>1. PICK s :
           /\ Fits(s, "stop") /\ handler[h].dep \in MaybeTask
           /\ s \in Task /\ s # NextId => tstatus[s] = "pending" \/ s = handler[h].seen
           /\ StopCommits(h, s, handler[h].dep, tstatus)
    BY <1>0, <1>5, StopQueuesCommits
  <2>2. handler[h].cancel = {} /\ Cancelled({}) = tstatus
    BY <1>0, <1>5, Typed DEF StopQueues, Cancelled
  <2> QED BY <1>3, <2>1, <2>2
<1>6. CASE Delivery \/ UNCHANGED vars
  BY <1>0, <1>2, <1>6, DeliverySteps DEF StatusStep, vars
<1>7. CASE Administrator /\ ~ (\E h \in Handler : StopCancels(h) \/ StopQueues(h))
  <2>1. UNCHANGED superseded
    BY <1>7 DEF Administrator, CreateManaged, CreateManual, Edit, PlanApply, ConfirmPlan, Refresh,
                UpdateBegin, UpdateCommit, StartBegin, StartCommit, StopBegin, DeleteBegin, Begin,
                DeleteCommit, HandlerFails
  <2> QED BY <1>2, <2>1
<1> QED BY <1>4, <1>5, <1>6, <1>7 DEF Next

\* Once an accepted stop has been carried out, none of the deployments that were under way
\* when it was requested is (stop_interface, stop_managed_link and
\* cancel_pending_interface_deployment_tasks, main.py).
THEOREM StopsAlwaysSupersede == Spec => StopSupersedes
<1> DEFINE A == \A s \in Task : \A t \in superseded[s] :
                  ran[s] # "no" /\ ran[t] = "no" => ran'[t] = "no"
<1>1. ASSUME StopInv, [Next]_vars PROVE StopInv'
  BY <1>1, NextInv, LiveStep, SupersededStep DEF StopInv
<1>2. Init => StopInv
  <2>1. Init => LiveOK /\ SupersededOK
    BY IdleTyped DEF Init, LiveOK, SupersededOK
  <2> QED BY <2>1, InitInv DEF StopInv
<1>3. ASSUME StopInv, [Next]_vars PROVE A
  <2> SUFFICES ASSUME NEW s \in Task, NEW t \in superseded[s], ran[s] # "no", ran[t] = "no"
               PROVE  ran'[t] = "no"
    OBVIOUS
  <2>0. TypeOK /\ t \in Task
    BY <1>3, Typed DEF StopInv, Inv
  <2>1. t \notin batch
    BY <1>3 DEF StopInv, Inv, Once, SupersededOK, Safe
  <2>2. CASE Administrator
    BY <1>3, <2>2, AdministratorSteps DEF StopInv, ReadsStep, WritesStep, agentVars
  <2>3. CASE \E u \in Task : Execute(u)
    BY <2>0, <2>1, <2>3, TypeParts DEF Execute
  <2>4. CASE Delivery /\ ~ (\E u \in Task : Execute(u))
    BY <2>4 DEF Delivery, PollClaim, PollAnswer, AgentRestart, Expire, Report, LateReport, Handle,
                agentVars
  <2>5. CASE UNCHANGED vars
    BY <2>5 DEF vars, agentVars
  <2> QED BY <1>3, <2>2, <2>3, <2>4, <2>5 DEF Next
<1>4. StopInv /\ [Next]_vars => [A]_vars
  BY <1>3
<1> HIDE DEF A
<1>5. Spec => [][A]_vars
  BY <1>1, <1>2, <1>4, PTL DEF Spec
<1> QED BY <1>5 DEF A, StopSupersedes

-----------------------------------------------------------------------------
(* What a row shows.                                                       *)

\* No request is under way for a row that has been deleted and created again: it was
\* made for the configuration that is there now.
SameInstance ==
  \A h \in Handler : handler[h].op # "none" /\ exists => handler[h].inst = inst

\* A step that shows nothing new and leaves the succeeded tasks of the row as they are.
LEMMA NothingShown ==
  ASSUME ShownStateIsOwn, exists', inst' = inst, exists' = exists,
         deployed' # NoConfig => deployed # NoConfig,
         runtime' = "running" => runtime = "running",
         \A u \in Task : tstatus[u] = "succeeded" /\ task[u].inst = inst =>
                           tstatus'[u] = "succeeded" /\ task'[u].inst = inst
  PROVE  ShownStateIsOwn'
BY DEF ShownStateIsOwn

\* The requests that change the row or write a payload.
LEMMA RequestShows ==
  ASSUME Inv, ShownStateIsOwn, SameInstance, Administrator
  PROVE  ShownStateIsOwn'
<1>0. /\ TypeOK /\ exists \in BOOLEAN /\ task \in [Task -> TaskRow]
      /\ \A h \in Handler : handler[h] \in Request
  BY Typed DEF Inv, RowTyped
<1>1. CASE ReadsStep
  BY <1>1 DEF ReadsStep, ShownStateIsOwn, rowVars, taskVars
<1>2. CASE \E c \in Config : CreateManaged(c) \/ CreateManual(c)
  BY <1>2 DEF CreateManaged, CreateManual, ShownStateIsOwn
<1>3. CASE PlanApply \/ \E c \in Config : Edit(c)
  BY <1>3 DEF PlanApply, Edit, ShownStateIsOwn, taskVars
<1>4. ASSUME TableStep, UNCHANGED <<exists, inst, deployed>>, runtime' = "running" => runtime = "running",
             \A u \in Task : tstatus[u] # "absent" => task'[u] = task[u] \/ task'[u].inst = inst
      PROVE  ShownStateIsOwn'
  <2>1. \A u \in Task : tstatus[u] = "succeeded" /\ task[u].inst = inst =>
                          tstatus'[u] = "succeeded" /\ task'[u].inst = inst
    BY <1>4 DEF TableStep
  <2> QED BY <1>4, <2>1 DEF ShownStateIsOwn
<1>5. CASE ConfirmPlan \/ \E type \in Refreshes : Refresh(type)
  <2>1. WritesStep /\ \A u \in Task : tstatus[u] # "absent" => task'[u] = task[u]
    BY <1>5, ConfirmPlanWrites, RefreshWrites
  <2>2. UNCHANGED <<exists, inst, deployed, runtime>>
    BY <1>5 DEF ConfirmPlan, Refresh, rowVars
  <2> QED BY <1>4, <2>1, <2>2 DEF WritesStep
<1>6. ASSUME NEW h \in Handler, WritesStep, handler[h].op # "none", exists,
             UNCHANGED <<exists, inst, deployed>>, runtime' = "running" => runtime = "running",
             \A u \in Task : task'[u] # task[u] => task'[u].inst = handler[h].inst
      PROVE  ShownStateIsOwn'
  <2>1. handler[h].inst = inst
    BY <1>6 DEF SameInstance
  <2> QED BY <1>4, <1>6, <2>1 DEF WritesStep
<1>7. ASSUME NEW h \in Handler, UpdateCommit(h) \/ StartCommit(h) PROVE ShownStateIsOwn'
  <2>1. /\ exists /\ UNCHANGED <<exists, inst, deployed>> /\ handler[h].op # "none"
        /\ runtime' = "running" => runtime = "running"
    BY <1>7 DEF UpdateCommit, StartCommit, Accept
  <2> QED BY <1>6, <1>7, <2>1, UpdateCommitWrites, StartCommitWrites
<1>8. ASSUME NEW h \in Handler, NEW s, NEW dep \in MaybeTask, NEW st \in [Task -> Status],
             \A u \in Task : st[u] = tstatus[u] \/ (tstatus[u] = "pending" /\ st[u] = "cancelled"),
             Fits(s, "stop"), StopCommits(h, s, dep, st)
      PROVE  ShownStateIsOwn'
  <2>1. /\ exists /\ UNCHANGED <<exists, inst, deployed>> /\ handler[h].op # "none"
        /\ runtime' = "running" => runtime = "running"
    BY <1>8 DEF StopCommits, Accept
  <2>2. WritesStep /\ \A u \in Task : task'[u] # task[u] => task'[u].inst = handler[h].inst
    BY <1>8, StopCommitsWrites
  <2> QED BY <1>6, <2>1, <2>2
<1>9. ASSUME NEW h \in Handler, StopCancels(h) PROVE ShownStateIsOwn'
  <2>1. PICK s, dep \in MaybeTask \cup {NextId} :
           /\ dep \in MaybeTask /\ Fits(s, "stop")
           /\ StopCommits(h, s, dep, Cancelled(handler[h].cancel))
    BY <1>9, StopCancelsCommits
  <2>2. handler[h].cancel \in SUBSET Task
    BY <1>0 DEF Request
  <2>3. /\ Cancelled(handler[h].cancel) \in [Task -> Status]
        /\ \A u \in Task : \/ Cancelled(handler[h].cancel)[u] = tstatus[u]
                           \/ tstatus[u] = "pending" /\ Cancelled(handler[h].cancel)[u] = "cancelled"
    BY <1>0, <2>2, CancelledRows
  <2> QED BY <1>8, <2>1, <2>3
<1>10. ASSUME NEW h \in Handler, StopQueues(h) PROVE ShownStateIsOwn'
  <2>1. PICK s : /\ Fits(s, "stop") /\ handler[h].dep \in MaybeTask
                 /\ StopCommits(h, s, handler[h].dep, tstatus)
    BY <1>10, StopQueuesCommits
  <2> QED BY <1>0, <1>8, <2>1, Typed
<1>11. CASE \E h \in Handler, keep \in BOOLEAN : DeleteCommit(h, keep)
  BY <1>11 DEF DeleteCommit, ShownStateIsOwn
<1>12. CASE \E h \in Handler : HandlerFails(h)
  BY <1>12 DEF HandlerFails, ShownStateIsOwn, rowVars, taskVars
<1> QED
  BY <1>1, <1>2, <1>3, <1>5, <1>7, <1>9, <1>10, <1>11, <1>12, UpdateBeginReads, StartDeleteReads,
     StopBeginReads DEF Administrator

\* A report shows what a task of this very configuration has found.
LEMMA DeliveryShows ==
  ASSUME Inv, ShownStateIsOwn, Delivery
  PROVE  ShownStateIsOwn'
<1>0. TypeOK
  BY DEF Inv
<1>1. UNCHANGED <<task, exists, inst>>
  BY DEF Delivery, PollClaim, PollAnswer, Expire, AgentRestart, Execute, Report, LateReport, Handle,
         taskVars, rowVars
<1>2. \A u \in Task : tstatus[u] = "succeeded" => tstatus'[u] = "succeeded"
  BY DeliverySteps DEF StatusStep
<1>3. CASE UNCHANGED <<deployed, runtime>>
  BY <1>1, <1>2, <1>3 DEF ShownStateIsOwn
<1>4. ASSUME NEW t \in Task, Report(t) \/ LateReport(t), ~ UNCHANGED <<deployed, runtime>>
      PROVE  ShownStateIsOwn'
  <2>1. Handle(t)
    BY <1>4 DEF Report, LateReport
  <2>2. ran[t] = "ok" /\ Targets(t) /\ tstatus'[t] = "succeeded"
    BY <1>0, <1>4, <2>1, Typed DEF Handle, Effects
  <2> QED BY <1>1, <2>2 DEF ShownStateIsOwn, Targets
<1>5. CASE PollClaim \/ PollAnswer \/ AgentRestart \/ \E t \in Task : Expire(t) \/ Execute(t)
  <2>1. UNCHANGED <<deployed, runtime>>
    BY <1>5 DEF PollClaim, PollAnswer, Expire, AgentRestart, Execute, rowVars
  <2> QED BY <1>3, <2>1
<1> QED BY <1>3, <1>4, <1>5 DEF Delivery

\* A row that has a baseline or is shown as running is backed by a succeeded task of its own
\* instance (task_identity.py, task_targets in agent_task_result), as long as no request
\* outlives the configuration it was made for: such a request writes the old identity into
\* a task of the new configuration.
THEOREM ShownStateIsAlwaysOwn == Spec /\ []SameInstance => []ShownStateIsOwn
<1>1. Inv /\ ShownStateIsOwn /\ SameInstance /\ [Next]_vars => ShownStateIsOwn'
  <2>1. ASSUME Inv, ShownStateIsOwn, UNCHANGED vars PROVE ShownStateIsOwn'
    BY <2>1 DEF ShownStateIsOwn, vars, rowVars, taskVars
  <2> QED BY <2>1, RequestShows, DeliveryShows DEF Next
<1>2. Init => ShownStateIsOwn
  BY DEF Init, ShownStateIsOwn
<1> QED BY <1>1, <1>2, SpecInv, PTL DEF Spec

\* One request at a time never outlives its configuration.
THEOREM OneAtATimeOwn ==
  ASSUME \A g, h \in Handler : g = h
  PROVE  Spec => []ShownStateIsOwn
<1> DEFINE J == \A h \in Handler : handler[h].op # "none" => exists /\ handler[h].inst = inst
<1>1. Init => J
  BY IdleTyped DEF Init
<1>2. ASSUME Inv, J, [Next]_vars PROVE J'
  <2>0. TypeOK /\ exists \in BOOLEAN
    BY <1>2, Typed DEF Inv, RowTyped
  <2>1. CASE UNCHANGED <<handler, exists, inst>>
    BY <1>2, <2>1
  <2>2. CASE \A h \in Handler : handler'[h] = Idle
    BY <2>2, IdleTyped
  <2>3. CASE Delivery \/ UNCHANGED vars \/ PlanApply \/ ConfirmPlan
             \/ (\E c \in Config : Edit(c)) \/ \E type \in Refreshes : Refresh(type)
    <3>1. UNCHANGED <<handler, exists, inst>>
      BY <2>3 DEF Delivery, PollClaim, PollAnswer, Expire, AgentRestart, Execute, Report,
         LateReport,
         Handle, taskVars, rowVars, vars, PlanApply, ConfirmPlan, Edit, Refresh
    <3> QED BY <2>1, <3>1
  <2>4. CASE \E c \in Config : CreateManaged(c) \/ CreateManual(c)
    BY <1>2, <2>4 DEF CreateManaged, CreateManual
  <2>5. ASSUME NEW h \in Handler, (\E c \in Config : UpdateBegin(h, c)) \/ StartBegin(h) \/ StopBegin(h)
                                  \/ DeleteBegin(h)
        PROVE  J'
    <3>1. handler'[h].inst = inst /\ ReadsStep
      BY <1>2, <2>5, UpdateBeginReads, StartDeleteReads, StopBeginReads
    <3>2. exists
      BY <2>5 DEF UpdateBegin, StartBegin, StopBegin, DeleteBegin, Begin
    <3> QED BY <3>1, <3>2 DEF ReadsStep, rowVars
  <2>6. ASSUME NEW h \in Handler, Release(h) PROVE J'
    <3>1. handler'[h] = Idle
      BY <1>2, <2>0, <2>6, Released, Typed
    <3> QED BY <2>2, <3>1
  <2>7. \A h \in Handler : \/ UpdateCommit(h) \/ StartCommit(h) \/ StopCancels(h) \/ StopQueues(h)
                           \/ (\E keep \in BOOLEAN : DeleteCommit(h, keep)) \/ HandlerFails(h)
                           => Release(h)
    BY DEF UpdateCommit, StartCommit, StopCancels, StopQueues, StopCommits, DeleteCommit,
       HandlerFails
  <2> QED BY <1>2, <2>3, <2>4, <2>5, <2>6, <2>7 DEF Next, Administrator
<1>3. J => SameInstance
  BY DEF SameInstance
<1> HIDE DEF J
<1>4. Inv /\ J /\ [Next]_vars => J'
  BY <1>2
<1>5. Spec => []SameInstance
  BY <1>1, <1>3, <1>4, SpecInv, PTL DEF Spec
<1> QED BY <1>5, ShownStateIsAlwaysOwn, PTL
=============================================================================
