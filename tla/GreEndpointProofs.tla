------------------------- MODULE GreEndpointProofs --------------------------
(***************************************************************************)
(* One GRE endpoint, for every number of tasks, names, parameters and rows  *)
(* that follow each other under one id: the types, that the recorded        *)
(* baseline was applied, and that an edit reaches the node.                 *)
(***************************************************************************)
EXTENDS GreEndpoint, WellFoundedInduction, FiniteSetTheorems, TLAPS

MaybeTask == Task \cup {NoTask}
TaskRow == [type : TaskType, inst : 0..MaxInstances, name : MaybeName, prev : MaybeName,
            config : MaybeConfig, dep : Task \cup {NoTask}, goes : BOOLEAN]

\* The rows that there are have the first ids.
Numbered(st) == \E k \in Nat : {t \in Task : st[t] # "absent"} = 1..k

Claimed == {"running", "succeeded", "failed"}

\* A task is executed once, after it was claimed, and a success is recorded only of one
\* that was executed.
Once ==
  /\ \A t \in batch : ran[t] = "no" /\ tstatus[t] \in Claimed
  /\ \A t \in Task : ran[t] # "no" => tstatus[t] \in Claimed
  /\ \A t \in unacked \cup late : ran[t] # "no"
  /\ \A t \in Task : tstatus[t] = "succeeded" => ran[t] = "ok"

\* A deployment that was executed still has the payload it was executed with, and a status
\* query has found a runtime.
SnapshotKept ==
  \A t \in Task : ran[t] # "no" =>
    /\ task[t].type \in Deployment => seen[t] = task[t].config
    /\ task[t].type = "status" => seen[t] \in {"running", "stopped"}

\* The request under way has read the name and the parameters that the row still has, and
\* an edit asks for a name and parameters and has read as the pending task an apply.
RequestOK ==
  /\ row.exists => row.name \in Name /\ row.config \in Config
  /\ request # Idle => /\ row.exists /\ request.op # "none"
                       /\ request.row.name = row.name /\ request.row.config = row.config
  /\ request.op = "update" => /\ request.name \in Name /\ request.config \in Config
                              /\ request.pending # NoTask =>
                                   /\ tstatus[request.pending] # "absent"
                                   /\ task[request.pending].type = "apply"
  /\ request.op = "start" /\ request.pending # NoTask =>
       tstatus[request.pending] # "absent" /\ task[request.pending].type = "start"

IsStart(tab, st, t) == tab[t].type = "start" /\ st[t] # "absent"
IsLast(tab, st, l) == IsStart(tab, st, l) /\ \A u \in Task : IsStart(tab, st, u) => u <= l

\* Of the starts only the newest can be pending.
OnePending(tab, st) == \A t \in Task : IsStart(tab, st, t) /\ st[t] = "pending" => IsLast(tab, st, t)

\* A task has failed, or its failure is about to be recorded.
Trouble == \E t \in Task : tstatus[t] = "failed" \/ (tstatus[t] = "running" /\ ran[t] = "failed")

\* What is still to be executed.
Live(t) == tstatus[t] = "pending" \/ (tstatus[t] = "running" /\ ran[t] = "no")

\* As long as nothing fails, the newest start carries what the row asks for, and once it
\* has been executed so does the node, which has no older start left to execute.
EditInv ==
  row.exists /\ ~ Trouble =>
    /\ \A l \in Task : IsLast(task, tstatus, l) /\ tstatus[l] # "cancelled" =>
         task[l].config = row.config /\ task[l].name = row.name
    /\ (\A l \in Task : IsLast(task, tstatus, l) => ~ Live(l) /\ tstatus[l] # "cancelled") =>
         /\ dev[row.name] \in {row.config, NoConfig}
         /\ \A t \in batch : task[t].type # "start"

GreInv ==
  /\ TypeOK /\ Numbered(tstatus) /\ Once /\ SnapshotKept /\ RequestOK
  /\ OnePending(task, tstatus) /\ EditInv

-----------------------------------------------------------------------------
(* Sets of tasks.                                                          *)

LEMMA OldestIn ==
  ASSUME NEW S \in SUBSET Task
  PROVE  Oldest(S) \in MaybeTask /\ (S # {} => Oldest(S) \in S) /\ (Oldest(S) = NoTask <=> S = {})
<1>1. CASE S = {}
  BY <1>1 DEF Oldest, MaybeTask
<1>2. CASE S # {}
  <2> DEFINE R == OpToRel(<, Nat)
  <2>1. IsWellFoundedOn(R, Nat)
    BY NatLessThanWellFounded
  <2>2. \A x, y \in Nat : x < y => <<x, y>> \in R
    BY DEF OpToRel
  <2> HIDE DEF R
  <2>3. S \subseteq Nat /\ NoTask \notin S
    BY GreBoundAssumption DEF Task, NoTask
  <2>4. PICK x \in S : \A y \in S : ~ (<<y, x>> \in R)
    BY <1>2, <2>1, <2>3, WFMin
  <2>5. \A y \in S : ~ (y < x)
    BY <2>2, <2>3, <2>4
  <2>6. \A y \in S : x <= y
    BY <2>3, <2>5
  <2>7. Oldest(S) \in S
    BY <1>2, <2>6 DEF Oldest
  <2> QED BY <1>2, <2>3, <2>7 DEF MaybeTask
<1> QED BY <1>1, <1>2

LEMMA NewestIn ==
  ASSUME NEW S \in SUBSET Task
  PROVE  /\ Newest(S) \in MaybeTask /\ (Newest(S) = NoTask <=> S = {})
         /\ S # {} => Newest(S) \in S /\ \A u \in S : u <= Newest(S)
<1>1. CASE S = {}
  BY <1>1 DEF Newest, MaybeTask
<1>2. CASE S # {}
  <2> DEFINE R == OpToRel(<, Nat)
             T == {MaxTasks - s : s \in S}
  <2>1. IsWellFoundedOn(R, Nat)
    BY NatLessThanWellFounded
  <2>2. \A x, y \in Nat : x < y => <<x, y>> \in R
    BY DEF OpToRel
  <2> HIDE DEF R
  <2>3. T \subseteq Nat /\ T # {}
    <3>1. \A u \in S : MaxTasks - u \in Nat
      BY GreBoundAssumption DEF Task
    <3> QED BY <1>2, <3>1
  <2>4. PICK x \in T : \A y \in T : ~ (<<y, x>> \in R)
    BY <2>1, <2>3, WFMin
  <2>5. \A y \in T : ~ (y < x)
    BY <2>2, <2>3, <2>4
  <2>6. PICK s \in S : x = MaxTasks - s
    OBVIOUS
  <2>7. ASSUME NEW u \in S PROVE u <= s
    <3>1. ~ (MaxTasks - u < MaxTasks - s)
      BY <2>5, <2>6
    <3>2. u \in Int /\ s \in Int /\ MaxTasks \in Int
      BY GreBoundAssumption DEF Task
    <3> QED BY <3>1, <3>2
  <2>8. Newest(S) \in S /\ \A u \in S : u <= Newest(S)
    BY <1>2, <2>7 DEF Newest
  <2>9. NoTask \notin S
    BY GreBoundAssumption DEF Task, NoTask
  <2> QED BY <1>2, <2>8, <2>9 DEF MaybeTask
<1> QED BY <1>1, <1>2

-----------------------------------------------------------------------------
(* The task table as a value.                                              *)

Tables == [task : [Task -> TaskRow], st : [Task -> Status], full : BOOLEAN]
TableOK(T) == T \in Tables /\ Numbered(T.st) /\ OnePending(T.task, T.st)

\* Row k of U is the payload p but for what it waits for, pending, and was a pending
\* task of the type or the next free row, which is taken only if there is none.
Placed(T, U, k, p) ==
  /\ \A t \in Task : t # k => U.task[t] = T.task[t] /\ U.st[t] = T.st[t]
  /\ U.st[k] = "pending" /\ U.task[k].type = p.type
  /\ U.task[k].name = p.name /\ U.task[k].config = p.config
  /\ \/ T.st[k] = "pending" /\ T.task[k].type = p.type
     \/ /\ T.st[k] = "absent" /\ \A u \in Task : T.st[u] # "absent" => u < k
        /\ \A u \in Task : T.st[u] = "pending" => T.task[u].type # p.type

\* U is table T after a task for payload p was asked for, unless there was no room.
Made(T, U, p) ==
  /\ TableOK(U) /\ (T.full => U.full)
  /\ U.full \/ U = T \/ \E k \in Task : Placed(T, U, k, p)

\* The id of a new row is free and the next one.
LEMMA NextIsFree ==
  ASSUME NEW T \in Tables, Numbered(T.st)
  PROVE  /\ NextId(T) \in Nat \ {0}
         /\ NextId(T) <= MaxTasks => /\ NextId(T) \in Task /\ T.st[NextId(T)] = "absent"
                                     /\ \A u \in Task : T.st[u] # "absent" => u < NextId(T)
                                     /\ Numbered([T.st EXCEPT ![NextId(T)] = "pending"])
<1> DEFINE S == {t \in Task : T.st[t] # "absent"}
<1>1. PICK k \in Nat : S = 1..k
  BY DEF Numbered
<1>2. Cardinality(S) = k
  <2>1. Cardinality(1..k) = IF 1 > k THEN 0 ELSE k - 1 + 1
    BY FS_Interval
  <2> HIDE DEF S
  <2> QED BY <1>1, <2>1
<1>3. NextId(T) = k + 1
  BY <1>2 DEF NextId
<1>4. ASSUME NextId(T) <= MaxTasks
      PROVE  /\ NextId(T) \in Task /\ T.st[NextId(T)] = "absent"
             /\ \A u \in Task : T.st[u] # "absent" => u < NextId(T)
             /\ Numbered([T.st EXCEPT ![NextId(T)] = "pending"])
  <2> DEFINE r == [T.st EXCEPT ![k + 1] = "pending"]
  <2>1. k + 1 \in Task /\ k + 1 \notin S
    BY <1>1, <1>3, <1>4, GreBoundAssumption DEF Task
  <2>2. \A u \in S : u < k + 1
    BY <1>1
  <2>3. T.st \in [Task -> Status]
    BY DEF Tables
  <2>4. \A t \in Task : r[t] # "absent" <=> t \in S \/ t = k + 1
    BY <2>1, <2>3
  <2>5. {t \in Task : r[t] # "absent"} = S \cup {k + 1}
    BY <2>1, <2>4
  <2>6. S \cup {k + 1} = 1..(k + 1)
    BY <1>1
  <2>7. Numbered(r)
    BY <2>5, <2>6 DEF Numbered
  <2> QED BY <1>3, <2>1, <2>2, <2>7
<1> QED BY <1>3, <1>4

\* A new row.
LEMMA InsertMade ==
  ASSUME NEW T, TableOK(T), NEW p \in TaskRow, NEW q \in TaskRow,
         q.type = p.type, q.name = p.name, q.config = p.config,
         \A u \in Task : T.st[u] = "pending" => T.task[u].type # p.type
  PROVE  /\ Made(T, Insert(T, q), p)
         /\ Insert(T, q).full \/ (NextId(T) \in Task /\ Placed(T, Insert(T, q), NextId(T), p))
<1> DEFINE k == NextId(T)
           U == Insert(T, q)
<1>1. T \in Tables /\ Numbered(T.st) /\ OnePending(T.task, T.st) /\ T.task \in [Task -> TaskRow]
      /\ T.st \in [Task -> Status] /\ T.full \in BOOLEAN
  BY DEF TableOK, Tables
<1>2. U = [task |-> [T.task EXCEPT ![k] = q], st |-> [T.st EXCEPT ![k] = "pending"],
           full |-> T.full \/ k > MaxTasks]
  BY DEF Insert
<1>3. U.full = (T.full \/ k > MaxTasks) /\ (T.full \/ k > MaxTasks) \in BOOLEAN
  BY <1>2
<1>4. k \in Nat /\ MaxTasks \in Nat
  BY <1>1, NextIsFree, GreBoundAssumption
<1>5. CASE k > MaxTasks
  <2>1. k \notin Task
    <3> HIDE DEF k
    <3> QED BY <1>4, <1>5 DEF Task
  <2>2. U.task = T.task /\ U.st = T.st /\ U.full /\ U \in Tables
    <3> HIDE DEF k
    <3>1. [T.task EXCEPT ![k] = q] = T.task /\ [T.st EXCEPT ![k] = "pending"] = T.st
      BY <1>1, <2>1
    <3> HIDE DEF U
    <3> QED BY <1>1, <1>2, <1>3, <1>5, <3>1 DEF Tables
  <2> HIDE DEF U
  <2> QED BY <1>1, <2>2 DEF Made, TableOK, U
<1>6. CASE k <= MaxTasks
  <2>1. /\ k \in Task /\ T.st[k] = "absent" /\ \A u \in Task : T.st[u] # "absent" => u < k
        /\ Numbered([T.st EXCEPT ![k] = "pending"])
    BY <1>1, <1>6, NextIsFree
  <2> HIDE DEF k, U
  <2>2. /\ U.task = [T.task EXCEPT ![k] = q] /\ U.st = [T.st EXCEPT ![k] = "pending"]
        /\ U \in Tables
    BY <1>1, <1>2, <1>3 DEF Tables, Status
  <2>3. U.task[k] = q /\ U.st[k] = "pending" /\ \A t \in Task : t # k => U.task[t] = T.task[t] /\ U.st[t] = T.st[t]
    BY <1>1, <2>1, <2>2
  <2>4. Placed(T, U, k, p)
    BY <2>1, <2>3 DEF Placed
  <2>5. OnePending(U.task, U.st)
    <3> SUFFICES ASSUME NEW t \in Task, IsStart(U.task, U.st, t), U.st[t] = "pending",
                        NEW u \in Task, IsStart(U.task, U.st, u)
                 PROVE  u <= t
      BY DEF OnePending, IsLast
    <3>1. t \in Int /\ u \in Int /\ k \in Int
      BY <2>1 DEF Task
    <3>2. CASE t = k
      BY <2>1, <2>3, <3>1, <3>2 DEF IsStart
    <3>3. CASE t # k /\ u = k
      BY <2>3, <3>3 DEF IsStart
    <3>4. CASE t # k /\ u # k
      BY <1>1, <2>3, <3>4 DEF IsStart, OnePending, IsLast
    <3> QED BY <3>2, <3>3, <3>4
  <2>6. T.full => U.full
    BY <1>3
  <2> QED BY <2>1, <2>2, <2>4, <2>5, <2>6 DEF Made, TableOK, k, U
<1> QED
  <2> HIDE DEF k, U
  <2>1. k > MaxTasks \/ k <= MaxTasks
    BY <1>4
  <2> QED BY <1>5, <1>6, <2>1 DEF k, U

\* A pending row whose payload is refreshed.
LEMMA RewriteMade ==
  ASSUME NEW T, TableOK(T), NEW p \in TaskRow, NEW q \in TaskRow,
         q.type = p.type, q.name = p.name, q.config = p.config,
         NEW k \in Task, T.st[k] = "pending", T.task[k].type = p.type
  PROVE  Made(T, Rewrite(T, k, q), p) /\ Placed(T, Rewrite(T, k, q), k, p)
<1> DEFINE U == Rewrite(T, k, q)
<1>1. T \in Tables /\ Numbered(T.st) /\ OnePending(T.task, T.st) /\ T.task \in [Task -> TaskRow]
      /\ T.st \in [Task -> Status] /\ T.full \in BOOLEAN
  BY DEF TableOK, Tables
<1>2. U = [task |-> [T.task EXCEPT ![k] = q], st |-> T.st, full |-> T.full]
  BY <1>1 DEF Rewrite, Tables
<1> HIDE DEF U
<1>3. U \in Tables /\ Numbered(U.st)
  BY <1>1, <1>2 DEF Tables
<1>4. U.task[k] = q /\ U.st[k] = "pending" /\ \A t \in Task : t # k => U.task[t] = T.task[t] /\ U.st[t] = T.st[t]
  BY <1>1, <1>2
<1>5. Placed(T, U, k, p)
  BY <1>4 DEF Placed
<1>6. \A t \in Task : IsStart(U.task, U.st, t) <=> IsStart(T.task, T.st, t)
  BY <1>2, <1>4 DEF IsStart
<1>7. OnePending(U.task, U.st)
  BY <1>1, <1>2, <1>6 DEF OnePending, IsLast
<1>8. U.full = T.full
  BY <1>2
<1> QED BY <1>1, <1>3, <1>5, <1>7, <1>8 DEF Made, TableOK, U

\* The tasks of a type that have one of some statuses.
LEMMA FindIn ==
  ASSUME NEW T, NEW types, NEW st
  PROVE  /\ Find(T, types, st) \in SUBSET Task
         /\ \A t \in Task : t \in Find(T, types, st) <=> T.task[t].type \in types /\ T.st[t] \in st
BY DEF Find

\* create_connection_endpoint_task: one row at most is written, in the three ways in which
\* it is called, whatever was read before.
LEMMA CreateMade ==
  ASSUME NEW T, TableOK(T), NEW p \in TaskRow, NEW pending \in MaybeTask, NEW running \in MaybeTask,
         pending # NoTask => T.task[pending].type = p.type
  PROVE  /\ Made(T, Create(T, p, TRUE, TRUE, pending, running).tab, p)
         /\ ~ Create(T, p, TRUE, TRUE, pending, running).tab.full =>
              Create(T, p, TRUE, TRUE, pending, running).id \in MaybeTask
         /\ Made(T, Create(T, p, TRUE, FALSE, pending, running).tab, p)
         /\ ~ Create(T, p, TRUE, FALSE, pending, running).tab.full =>
              Create(T, p, TRUE, FALSE, pending, running).id \in MaybeTask
         /\ Made(T, Create(T, p, FALSE, FALSE, pending, running).tab, p)
<1> DEFINE clash   == Oldest(Find(T, {p.type}, {"pending"}))
           newer   == Newest(Find(T, {p.type}, {"running"}))
           behind(n) == IF n # NoTask /\ p.dep = NoTask THEN [p EXCEPT !.dep = n] ELSE p
           Edited  == Create(T, p, TRUE, TRUE, pending, running)
           Updated == Create(T, p, TRUE, FALSE, pending, running)
           Found   == Create(T, p, FALSE, FALSE, pending, running)
<1>1. Made(T, T, p)
  BY DEF Made, TableOK, Tables
<1>2. newer \in MaybeTask /\ clash \in MaybeTask
  BY FindIn, NewestIn, OldestIn
<1>3. \A n \in MaybeTask : /\ behind(n) \in TaskRow /\ behind(n).type = p.type
                           /\ behind(n).name = p.name /\ behind(n).config = p.config
  BY DEF TaskRow, MaybeTask
<1>4. Rewritable(T, pending) => Made(T, Rewrite(T, pending, p), p)
  BY RewriteMade DEF Rewritable, MaybeTask
<1>5. clash # NoTask => clash \in Task /\ T.st[clash] = "pending" /\ T.task[clash].type = p.type
  <2>1. clash # NoTask => clash \in Find(T, {p.type}, {"pending"})
    BY FindIn, OldestIn
  <2> QED BY <2>1 DEF Find
<1>6. clash = NoTask => \A u \in Task : T.st[u] = "pending" => T.task[u].type # p.type
  <2>1. clash = NoTask => Find(T, {p.type}, {"pending"}) = {}
    BY FindIn, OldestIn
  <2> QED BY <2>1, FindIn
<1> HIDE DEF clash, newer, behind
<1>7. \A n \in MaybeTask : clash = NoTask =>
        Made(T, Insert(T, behind(n)), p) /\ (~ Insert(T, behind(n)).full => NextId(T) \in MaybeTask)
  BY <1>3, <1>6, InsertMade DEF MaybeTask
<1>8. \A n \in MaybeTask : clash # NoTask => Made(T, Rewrite(T, clash, behind(n)), p)
  BY <1>3, <1>5, RewriteMade
<1>9. Edited =
        LET now == IF pending # NoTask THEN newer ELSE running
        IN IF pending # NoTask /\ Rewritable(T, pending) THEN [tab |-> Rewrite(T, pending, p), id |-> pending]
           ELSE IF clash = NoTask THEN [tab |-> Insert(T, behind(now)), id |-> NextId(T)]
           ELSE [tab |-> Rewrite(T, clash, behind(now)), id |-> clash]
  BY DEF Create, clash, newer, behind
<1>10. Updated =
        LET now == IF pending # NoTask THEN newer ELSE running
        IN IF pending # NoTask /\ Rewritable(T, pending) THEN [tab |-> Rewrite(T, pending, p), id |-> pending]
           ELSE IF now # NoTask THEN [tab |-> T, id |-> now]
           ELSE IF clash = NoTask THEN [tab |-> Insert(T, behind(now)), id |-> NextId(T)]
           ELSE [tab |-> Rewrite(T, clash, behind(now)), id |-> clash]
  BY DEF Create, clash, newer, behind
<1>11. Found =
        IF pending # NoTask THEN [tab |-> T, id |-> pending]
        ELSE IF running # NoTask THEN [tab |-> T, id |-> running]
        ELSE IF clash = NoTask THEN [tab |-> Insert(T, behind(running)), id |-> NextId(T)]
        ELSE [tab |-> T, id |-> clash]
  BY DEF Create, clash, newer, behind
<1> HIDE DEF Made, Edited, Updated, Found
<1>12. /\ Made(T, Edited.tab, p)
       /\ ~ Edited.tab.full =>
            Edited.id \in MaybeTask
  <2> DEFINE n == IF pending # NoTask THEN newer ELSE running
  <2>0. n \in MaybeTask
    BY <1>2
  <2> HIDE DEF n
  <2>1. CASE pending # NoTask /\ Rewritable(T, pending)
    <3>1. Edited.tab = Rewrite(T, pending, p) /\ Edited.id = pending
      BY <1>9, <2>1
    <3> QED BY <1>4, <2>1, <3>1
  <2>2. CASE ~ (pending # NoTask /\ Rewritable(T, pending)) /\ clash = NoTask
    <3>1. Edited.tab = Insert(T, behind(n)) /\ Edited.id = NextId(T)
      BY <1>9, <2>2 DEF n
    <3> QED BY <1>7, <2>0, <2>2, <3>1, Zenon
  <2>3. CASE ~ (pending # NoTask /\ Rewritable(T, pending)) /\ clash # NoTask
    <3>1. Edited.tab = Rewrite(T, clash, behind(n)) /\ Edited.id = clash
      BY <1>9, <2>3 DEF n
    <3> QED BY <1>2, <1>8, <2>0, <2>3, <3>1, Zenon
  <2> QED BY <2>1, <2>2, <2>3
<1>13. /\ Made(T, Updated.tab, p)
       /\ ~ Updated.tab.full =>
            Updated.id \in MaybeTask
  <2> DEFINE n == IF pending # NoTask THEN newer ELSE running
  <2>0. n \in MaybeTask
    BY <1>2
  <2> HIDE DEF n
  <2>1. CASE pending # NoTask /\ Rewritable(T, pending)
    <3>1. Updated.tab = Rewrite(T, pending, p) /\ Updated.id = pending
      BY <1>10, <2>1
    <3> QED BY <1>4, <2>1, <3>1
  <2>2. CASE ~ (pending # NoTask /\ Rewritable(T, pending)) /\ n # NoTask
    <3>1. Updated.tab = T /\ Updated.id = n
      BY <1>10, <2>2 DEF n
    <3> QED BY <1>1, <2>0, <3>1
  <2>3. CASE ~ (pending # NoTask /\ Rewritable(T, pending)) /\ n = NoTask /\ clash = NoTask
    <3>1. Updated.tab = Insert(T, behind(n)) /\ Updated.id = NextId(T)
      BY <1>10, <2>3 DEF n
    <3> QED BY <1>7, <2>0, <2>3, <3>1, Zenon
  <2>4. CASE ~ (pending # NoTask /\ Rewritable(T, pending)) /\ n = NoTask /\ clash # NoTask
    <3>1. Updated.tab = Rewrite(T, clash, behind(n)) /\ Updated.id = clash
      BY <1>10, <2>4 DEF n
    <3> QED BY <1>2, <1>8, <2>0, <2>4, <3>1, Zenon
  <2> QED BY <2>1, <2>2, <2>3, <2>4
<1>14. Made(T, Found.tab, p)
  <2>1. CASE pending # NoTask \/ running # NoTask \/ clash # NoTask
    <3>1. Found.tab = T
      BY <1>11, <2>1
    <3> QED BY <1>1, <3>1
  <2>2. CASE pending = NoTask /\ running = NoTask /\ clash = NoTask
    <3>1. Found.tab = Insert(T, behind(running))
      BY <1>11, <2>2
    <3> QED BY <1>7, <2>2, <3>1, Zenon
  <2> QED BY <2>1, <2>2
<1> QED BY <1>12, <1>13, <1>14 DEF Edited, Updated, Found

\* An edit never reuses a task as it is.
LEMMA CreateNowPlaces ==
  ASSUME NEW T, TableOK(T), NEW p \in TaskRow
  PROVE  /\ CreateNow(T, p, TRUE, TRUE).tab.full \/
              \E k \in Task : Placed(T, CreateNow(T, p, TRUE, TRUE).tab, k, p)
         /\ Made(T, CreateNow(T, p, TRUE, TRUE).tab, p) /\ Made(T, CreateNow(T, p, TRUE, FALSE).tab, p)
         /\ Made(T, CreateNow(T, p, FALSE, FALSE).tab, p)
         /\ ~ CreateNow(T, p, TRUE, FALSE).tab.full => CreateNow(T, p, TRUE, FALSE).id \in MaybeTask
<1> DEFINE clash   == Oldest(Find(T, {p.type}, {"pending"}))
           running == Newest(Find(T, {p.type}, {"running"}))
           q == IF running # NoTask /\ p.dep = NoTask THEN [p EXCEPT !.dep = running] ELSE p
           Edited == CreateNow(T, p, TRUE, TRUE)
<1>1. running \in MaybeTask /\ clash \in MaybeTask
  BY FindIn, NewestIn, OldestIn
<1>2. clash # NoTask => clash \in Task /\ T.st[clash] = "pending" /\ T.task[clash].type = p.type
  <2>1. clash # NoTask => clash \in Find(T, {p.type}, {"pending"})
    BY FindIn, OldestIn
  <2> QED BY <2>1 DEF Find
<1>3. clash = NoTask => \A u \in Task : T.st[u] = "pending" => T.task[u].type # p.type
  <2>1. clash = NoTask => Find(T, {p.type}, {"pending"}) = {}
    BY FindIn, OldestIn
  <2> QED BY <2>1, FindIn
<1>4. q \in TaskRow /\ q.type = p.type /\ q.name = p.name /\ q.config = p.config
  BY <1>1 DEF TaskRow, MaybeTask
<1> HIDE DEF clash, running, q
<1>5. clash # NoTask => \E k \in Task : Placed(T, Rewrite(T, clash, p), k, p)
  BY <1>2, RewriteMade
<1>6. clash = NoTask => Insert(T, q).full \/ \E k \in Task : Placed(T, Insert(T, q), k, p)
  BY <1>3, <1>4, InsertMade
<1>7. Edited =
        IF clash # NoTask THEN [tab |-> Rewrite(T, clash, p), id |-> clash]
        ELSE [tab |-> Insert(T, q), id |-> NextId(T)]
  BY <1>2 DEF CreateNow, Create, Rewritable, clash, running, q
<1> HIDE DEF Edited
<1>8. Edited.tab.full \/ \E k \in Task : Placed(T, Edited.tab, k, p)
  <2>1. CASE clash # NoTask
    <3>1. Edited.tab = Rewrite(T, clash, p)
      BY <1>7, <2>1
    <3> QED BY <1>5, <2>1, <3>1
  <2>2. CASE clash = NoTask
    <3>1. Edited.tab = Insert(T, q)
      BY <1>7, <2>2
    <3> QED BY <1>6, <2>2, <3>1, Zenon
  <2> QED BY <2>1, <2>2
<1>9. /\ CreateNow(T, p, TRUE, TRUE) = Create(T, p, TRUE, TRUE, clash, running)
      /\ CreateNow(T, p, TRUE, FALSE) = Create(T, p, TRUE, FALSE, clash, running)
      /\ CreateNow(T, p, FALSE, FALSE) = Create(T, p, FALSE, FALSE, clash, running)
  BY DEF CreateNow, clash, running
<1>10. clash # NoTask => T.task[clash].type = p.type
  BY <1>2
<1> QED BY <1>1, <1>8, <1>9, <1>10, CreateMade DEF Edited

-----------------------------------------------------------------------------
(* What a request may do to the table.                                     *)

\* Claimed and cancelled tasks keep their row, a pending one keeps its type and may be
\* cancelled.
Kept(T, U) ==
  \A t \in Task :
    /\ T.st[t] \notin {"absent", "pending"} => U.task[t] = T.task[t] /\ U.st[t] = T.st[t]
    /\ T.st[t] = "pending" => U.task[t].type = T.task[t].type /\ U.st[t] \in {"pending", "cancelled"}
    /\ T.st[t] = "absent" => U.st[t] \in {"absent", "pending", "cancelled"}

\* The starts stay as they are, but for the pending ones, which may be cancelled.
Fades(T, U) ==
  \A t \in Task :
    /\ IsStart(U.task, U.st, t) <=> IsStart(T.task, T.st, t)
    /\ IsStart(T.task, T.st, t) =>
         /\ U.task[t] = T.task[t]
         /\ U.st[t] = T.st[t] \/ (T.st[t] = "pending" /\ U.st[t] = "cancelled")

\* A start for the row r is pending.
Wanted(U, r) ==
  \E k \in Task : /\ IsStart(U.task, U.st, k) /\ U.st[k] = "pending"
                  /\ U.task[k].name = r.name /\ U.task[k].config = r.config

\* A task that was asked for takes nothing away.
LEMMA MadeKeeps ==
  ASSUME NEW T, TableOK(T), NEW U, NEW p \in TaskRow, Made(T, U, p), ~ U.full
  PROVE  /\ TableOK(U) /\ ~ T.full /\ Kept(T, U)
         /\ p.type # "start" => Fades(T, U)
         /\ p.type = "start" => U = T \/ Wanted(U, p)
<1>1. TableOK(U) /\ ~ T.full /\ (U = T \/ \E k \in Task : Placed(T, U, k, p))
  BY DEF Made
<1>2. CASE U = T
  <2>1. Kept(T, U) /\ Fades(T, U)
    <3>1. \A t \in Task : T.st[t] \in Status
      BY DEF TableOK, Tables
    <3> QED BY <1>2, <3>1 DEF Kept, Fades, Status
  <2> QED BY <1>1, <1>2, <2>1
<1>3. ASSUME NEW k \in Task, Placed(T, U, k, p)
      PROVE  /\ Kept(T, U) /\ (p.type # "start" => Fades(T, U))
             /\ (p.type = "start" => Wanted(U, p))
  <2>1. Kept(T, U)
    BY <1>3 DEF Kept, Placed
  <2>2. p.type # "start" => Fades(T, U)
    BY <1>3 DEF Fades, Placed, IsStart
  <2>3. p.type = "start" => Wanted(U, p)
    BY <1>3 DEF Wanted, Placed, IsStart
  <2> QED BY <2>1, <2>2, <2>3
<1> QED BY <1>1, <1>2, <1>3

\* One request after another.
LEMMA KeptTwice ==
  ASSUME NEW T, NEW U, NEW W, Kept(T, U), Kept(U, W)
  PROVE  Kept(T, W) /\ (Fades(T, U) /\ Fades(U, W) => Fades(T, W))
<1>1. Kept(T, W)
  BY DEF Kept
<1>2. ASSUME Fades(T, U), Fades(U, W) PROVE Fades(T, W)
  BY <1>2 DEF Fades
<1> QED BY <1>1, <1>2

\* Without room for one task there is none for the next.
LEMMA FullStays ==
  ASSUME NEW T \in Tables, T.full, NEW p
  PROVE  CreateNow(T, p, TRUE, TRUE).tab.full /\ CreateNow(T, p, FALSE, FALSE).tab.full
<1>1. \A q, t : Rewrite(T, t, q).full /\ Insert(T, q).full
  BY DEF Rewrite, Insert, Tables
<1> DEFINE clash   == Oldest(Find(T, {p.type}, {"pending"}))
           newer   == Newest(Find(T, {p.type}, {"running"}))
           q       == IF newer # NoTask /\ p.dep = NoTask THEN [p EXCEPT !.dep = newer] ELSE p
           Edited  == CreateNow(T, p, TRUE, TRUE)
           Found   == CreateNow(T, p, FALSE, FALSE)
<1>2. Edited.tab \in {Rewrite(T, clash, p), Rewrite(T, clash, q), Insert(T, q)}
  <2>1. Edited = CASE clash # NoTask /\ Rewritable(T, clash) -> [tab |-> Rewrite(T, clash, p), id |-> clash]
                   [] OTHER -> IF clash = NoTask THEN [tab |-> Insert(T, q), id |-> NextId(T)]
                               ELSE [tab |-> Rewrite(T, clash, q), id |-> clash]
    BY DEF CreateNow, Create
  <2> HIDE DEF Edited, clash, q
  <2> QED BY <2>1
<1>3. Found.tab \in {T, Insert(T, q)}
  <2>1. Found = IF clash # NoTask THEN [tab |-> T, id |-> clash]
                ELSE IF newer # NoTask THEN [tab |-> T, id |-> newer]
                ELSE [tab |-> Insert(T, q), id |-> NextId(T)]
    BY DEF CreateNow, Create
  <2> HIDE DEF Found, clash, newer, q
  <2> QED BY <2>1
<1> HIDE DEF Edited, Found, clash, q
<1>4. Edited.tab.full
  BY <1>1, <1>2
<1>5. Found.tab.full
  BY <1>1, <1>3
<1> QED BY <1>4, <1>5 DEF Edited, Found

-----------------------------------------------------------------------------
(* The tables that the requests make.                                      *)

\* enqueue_gre_apply_and_start: a start for the row is pending.
LEMMA EditTable ==
  ASSUME NEW T, TableOK(T), NEW r \in Row, NEW dep \in MaybeTask,
         NEW pending \in MaybeTask, NEW running \in MaybeTask,
         pending # NoTask => T.task[pending].type = "apply",
         ~ ApplyAndStart(T, r, dep, pending, running).full
  PROVE  /\ TableOK(ApplyAndStart(T, r, dep, pending, running))
         /\ Kept(T, ApplyAndStart(T, r, dep, pending, running))
         /\ Wanted(ApplyAndStart(T, r, dep, pending, running), r)
<1> DEFINE pa == Payload("apply", r, dep, FALSE)
           a  == Create(T, pa, TRUE, TRUE, pending, running)
           ps == Payload("start", r, a.id, FALSE)
           b  == CreateNow(a.tab, ps, TRUE, TRUE)
<1>1. pa \in TaskRow /\ pa.type = "apply"
  <2>1. "apply" \in TaskType /\ NoName \in MaybeName
    BY DEF TaskType, StateType, MaybeName
  <2> QED BY <2>1 DEF Payload, TaskRow, Row, MaybeTask
<1>2. ApplyAndStart(T, r, dep, pending, running) = b.tab
  BY DEF ApplyAndStart
<1> HIDE DEF pa
<1>3. Made(T, a.tab, pa) /\ (~ a.tab.full => a.id \in MaybeTask)
  BY <1>1, CreateMade
<1> HIDE DEF a
<1>4. TableOK(a.tab) /\ a.tab \in Tables
  BY <1>3 DEF Made, TableOK
<1>5. ~ a.tab.full
  <2> HIDE DEF ps
  <2> QED BY <1>2, <1>4, FullStays
<1>6. Kept(T, a.tab)
  BY <1>1, <1>3, <1>5, MadeKeeps
<1>7. ps \in TaskRow /\ ps.type = "start" /\ ps.name = r.name /\ ps.config = r.config
  <2>1. a.id \in MaybeTask /\ "start" \in TaskType /\ NoName \in MaybeName
    BY <1>3, <1>5 DEF TaskType, StateType, MaybeName
  <2> QED BY <2>1 DEF Payload, TaskRow, Row, MaybeTask
<1> HIDE DEF ps
<1>8. Made(a.tab, b.tab, ps) /\ (b.tab.full \/ \E k \in Task : Placed(a.tab, b.tab, k, ps))
  BY <1>4, <1>7, CreateNowPlaces
<1>9. ~ b.tab.full
  BY <1>2
<1> HIDE DEF b
<1>10. TableOK(b.tab) /\ Kept(a.tab, b.tab)
  BY <1>4, <1>7, <1>8, <1>9, MadeKeeps
<1>11. Kept(T, b.tab)
  BY <1>6, <1>10, KeptTwice
<1>12. Wanted(b.tab, r)
  BY <1>7, <1>8, <1>9 DEF Placed, Wanted, IsStart
<1> QED BY <1>2, <1>10, <1>11, <1>12 DEF b

\* cancel_pending_gre_deployment_tasks: no start is pending any more.
LEMMA CancelTable ==
  ASSUME NEW T, TableOK(T)
  PROVE  /\ TableOK(CancelDeployment(T)) /\ Kept(T, CancelDeployment(T)) /\ Fades(T, CancelDeployment(T))
         /\ CancelDeployment(T).full = T.full
<1> DEFINE U == CancelDeployment(T)
<1>1. T \in Tables /\ Numbered(T.st) /\ T.st \in [Task -> Status]
  BY DEF TableOK, Tables
<1>2. /\ U.task = T.task /\ U.full = T.full
      /\ U.st = [t \in Task |-> IF t \in Find(T, Deployment, {"pending"}) THEN "cancelled" ELSE T.st[t]]
      /\ U \in Tables
  BY <1>1 DEF CancelDeployment, Tables, Status
<1> HIDE DEF U
<1>3. \A t \in Task : IF T.task[t].type \in Deployment /\ T.st[t] = "pending" THEN U.st[t] = "cancelled"
                      ELSE U.st[t] = T.st[t]
  BY <1>2 DEF Find
<1>4. \A t \in Task : U.st[t] # "absent" <=> T.st[t] # "absent"
  BY <1>3
<1>5. {t \in Task : U.st[t] # "absent"} = {t \in Task : T.st[t] # "absent"}
  BY <1>4
<1>6. Numbered(U.st)
  BY <1>1, <1>5 DEF Numbered
<1>7. Kept(T, U) /\ Fades(T, U)
  BY <1>1, <1>2, <1>3 DEF Kept, Fades, IsStart, Status
<1>8. OnePending(U.task, U.st)
  BY <1>2, <1>3 DEF OnePending, IsStart, Deployment
<1> QED BY <1>2, <1>6, <1>7, <1>8 DEF TableOK, U

\* The table of the state, under the invariant.
LEMMA TableIsOK ==
  ASSUME TypeOK, Numbered(tstatus), OnePending(task, tstatus)
  PROVE  TableOK(Table) /\ Table.task = task /\ Table.st = tstatus
BY DEF TypeOK, Table, TableOK, Tables, TaskRow

\* The stop of stop_connection.
LEMMA StopTable ==
  ASSUME TableOK(Table), NEW r \in Row
  PROVE  /\ TableOK(QueueStop(r).tab)
         /\ ~ QueueStop(r).tab.full => /\ Kept(Table, QueueStop(r).tab) /\ Fades(Table, QueueStop(r).tab)
                                        /\ QueueStop(r).id \in MaybeTask
<1> DEFINE T   == CancelDeployment(Table)
           dep == Newest(Find(T, Deployment, {"running"}))
           p   == Payload("stop", r, dep, dep # NoTask)
           U   == CreateNow(T, p, TRUE, FALSE)
<1>1. QueueStop(r) = U
  BY DEF QueueStop
<1>2. dep \in MaybeTask
  BY FindIn, NewestIn
<1>3. TableOK(T) /\ Kept(Table, T) /\ Fades(Table, T)
  BY CancelTable
<1> HIDE DEF T, dep
<1>4. p \in TaskRow /\ p.type = "stop"
  <2>1. "stop" \in TaskType /\ NoName \in MaybeName
    BY DEF TaskType, StateType, MaybeName
  <2> QED BY <1>2, <2>1 DEF Payload, TaskRow, Row, MaybeTask
<1> HIDE DEF p
<1>5. Made(T, U.tab, p) /\ (~ U.tab.full => U.id \in MaybeTask)
  BY <1>3, <1>4, CreateNowPlaces
<1> HIDE DEF U
<1>6. TableOK(U.tab)
  BY <1>5 DEF Made
<1>7. ASSUME ~ U.tab.full PROVE Kept(Table, U.tab) /\ Fades(Table, U.tab)
  <2>1. Kept(T, U.tab) /\ Fades(T, U.tab)
    BY <1>3, <1>4, <1>5, <1>7, MadeKeeps
  <2> QED BY <1>3, <2>1, KeptTwice
<1> QED BY <1>1, <1>5, <1>6, <1>7

\* Everything that a commit needs but for what it says about the row.
LEMMA CommitKeeps ==
  ASSUME GreInv, NEW U, TableOK(U), Kept(Table, U), task' = U.task, tstatus' = U.st,
         UNCHANGED <<nodeVars, agentVars>>
  PROVE  /\ Numbered(tstatus)' /\ OnePending(task, tstatus)' /\ Once' /\ SnapshotKept'
         /\ task' \in [Task -> TaskRow] /\ tstatus' \in [Task -> Status]
         /\ Trouble' <=> Trouble
<1>1. Table.task = task /\ Table.st = tstatus /\ TypeOK /\ Once /\ SnapshotKept
  BY TableIsOK DEF GreInv
<1>2. \A t \in Task :
        /\ tstatus[t] \notin {"absent", "pending"} => task'[t] = task[t] /\ tstatus'[t] = tstatus[t]
        /\ tstatus[t] \in {"absent", "pending"} => tstatus'[t] \in {"absent", "pending", "cancelled"}
  BY <1>1 DEF Kept
<1>3. Numbered(tstatus') /\ OnePending(task', tstatus') /\ task' \in [Task -> TaskRow]
      /\ tstatus' \in [Task -> Status]
  BY DEF TableOK, Tables
<1>4. Once'
  BY <1>1, <1>2 DEF Once, Claimed, agentVars, TypeOK
<1>5. SnapshotKept'
  BY <1>1, <1>2 DEF SnapshotKept, Once, Claimed, agentVars
<1>6. Trouble' <=> Trouble
  BY <1>1, <1>2 DEF Trouble, agentVars
<1> QED BY <1>3, <1>4, <1>5, <1>6

\* What a stop leaves of the starts keeps the wish of the row.
LEMMA FadeKeepsWish ==
  ASSUME GreInv, NEW U, Fades(Table, U), Kept(Table, U), task' = U.task, tstatus' = U.st,
         UNCHANGED <<nodeVars, agentVars>>, Trouble' <=> Trouble,
         row'.exists => row.exists /\ row'.name = row.name /\ row'.config = row.config
  PROVE  EditInv'
<1>1. Table.task = task /\ Table.st = tstatus /\ EditInv /\ TypeOK
  BY TableIsOK DEF GreInv
<1>2. \A t \in Task :
        /\ IsStart(task', tstatus', t) <=> IsStart(task, tstatus, t)
        /\ IsStart(task, tstatus, t) =>
             /\ task'[t] = task[t]
             /\ tstatus'[t] = tstatus[t] \/ (tstatus[t] = "pending" /\ tstatus'[t] = "cancelled")
  BY <1>1 DEF Fades
<1>3. \A t \in Task : IsLast(task', tstatus', t) <=> IsLast(task, tstatus, t)
  BY <1>2 DEF IsLast
<1>4. \A l \in Task : IsLast(task, tstatus, l) /\ ~ Live(l)' /\ tstatus'[l] # "cancelled" =>
        task'[l] = task[l] /\ tstatus'[l] = tstatus[l] /\ ~ Live(l)
  BY <1>2 DEF IsLast, Live, agentVars
<1>5. SUFFICES ASSUME row'.exists, ~ Trouble'
               PROVE  /\ \A l \in Task : IsLast(task, tstatus, l)' /\ tstatus'[l] # "cancelled" =>
                           task'[l].config = row'.config /\ task'[l].name = row'.name
                      /\ (\A l \in Task : IsLast(task, tstatus, l)' => ~ Live(l)' /\ tstatus'[l] # "cancelled") =>
                           /\ dev'[row'.name] \in {row'.config, NoConfig}
                           /\ \A t \in batch' : task'[t].type # "start"
  BY DEF EditInv
<1>6. row.exists /\ ~ Trouble /\ row'.name = row.name /\ row'.config = row.config
  BY <1>5
<1>7. ASSUME NEW l \in Task, IsLast(task', tstatus', l), tstatus'[l] # "cancelled"
      PROVE  task'[l].config = row'.config /\ task'[l].name = row'.name
  <2>1. IsLast(task, tstatus, l) /\ task'[l] = task[l] /\ tstatus[l] # "cancelled"
    BY <1>2, <1>3, <1>7 DEF IsLast
  <2> QED BY <1>1, <1>6, <2>1 DEF EditInv
<1>8. ASSUME \A l \in Task : IsLast(task', tstatus', l) => ~ Live(l)' /\ tstatus'[l] # "cancelled"
      PROVE  /\ dev'[row'.name] \in {row'.config, NoConfig}
             /\ \A t \in batch' : task'[t].type # "start"
  <2>1. \A l \in Task : IsLast(task, tstatus, l) => ~ Live(l) /\ tstatus[l] # "cancelled"
    BY <1>3, <1>4, <1>8
  <2>2. dev[row.name] \in {row.config, NoConfig} /\ \A t \in batch : task[t].type # "start"
    BY <1>1, <1>6, <2>1 DEF EditInv
  <2>3. \A t \in batch : t \in Task /\ task'[t].type = task[t].type
    <3>1. \A t \in batch : t \in Task /\ tstatus[t] \notin {"absent", "pending"}
      BY DEF GreInv, TypeOK, Once, Claimed
    <3> QED BY <1>1, <3>1 DEF Kept
  <2> QED BY <1>6, <2>2, <2>3 DEF nodeVars, agentVars
<1> QED BY <1>7, <1>8

\* A pending start for the row settles it.
LEMMA WantedIsWish ==
  ASSUME NEW U, TableOK(U), task' = U.task, tstatus' = U.st, Wanted(U, row')
  PROVE  EditInv'
<1>1. PICK k \in Task : /\ IsStart(task', tstatus', k) /\ tstatus'[k] = "pending"
                       /\ task'[k].name = row'.name /\ task'[k].config = row'.config
  BY DEF Wanted
<1>2. IsLast(task', tstatus', k)
  BY <1>1 DEF TableOK, OnePending
<1>3. \A l \in Task : IsLast(task', tstatus', l) => l = k
  BY <1>1, <1>2 DEF IsLast, Task
<1>4. Live(k)'
  BY <1>1 DEF Live
<1> QED BY <1>1, <1>2, <1>3, <1>4 DEF EditInv

-----------------------------------------------------------------------------
(* The requests.                                                           *)

\* A request that reads and does not write.
LEMMA BeginKeeps ==
  ASSUME GreInv, UNCHANGED <<row, taskVars, nodeVars, agentVars>>, RequestOK',
         request' \in [op : {"none", "update", "start", "stop", "delete"}, row : Row,
                       name : MaybeName, config : MaybeConfig, dep : Task \cup {NoTask},
                       pending : Task \cup {NoTask}, running : Task \cup {NoTask}]
  PROVE  GreInv'
<1>1. /\ row' = row /\ task' = task /\ tstatus' = tstatus /\ dev' = dev /\ file' = file
      /\ batch' = batch /\ ran' = ran /\ seen' = seen /\ unacked' = unacked /\ late' = late
  BY DEF taskVars, nodeVars, agentVars
<1>2. TypeOK'
  BY <1>1 DEF GreInv, TypeOK
<1>3. Numbered(tstatus)' /\ Once' /\ SnapshotKept' /\ OnePending(task, tstatus)'
  BY <1>1 DEF GreInv, Numbered, Once, SnapshotKept, OnePending, IsLast, IsStart
<1>4. EditInv'
  <2>1. Trouble' <=> Trouble
    BY <1>1 DEF Trouble
  <2>2. \A l \in Task : (Live(l)' <=> Live(l)) /\ (IsLast(task, tstatus, l)' <=> IsLast(task, tstatus, l))
    BY <1>1 DEF Live, IsLast, IsStart
  <2> QED BY <1>1, <2>1, <2>2 DEF GreInv, EditInv
<1> QED BY <1>2, <1>3, <1>4 DEF GreInv

\* Nothing is asked of a request that is over.
LEMMA IdleIsFine ==
  ASSUME request' = Idle, row'.exists => row'.name \in Name /\ row'.config \in Config
  PROVE  RequestOK'
BY DEF RequestOK, Idle

LEMMA IdleTyped ==
  Idle \in [op : {"none", "update", "start", "stop", "delete"}, row : Row,
            name : MaybeName, config : MaybeConfig, dep : Task \cup {NoTask},
            pending : Task \cup {NoTask}, running : Task \cup {NoTask}]
<1>1. NoRow \in Row
  BY GreBoundAssumption DEF NoRow, Row, MaybeName, MaybeConfig, Runtime
<1> HIDE DEF NoRow
<1> QED BY <1>1 DEF Idle, MaybeName, MaybeConfig

\* The first write of a request, or a request that needs one step only.
LEMMA CommitDone ==
  ASSUME GreInv, row' \in Row, row'.exists => row'.name \in Name /\ row'.config \in Config,
         NEW U, TableOK(U), Kept(Table, U), SetTable(U), UNCHANGED <<nodeVars, agentVars>>,
         request' = Idle \/ (request' = request /\ (row' = row \/ request = Idle)), EditInv'
  PROVE  GreInv'
<1>1. task' = U.task /\ tstatus' = U.st
  BY DEF SetTable
<1>2. /\ Numbered(tstatus)' /\ OnePending(task, tstatus)' /\ Once' /\ SnapshotKept'
      /\ task' \in [Task -> TaskRow] /\ tstatus' \in [Task -> Status]
  BY <1>1, CommitKeeps
<1>3. TypeOK'
  BY <1>2, IdleTyped DEF GreInv, TypeOK, nodeVars, agentVars, TaskRow
<1>4. RequestOK'
  <2>1. CASE request' = Idle
    BY <2>1, IdleIsFine
  <2>2. CASE request' = request /\ row' = row
    <3>1. /\ \A t \in Task : tstatus[t] # "absent" => tstatus'[t] # "absent"
          /\ \A t \in Task : tstatus[t] # "absent" /\ task[t].type \in {"apply", "start"} =>
               task'[t].type = task[t].type
      <4>1. Table.task = task /\ Table.st = tstatus
        BY TableIsOK DEF GreInv
      <4>2. \A t \in Task : tstatus[t] \in Status
        BY DEF GreInv, TypeOK
      <4> QED BY <1>1, <4>1, <4>2 DEF Kept
    <3>2. request.pending # NoTask => request.pending \in Task
      BY DEF GreInv, TypeOK
    <3> QED BY <2>2, <3>1, <3>2 DEF GreInv, RequestOK
  <2>3. CASE request' = request /\ request = Idle
    BY <2>3, IdleIsFine
  <2> QED BY <2>1, <2>2, <2>3
<1> QED BY <1>2, <1>3, <1>4 DEF GreInv

\* create_managed_connection and create_manual_connection.
LEMMA CreateStep ==
  ASSUME GreInv, NEW n \in Name, NEW c \in Config, CreateEndpoint(n, c)
  PROVE  GreInv'
<1> DEFINE dep == Newest(Find(Table, StateType, {"running"}))
           pen == Oldest(Find(Table, {"apply"}, {"pending"}))
           run == Newest(Find(Table, {"apply"}, {"running"}))
           r   == [exists |-> TRUE, inst |-> row.inst + 1, name |-> n, prev |-> NoName, config |-> c,
                   deployed |-> NoConfig, runtime |-> "starting"]
           U   == ApplyAndStart(Table, r, dep, pen, run)
<1>1. /\ row' = r /\ SetTable(U) /\ ~ row.exists /\ row.inst < MaxInstances
      /\ UNCHANGED <<request, nodeVars, agentVars>>
  BY DEF CreateEndpoint
<1>2. r \in Row /\ r.name \in Name /\ r.config \in Config
  <2>1. row.inst + 1 \in 0..MaxInstances
    BY <1>1, GreBoundAssumption DEF GreInv, TypeOK, Row
  <2> QED BY <2>1 DEF Row, MaybeName, MaybeConfig, Runtime
<1>3. /\ dep \in MaybeTask /\ pen \in MaybeTask /\ run \in MaybeTask
      /\ pen # NoTask => Table.task[pen].type = "apply"
  <2>1. dep \in MaybeTask /\ run \in MaybeTask
    BY FindIn, NewestIn
  <2>2. pen \in MaybeTask /\ (pen # NoTask => pen \in Find(Table, {"apply"}, {"pending"}))
    BY FindIn, OldestIn
  <2> QED BY <2>1, <2>2 DEF Find
<1> HIDE DEF dep, pen, run, r
<1>4. TableOK(Table)
  BY TableIsOK DEF GreInv
<1>5. ~ U.full
  BY <1>1 DEF SetTable
<1>6. TableOK(U) /\ Kept(Table, U) /\ Wanted(U, r)
  BY <1>2, <1>3, <1>4, <1>5, EditTable
<1> HIDE DEF U
<1>7. EditInv'
  BY <1>1, <1>6, WantedIsWish DEF SetTable
<1>8. request = Idle
  BY <1>1 DEF GreInv, RequestOK
<1> QED BY <1>1, <1>2, <1>6, <1>7, <1>8, CommitDone

\* update_connection reads.
LEMMA UpdateBeginStep ==
  ASSUME GreInv, NEW n \in Name, NEW c \in Config, UpdateBegin(n, c)
  PROVE  GreInv'
<1> DEFINE dep == Newest(Find(Table, StateType, {"running"}))
           pen == Oldest(Find(Table, {"apply"}, {"pending"}))
           run == Newest(Find(Table, {"apply"}, {"running"}))
<1>1. dep \in MaybeTask /\ run \in MaybeTask
  BY FindIn, NewestIn
<1>2. pen \in MaybeTask /\ (pen # NoTask => pen \in Find(Table, {"apply"}, {"pending"}))
  BY FindIn, OldestIn
<1>3. pen # NoTask => tstatus[pen] # "absent" /\ task[pen].type = "apply"
  <2>1. Table.task = task /\ Table.st = tstatus
    BY TableIsOK DEF GreInv
  <2> QED BY <1>2, <2>1 DEF Find
<1>4. /\ request' = [op |-> "update", row |-> row, name |-> n, config |-> c, dep |-> dep,
                     pending |-> pen, running |-> run]
      /\ row.exists /\ UNCHANGED <<row, taskVars, nodeVars, agentVars>>
  BY DEF UpdateBegin, Begin, Idle
<1> HIDE DEF dep, pen, run
<1>5. RequestOK'
  BY <1>3, <1>4 DEF GreInv, RequestOK, taskVars
<1>6. request' \in [op : {"none", "update", "start", "stop", "delete"}, row : Row,
                    name : MaybeName, config : MaybeConfig, dep : Task \cup {NoTask},
                    pending : Task \cup {NoTask}, running : Task \cup {NoTask}]
  BY <1>1, <1>2, <1>4 DEF GreInv, TypeOK, MaybeTask, MaybeName, MaybeConfig
<1> QED BY <1>4, <1>5, <1>6, BeginKeeps

\* start_connection reads.
LEMMA StartBeginStep ==
  ASSUME GreInv, StartBegin
  PROVE  GreInv'
<1> DEFINE pen == Oldest(Find(Table, {"start"}, {"pending"}))
           run == Newest(Find(Table, {"start"}, {"running"}))
<1>1. run \in MaybeTask
  BY FindIn, NewestIn
<1>2. pen \in MaybeTask /\ (pen # NoTask => pen \in Find(Table, {"start"}, {"pending"}))
  BY FindIn, OldestIn
<1>3. pen # NoTask => tstatus[pen] # "absent" /\ task[pen].type = "start"
  <2>1. Table.task = task /\ Table.st = tstatus
    BY TableIsOK DEF GreInv
  <2> QED BY <1>2, <2>1 DEF Find
<1>4. /\ request' = [op |-> "start", row |-> row, name |-> NoName, config |-> NoConfig, dep |-> NoTask,
                     pending |-> pen, running |-> run]
      /\ row.exists /\ UNCHANGED <<row, taskVars, nodeVars, agentVars>>
  BY DEF StartBegin, Begin, Idle
<1> HIDE DEF pen, run
<1>5. RequestOK'
  BY <1>3, <1>4 DEF GreInv, RequestOK, taskVars
<1>6. request' \in [op : {"none", "update", "start", "stop", "delete"}, row : Row,
                    name : MaybeName, config : MaybeConfig, dep : Task \cup {NoTask},
                    pending : Task \cup {NoTask}, running : Task \cup {NoTask}]
  BY <1>1, <1>2, <1>4 DEF GreInv, TypeOK, MaybeTask, MaybeName, MaybeConfig
<1> QED BY <1>4, <1>5, <1>6, BeginKeeps

\* stop_connection and delete_connection read.
LEMMA StopBeginStep ==
  ASSUME GreInv, StopBegin \/ DeleteBegin
  PROVE  GreInv'
<1>1. PICK op \in {"stop", "delete"} :
        /\ request' = [op |-> op, row |-> row, name |-> NoName, config |-> NoConfig, dep |-> NoTask,
                       pending |-> NoTask, running |-> NoTask]
        /\ row.exists /\ UNCHANGED <<row, taskVars, nodeVars, agentVars>>
  <2>1. CASE StopBegin
    BY <2>1 DEF StopBegin, Begin, Idle
  <2>2. CASE DeleteBegin
    BY <2>2 DEF DeleteBegin, Begin, Idle
  <2> QED BY <2>1, <2>2
<1>2. RequestOK'
  BY <1>1 DEF GreInv, RequestOK, taskVars
<1>3. request' \in [op : {"none", "update", "start", "stop", "delete"}, row : Row,
                    name : MaybeName, config : MaybeConfig, dep : Task \cup {NoTask},
                    pending : Task \cup {NoTask}, running : Task \cup {NoTask}]
  BY <1>1 DEF GreInv, TypeOK, MaybeName, MaybeConfig
<1> QED BY <1>1, <1>2, <1>3, BeginKeeps

\* update_connection writes.
LEMMA UpdateCommitStep ==
  ASSUME GreInv, UpdateCommit
  PROVE  GreInv'
<1> DEFINE g    == request
           prev == PrevAfter(g.row, g.name)
           mine == [g.row EXCEPT !.name = g.name, !.config = g.config, !.prev = prev]
           U    == ApplyAndStart(Table, mine, g.dep, g.pending, g.running)
<1>1. /\ g.op = "update" /\ row.exists /\ SetTable(U) /\ request' = Idle
      /\ UNCHANGED <<nodeVars, agentVars>>
      /\ row' = [row EXCEPT !.name = Column(g.name, g.row.name, row.name),
                            !.config = Column(g.config, g.row.config, row.config),
                            !.prev = Column(mine.prev, g.row.prev, row.prev),
                            !.runtime = Column("starting", g.row.runtime, row.runtime)]
  BY DEF UpdateCommit
<1>2. /\ row \in Row /\ g.row \in Row /\ g.name \in Name /\ g.config \in Config
      /\ g.row.name = row.name /\ g.row.config = row.config
      /\ g.dep \in MaybeTask /\ g.pending \in MaybeTask /\ g.running \in MaybeTask
      /\ g.pending # NoTask => Table.task[g.pending].type = "apply"
  <2>1. g # Idle
    BY <1>1 DEF Idle
  <2>2. Table.task = task
    BY TableIsOK DEF GreInv
  <2> QED BY <1>1, <2>1, <2>2 DEF GreInv, TypeOK, RequestOK, MaybeTask
<1>3. prev \in MaybeName
  BY <1>2 DEF PrevAfter, Row, MaybeName
<1> HIDE DEF prev
<1>4. /\ mine \in Row /\ mine.name = g.name /\ mine.config = g.config /\ mine.prev = prev
  BY <1>2, <1>3 DEF Row, MaybeName, MaybeConfig
<1>5. /\ row' \in Row /\ row'.name = g.name /\ row'.config = g.config
  <2>1. /\ Column(g.name, g.row.name, row.name) = g.name
        /\ Column(g.config, g.row.config, row.config) = g.config
        /\ Column(mine.prev, g.row.prev, row.prev) \in MaybeName
        /\ Column("starting", g.row.runtime, row.runtime) \in Runtime
    BY <1>2, <1>3, <1>4 DEF Column, Row, Runtime
  <2>2. g.name \in MaybeName /\ g.config \in MaybeConfig
    BY <1>2 DEF MaybeName, MaybeConfig
  <2> HIDE DEF mine
  <2> QED BY <1>1, <1>2, <2>1, <2>2 DEF Row
<1> HIDE DEF mine
<1>6. TableOK(Table)
  BY TableIsOK DEF GreInv
<1>7. ~ U.full
  BY <1>1 DEF SetTable
<1>8. TableOK(U) /\ Kept(Table, U) /\ Wanted(U, mine)
  BY <1>2, <1>4, <1>6, <1>7, EditTable
<1> HIDE DEF U
<1>9. Wanted(U, row')
  BY <1>4, <1>5, <1>8 DEF Wanted
<1>10. EditInv'
  BY <1>1, <1>8, <1>9, WantedIsWish DEF SetTable
<1> QED BY <1>1, <1>2, <1>5, <1>8, <1>10, CommitDone

\* start_connection writes: it finds a task to rely on or queues one.
LEMMA StartCommitStep ==
  ASSUME GreInv, StartCommit
  PROVE  GreInv'
<1> DEFINE g == request
           p == Payload("start", g.row, NoTask, FALSE)
           U == Create(Table, p, FALSE, FALSE, g.pending, g.running).tab
<1>1. /\ g.op = "start" /\ row.exists /\ SetTable(U) /\ request' = Idle
      /\ UNCHANGED <<nodeVars, agentVars>>
      /\ row' = [row EXCEPT !.runtime = Column("starting", g.row.runtime, row.runtime)]
  BY DEF StartCommit
<1>2. /\ row \in Row /\ g.row \in Row /\ row.name \in Name /\ row.config \in Config
      /\ g.row.name = row.name /\ g.row.config = row.config
      /\ g.pending \in MaybeTask /\ g.running \in MaybeTask
      /\ g.pending # NoTask => Table.task[g.pending].type = "start"
  <2>1. g # Idle
    BY <1>1 DEF Idle
  <2>2. Table.task = task
    BY TableIsOK DEF GreInv
  <2> QED BY <1>1, <2>1, <2>2 DEF GreInv, TypeOK, RequestOK, MaybeTask
<1>3. p \in TaskRow /\ p.type = "start" /\ p.name = row.name /\ p.config = row.config
  <2>1. "start" \in TaskType /\ NoName \in MaybeName
    BY DEF TaskType, StateType, MaybeName
  <2> QED BY <1>2, <2>1 DEF Payload, TaskRow, Row, MaybeTask
<1> HIDE DEF p
<1>4. TableOK(Table)
  BY TableIsOK DEF GreInv
<1>5. Made(Table, U, p)
  BY <1>2, <1>3, <1>4, CreateMade
<1>6. ~ U.full
  BY <1>1 DEF SetTable
<1> HIDE DEF U
<1>7. TableOK(U) /\ Kept(Table, U) /\ (U = Table \/ Wanted(U, p))
  BY <1>3, <1>4, <1>5, <1>6, MadeKeeps
<1>8. row' \in Row /\ row'.name = row.name /\ row'.config = row.config /\ row'.exists = row.exists
  <2>1. Column("starting", g.row.runtime, row.runtime) \in Runtime
    BY <1>2 DEF Column, Row, Runtime
  <2> QED BY <1>1, <1>2, <2>1 DEF Row
<1>9. EditInv'
  <2>1. CASE Wanted(U, p)
    <3>1. Wanted(U, row')
      BY <1>3, <1>8, <2>1 DEF Wanted
    <3> QED BY <1>1, <1>7, <3>1, WantedIsWish DEF SetTable
  <2>2. CASE U = Table
    <3>1. Fades(Table, U)
      BY <2>2 DEF Fades
    <3>2. task' = U.task /\ tstatus' = U.st
      BY <1>1 DEF SetTable
    <3>3. Trouble' <=> Trouble
      BY <1>1, <1>7, <3>2, CommitKeeps
    <3> QED BY <1>1, <1>7, <1>8, <3>1, <3>2, <3>3, FadeKeepsWish
  <2> QED BY <1>7, <2>1, <2>2
<1> QED BY <1>1, <1>2, <1>7, <1>8, <1>9, CommitDone

\* stop_connection writes.
LEMMA StopCommitStep ==
  ASSUME GreInv, StopCommit
  PROVE  GreInv'
<1> DEFINE g == request
           U == QueueStop(g.row).tab
<1>1. /\ g.op = "stop" /\ row.exists /\ SetTable(U) /\ request' = Idle
      /\ UNCHANGED <<nodeVars, agentVars>>
      /\ row' = [row EXCEPT !.runtime = Column("stopping", g.row.runtime, row.runtime)]
  BY DEF StopCommit
<1>2. row \in Row /\ g.row \in Row /\ row.name \in Name /\ row.config \in Config
  BY <1>1 DEF GreInv, TypeOK, RequestOK
<1>3. TableOK(Table)
  BY TableIsOK DEF GreInv
<1>4. ~ U.full /\ task' = U.task /\ tstatus' = U.st
  BY <1>1 DEF SetTable
<1>5. TableOK(U) /\ Kept(Table, U) /\ Fades(Table, U)
  BY <1>2, <1>3, <1>4, StopTable
<1> HIDE DEF U
<1>6. row' \in Row /\ row'.name = row.name /\ row'.config = row.config /\ row'.exists = row.exists
  <2>1. Column("stopping", g.row.runtime, row.runtime) \in Runtime
    BY <1>2 DEF Column, Row, Runtime
  <2> QED BY <1>1, <1>2, <2>1 DEF Row
<1>7. Trouble' <=> Trouble
  BY <1>1, <1>4, <1>5, CommitKeeps
<1>8. EditInv'
  BY <1>1, <1>4, <1>5, <1>6, <1>7, FadeKeepsWish
<1> QED BY <1>1, <1>2, <1>5, <1>6, <1>8, CommitDone

\* delete_connection writes.
LEMMA DeleteCommitStep ==
  ASSUME GreInv, DeleteCommit
  PROVE  GreInv'
<1> DEFINE g    == request
           stop == QueueStop(g.row)
           p    == Payload("delete", g.row, stop.id, FALSE)
           U    == CreateNow(stop.tab, p, FALSE, FALSE).tab
<1>1. /\ g.op = "delete" /\ row.exists /\ SetTable(U) /\ request' = Idle
      /\ UNCHANGED <<nodeVars, agentVars>> /\ row' = [NoRow EXCEPT !.inst = row.inst]
  BY DEF DeleteCommit
<1>2. row \in Row /\ g.row \in Row
  BY <1>1 DEF GreInv, TypeOK
<1>3. TableOK(Table)
  BY TableIsOK DEF GreInv
<1>4. /\ TableOK(stop.tab)
      /\ ~ stop.tab.full => Kept(Table, stop.tab) /\ stop.id \in MaybeTask
  BY <1>2, <1>3, StopTable
<1> HIDE DEF stop
<1>5. ~ U.full /\ task' = U.task /\ tstatus' = U.st
  BY <1>1 DEF SetTable
<1>6. ~ stop.tab.full
  <2> HIDE DEF p
  <2>1. stop.tab \in Tables
    BY <1>4 DEF TableOK
  <2> QED BY <1>5, <2>1, FullStays
<1>7. p \in TaskRow /\ p.type = "delete"
  <2>1. "delete" \in TaskType /\ NoName \in MaybeName
    BY DEF TaskType, StateType, MaybeName
  <2> QED BY <1>2, <1>4, <1>6, <2>1 DEF Payload, TaskRow, Row, MaybeTask
<1> HIDE DEF p
<1>8. Made(stop.tab, U, p)
  BY <1>4, <1>7, CreateNowPlaces
<1> HIDE DEF U
<1>9. TableOK(U) /\ Kept(stop.tab, U)
  BY <1>4, <1>5, <1>7, <1>8, MadeKeeps
<1>10. Kept(Table, U)
  BY <1>4, <1>6, <1>9, KeptTwice
<1>11. row' \in Row /\ ~ row'.exists
  BY <1>1, <1>2 DEF NoRow, Row, MaybeName, MaybeConfig, Runtime
<1>12. EditInv'
  BY <1>11 DEF EditInv
<1> QED BY <1>1, <1>9, <1>10, <1>11, <1>12, CommitDone

\* refresh_connection_status.
LEMMA RefreshStep ==
  ASSUME GreInv, Refresh
  PROVE  GreInv'
<1> DEFINE p == Payload("status", row, NoTask, FALSE)
           U == CreateNow(Table, p, FALSE, FALSE).tab
<1>1. row.exists /\ SetTable(U) /\ UNCHANGED <<row, request, nodeVars, agentVars>>
  BY DEF Refresh
<1>2. row \in Row /\ row.name \in Name /\ row.config \in Config
  BY <1>1 DEF GreInv, TypeOK, RequestOK
<1>3. p \in TaskRow /\ p.type = "status"
  <2>1. "status" \in TaskType /\ NoName \in MaybeName
    BY DEF TaskType, StateType, MaybeName
  <2> QED BY <1>2, <2>1 DEF Payload, TaskRow, Row, MaybeTask
<1> HIDE DEF p
<1>4. TableOK(Table)
  BY TableIsOK DEF GreInv
<1>5. Made(Table, U, p)
  BY <1>3, <1>4, CreateNowPlaces
<1>6. ~ U.full /\ task' = U.task /\ tstatus' = U.st
  BY <1>1 DEF SetTable
<1> HIDE DEF U
<1>7. TableOK(U) /\ Kept(Table, U) /\ Fades(Table, U)
  BY <1>3, <1>4, <1>5, <1>6, MadeKeeps
<1>8. Trouble' <=> Trouble
  BY <1>1, <1>6, <1>7, CommitKeeps
<1>9. EditInv'
  BY <1>1, <1>6, <1>7, <1>8, FadeKeepsWish
<1> QED BY <1>1, <1>2, <1>7, <1>9, CommitDone

\* A request that fails leaves no trace.
LEMMA RequestFailsStep ==
  ASSUME GreInv, RequestFails
  PROVE  GreInv'
<1>1. request' = Idle /\ UNCHANGED <<row, taskVars, nodeVars, agentVars>>
  BY DEF RequestFails
<1>2. RequestOK'
  BY <1>1, IdleIsFine DEF GreInv, RequestOK
<1> QED BY <1>1, <1>2, IdleTyped, BeginKeeps

-----------------------------------------------------------------------------
(* Delivery and the node.                                                  *)

\* What the steps of the delivery have in common: only statuses change, and none of a
\* row that there is not.
LEMMA DeliveryKeeps ==
  ASSUME GreInv, task' = task, request' = request, tstatus' \in [Task -> Status],
         \A t \in Task : tstatus'[t] = "absent" <=> tstatus[t] = "absent",
         \A t \in Task : tstatus'[t] = "pending" => tstatus[t] = "pending",
         row'.exists = row.exists, row'.name = row.name, row'.config = row.config
  PROVE  /\ Numbered(tstatus)' /\ RequestOK' /\ OnePending(task, tstatus)'
         /\ \A t \in Task : IsLast(task, tstatus, t)' <=> IsLast(task, tstatus, t)
<1>1. {t \in Task : tstatus'[t] # "absent"} = {t \in Task : tstatus[t] # "absent"}
  OBVIOUS
<1>2. Numbered(tstatus)'
  BY <1>1 DEF GreInv, Numbered
<1>3. \A t \in Task : IsStart(task, tstatus, t)' <=> IsStart(task, tstatus, t)
  BY DEF IsStart
<1>4. \A t \in Task : IsLast(task, tstatus, t)' <=> IsLast(task, tstatus, t)
  BY <1>3 DEF IsLast
<1>5. OnePending(task, tstatus)'
  BY <1>3, <1>4 DEF GreInv, OnePending
<1>6. RequestOK'
  <2>1. request.pending # NoTask => request.pending \in Task
    BY DEF GreInv, TypeOK
  <2> QED BY <2>1 DEF GreInv, RequestOK
<1> QED BY <1>2, <1>4, <1>5, <1>6

\* What is claimed was pending, and so was what the poll fails.
LEMMA PollClaims ==
  /\ Claimable \in SUBSET Task /\ Doomed \in SUBSET Task
  /\ \A t \in Claimable \cup Doomed : tstatus[t] = "pending"
<1>1. Claimable \in SUBSET Task /\ \A t \in Claimable : tstatus[t] = "pending"
  BY DEF Claimable, Ready
<1>2. Doomed \in SUBSET Task /\ \A t \in Doomed : tstatus[t] = "pending"
  BY DEF Doomed
<1> QED BY <1>1, <1>2

\* The agent polls.
LEMMA PollStep ==
  ASSUME GreInv, Poll
  PROVE  GreInv'
<1>1. /\ Claimable \in SUBSET Task /\ Doomed \in SUBSET Task
      /\ \A t \in Claimable \cup Doomed : tstatus[t] = "pending"
  BY PollClaims
<1>2. /\ batch = {} /\ batch' \in {Claimable, {}}
      /\ tstatus' = [t \in Task |-> IF t \in Claimable THEN "running"
                                    ELSE IF t \in Doomed THEN "failed" ELSE tstatus[t]]
      /\ UNCHANGED <<row, task, request, nodeVars, ran, seen, unacked, late>>
  BY DEF Poll
<1> HIDE DEF Claimable, Doomed
<1>3. TypeOK'
  BY <1>1, <1>2 DEF GreInv, TypeOK, Status, nodeVars
<1>4. /\ \A t \in Claimable : tstatus'[t] = "running"
      /\ \A t \in Doomed \ Claimable : tstatus'[t] = "failed"
      /\ \A t \in Task \ (Claimable \cup Doomed) : tstatus'[t] = tstatus[t]
  BY <1>1, <1>2
<1>5. \A t \in Task : /\ tstatus'[t] = "absent" <=> tstatus[t] = "absent"
                      /\ tstatus'[t] = "pending" => tstatus[t] = "pending"
                      /\ tstatus[t] # "pending" => tstatus'[t] = tstatus[t]
                      /\ tstatus'[t] = "succeeded" => tstatus[t] = "succeeded"
  BY <1>1, <1>4
<1>6. /\ Numbered(tstatus)' /\ RequestOK' /\ OnePending(task, tstatus)'
      /\ \A t \in Task : IsLast(task, tstatus, t)' <=> IsLast(task, tstatus, t)
  BY <1>2, <1>3, <1>5, DeliveryKeeps DEF TypeOK
<1>7. \A t \in Task : tstatus[t] = "pending" => ran[t] = "no"
  <2>1. \A t \in Task : ran[t] # "no" => tstatus[t] \in Claimed
    BY DEF GreInv, Once
  <2> QED BY <2>1 DEF Claimed
<1>8. Once'
  <2>1. \A t \in batch' : ran'[t] = "no" /\ tstatus'[t] \in Claimed
    BY <1>1, <1>2, <1>4, <1>7 DEF Claimed
  <2>2. \A t \in Task : ran'[t] # "no" => tstatus'[t] \in Claimed
    BY <1>2, <1>5, <1>7 DEF GreInv, Once
  <2> QED BY <1>2, <1>5, <2>1, <2>2 DEF GreInv, Once
<1>9. SnapshotKept'
  BY <1>2 DEF GreInv, SnapshotKept
<1>10. EditInv'
  <2>1. Trouble => Trouble'
    BY <1>2, <1>5 DEF Trouble
  <2>2. CASE Doomed \ Claimable # {}
    BY <1>1, <1>4, <2>2 DEF EditInv, Trouble
  <2>3. CASE Doomed \ Claimable = {}
    <3>1. \A t \in Task : /\ Live(t)' <=> Live(t)
                          /\ tstatus'[t] # "cancelled" <=> tstatus[t] # "cancelled"
      BY <1>1, <1>2, <1>4, <1>7, <2>3 DEF Live
    <3>2. \A t \in batch' : task'[t].type = "start" => IsLast(task, tstatus, t) /\ Live(t)
      BY <1>1, <1>2 DEF GreInv, OnePending, IsStart, Live
    <3>3. \A t \in batch' : t \in Task
      BY <1>1, <1>2
    <3>4. row' = row /\ dev' = dev /\ task' = task
      BY <1>2 DEF nodeVars
    <3> QED BY <1>6, <2>1, <3>1, <3>2, <3>3, <3>4 DEF GreInv, EditInv
  <2> QED BY <2>2, <2>3
<1> QED BY <1>3, <1>6, <1>8, <1>9, <1>10 DEF GreInv

\* A task expires.
LEMMA ExpireStep ==
  ASSUME GreInv, NEW t \in Task, Expire(t)
  PROVE  GreInv'
<1>1. /\ tstatus[t] = "running" /\ tstatus' = [tstatus EXCEPT ![t] = "failed"]
      /\ UNCHANGED <<row, task, request, nodeVars, agentVars>>
  BY DEF Expire
<1>2. TypeOK'
  BY <1>1 DEF GreInv, TypeOK, Status, nodeVars, agentVars
<1>3. tstatus'[t] = "failed" /\ \A u \in Task \ {t} : tstatus'[u] = tstatus[u]
  BY <1>1 DEF GreInv, TypeOK
<1>4. /\ Numbered(tstatus)' /\ RequestOK' /\ OnePending(task, tstatus)'
  <2>1. \A u \in Task : /\ tstatus'[u] = "absent" <=> tstatus[u] = "absent"
                        /\ tstatus'[u] = "pending" => tstatus[u] = "pending"
    BY <1>1, <1>3
  <2> QED BY <1>1, <1>2, <2>1, DeliveryKeeps DEF TypeOK
<1>5. Once'
  BY <1>1, <1>3 DEF GreInv, TypeOK, Once, Claimed, agentVars
<1>6. SnapshotKept'
  BY <1>1 DEF GreInv, SnapshotKept, agentVars
<1>7. EditInv'
  BY <1>3 DEF EditInv, Trouble
<1> QED BY <1>2, <1>4, <1>5, <1>6, <1>7 DEF GreInv

\* The agent restarts.
LEMMA RestartStep ==
  ASSUME GreInv, AgentRestart
  PROVE  GreInv'
<1>1. /\ batch' = {} /\ unacked' = {} /\ late' = late \cup unacked
      /\ UNCHANGED <<row, taskVars, request, nodeVars, ran, seen>>
  BY DEF AgentRestart
<1>2. TypeOK'
  BY <1>1 DEF GreInv, TypeOK, taskVars, nodeVars
<1>3. /\ Numbered(tstatus)' /\ RequestOK' /\ OnePending(task, tstatus)'
      /\ \A t \in Task : IsLast(task, tstatus, t)' <=> IsLast(task, tstatus, t)
  BY <1>1, <1>2, DeliveryKeeps DEF TypeOK, taskVars
<1>4. Once' /\ SnapshotKept'
  BY <1>1 DEF GreInv, Once, SnapshotKept, taskVars
<1>5. EditInv'
  <2>1. (Trouble' <=> Trouble) /\ \A t \in Task : Live(t)' <=> Live(t)
    BY <1>1 DEF Trouble, Live, taskVars
  <2> QED BY <1>1, <1>3, <2>1 DEF GreInv, EditInv, taskVars, nodeVars
<1> QED BY <1>2, <1>3, <1>4, <1>5 DEF GreInv

\* What an execution does to the devices.
LEMMA NodeMoves ==
  ASSUME NEW p \in TaskRow, dev \in [Name -> MaybeConfig], file \in [Name -> MaybeConfig],
         Succeeds(p) \/ Fails(p)
  PROVE  /\ dev' \in [Name -> MaybeConfig] /\ file' \in [Name -> MaybeConfig]
         /\ p.type # "start" => \A n \in Name : dev'[n] \in {dev[n], NoConfig}
         /\ p.type = "start" /\ Succeeds(p) /\ p.name \in Name => dev'[p.name] = p.config
<1>1. p.config \in MaybeConfig /\ NoConfig \in MaybeConfig
  BY DEF TaskRow, MaybeConfig
<1>2. ASSUME NEW f \in [Name -> MaybeConfig], NEW S
      PROVE  /\ Cleared(f, S) \in [Name -> MaybeConfig]
             /\ [Cleared(f, S) EXCEPT ![p.name] = p.config] \in [Name -> MaybeConfig]
             /\ [f EXCEPT ![p.name] = p.config] \in [Name -> MaybeConfig]
             /\ \A n \in Name : Cleared(f, S)[n] \in {f[n], NoConfig}
             /\ p.name \in Name => [Cleared(f, S) EXCEPT ![p.name] = p.config][p.name] = p.config
  BY <1>1 DEF Cleared
<1> HIDE DEF Cleared
<1>3. CASE p.type = "apply"
  BY <1>2, <1>3 DEF Succeeds, Fails, nodeVars
<1>4. CASE p.type = "start"
  <2>1. dev' \in [Name -> MaybeConfig]
    <3>1. CASE Succeeds(p)
      BY <1>2, <1>4, <3>1 DEF Succeeds
    <3>2. CASE Fails(p)
      <4>1. dev' \in {dev, Cleared(dev, {p.prev}), Cleared(dev, {p.prev, p.name}),
                      [Cleared(dev, {p.prev}) EXCEPT ![p.name] = p.config]}
        BY <1>4, <3>2 DEF Fails
      <4> QED BY <1>2, <4>1
    <3> QED BY <3>1, <3>2
  <2>2. file' \in [Name -> MaybeConfig]
    BY <1>2, <1>4 DEF Succeeds, Fails
  <2>3. Succeeds(p) /\ p.name \in Name => dev'[p.name] = p.config
    BY <1>2, <1>4 DEF Succeeds
  <2> QED BY <1>4, <2>1, <2>2, <2>3
<1>5. CASE p.type = "stop"
  <2>1. file' = file /\ dev' \in {dev, Cleared(dev, {p.name})}
    BY <1>5 DEF Succeeds, Fails, nodeVars
  <2> QED BY <1>2, <1>5, <2>1
<1>6. CASE p.type = "delete"
  <2>1. /\ dev' \in {dev, Cleared(dev, {p.name}), Cleared(dev, {p.name, p.prev})}
        /\ file' \in {file, Cleared(file, {p.name}), Cleared(file, {p.name, p.prev})}
    BY <1>6 DEF Succeeds, Fails, nodeVars
  <2> QED BY <1>2, <1>6, <2>1
<1>7. CASE p.type = "status"
  BY <1>7 DEF Succeeds, Fails, nodeVars
<1>8. p.type \in {"apply", "start", "stop", "status", "delete"}
  BY DEF TaskRow, TaskType, StateType
<1> QED BY <1>3, <1>4, <1>5, <1>6, <1>7, <1>8

\* The agent executes a task.
LEMMA ExecuteStep ==
  ASSUME GreInv, NEW t \in Task, Execute(t)
  PROVE  GreInv'
<1>1. /\ t \in batch /\ (\A u \in batch : t <= u) /\ batch' = batch \ {t} /\ unacked' = unacked \cup {t}
      /\ UNCHANGED <<row, taskVars, request, late>>
      /\ \/ Succeeds(task[t]) /\ ran' = [ran EXCEPT ![t] = "ok"]
         \/ Fails(task[t]) /\ ran' = [ran EXCEPT ![t] = "failed"]
      /\ seen' = [seen EXCEPT ![t] = CASE task[t].type \in Deployment -> task[t].config
                                       [] task[t].type = "status" ->
                                            IF dev[task[t].name] # NoConfig THEN "running" ELSE "stopped"
                                       [] OTHER -> NoConfig]
  BY DEF Execute
<1>2. /\ TypeOK /\ Once /\ SnapshotKept /\ EditInv /\ RequestOK
      /\ task' = task /\ tstatus' = tstatus /\ row' = row
  BY <1>1 DEF GreInv, taskVars
<1>3. task[t] \in TaskRow /\ task[t].config \in MaybeConfig
  BY <1>2 DEF TypeOK, TaskRow
<1>4. /\ dev' \in [Name -> MaybeConfig] /\ file' \in [Name -> MaybeConfig]
      /\ task[t].type # "start" => \A n \in Name : dev'[n] \in {dev[n], NoConfig}
      /\ task[t].type = "start" /\ Succeeds(task[t]) /\ task[t].name \in Name =>
           dev'[task[t].name] = task[t].config
  BY <1>1, <1>2, <1>3, NodeMoves DEF TypeOK
<1>5. /\ seen' \in [Task -> MaybeConfig \cup {"running", "stopped"}]
      /\ task[t].type \in Deployment => seen'[t] = task[t].config
      /\ task[t].type = "status" => seen'[t] \in {"running", "stopped"}
      /\ \A u \in Task \ {t} : seen'[u] = seen[u]
  <2> DEFINE v == CASE task[t].type \in Deployment -> task[t].config
                    [] task[t].type = "status" ->
                         IF dev[task[t].name] # NoConfig THEN "running" ELSE "stopped"
                    [] OTHER -> NoConfig
  <2>1. /\ v \in MaybeConfig \cup {"running", "stopped"}
        /\ task[t].type \in Deployment => v = task[t].config
        /\ task[t].type = "status" => v \in {"running", "stopped"}
    <3>1. NoConfig \in MaybeConfig /\ "status" \notin Deployment
      BY DEF MaybeConfig, Deployment
    <3> QED BY <1>3, <3>1
  <2>2. seen' = [seen EXCEPT ![t] = v] /\ seen \in [Task -> MaybeConfig \cup {"running", "stopped"}]
    BY <1>1, <1>2 DEF TypeOK
  <2> HIDE DEF v
  <2> QED BY <2>1, <2>2
<1>6. /\ ran' \in [Task -> {"no", "ok", "failed"}] /\ ran'[t] \in {"ok", "failed"}
      /\ ran'[t] = "ok" => Succeeds(task[t])
      /\ \A u \in Task \ {t} : ran'[u] = ran[u]
  BY <1>1, <1>2 DEF TypeOK
<1>7. TypeOK'
  BY <1>1, <1>2, <1>4, <1>5, <1>6 DEF TypeOK
<1>8. ran[t] = "no" /\ tstatus[t] \in {"running", "failed"}
  BY <1>1, <1>2 DEF Once, Claimed
<1>9. Once'
  BY <1>1, <1>2, <1>6, <1>8 DEF Once, TypeOK, Claimed
<1>10. SnapshotKept'
  BY <1>2, <1>5, <1>6 DEF SnapshotKept
<1>11. /\ Numbered(tstatus)' /\ RequestOK' /\ OnePending(task, tstatus)'
       /\ \A u \in Task : IsLast(task, tstatus, u)' <=> IsLast(task, tstatus, u)
  BY <1>1, <1>2, <1>7, DeliveryKeeps DEF TypeOK
<1>12. EditInv'
  <2>1. SUFFICES ASSUME row.exists, ~ Trouble'
                 PROVE  /\ \A l \in Task : IsLast(task, tstatus, l) /\ tstatus[l] # "cancelled" =>
                             task[l].config = row.config /\ task[l].name = row.name
                        /\ (\A l \in Task : IsLast(task, tstatus, l) => ~ Live(l)' /\ tstatus[l] # "cancelled") =>
                             /\ dev'[row.name] \in {row.config, NoConfig}
                             /\ \A u \in batch' : task[u].type # "start"
    BY <1>2, <1>11 DEF EditInv
  <2>2. ~ Trouble
    BY <1>2, <1>6, <1>8, <2>1 DEF Trouble
  <2>3. \A l \in Task : IsLast(task, tstatus, l) /\ tstatus[l] # "cancelled" =>
          task[l].config = row.config /\ task[l].name = row.name
    BY <1>2, <2>1, <2>2 DEF EditInv
  <2>4. row.name \in Name
    BY <1>2, <2>1 DEF RequestOK
  <2>5. ASSUME \A l \in Task : IsLast(task, tstatus, l) => ~ Live(l)' /\ tstatus[l] # "cancelled"
        PROVE  /\ dev'[row.name] \in {row.config, NoConfig}
               /\ \A u \in batch' : task[u].type # "start"
    <3>1. CASE IsLast(task, tstatus, t)
      <4>1. ran'[t] = "ok"
        BY <1>2, <1>6, <1>8, <2>1 DEF Trouble
      <4>2. task[t].type = "start" /\ task[t].config = row.config /\ task[t].name = row.name
        BY <2>3, <2>5, <3>1 DEF IsLast, IsStart
      <4>3. dev'[row.name] = row.config
        BY <1>4, <1>6, <2>4, <4>1, <4>2
      <4>4. ASSUME NEW u \in batch', task[u].type = "start" PROVE FALSE
        <5>1. u \in batch /\ u # t /\ u \in Task /\ tstatus[u] \in Claimed
          BY <1>1, <1>2, <4>4 DEF TypeOK, Once
        <5>2. u <= t /\ t <= u
          BY <1>1, <3>1, <4>4, <5>1 DEF IsLast, IsStart, Claimed
        <5> QED BY <5>1, <5>2 DEF Task
      <4> QED BY <4>3, <4>4
    <3>2. CASE ~ IsLast(task, tstatus, t)
      <4>1. \A l \in Task : IsLast(task, tstatus, l) => ~ Live(l) /\ tstatus[l] # "cancelled"
        BY <1>2, <1>6, <2>5, <3>2 DEF Live
      <4>2. dev[row.name] \in {row.config, NoConfig} /\ \A u \in batch : task[u].type # "start"
        BY <1>2, <2>1, <2>2, <4>1 DEF EditInv
      <4>3. dev'[row.name] \in {dev[row.name], NoConfig}
        BY <1>1, <1>4, <2>4, <4>2
      <4> QED BY <1>1, <4>2, <4>3
    <3> QED BY <3>1, <3>2
  <2> QED BY <2>3, <2>5
<1> QED BY <1>7, <1>9, <1>10, <1>11, <1>12 DEF GreInv

\* A report is handled, now or after the agent's end.
LEMMA HandleStep ==
  ASSUME GreInv, NEW t \in Task, Report(t) \/ LateReport(t)
  PROVE  GreInv'
<1>1. /\ t \in unacked \cup late /\ unacked' \subseteq unacked /\ late' \subseteq late
      /\ UNCHANGED <<task, request, nodeVars, batch, ran, seen>>
      /\ IF tstatus[t] # "running"
         THEN UNCHANGED <<tstatus, row>>
         ELSE /\ tstatus' = [tstatus EXCEPT ![t] = IF ran[t] = "ok" THEN "succeeded" ELSE "failed"]
              /\ row' = IF ~ Targets(t) THEN row
                        ELSE IF ran[t] = "ok" THEN AfterSuccess(t)
                        ELSE [row EXCEPT !.runtime = "failed"]
  BY DEF Report, LateReport, Handle
<1>2. /\ TypeOK /\ Once /\ SnapshotKept /\ EditInv /\ RequestOK
      /\ task' = task /\ dev' = dev /\ file' = file /\ batch' = batch /\ ran' = ran /\ seen' = seen
  BY <1>1 DEF GreInv, nodeVars
<1>3. ran[t] \in {"ok", "failed"}
  BY <1>1, <1>2 DEF Once, TypeOK
<1>4. row' \in Row /\ row'.exists = row.exists /\ row'.name = row.name /\ row'.config = row.config
  <2>1. row \in Row /\ task[t] \in TaskRow
    BY <1>2 DEF TypeOK, TaskRow
  <2>2. task[t].type = "status" => seen[t] \in {"running", "stopped"}
    BY <1>2, <1>3 DEF SnapshotKept
  <2>3. /\ AfterSuccess(t) \in Row /\ AfterSuccess(t).exists = row.exists
        /\ AfterSuccess(t).name = row.name /\ AfterSuccess(t).config = row.config
    <3>1. CASE task[t].type = "apply"
      BY <2>1, <3>1 DEF AfterSuccess, Row, TaskRow
    <3>2. CASE task[t].type = "start"
      BY <2>1, <3>2 DEF AfterSuccess, Row, Runtime, MaybeName
    <3>3. CASE task[t].type = "stop"
      BY <2>1, <3>3 DEF AfterSuccess, Row, Runtime
    <3>4. CASE task[t].type = "status"
      <4> HIDE DEF HasNewerStateTask
      <4> QED BY <2>1, <2>2, <3>4 DEF AfterSuccess, Row, Runtime
    <3>5. CASE task[t].type = "delete"
      BY <2>1, <3>5 DEF AfterSuccess
    <3> QED BY <2>1, <3>1, <3>2, <3>3, <3>4, <3>5 DEF TaskRow, TaskType, StateType
  <2>4. /\ [row EXCEPT !.runtime = "failed"] \in Row
        /\ [row EXCEPT !.runtime = "failed"].exists = row.exists
        /\ [row EXCEPT !.runtime = "failed"].name = row.name
        /\ [row EXCEPT !.runtime = "failed"].config = row.config
    BY <2>1 DEF Row, Runtime
  <2>5. row' \in {row, AfterSuccess(t), [row EXCEPT !.runtime = "failed"]}
    BY <1>1
  <2> QED BY <2>1, <2>3, <2>4, <2>5
<1>5. /\ \A u \in Task \ {t} : tstatus'[u] = tstatus[u]
      /\ tstatus[t] # "running" => tstatus'[t] = tstatus[t]
      /\ tstatus[t] = "running" => tstatus'[t] = IF ran[t] = "ok" THEN "succeeded" ELSE "failed"
      /\ tstatus' \in [Task -> Status]
  BY <1>1, <1>2 DEF TypeOK, Status
<1>6. TypeOK'
  BY <1>1, <1>2, <1>4, <1>5 DEF TypeOK
<1>7. /\ Numbered(tstatus)' /\ RequestOK' /\ OnePending(task, tstatus)'
      /\ \A u \in Task : IsLast(task, tstatus, u)' <=> IsLast(task, tstatus, u)
  <2>1. \A u \in Task : /\ tstatus'[u] = "absent" <=> tstatus[u] = "absent"
                        /\ tstatus'[u] = "pending" => tstatus[u] = "pending"
    BY <1>5
  <2> QED BY <1>1, <1>4, <1>5, <2>1, DeliveryKeeps
<1>8. Once'
  BY <1>1, <1>2, <1>3, <1>5 DEF Once, TypeOK, Claimed
<1>9. SnapshotKept'
  BY <1>2 DEF SnapshotKept
<1>10. EditInv'
  <2>1. Trouble => Trouble'
    BY <1>2, <1>3, <1>5 DEF Trouble
  <2>2. \A u \in Task : Live(u)' <=> Live(u)
    BY <1>2, <1>3, <1>5 DEF Live
  <2>3. \A u \in Task : tstatus'[u] # "cancelled" <=> tstatus[u] # "cancelled"
    BY <1>3, <1>5
  <2> QED BY <1>2, <1>4, <1>7, <2>1, <2>2, <2>3 DEF EditInv
<1> QED BY <1>6, <1>7, <1>8, <1>9, <1>10 DEF GreInv

-----------------------------------------------------------------------------
LEMMA InitInv == Init => GreInv
<1> SUFFICES ASSUME Init PROVE GreInv
  OBVIOUS
<1>1. row \in Row /\ (row.exists => row.name \in Name /\ row.config \in Config)
  <2>1. NoRow \in Row /\ ~ NoRow.exists
    BY GreBoundAssumption DEF NoRow, Row, MaybeName, MaybeConfig, Runtime
  <2>2. ASSUME NEW n \in Name, NEW c \in Config,
               row = [exists |-> TRUE, inst |-> 1, name |-> n, prev |-> NoName, config |-> c,
                      deployed |-> c, runtime |-> "running"]
        PROVE  row \in Row /\ row.name \in Name /\ row.config \in Config
    BY <2>2, GreBoundAssumption DEF Row, MaybeName, MaybeConfig, Runtime
  <2>3. row = NoRow \/ \E n \in Name, c \in Config :
          row = [exists |-> TRUE, inst |-> 1, name |-> n, prev |-> NoName, config |-> c,
                 deployed |-> c, runtime |-> "running"]
    BY DEF Init
  <2> HIDE DEF NoRow
  <2> QED BY <2>1, <2>2, <2>3
<1>2. /\ dev = [n \in Name |-> IF n = row.name THEN row.config ELSE NoConfig] /\ file = dev
      /\ task = [t \in Task |-> [type |-> "status", inst |-> 0, name |-> NoName, prev |-> NoName,
                                 config |-> NoConfig, dep |-> NoTask, goes |-> FALSE]]
      /\ tstatus = [t \in Task |-> "absent"] /\ request = Idle
      /\ batch = {} /\ unacked = {} /\ late = {}
      /\ ran = [t \in Task |-> "no"] /\ seen = [t \in Task |-> NoConfig]
  BY DEF Init
<1>3. TypeOK
  <2>1. dev \in [Name -> MaybeConfig] /\ file \in [Name -> MaybeConfig]
    BY <1>1, <1>2 DEF Row, MaybeConfig
  <2>2. task \in [Task -> TaskRow]
    BY <1>2, GreBoundAssumption DEF TaskRow, TaskType, StateType, MaybeName, MaybeConfig
  <2>3. tstatus \in [Task -> Status] /\ ran \in [Task -> {"no", "ok", "failed"}]
        /\ seen \in [Task -> MaybeConfig \cup {"running", "stopped"}]
    BY <1>2 DEF Status, MaybeConfig
  <2> QED BY <1>1, <1>2, <2>1, <2>2, <2>3, IdleTyped DEF TypeOK, TaskRow
<1>4. Numbered(tstatus)
  <2>1. {t \in Task : tstatus[t] # "absent"} = 1..0
    BY <1>2
  <2> QED BY <2>1 DEF Numbered
<1>5. Once /\ SnapshotKept
  BY <1>2 DEF Once, SnapshotKept
<1>6. RequestOK
  BY <1>1, <1>2 DEF RequestOK, Idle
<1>7. OnePending(task, tstatus)
  BY <1>2 DEF OnePending, IsStart
<1>8. EditInv
  BY <1>1, <1>2 DEF EditInv, IsLast, IsStart
<1> QED BY <1>3, <1>4, <1>5, <1>6, <1>7, <1>8 DEF GreInv

LEMMA GreInvInductive == GreInv /\ [Next]_vars => GreInv'
<1> SUFFICES ASSUME GreInv, [Next]_vars PROVE GreInv'
  OBVIOUS
<1>1. CASE Administrator
  BY <1>1, CreateStep, UpdateBeginStep, UpdateCommitStep, StartBeginStep, StartCommitStep,
     StopBeginStep, StopCommitStep, DeleteCommitStep, RefreshStep, RequestFailsStep DEF Administrator
<1>2. CASE Delivery
  BY <1>2, PollStep, ExpireStep, RestartStep, ExecuteStep, HandleStep DEF Delivery
<1>3. CASE UNCHANGED vars
  <2>1. UNCHANGED <<row, taskVars, nodeVars, agentVars>> /\ request' = request
    BY <1>3 DEF vars
  <2>2. RequestOK'
    BY <2>1 DEF GreInv, RequestOK, taskVars
  <2> QED BY <2>1, <2>2, BeginKeeps DEF GreInv, TypeOK
<1> QED BY <1>1, <1>2, <1>3 DEF Next

(***************************************************************************)
(* The endpoint, the tasks and the node have the types of the model: no      *)
(* task is created without a row, and a result of a status query is a       *)
(* runtime that the row may show.                                          *)
(***************************************************************************)
THEOREM GreTypeCorrect == Spec => []TypeOK
<1>1. GreInv => TypeOK
  BY DEF GreInv
<1> QED BY <1>1, InitInv, GreInvInductive, PTL DEF Spec

(***************************************************************************)
(* What a result records as the deployed parameters is what the agent has   *)
(* written, for every edit made in between (main.py:7555): the payload of a  *)
(* task that was claimed is never written again.                            *)
(***************************************************************************)
THEOREM BaselineIsWhatRan == Spec => BaselineWasApplied
<1> DEFINE A == row'.deployed \notin {row.deployed, NoConfig} =>
                  \E t \in Task : /\ tstatus[t] = "running" /\ tstatus'[t] = "succeeded"
                                  /\ task[t].type = "apply" /\ seen[t] = row'.deployed
<1>1. GreInv /\ [Next]_vars => [A]_vars
  <2> SUFFICES ASSUME GreInv, Next, row'.deployed \notin {row.deployed, NoConfig}
               PROVE  \E t \in Task : /\ tstatus[t] = "running" /\ tstatus'[t] = "succeeded"
                                      /\ task[t].type = "apply" /\ seen[t] = row'.deployed
    OBVIOUS
  <2>1. row \in Row
    BY DEF GreInv, TypeOK
  <2>2. PICK t \in Task : Report(t) \/ LateReport(t)
    <3>1. ~ (row' = row)
      OBVIOUS
    <3>2. ASSUME NEW n \in Name, NEW c \in Config PROVE ~ CreateEndpoint(n, c) /\ ~ UpdateBegin(n, c)
      BY <3>1 DEF CreateEndpoint, UpdateBegin, Begin
    <3>3. ~ UpdateCommit /\ ~ StartCommit /\ ~ StopCommit
      BY <2>1 DEF UpdateCommit, StartCommit, StopCommit, Row
    <3>4. ~ DeleteCommit
      BY DEF DeleteCommit, NoRow
    <3>5. ~ StartBegin /\ ~ StopBegin /\ ~ DeleteBegin /\ ~ Refresh /\ ~ RequestFails
      BY <3>1 DEF StartBegin, StopBegin, DeleteBegin, Begin, Refresh, RequestFails
    <3>6. ~ Poll /\ ~ AgentRestart /\ \A t \in Task : ~ Expire(t) /\ ~ Execute(t)
      BY <3>1 DEF Poll, AgentRestart, Expire, Execute
    <3> QED BY <3>2, <3>3, <3>4, <3>5, <3>6 DEF Next, Administrator, Delivery
  <2>3. /\ tstatus[t] = "running" /\ ran[t] = "ok" /\ row' = AfterSuccess(t)
        /\ tstatus' = [tstatus EXCEPT ![t] = "succeeded"]
    <3>1. t \in unacked \cup late
      BY <2>2 DEF Report, LateReport
    <3>2. [row EXCEPT !.runtime = "failed"].deployed = row.deployed
      BY <2>1 DEF Row
    <3> QED BY <2>2, <3>1, <3>2 DEF Report, LateReport, Handle
  <2>4. task[t].type = "apply" /\ row'.deployed = task[t].config
    <3>1. task[t].type # "apply" => AfterSuccess(t).deployed = row.deployed
      <4> HIDE DEF HasNewerStateTask
      <4> QED BY <2>1 DEF AfterSuccess, Row
    <3>2. task[t].type = "apply"
      BY <2>3, <3>1
    <3>3. AfterSuccess(t) = [row EXCEPT !.deployed = task[t].config]
      BY <3>2 DEF AfterSuccess
    <3> QED BY <2>1, <2>3, <3>2, <3>3 DEF Row
  <2>5. seen[t] = task[t].config
    BY <2>3, <2>4 DEF GreInv, SnapshotKept, Deployment
  <2>6. tstatus'[t] = "succeeded"
    BY <2>3 DEF GreInv, TypeOK
  <2> QED BY <2>3, <2>4, <2>5, <2>6
<1> QED BY <1>1, InitInv, GreInvInductive, PTL DEF Spec, BaselineWasApplied

(***************************************************************************)
(* An edit reaches the node (main.py:3592), for every number of tasks and   *)
(* of rows: when all is done and the last start was not withdrawn, a tunnel  *)
(* that is up has the parameters that the row asks for.                     *)
(***************************************************************************)
THEOREM EditsAlwaysReach == Spec => []EditReachesNode
<1>1. GreInv => EditReachesNode
  <2> SUFFICES ASSUME GreInv, AllDone, row.exists, ~ Withdrawn
               PROVE  dev[row.name] \in {row.config, NoConfig}
    BY DEF EditReachesNode
  <2> DEFINE S == Find(Table, {"start"}, Status \ {"absent"})
  <2>1. ~ Trouble
    BY DEF AllDone, Trouble
  <2>2. ASSUME NEW l \in Task, IsLast(task, tstatus, l)
        PROVE  ~ Live(l) /\ tstatus[l] # "cancelled"
    <3>1. Table.task = task /\ Table.st = tstatus /\ tstatus \in [Task -> Status]
      BY TableIsOK DEF GreInv, TypeOK
    <3>2. \A u \in Task : u \in S <=> IsStart(task, tstatus, u)
      BY <3>1 DEF Find, IsStart
    <3>3. S \in SUBSET Task /\ l \in S
      BY <2>2, <3>2, FindIn DEF IsLast
    <3> HIDE DEF S
    <3>4. Newest(S) \in S /\ (\A u \in S : u <= Newest(S)) /\ Newest(S) # NoTask
      BY <3>3, NewestIn
    <3>5. Newest(S) <= l /\ l <= Newest(S)
      BY <2>2, <3>2, <3>3, <3>4 DEF IsLast
    <3>6. Newest(S) = l
      <4>1. Newest(S) \in Task
        BY <3>3, <3>4
      <4>2. \A u, v \in Task : u <= v /\ v <= u => u = v
        BY GreBoundAssumption DEF Task
      <4> QED BY <3>5, <4>1, <4>2
    <3>7. tstatus[l] # "cancelled"
      BY <3>4, <3>6 DEF Withdrawn, S
    <3>8. ~ Live(l)
      BY DEF AllDone, Live
    <3> QED BY <3>7, <3>8
  <2> QED BY <2>1, <2>2 DEF GreInv, EditInv
<1> QED BY <1>1, InitInv, GreInvInductive, PTL DEF Spec
=============================================================================
