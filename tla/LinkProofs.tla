----------------------------- MODULE LinkProofs -----------------------------
(***************************************************************************)
(* Proofs about managed links: ManagedLink, LinkMonitor, and Middleware.    *)
(* The tasks of a link, for every scenario, number of requests and          *)
(* failures, and size of a batch: the types, and that no task waits for     *)
(* ever.  Its monitors: the spacing of probes and the consistency of        *)
(* samples, for any number of owners, overlapping polls, reports on the way *)
(* and errors of the agent's clock.  Its connection middleware: what an     *)
(* operation on a host leaves alone, achieves and puts back, for any set of *)
(* instances, parameters and hosts.                                         *)
(***************************************************************************)
EXTENDS ManagedLink, LinkMonitor, Middleware, Integers, WellFoundedInduction,
        FiniteSetTheorems, SequenceTheorems, TLAPS

MwOf       == [plugin : Plugins \cup {"none"}, v : Ver]
TaskStatus == {"pending", "running", "succeeded", "failed", "cancelled"}
LinkTask   == [type : LinkTaskType, name : IfName, prev : 0..MaxName, v : Ver, mw : MwOf,
               dep : Nat, cont : BOOLEAN, status : TaskStatus]

\* What a task of a type may wait for in q: a stop for a deployment that was delivered,
\* and the steps of a chain for the one before.
WaitsFor(q, type, d) ==
  /\ d \in DOMAIN q
  /\ \/ type = "stop" /\ q[d].status # "pending"
     \/ type = "delete" /\ q[d].type = "stop"
     \/ type = "apply" /\ q[d].type = "delete"
     \/ type = "mw_delete" /\ q[d].type = "mw_stop"

\* The table of a side: no chain has more than three steps.
Chained(q) ==
  /\ q \in Seq(LinkTask)
  /\ \A k \in DOMAIN q : q[k].dep # 0 => WaitsFor(q, q[k].type, q[k].dep)

Delivered(q) == {k \in DOMAIN q : q[k].status = "running"}

\* A request leaves what was delivered alone and the table as it must be.
Extends(q, r) == Chained(r) /\ DOMAIN q \subseteq DOMAIN r /\ Delivered(r) = Delivered(q)

\* One of the ways Enqueue can end.
Enqueued(q, t, e) ==
  \/ \E k \in Like(q, t, {"pending"}) : e.q = [q EXCEPT ![k] = t] /\ e.id = k
  \/ e.q = q /\ e.id \in Like(q, t, {"pending", "running"})
  \/ e.q = Append(q, t) /\ e.id = Len(q) + 1

\* What is being carried out is in the agent's hands, and nothing else.
Fetched == \A s \in Side : work[s] = Delivered(queue[s])

LinkInv ==
  /\ LinkTypeOK /\ queue \in [Side -> Seq(LinkTask)] /\ work \in [Side -> SUBSET Nat]
  /\ \A s \in Side : Chained(queue[s])
  /\ Fetched

-----------------------------------------------------------------------------
(* The task table.                                                         *)

\* A set of positions has a least element.
LEMMA EarliestIn ==
  ASSUME NEW S \in SUBSET Nat, S # {}
  PROVE  Earliest(S) \in S
<1> DEFINE R == OpToRel(<, Nat)
<1>1. IsWellFoundedOn(R, Nat)
  BY NatLessThanWellFounded
<1>2. \A x, y \in Nat : x < y => <<x, y>> \in R
  BY DEF OpToRel
<1> HIDE DEF R
<1>3. PICK x \in S : \A y \in S : ~ (<<y, x>> \in R)
  BY <1>1, WFMin
<1>4. \A y \in S : ~ (y < x)
  BY <1>2, <1>3
<1>5. \A y \in S : x <= y
  BY <1>4
<1> QED BY <1>5 DEF Earliest

\* The three ways in which the link's requests call Enqueue.
LEMMA EnqueueEnds ==
  ASSUME NEW q \in Seq(LinkTask), NEW t
  PROVE  /\ Enqueued(q, t, Enqueue(q, t, TRUE, TRUE)) /\ Enqueue(q, t, TRUE, TRUE).changed \in BOOLEAN
         /\ Enqueued(q, t, Enqueue(q, t, TRUE, FALSE)) /\ Enqueue(q, t, TRUE, FALSE).changed \in BOOLEAN
         /\ Enqueued(q, t, Enqueue(q, t, FALSE, FALSE)) /\ Enqueue(q, t, FALSE, FALSE).changed \in BOOLEAN
<1> DEFINE P == Like(q, t, {"pending"})
           R == Like(q, t, {"running"})
<1>1. P \subseteq Nat /\ R \subseteq Nat
  BY DEF Like
<1>2. P # {} => Earliest(P) \in P
  BY <1>1, EarliestIn
<1>3. R # {} => Earliest(R) \in R
  BY <1>1, EarliestIn
<1>4. P \subseteq Like(q, t, {"pending", "running"}) /\ R \subseteq Like(q, t, {"pending", "running"})
  BY DEF Like
<1> HIDE DEF P, R
<1>5. /\ Enqueued(q, t, Enqueue(q, t, TRUE, TRUE)) /\ Enqueue(q, t, TRUE, TRUE).changed \in BOOLEAN
  BY <1>2, <1>3, <1>4 DEF Enqueue, Enqueued, P, R
<1>6. Enqueued(q, t, Enqueue(q, t, TRUE, FALSE)) /\ Enqueue(q, t, TRUE, FALSE).changed \in BOOLEAN
  BY <1>2, <1>3, <1>4 DEF Enqueue, Enqueued, P, R
<1>7. Enqueued(q, t, Enqueue(q, t, FALSE, FALSE)) /\ Enqueue(q, t, FALSE, FALSE).changed \in BOOLEAN
  BY <1>2, <1>3, <1>4 DEF Enqueue, Enqueued, P, R
<1> QED BY <1>5, <1>6, <1>7

\* However it ends, the table stays as it must be, and the task that took part is of
\* the type that was asked for.
LEMMA EnqueuedExtends ==
  ASSUME NEW q, Chained(q), NEW t \in LinkTask, t.status = "pending",
         t.dep # 0 => WaitsFor(q, t.type, t.dep), NEW e, Enqueued(q, t, e)
  PROVE  Extends(q, e.q) /\ e.id \in DOMAIN e.q /\ e.q[e.id].type = t.type
<1>1. q \in Seq(LinkTask) /\ DOMAIN q = 1..Len(q) /\ Len(q) \in Nat
  BY DEF Chained
<1>2. ASSUME NEW k \in Like(q, t, {"pending"}), e.q = [q EXCEPT ![k] = t], e.id = k
      PROVE  Extends(q, e.q) /\ e.id \in DOMAIN e.q /\ e.q[e.id].type = t.type
  <2>1. k \in DOMAIN q /\ q[k].type = t.type /\ q[k].status = "pending"
    BY DEF Like
  <2>2. /\ e.q \in Seq(LinkTask) /\ DOMAIN e.q = DOMAIN q
        /\ e.q[k] = t /\ \A j \in DOMAIN q : j # k => e.q[j] = q[j]
    BY <1>1, <1>2, <2>1
  <2>3. \A j \in DOMAIN q : e.q[j].type = q[j].type /\ (q[j].status # "pending" <=> e.q[j].status # "pending")
    BY <2>1, <2>2
  <2>4. \A type, d : WaitsFor(q, type, d) => WaitsFor(e.q, type, d)
    BY <2>2, <2>3 DEF WaitsFor
  <2>5. \A j \in DOMAIN e.q : e.q[j].dep # 0 => WaitsFor(e.q, e.q[j].type, e.q[j].dep)
    BY <2>2, <2>4 DEF Chained
  <2>6. Delivered(e.q) = Delivered(q)
    BY <2>1, <2>2 DEF Delivered
  <2> QED BY <1>2, <2>1, <2>2, <2>5, <2>6 DEF Extends, Chained
<1>3. ASSUME e.q = q, e.id \in Like(q, t, {"pending", "running"})
      PROVE  Extends(q, e.q) /\ e.id \in DOMAIN e.q /\ e.q[e.id].type = t.type
  BY <1>3 DEF Extends, Like
<1>4. ASSUME e.q = Append(q, t), e.id = Len(q) + 1
      PROVE  Extends(q, e.q) /\ e.id \in DOMAIN e.q /\ e.q[e.id].type = t.type
  <2>1. /\ e.q \in Seq(LinkTask) /\ DOMAIN e.q = 1..(Len(q) + 1)
        /\ e.q[Len(q) + 1] = t /\ \A j \in DOMAIN q : e.q[j] = q[j]
    BY <1>1, <1>4
  <2>2. DOMAIN q \subseteq DOMAIN e.q /\ e.id \in DOMAIN e.q
        /\ \A j \in DOMAIN e.q : j \in DOMAIN q \/ j = Len(q) + 1
    BY <1>1, <1>4, <2>1
  <2>3. \A type, d : WaitsFor(q, type, d) => WaitsFor(e.q, type, d)
    BY <2>1, <2>2 DEF WaitsFor
  <2>4. \A j \in DOMAIN e.q : e.q[j].dep # 0 => WaitsFor(e.q, e.q[j].type, e.q[j].dep)
    BY <2>1, <2>2, <2>3 DEF Chained
  <2>5. Delivered(e.q) = Delivered(q)
    BY <2>1, <2>2 DEF Delivered
  <2> QED BY <1>4, <2>1, <2>2, <2>4, <2>5 DEF Extends, Chained
<1> QED BY <1>2, <1>3, <1>4 DEF Enqueued

LEMMA ExtendsTrans ==
  ASSUME NEW q, NEW r, NEW u, Extends(q, r), Extends(r, u)
  PROVE  Extends(q, u)
BY DEF Extends

\* Statuses may change, as long as no task becomes pending again.
LEMMA StatusesChange ==
  ASSUME NEW q, Chained(q), NEW r, r = [k \in DOMAIN q |-> r[k]],
         \A k \in DOMAIN q : /\ r[k] \in LinkTask /\ r[k].type = q[k].type /\ r[k].dep = q[k].dep
                             /\ q[k].status # "pending" => r[k].status # "pending"
  PROVE  Chained(r) /\ DOMAIN r = DOMAIN q
<1>1. q \in Seq(LinkTask) /\ DOMAIN q = 1..Len(q) /\ Len(q) \in Nat
  BY DEF Chained
<1>2. r \in Seq(LinkTask) /\ DOMAIN r = DOMAIN q
  BY <1>1
<1>3. \A type, d : WaitsFor(q, type, d) => WaitsFor(r, type, d)
  BY <1>2 DEF WaitsFor
<1>4. \A j \in DOMAIN r : r[j].dep # 0 => WaitsFor(r, r[j].type, r[j].dep)
  BY <1>2, <1>3 DEF Chained
<1> QED BY <1>2, <1>4 DEF Chained

\* cancel_pending_interface_tasks.
LEMMA CancelExtends ==
  ASSUME NEW q, Chained(q), NEW types
  PROVE  Extends(q, CancelPending(q, types))
<1> DEFINE r == CancelPending(q, types)
<1>1. q \in Seq(LinkTask) /\ DOMAIN q = 1..Len(q) /\ Len(q) \in Nat
  BY DEF Chained
<1>2. DOMAIN r = DOMAIN q
  BY DEF CancelPending
<1>3. ASSUME NEW k \in DOMAIN q
      PROVE  /\ r[k] \in LinkTask /\ r[k].type = q[k].type /\ r[k].dep = q[k].dep
             /\ r[k].status = q[k].status \/ (r[k].status = "cancelled" /\ q[k].status = "pending")
  <2>1. q[k] \in LinkTask
    BY <1>1
  <2>2. r[k] = IF q[k].type \in types /\ q[k].status = "pending"
               THEN [q[k] EXCEPT !.status = "cancelled"] ELSE q[k]
    BY DEF CancelPending
  <2> DEFINE c == [q[k] EXCEPT !.status = "cancelled"]
  <2>3. c \in LinkTask /\ c.type = q[k].type /\ c.dep = q[k].dep /\ c.status = "cancelled"
    BY <2>1 DEF LinkTask, TaskStatus
  <2>4. r[k] = q[k] \/ (r[k] = c /\ q[k].status = "pending")
    BY <2>2
  <2> HIDE DEF r, c
  <2> QED BY <2>1, <2>3, <2>4
<1> HIDE DEF r
<1>4. r = [k \in DOMAIN q |-> r[k]]
  BY <1>2 DEF CancelPending, r
<1>5. Chained(r)
  BY <1>3, <1>4, StatusesChange
<1>6. Delivered(r) = Delivered(q)
  BY <1>2, <1>3 DEF Delivered
<1> QED BY <1>2, <1>5, <1>6 DEF Extends, r

\* running_interface_deployment_task_id.
LEMMA NewestDeployment ==
  ASSUME NEW q, Chained(q), NEW d \in DOMAIN q, q[d].type \in {"apply", "start"}, q[d].status = "running"
  PROVE  RunningDeployment(q) \in DOMAIN q /\ q[RunningDeployment(q)].status = "running"
<1> DEFINE S == {k \in DOMAIN q : q[k].type \in {"apply", "start"} /\ q[k].status = "running"}
           T == {Len(q) - s : s \in S}
<1>1. q \in Seq(LinkTask) /\ DOMAIN q = 1..Len(q) /\ Len(q) \in Nat
  BY DEF Chained
<1>2. S # {}
  OBVIOUS
<1>3. T \in SUBSET Nat /\ T # {}
  <2>1. \A s \in S : Len(q) - s \in Nat
    BY <1>1
  <2> QED BY <1>2, <2>1
<1>4. PICK x \in T : \A y \in T : x <= y
  <2> DEFINE R == OpToRel(<, Nat)
  <2>1. IsWellFoundedOn(R, Nat)
    BY NatLessThanWellFounded
  <2>2. \A x, y \in Nat : x < y => <<x, y>> \in R
    BY DEF OpToRel
  <2> HIDE DEF R, T
  <2>3. PICK x \in T : \A y \in T : ~ (<<y, x>> \in R)
    BY <1>3, <2>1, WFMin
  <2>4. \A y \in T : ~ (y < x)
    BY <1>3, <2>2, <2>3
  <2>5. \A y \in T : x <= y
    BY <1>3, <2>4
  <2> QED BY <2>5
<1>5. PICK s \in S : x = Len(q) - s
  OBVIOUS
<1>6. ASSUME NEW u \in S PROVE u <= s
  <2>1. Len(q) - s <= Len(q) - u
    BY <1>4, <1>5
  <2>2. u \in Int /\ s \in Int
    BY <1>1
  <2> QED BY <1>1, <2>1, <2>2
<1>7. (CHOOSE k \in S : \A j \in S : j <= k) \in S
  BY <1>6
<1>8. RunningDeployment(q) = CHOOSE k \in S : \A j \in S : j <= k
  BY <1>2 DEF RunningDeployment
<1> QED BY <1>7, <1>8

LEMMA RunningDeploymentIn ==
  ASSUME NEW q, Chained(q), RunningDeployment(q) # 0
  PROVE  RunningDeployment(q) \in DOMAIN q /\ q[RunningDeployment(q)].status = "running"
<1>1. {k \in DOMAIN q : q[k].type \in {"apply", "start"} /\ q[k].status = "running"} # {}
  BY DEF RunningDeployment
<1> QED BY <1>1, NewestDeployment

\* The ranges of the bounds.
LEMMA Bounds ==
  /\ 0 \in Ver /\ 1 \in Ver /\ 1 \in IfName /\ 0 \in 0..MaxName /\ IfName \subseteq 0..MaxName
  /\ IfName \subseteq Nat /\ NoMw \in MwOf /\ MaxConfig \in Nat /\ MaxName \in Nat
  /\ MaxLinkRequests \in Nat /\ MaxTaskFailures \in Nat
BY LinkAssumption DEF Ver, IfName, NoMw, MwOf

\* enqueue_apply_config: both ways.
LEMMA EnqueueApplyExtends ==
  ASSUME NEW q, Chained(q), NEW row, row.name \in IfName, row.prev \in 0..MaxName, NEW config \in Ver
  PROVE  Extends(q, EnqueueApply(q, row, config).q) /\ EnqueueApply(q, row, config).changed \in BOOLEAN
<1>0. \A r : Chained(r) => r \in Seq(LinkTask) /\ DOMAIN r \subseteq Nat
  BY DEF Chained
<1>1. CASE row.prev \notin {0, row.name}
  <2> DEFINE c    == CancelPending(q, {"apply"})
             t1   == TaskOf("stop", row.prev, 0, 0, NoMw, 0, FALSE)
             stop == Enqueue(c, t1, TRUE, FALSE)
             t2   == TaskOf("delete", row.prev, 0, 0, NoMw, stop.id, FALSE)
             del  == Enqueue(stop.q, t2, TRUE, FALSE)
             t3   == TaskOf("apply", row.name, row.prev, config, NoMw, del.id, FALSE)
             e    == Enqueue(del.q, t3, TRUE, TRUE)
  <2>0. EnqueueApply(q, row, config) = e
    BY <1>1 DEF EnqueueApply
  <2>1. Extends(q, c) /\ Chained(c) /\ row.prev \in IfName
    BY <1>1, CancelExtends, LinkAssumption DEF Extends, IfName
  <2> HIDE DEF c
  <2>2. t1 \in LinkTask /\ t1.status = "pending" /\ t1.type = "stop" /\ t1.dep = 0
    BY <2>1, Bounds DEF TaskOf, LinkTask, TaskStatus, LinkTaskType
  <2> HIDE DEF t1
  <2>3. Enqueued(c, t1, stop)
    BY <1>0, <2>1, EnqueueEnds
  <2> HIDE DEF stop
  <2>4. Extends(c, stop.q) /\ Chained(stop.q) /\ stop.id \in DOMAIN stop.q /\ stop.q[stop.id].type = "stop"
    BY <2>1, <2>2, <2>3, EnqueuedExtends DEF Extends
  <2>5. t2 \in LinkTask /\ t2.status = "pending" /\ t2.type = "delete" /\ t2.dep = stop.id
    BY <1>0, <2>1, <2>4, Bounds DEF TaskOf, LinkTask, TaskStatus, LinkTaskType
  <2> HIDE DEF t2
  <2>6. Enqueued(stop.q, t2, del) /\ WaitsFor(stop.q, t2.type, t2.dep)
    BY <1>0, <2>4, <2>5, EnqueueEnds DEF WaitsFor
  <2> HIDE DEF del
  <2>7. Extends(stop.q, del.q) /\ Chained(del.q) /\ del.id \in DOMAIN del.q /\ del.q[del.id].type = "delete"
    BY <2>4, <2>5, <2>6, EnqueuedExtends DEF Extends
  <2>8. t3 \in LinkTask /\ t3.status = "pending" /\ t3.type = "apply" /\ t3.dep = del.id
    BY <1>0, <2>7, Bounds DEF TaskOf, LinkTask, TaskStatus, LinkTaskType
  <2> HIDE DEF t3
  <2>9. Enqueued(del.q, t3, e) /\ e.changed \in BOOLEAN /\ WaitsFor(del.q, t3.type, t3.dep)
    BY <1>0, <2>7, <2>8, EnqueueEnds DEF WaitsFor
  <2> HIDE DEF e
  <2>10. Extends(del.q, e.q)
    BY <2>7, <2>8, <2>9, EnqueuedExtends
  <2>11. Extends(q, e.q)
    BY <2>1, <2>4, <2>7, <2>10 DEF Extends
  <2> QED BY <2>0, <2>9, <2>11
<1>2. CASE row.prev \in {0, row.name}
  <2> DEFINE t == TaskOf("apply", row.name, 0, config, NoMw, 0, FALSE)
             e == Enqueue(q, t, TRUE, TRUE)
  <2>0. EnqueueApply(q, row, config) = e
    BY <1>2 DEF EnqueueApply
  <2>1. t \in LinkTask /\ t.status = "pending" /\ t.dep = 0
    BY Bounds DEF TaskOf, LinkTask, TaskStatus, LinkTaskType
  <2> HIDE DEF t
  <2>2. Enqueued(q, t, e) /\ e.changed \in BOOLEAN
    BY <1>0, EnqueueEnds
  <2> HIDE DEF e
  <2> QED BY <2>0, <2>1, <2>2, EnqueuedExtends
<1> QED BY <1>1, <1>2

\* A middleware task that waits for nothing, whether it replaces a pending one or not.
LEMMA MwTaskExtends ==
  ASSUME NEW q, Chained(q), NEW action \in MwActions, NEW name \in IfName, NEW mw \in MwOf
  PROVE  LET t == MwTask(action, name, mw, 0) IN
         /\ Extends(q, Enqueue(q, t, FALSE, FALSE).q) /\ Extends(q, Enqueue(q, t, TRUE, TRUE).q)
<1> DEFINE t == MwTask(action, name, mw, 0)
           e == Enqueue(q, t, FALSE, FALSE)
           f == Enqueue(q, t, TRUE, TRUE)
<1>1. t \in LinkTask /\ t.status = "pending" /\ t.dep = 0 /\ t.type = action
  BY Bounds DEF MwTask, TaskOf, LinkTask, TaskStatus, LinkTaskType
<1> HIDE DEF t
<1>2. Enqueued(q, t, e) /\ Enqueued(q, t, f)
  BY EnqueueEnds DEF Chained
<1> HIDE DEF e, f
<1>3. Extends(q, e.q) /\ Extends(q, f.q)
  BY <1>1, <1>2, EnqueuedExtends
<1> QED BY <1>3 DEF e, f, t

\* enqueue_middleware_tasks and enqueue_middleware_cleanup_tasks.
LEMMA EnqueueMwExtends ==
  ASSUME NEW q, Chained(q), NEW name \in IfName, NEW mw \in MwOf
  PROVE  Extends(q, EnqueueMw(q, name, mw)) /\ Extends(q, EnqueueMwCleanup(q, name, mw))
<1>0. MwActions = {"install", "mw_apply", "mw_start", "mw_stop", "mw_delete"} /\ Extends(q, q)
  BY DEF MwActions, Extends
<1>1. Extends(q, EnqueueMw(q, name, mw))
  <2> DEFINE r == Enqueue(q, MwTask("install", name, mw, 0), FALSE, FALSE).q
  <2>1. Extends(q, r)
    BY <1>0, MwTaskExtends
  <2> HIDE DEF r
  <2>2. Chained(r)
    BY <2>1 DEF Extends
  <2>3. Extends(r, Enqueue(r, MwTask("mw_apply", name, mw, 0), TRUE, TRUE).q)
    BY <1>0, <2>2, MwTaskExtends
  <2>4. Extends(q, Enqueue(r, MwTask("mw_apply", name, mw, 0), TRUE, TRUE).q)
    BY <2>1, <2>3 DEF Extends
  <2>5. Extends(q, Enqueue(q, MwTask("mw_apply", name, mw, 0), FALSE, FALSE).q)
    BY <1>0, MwTaskExtends
  <2>6. mw.plugin \in {"none", "udp2raw", "mimic"}
    BY LinkAssumption DEF MwOf
  <2> QED BY <1>0, <2>4, <2>5, <2>6 DEF EnqueueMw, r
<1>2. Extends(q, EnqueueMwCleanup(q, name, mw))
  <2>1. CASE mw = NoMw
    BY <1>0, <2>1 DEF EnqueueMwCleanup
  <2>2. CASE mw # NoMw
    <3> DEFINE u    == MwTask("mw_stop", name, mw, 0)
               stop == Enqueue(q, u, TRUE, FALSE)
               t    == MwTask("mw_delete", name, mw, stop.id)
               del  == Enqueue(stop.q, t, TRUE, FALSE)
    <3>1. EnqueueMwCleanup(q, name, mw) = del.q
      BY <2>2 DEF EnqueueMwCleanup
    <3>2. u \in LinkTask /\ u.status = "pending" /\ u.type = "mw_stop" /\ u.dep = 0
      BY <1>0, Bounds DEF MwTask, TaskOf, LinkTask, TaskStatus, LinkTaskType
    <3> HIDE DEF u
    <3>3. Enqueued(q, u, stop)
      BY EnqueueEnds DEF Chained
    <3> HIDE DEF stop
    <3>4. Extends(q, stop.q) /\ stop.id \in DOMAIN stop.q /\ stop.q[stop.id].type = "mw_stop"
      BY <3>2, <3>3, EnqueuedExtends
    <3>5. Chained(stop.q) /\ stop.q \in Seq(LinkTask) /\ stop.id \in Nat
      BY <3>4 DEF Extends, Chained
    <3>6. t \in LinkTask /\ t.status = "pending" /\ t.type = "mw_delete" /\ t.dep = stop.id
      BY <1>0, <3>5, Bounds DEF MwTask, TaskOf, LinkTask, TaskStatus, LinkTaskType
    <3> HIDE DEF t
    <3>7. Enqueued(stop.q, t, del) /\ WaitsFor(stop.q, t.type, t.dep)
      BY <3>4, <3>5, <3>6, EnqueueEnds DEF WaitsFor
    <3> HIDE DEF del
    <3>8. Extends(stop.q, del.q)
      BY <3>5, <3>6, <3>7, EnqueuedExtends
    <3> QED BY <3>1, <3>4, <3>8 DEF Extends
  <2> QED BY <2>1, <2>2
<1> QED BY <1>1, <1>2

\* What the type invariant says of a table.
LEMMA TableTyped ==
  ASSUME NEW q, Chained(q), NEW k \in DOMAIN q
  PROVE  /\ q[k].type \in LinkTaskType /\ q[k].name \in IfName /\ q[k].prev \in 0..MaxName
         /\ q[k].dep \in 0..Len(q)
         /\ q[k].status \in {"pending", "running", "succeeded", "failed", "cancelled"}
<1>1. q[k] \in LinkTask /\ DOMAIN q = 1..Len(q) /\ Len(q) \in Nat
  BY DEF Chained
<1>2. q[k].dep # 0 => q[k].dep \in DOMAIN q
  BY DEF Chained, WaitsFor
<1> QED BY <1>1, <1>2 DEF LinkTask, TaskStatus

-----------------------------------------------------------------------------
(* The requests.                                                           *)

SideRow  == [name : IfName, prev : 0..MaxName, runtime : {"stopped", "starting", "running", "stopping"}]
LinkRow(l) == l.exists \in BOOLEAN /\ l.config \in Ver /\ l.mw \in MwOf
History  == [requests : 0..MaxLinkRequests, failures : 0..MaxTaskFailures,
             failed : BOOLEAN, overtook : BOOLEAN]

LEMMA RequestKeeps ==
  ASSUME LinkInv, queue' = [s \in Side |-> queue'[s]], \A s \in Side : Extends(queue[s], queue'[s]),
         UNCHANGED <<scenario, work, box>>, LinkRow(link'), side' \in [Side -> SideRow],
         linkHist' \in History
  PROVE  LinkInv'
<1>1. \A s \in Side : /\ Chained(queue'[s]) /\ DOMAIN queue[s] \subseteq DOMAIN queue'[s]
                      /\ Delivered(queue'[s]) = Delivered(queue[s])
  BY DEF Extends
<1>2. queue' \in [Side -> Seq(LinkTask)]
  BY <1>1 DEF Chained
<1>3. LinkTypeOK'
  <2>1. \A s \in Side : work'[s] \subseteq DOMAIN queue'[s]
    BY <1>1 DEF LinkInv, LinkTypeOK
  <2> QED BY <1>1, <2>1, TableTyped DEF LinkInv, LinkTypeOK, LinkRow, MwOf, SideRow, History
<1> QED BY <1>1, <1>2, <1>3 DEF LinkInv, Fetched

LEMMA AsksHistory ==
  ASSUME LinkInv, NEW request, Asks(request)
  PROVE  linkHist' \in History /\ UNCHANGED <<scenario, work, box>>
<1> DEFINE b == linkHist.overtook \/ (request = "rename" /\ \E s \in Side : RunningDeployment(queue[s]) # 0)
<1>1. linkHist \in History /\ linkHist.requests + 1 \in 0..MaxLinkRequests
  BY Bounds DEF Asks, LinkInv, LinkTypeOK, History
<1>2. b \in BOOLEAN
  OBVIOUS
<1>3. linkHist' = [linkHist EXCEPT !.requests = @ + 1, !.overtook = b]
  BY DEF Asks
<1> HIDE DEF b
<1> QED BY <1>1, <1>2, <1>3 DEF Asks, History

LEMMA InvParts ==
  ASSUME LinkInv
  PROVE  /\ LinkRow(link) /\ side \in [Side -> SideRow] /\ linkHist \in History
         /\ IfNames \in [Side -> IfName] /\ \A s \in Side : Chained(queue[s])
BY DEF LinkInv, LinkTypeOK, LinkRow, MwOf, SideRow, History, IfNames

LEMMA UpdateInv ==
  ASSUME LinkInv, NEW request, Asks(request), NEW mw \in MwOf, NEW name \in [Side -> IfName],
         UpdateLink(mw, name)
  PROVE  LinkInv'
<1> DEFINE rows == [s \in Side |-> RecordRename(side[s], name[s])]
           q(s) == EnqueueMw(IF mw # link.mw THEN EnqueueMwCleanup(queue[s], name[s], link.mw)
                             ELSE queue[s], name[s], mw)
           queued(s) == EnqueueApply(q(s), rows[s], link.config + 1)
<1>1. ASSUME NEW s \in Side PROVE rows[s] \in SideRow
  <2>1. side[s] \in SideRow /\ name[s] \in IfName
    BY InvParts
  <2>2. \A p \in 0..MaxName : [side[s] EXCEPT !.name = name[s], !.prev = p] \in SideRow
    BY <2>1 DEF SideRow
  <2>3. side[s].prev \in 0..MaxName /\ 0 \in 0..MaxName /\ side[s].name \in 0..MaxName
    BY <2>1, Bounds DEF SideRow
  <2>4. \E p \in 0..MaxName : RecordRename(side[s], name[s]) = [side[s] EXCEPT !.name = name[s], !.prev = p]
    BY <2>3 DEF RecordRename
  <2> QED BY <2>2, <2>4
<1>2. link.config + 1 \in Ver /\ LinkRow(link')
  BY InvParts, Bounds DEF UpdateLink, LinkRow, Ver
<1>3. ASSUME NEW s \in Side PROVE Extends(queue[s], queued(s).q) /\ queued(s).changed \in BOOLEAN
  <2> DEFINE c == IF mw # link.mw THEN EnqueueMwCleanup(queue[s], name[s], link.mw) ELSE queue[s]
  <2>1. Extends(queue[s], c) /\ Chained(c)
    BY InvParts, EnqueueMwExtends DEF LinkRow, Extends
  <2> HIDE DEF c
  <2>2. Extends(c, EnqueueMw(c, name[s], mw))
    BY <2>1, EnqueueMwExtends
  <2>3. Extends(queue[s], q(s)) /\ Chained(q(s))
    BY <2>1, <2>2 DEF Extends, c
  <2>4. rows[s].name \in IfName /\ rows[s].prev \in 0..MaxName
    BY <1>1 DEF SideRow
  <2> HIDE DEF q, rows
  <2>5. Extends(q(s), queued(s).q) /\ queued(s).changed \in BOOLEAN
    BY <1>2, <2>3, <2>4, EnqueueApplyExtends
  <2> QED BY <2>3, <2>5 DEF Extends
<1>4. queue' = [s \in Side |-> queued(s).q] /\ side' = [s \in Side |-> IF queued(s).changed
                            THEN [rows[s] EXCEPT !.runtime = "starting"] ELSE rows[s]]
  BY DEF UpdateLink
<1> HIDE DEF queued
<1>5. side' \in [Side -> SideRow]
  BY <1>1, <1>4 DEF SideRow
<1> QED BY <1>2, <1>3, <1>4, <1>5, AsksHistory, RequestKeeps

LEMMA StartInv ==
  ASSUME LinkInv, Start
  PROVE  LinkInv'
<1> DEFINE mq(s) == IF link.mw = NoMw THEN queue[s]
                    ELSE Enqueue(queue[s], MwTask("mw_start", IfNames[s], link.mw, 0), FALSE, FALSE).q
           t(s) == TaskOf("start", IfNames[s], 0, 0, NoMw, 0, FALSE)
           e(s) == Enqueue(mq(s), t(s), FALSE, FALSE)
           idle(s) == side[s].runtime \notin {"running", "starting"}
<1>1. ASSUME NEW s \in Side PROVE Extends(queue[s], mq(s)) /\ Extends(queue[s], e(s).q)
  <2>1. Chained(queue[s]) /\ IfNames[s] \in IfName /\ link.mw \in MwOf /\ "mw_start" \in MwActions
    BY InvParts DEF LinkRow, MwActions
  <2>2. Extends(queue[s], mq(s))
    BY <2>1, MwTaskExtends DEF Extends
  <2>3. t(s) \in LinkTask /\ t(s).status = "pending" /\ t(s).dep = 0
    BY <2>1, Bounds DEF TaskOf, LinkTask, TaskStatus, LinkTaskType
  <2> HIDE DEF mq, t
  <2>4. Chained(mq(s)) /\ mq(s) \in Seq(LinkTask)
    BY <2>2 DEF Extends, Chained
  <2>5. Enqueued(mq(s), t(s), e(s))
    BY <2>4, EnqueueEnds
  <2> HIDE DEF e
  <2>6. Extends(mq(s), e(s).q)
    BY <2>3, <2>4, <2>5, EnqueuedExtends
  <2> QED BY <2>2, <2>6 DEF Extends
<1>2. /\ queue' = [s \in Side |-> IF idle(s) THEN e(s).q ELSE mq(s)]
      /\ side' = [s \in Side |-> IF idle(s) /\ e(s).changed THEN [side[s] EXCEPT !.runtime = "starting"]
                                 ELSE side[s]]
      /\ link' = link /\ Asks("start")
  BY DEF Start
<1> HIDE DEF e, mq, idle
<1>3. side' \in [Side -> SideRow]
  BY <1>2, InvParts DEF SideRow
<1>4. \A s \in Side : Extends(queue[s], queue'[s])
  BY <1>1, <1>2
<1> QED BY <1>2, <1>3, <1>4, InvParts, AsksHistory, RequestKeeps

LEMMA StopInv ==
  ASSUME LinkInv, Stop
  PROVE  LinkInv'
<1> DEFINE busy(s) == side[s].runtime \notin {"stopped", "stopping"}
           q(s) == IF busy(s) THEN StopSide(s).q ELSE queue[s]
           r(s) == IF link.mw = NoMw THEN q(s)
                   ELSE Enqueue(q(s), MwTask("mw_stop", IfNames[s], link.mw, 0), FALSE, FALSE).q
<1>1. ASSUME NEW s \in Side PROVE Extends(queue[s], StopSide(s).q)
  <2> DEFINE c == CancelPending(queue[s], {"apply", "start"})
             d == RunningDeployment(c)
             t == TaskOf("stop", side[s].name, 0, 0, NoMw, d, TRUE)
             e == Enqueue(c, t, TRUE, FALSE)
  <2>1. Extends(queue[s], c) /\ Chained(c) /\ c \in Seq(LinkTask)
    BY InvParts, CancelExtends DEF Extends, Chained
  <2> HIDE DEF c
  <2>2. d # 0 => WaitsFor(c, "stop", d)
    BY <2>1, RunningDeploymentIn DEF WaitsFor
  <2>3. d \in Nat
    BY <2>1, <2>2 DEF WaitsFor
  <2> HIDE DEF d
  <2>4. t \in LinkTask /\ t.status = "pending" /\ t.type = "stop" /\ t.dep = d
    BY <2>3, InvParts, Bounds DEF TaskOf, LinkTask, TaskStatus, LinkTaskType, SideRow
  <2> HIDE DEF t
  <2>5. Enqueued(c, t, e)
    BY <2>1, EnqueueEnds
  <2> HIDE DEF e
  <2>6. Extends(c, e.q)
    BY <2>1, <2>2, <2>4, <2>5, EnqueuedExtends
  <2>7. StopSide(s) = e
    BY DEF StopSide, c, d, t, e
  <2> QED BY <2>1, <2>6, <2>7 DEF Extends
<1>2. ASSUME NEW s \in Side PROVE Extends(queue[s], r(s))
  <2>1. Extends(queue[s], q(s)) /\ Chained(q(s))
    BY <1>1, InvParts DEF Extends
  <2> HIDE DEF q
  <2>2. IfNames[s] \in IfName /\ link.mw \in MwOf /\ "mw_stop" \in MwActions
    BY InvParts DEF LinkRow, MwActions
  <2>3. Extends(q(s), r(s))
    BY <2>1, <2>2, MwTaskExtends DEF Extends
  <2> QED BY <2>1, <2>3 DEF Extends
<1>3. /\ queue' = [s \in Side |-> r(s)]
      /\ side' = [s \in Side |-> IF busy(s) /\ StopSide(s).changed
                                 THEN [side[s] EXCEPT !.runtime = "stopping"] ELSE side[s]]
      /\ link' = link /\ Asks("stop")
  BY DEF Stop
<1> HIDE DEF r, busy
<1>4. side' \in [Side -> SideRow]
  BY <1>3, InvParts DEF SideRow
<1> QED BY <1>2, <1>3, <1>4, InvParts, AsksHistory, RequestKeeps

LEMMA DeleteInv ==
  ASSUME LinkInv, NEW files \in BOOLEAN, Delete(files)
  PROVE  LinkInv'
<1> DEFINE m(s) == IF files THEN EnqueueMwCleanup(queue[s], IfNames[s], link.mw) ELSE queue[s]
           q(s) == CancelPending(m(s), {"apply", "start"})
           t(s) == TaskOf("delete", IfNames[s], 0, 0, NoMw, 0, FALSE)
           e(s) == Enqueue(q(s), t(s), FALSE, FALSE)
<1>1. ASSUME NEW s \in Side PROVE Extends(queue[s], q(s)) /\ Extends(queue[s], e(s).q)
  <2>1. Chained(queue[s]) /\ IfNames[s] \in IfName /\ link.mw \in MwOf
    BY InvParts DEF LinkRow
  <2>2. Extends(queue[s], m(s)) /\ Chained(m(s))
    BY <2>1, EnqueueMwExtends DEF Extends
  <2> HIDE DEF m
  <2>3. Extends(m(s), q(s))
    BY <2>2, CancelExtends
  <2>4. Extends(queue[s], q(s)) /\ Chained(q(s)) /\ q(s) \in Seq(LinkTask)
    BY <2>2, <2>3 DEF Extends, Chained
  <2> HIDE DEF q
  <2>5. t(s) \in LinkTask /\ t(s).status = "pending" /\ t(s).dep = 0
    BY <2>1, Bounds DEF TaskOf, LinkTask, TaskStatus, LinkTaskType
  <2> HIDE DEF t
  <2>6. Enqueued(q(s), t(s), e(s))
    BY <2>4, EnqueueEnds
  <2> HIDE DEF e
  <2>7. Extends(q(s), e(s).q)
    BY <2>4, <2>5, <2>6, EnqueuedExtends
  <2> QED BY <2>4, <2>7 DEF Extends
<1>2. /\ queue' = [s \in Side |-> IF files THEN e(s).q ELSE q(s)]
      /\ side' = side /\ link' = [link EXCEPT !.exists = FALSE] /\ Asks("delete")
  BY DEF Delete
<1> HIDE DEF e, q
<1>3. \A s \in Side : Extends(queue[s], queue'[s])
  BY <1>1, <1>2
<1>4. LinkRow(link')
  BY <1>2, InvParts DEF LinkRow
<1> QED BY <1>2, <1>3, <1>4, InvParts, AsksHistory, RequestKeeps

-----------------------------------------------------------------------------
(* The nodes.                                                              *)

LEMMA PollInv ==
  ASSUME LinkInv, NEW s \in Side, NodePolls(s)
  PROVE  LinkInv'
<1> DEFINE q       == queue[s]
           pending == {k \in DOMAIN q : q[k].status = "pending"}
           doomed  == {k \in pending : LinkDoomed(q, k)}
           ready   == {k \in pending : LinkReady(q, k)}
           taken   == {k \in ready : Cardinality({j \in ready : j < k}) < LinkBatchSize}
           r       == [k \in DOMAIN q |-> CASE k \in doomed -> [q[k] EXCEPT !.status = "failed"]
                                           [] k \in taken -> [q[k] EXCEPT !.status = "running"]
                                           [] OTHER -> q[k]]
<1>1. /\ work[s] = {} /\ work' = [work EXCEPT ![s] = taken] /\ queue' = [queue EXCEPT ![s] = r]
      /\ linkHist' = [linkHist EXCEPT !.failed = @ \/ doomed # {}]
      /\ UNCHANGED <<scenario, link, side, box>>
  BY DEF NodePolls
<1>2. taken \subseteq pending /\ doomed \subseteq pending /\ taken \cap doomed = {} /\ pending \subseteq DOMAIN q
  BY DEF LinkDoomed
<1> HIDE DEF taken, doomed
<1>3. Chained(q) /\ \A k \in DOMAIN q : q[k] \in LinkTask
  BY InvParts DEF Chained
<1>4. ASSUME NEW k \in DOMAIN q
      PROVE  /\ r[k] \in LinkTask /\ r[k].type = q[k].type /\ r[k].dep = q[k].dep
             /\ q[k].status # "pending" => r[k].status # "pending"
             /\ r[k].status = "running" <=> k \in taken
  <2> DEFINE f == [q[k] EXCEPT !.status = "failed"]
             c == [q[k] EXCEPT !.status = "running"]
  <2>1. /\ f \in LinkTask /\ f.type = q[k].type /\ f.dep = q[k].dep /\ f.status = "failed"
        /\ c \in LinkTask /\ c.type = q[k].type /\ c.dep = q[k].dep /\ c.status = "running"
    BY <1>3 DEF LinkTask, TaskStatus
  <2>2. r[k] = CASE k \in doomed -> f [] k \in taken -> c [] OTHER -> q[k]
    OBVIOUS
  <2>3. q[k].status # "running"
    BY <1>1 DEF LinkInv, Fetched, Delivered
  <2> HIDE DEF f, c, r, pending
  <2>4. \/ k \in doomed /\ k \notin taken /\ r[k] = f
        \/ k \notin doomed /\ k \in taken /\ r[k] = c
        \/ k \notin doomed /\ k \notin taken /\ r[k] = q[k]
    BY <1>2, <2>2
  <2>5. k \in pending => q[k].status = "pending"
    BY DEF pending
  <2> QED BY <1>2, <1>3, <2>1, <2>3, <2>4, <2>5
<1>5. r = [k \in DOMAIN q |-> r[k]]
  OBVIOUS
<1> HIDE DEF r
<1>6. Chained(r) /\ DOMAIN r = DOMAIN q
  BY <1>3, <1>4, <1>5, StatusesChange
<1>7. Delivered(r) = taken
  BY <1>2, <1>4, <1>6 DEF Delivered
<1>8. queue'[s] = r /\ work'[s] = taken /\ \A u \in Side : u # s => queue'[u] = queue[u] /\ work'[u] = work[u]
  BY <1>1 DEF LinkInv
<1>9. \A u \in Side : Chained(queue'[u]) /\ work'[u] = Delivered(queue'[u])
  BY <1>6, <1>7, <1>8, InvParts DEF LinkInv, Fetched
<1>10. queue' \in [Side -> Seq(LinkTask)] /\ work' \in [Side -> SUBSET Nat]
  <2>1. r \in Seq(LinkTask) /\ taken \in SUBSET Nat
    BY <1>2, <1>3, <1>6 DEF Chained
  <2> QED BY <1>1, <2>1 DEF LinkInv
<1>11. linkHist' \in History
  BY <1>1, InvParts DEF History
<1>12. \A u \in Side : work'[u] \subseteq DOMAIN queue'[u]
  BY <1>9 DEF Delivered
<1>13. LinkTypeOK'
  BY <1>1, <1>9, <1>11, <1>12, TableTyped DEF LinkInv, LinkTypeOK, History
<1> QED BY <1>9, <1>10, <1>13 DEF LinkInv, Fetched

Box == [file : [IfName -> Ver], up : [IfName -> Ver], mwFile : [Plugins -> Ver], mwUp : [Plugins -> Ver]]

\* What a task does leaves a node that the model knows.
LEMMA NodeAfterTyped ==
  ASSUME NEW b \in Box, NEW t \in LinkTask
  PROVE  NodeAfter(b, t) \in Box
<1>1. t.v \in Ver /\ t.mw.v \in Ver /\ 0 \in Ver /\ t.name \in IfName
  BY Bounds DEF LinkTask, MwOf
<1>2. \A f \in [IfName -> Ver], n, v \in Ver : [f EXCEPT ![n] = v] \in [IfName -> Ver]
  OBVIOUS
<1>3. \A f \in [Plugins -> Ver], n, v \in Ver : [f EXCEPT ![n] = v] \in [Plugins -> Ver]
  OBVIOUS
<1>4. /\ b.file \in [IfName -> Ver] /\ b.up \in [IfName -> Ver]
      /\ b.mwFile \in [Plugins -> Ver] /\ b.mwUp \in [Plugins -> Ver]
      /\ \A f, u \in [IfName -> Ver] : [b EXCEPT !.file = f, !.up = u] \in Box
      /\ \A u \in [IfName -> Ver] : [b EXCEPT !.up = u] \in Box
      /\ \A f \in [IfName -> Ver] : [b EXCEPT !.file = f] \in Box
      /\ \A f, u \in [Plugins -> Ver] : [b EXCEPT !.mwFile = f, !.mwUp = u] \in Box
      /\ \A u \in [Plugins -> Ver] : [b EXCEPT !.mwUp = u] \in Box
  BY DEF Box
<1>5. CASE t.type = "apply"
  <2> DEFINE c == [b EXCEPT !.file[t.name] = t.v, !.up[t.name] = t.v]
  <2>1. c = [b EXCEPT !.file = [b.file EXCEPT ![t.name] = t.v], !.up = [b.up EXCEPT ![t.name] = t.v]]
    BY DEF Box
  <2>2. c \in Box
    BY <1>1, <1>2, <1>4, <2>1
  <2> HIDE DEF c
  <2>3. [c EXCEPT !.file[t.prev] = 0, !.up[t.prev] = 0] \in Box
    BY <1>1, <2>2 DEF Box
  <2> QED BY <1>5, <2>2, <2>3 DEF NodeAfter, c
<1>6. CASE t.type = "start"
  <2>1. b.file[t.name] \in Ver
    BY <1>1, <1>4
  <2>2. [b EXCEPT !.up[t.name] = b.file[t.name]] \in Box
    BY <2>1 DEF Box
  <2> QED BY <1>6, <2>2 DEF NodeAfter
<1>7. CASE t.type = "stop"
  <2>1. [b EXCEPT !.up[t.name] = 0] \in Box
    BY <1>1 DEF Box
  <2> QED BY <1>7, <2>1 DEF NodeAfter
<1>8. CASE t.type = "delete"
  <2>1. [b EXCEPT !.file[t.name] = 0] \in Box
    BY <1>1 DEF Box
  <2> QED BY <1>8, <2>1 DEF NodeAfter
<1>9. CASE t.type = "mw_apply"
  <2>1. [b EXCEPT !.mwFile[t.mw.plugin] = t.mw.v, !.mwUp[t.mw.plugin] = t.mw.v] \in Box
    BY <1>1 DEF Box
  <2> QED BY <1>9, <2>1 DEF NodeAfter
<1>10. CASE t.type = "mw_start"
  <2>1. t.mw.plugin \in Plugins => b.mwFile[t.mw.plugin] \in Ver
    BY <1>4
  <2>2. [b.mwUp EXCEPT ![t.mw.plugin] = b.mwFile[t.mw.plugin]] \in [Plugins -> Ver]
    BY <1>4, <2>1
  <2>3. [b EXCEPT !.mwUp[t.mw.plugin] = b.mwFile[t.mw.plugin]] \in Box
    BY <2>2 DEF Box
  <2> QED BY <1>10, <2>3 DEF NodeAfter
<1>11. CASE t.type = "mw_stop"
  <2>1. [b EXCEPT !.mwUp[t.mw.plugin] = 0] \in Box
    BY <1>1 DEF Box
  <2> QED BY <1>11, <2>1 DEF NodeAfter
<1>12. CASE t.type = "mw_delete"
  <2>1. [b EXCEPT !.mwFile[t.mw.plugin] = 0, !.mwUp[t.mw.plugin] = 0] \in Box
    BY <1>1 DEF Box
  <2> QED BY <1>12, <2>1 DEF NodeAfter
<1>13. CASE t.type = "install"
  BY <1>13 DEF NodeAfter
<1>14. t.type \in LinkTaskType
  BY DEF LinkTask
<1> QED BY <1>5, <1>6, <1>7, <1>8, <1>9, <1>10, <1>11, <1>12, <1>13, <1>14 DEF LinkTaskType,
           MwActions

LEMMA ExecuteInv ==
  ASSUME LinkInv, NEW s \in Side, NodeExecutes(s)
  PROVE  LinkInv'
<1> DEFINE k == Earliest(work[s])
           q == queue[s]
           t == q[k]
<1>1. work[s] \in SUBSET Nat /\ work[s] # {} /\ work[s] = Delivered(q)
  BY DEF NodeExecutes, LinkInv, Fetched
<1>2. k \in work[s] /\ k \in DOMAIN q /\ q[k].status = "running"
  BY <1>1, EarliestIn DEF Delivered
<1>3. Chained(q) /\ t \in LinkTask
  BY <1>2, InvParts DEF Chained
<1>4. \E st \in {"succeeded", "failed"} :
        /\ queue' = [queue EXCEPT ![s][k].status = st] /\ work' = [work EXCEPT ![s] = @ \ {k}]
        /\ UNCHANGED <<scenario, link>>
        /\ UNCHANGED box \/ box' = [box EXCEPT ![s] = NodeAfter(@, t)]
        /\ UNCHANGED side \/ side' = [side EXCEPT ![s] = Reported(@, t)]
        /\ \/ UNCHANGED linkHist \/ linkHist' = [linkHist EXCEPT !.failed = TRUE]
           \/ /\ linkHist.failures < MaxTaskFailures
              /\ linkHist' = [linkHist EXCEPT !.failures = @ + 1, !.failed = TRUE]
  BY DEF NodeExecutes
<1> HIDE DEF k
<1>5. PICK st \in {"succeeded", "failed"} :
        queue' = [queue EXCEPT ![s][k].status = st] /\ work' = [work EXCEPT ![s] = @ \ {k}]
  BY <1>4
<1> DEFINE r == [q EXCEPT ![k] = [t EXCEPT !.status = st]]
<1>6. queue' = [queue EXCEPT ![s] = r]
  BY <1>5 DEF LinkInv
<1>7. ASSUME NEW j \in DOMAIN q
      PROVE  /\ r[j] \in LinkTask /\ r[j].type = q[j].type /\ r[j].dep = q[j].dep
             /\ q[j].status # "pending" => r[j].status # "pending"
             /\ r[j].status = "running" <=> q[j].status = "running" /\ j # k
  <2> DEFINE c == [t EXCEPT !.status = st]
  <2>1. c \in LinkTask /\ c.type = t.type /\ c.dep = t.dep /\ c.status = st
    BY <1>3 DEF LinkTask, TaskStatus
  <2>2. r[j] = IF j = k THEN c ELSE q[j]
    BY <1>2
  <2>3. q[j] \in LinkTask
    BY <1>3 DEF Chained
  <2> HIDE DEF c, r
  <2> QED BY <2>1, <2>2, <2>3
<1>8. r = [j \in DOMAIN q |-> r[j]]
  OBVIOUS
<1> HIDE DEF r
<1>9. Chained(r) /\ DOMAIN r = DOMAIN q
  BY <1>3, <1>7, <1>8, StatusesChange
<1>10. Delivered(r) = work[s] \ {k}
  BY <1>1, <1>7, <1>9 DEF Delivered
<1>11. /\ queue'[s] = r /\ work'[s] = work[s] \ {k}
       /\ \A u \in Side : u # s => queue'[u] = queue[u] /\ work'[u] = work[u]
  BY <1>5, <1>6 DEF LinkInv
<1>12. \A u \in Side : Chained(queue'[u]) /\ work'[u] = Delivered(queue'[u])
  BY <1>9, <1>10, <1>11, InvParts DEF LinkInv, Fetched
<1>13. queue' \in [Side -> Seq(LinkTask)] /\ work' \in [Side -> SUBSET Nat]
  <2>1. r \in Seq(LinkTask)
    BY <1>9 DEF Chained
  <2> QED BY <1>5, <1>6, <2>1 DEF LinkInv
<1>14. linkHist' \in History
  <2>1. linkHist \in History /\ MaxTaskFailures \in Nat
    BY InvParts, Bounds
  <2>2. linkHist.failures < MaxTaskFailures => linkHist.failures + 1 \in 0..MaxTaskFailures
    BY <2>1 DEF History
  <2> QED BY <1>4, <2>1, <2>2 DEF History
<1>15. side' \in [Side -> SideRow]
  <2>1. side \in [Side -> SideRow] /\ 0 \in 0..MaxName
    BY InvParts, Bounds
  <2>2. Reported(side[s], t) \in SideRow
    BY <2>1 DEF Reported, SideRow
  <2> QED BY <1>4, <2>1, <2>2
<1>16. box' \in [Side -> Box]
  <2>1. box \in [Side -> Box]
    BY DEF LinkInv, LinkTypeOK, Box
  <2>2. NodeAfter(box[s], t) \in Box
    BY <1>3, <2>1, NodeAfterTyped
  <2> QED BY <1>4, <2>1, <2>2
<1>17. \A u \in Side : work'[u] \subseteq DOMAIN queue'[u]
  BY <1>12 DEF Delivered
<1>18. LinkTypeOK'
  BY <1>4, <1>12, <1>14, <1>15, <1>16, <1>17, TableTyped DEF LinkInv, LinkTypeOK, History,
     SideRow, Box
<1> QED BY <1>12, <1>13, <1>18 DEF LinkInv, Fetched

-----------------------------------------------------------------------------
(* The theorems.                                                           *)

LEMMA LinkInvInit == LinkInit => LinkInv
<1> SUFFICES ASSUME LinkInit PROVE LinkInv
  OBVIOUS
<1>1. PICK mw \in {NoMw} \cup [plugin : Plugins, v : {1}] :
        /\ link = [exists |-> TRUE, config |-> 1, mw |-> mw]
        /\ side = [s \in Side |-> [name |-> 1, prev |-> 0, runtime |-> "starting"]]
        /\ queue = [s \in Side |-> EnqueueApply(EnqueueMw(<<>>, 1, mw), [name |-> 1, prev |-> 0], 1).q]
  BY DEF LinkInit
<1>2. mw \in MwOf /\ LinkRow(link) /\ side \in [Side -> SideRow]
  BY <1>1, Bounds DEF MwOf, LinkRow, SideRow
<1> DEFINE m == EnqueueMw(<<>>, 1, mw)
           r == EnqueueApply(m, [name |-> 1, prev |-> 0], 1).q
<1>3. Chained(<<>>) /\ Delivered(<<>>) = {}
  BY DEF Chained, Delivered
<1>4. Extends(<<>>, m) /\ Chained(m)
  BY <1>2, <1>3, Bounds, EnqueueMwExtends DEF Extends
<1> HIDE DEF m
<1>5. Extends(m, r)
  BY <1>4, Bounds, EnqueueApplyExtends
<1>6. Chained(r) /\ Delivered(r) = {} /\ r \in Seq(LinkTask)
  BY <1>3, <1>4, <1>5 DEF Extends, Chained
<1> HIDE DEF r
<1>7. \A s \in Side : queue[s] = r /\ work[s] = {}
  BY <1>1 DEF LinkInit, r, m
<1>8. queue \in [Side -> Seq(LinkTask)] /\ work \in [Side -> SUBSET Nat]
  BY <1>1, <1>6 DEF LinkInit, r, m
<1>9. box \in [Side -> Box] /\ linkHist \in History /\ scenario \in Scenarios
  BY Bounds DEF LinkInit, Box, History
<1>10. LinkTypeOK
  BY <1>2, <1>6, <1>7, <1>9, TableTyped DEF LinkTypeOK, LinkRow, MwOf, SideRow, Box, History
<1> QED BY <1>6, <1>7, <1>8, <1>10 DEF LinkInv, Fetched

LEMMA LinkInvNext ==
  ASSUME LinkInv, [LinkNext]_linkVars PROVE LinkInv'
<1>0. LinkRow(link) /\ side \in [Side -> SideRow] /\ IfNames \in [Side -> IfName]
  BY InvParts
<1>1. CASE UNCHANGED linkVars
  <2>1. scenario' = scenario /\ link' = link /\ side' = side /\ queue' = queue /\ work' = work
        /\ box' = box /\ linkHist' = linkHist
    BY <1>1 DEF linkVars
  <2>2. queue' = [s \in Side |-> queue'[s]] /\ \A s \in Side : Extends(queue[s], queue'[s])
    BY <2>1 DEF LinkInv, Extends
  <2>3. linkHist' \in History
    BY <2>1, InvParts
  <2> QED BY <1>0, <2>1, <2>2, <2>3, RequestKeeps
<1>2. CASE UpdateOnly
  BY <1>0, <1>2, UpdateInv DEF UpdateOnly, LinkRow
<1>3. ASSUME NEW mw \in {NoMw} \cup [plugin : Plugins, v : {link.config + 1}], UpdateMiddleware(mw)
      PROVE  LinkInv'
  <2>1. mw \in MwOf
    <3>1. link.config + 1 \in Ver
      BY <1>0, <1>3, Bounds DEF UpdateMiddleware, UpdateLink, LinkRow, Ver
    <3> QED BY <1>3, <3>1, Bounds DEF MwOf
  <2> QED BY <1>0, <1>3, <2>1, UpdateInv DEF UpdateMiddleware
<1>4. ASSUME NEW S \in SUBSET Side, Rename(S) PROVE LinkInv'
  <2> DEFINE name == [s \in Side |-> IF s \in S THEN IfNames[s] + 1 ELSE IfNames[s]]
  <2>1. name \in [Side -> IfName]
    <3>1. \A s \in S : IfNames[s] + 1 \in IfName
      BY <1>0, <1>4, Bounds DEF Rename, IfNames, IfName, SideRow
    <3> QED BY <1>0, <3>1
  <2> QED BY <1>0, <1>4, <2>1, UpdateInv DEF Rename, LinkRow
<1> QED BY <1>1, <1>2, <1>3, <1>4, StartInv, StopInv, DeleteInv, PollInv, ExecuteInv DEF LinkNext

LEMMA LinkSpecInv == LinkSpec => []LinkInv
<1>1. LinkInv /\ [LinkNext]_linkVars => LinkInv'
  BY LinkInvNext
<1> QED BY <1>1, LinkInvInit, PTL DEF LinkSpec

\* The link, its sides, their tasks and nodes are what the model says they are
\* (managed links, wg_interfaces and agent_tasks in main.py).
THEOREM LinkTypeCorrect == LinkSpec => []LinkTypeOK
<1>1. LinkInv => LinkTypeOK
  BY DEF LinkInv
<1> QED BY <1>1, LinkSpecInv, PTL

\* A pending task whose dependency is not pending is claimed or failed by the next poll.
LEMMA FrontMoves ==
  ASSUME NEW q, Chained(q), Delivered(q) = {}, NEW k \in DOMAIN q,
         q[k].dep = 0 \/ q[q[k].dep].status # "pending"
  PROVE  LinkReady(q, k) \/ LinkDoomed(q, k)
<1>1. CASE q[k].dep # 0
  <2> DEFINE d == q[k].dep
  <2>1. d \in DOMAIN q
    BY <1>1 DEF Chained, WaitsFor
  <2>2. q[d].status \in {"running", "succeeded", "failed", "cancelled"}
    BY <1>1, <2>1, TableTyped
  <2>3. q[d].status # "running"
    BY <2>1 DEF Delivered
  <2> QED BY <1>1, <2>2, <2>3 DEF LinkReady, LinkDoomed
<1> QED BY <1>1 DEF LinkReady

\* A chain has a front.
LEMMA ChainMoves ==
  ASSUME NEW q, Chained(q), Delivered(q) = {}, NEW k \in DOMAIN q, q[k].status = "pending"
  PROVE  \E j \in DOMAIN q : q[j].status = "pending" /\ (LinkReady(q, j) \/ LinkDoomed(q, j))
<1> DEFINE Front(j) == q[j].dep = 0 \/ q[q[j].dep].status # "pending"
<1>1. \A j \in DOMAIN q : q[j].dep # 0 => WaitsFor(q, q[j].type, q[j].dep)
  BY DEF Chained
<1>2. \A j \in DOMAIN q : q[j].type \in {"stop", "mw_stop"} => Front(j)
  BY <1>1 DEF WaitsFor
<1>3. \A j \in DOMAIN q : ~ Front(j) =>
        /\ q[j].dep \in DOMAIN q /\ q[q[j].dep].status = "pending"
        /\ q[q[j].dep].type \in {"stop", "mw_stop", "delete"}
        /\ q[j].type = "delete" => q[q[j].dep].type = "stop"
  BY <1>1 DEF WaitsFor
<1>4. \E j \in DOMAIN q : q[j].status = "pending" /\ Front(j)
  <2>1. CASE Front(k)
    BY <2>1
  <2>2. CASE ~ Front(k) /\ Front(q[k].dep)
    BY <1>3, <2>2
  <2>3. CASE ~ Front(k) /\ ~ Front(q[k].dep)
    <3> DEFINE d == q[k].dep
    <3>1. d \in DOMAIN q /\ q[d].type = "delete"
      BY <1>2, <1>3, <2>3
    <3>2. q[d].dep \in DOMAIN q /\ q[q[d].dep].status = "pending" /\ Front(q[d].dep)
      BY <1>2, <1>3, <2>3, <3>1
    <3> QED BY <3>2
  <2> QED BY <2>1, <2>2, <2>3
<1> QED BY <1>4, FrontMoves

\* No task of a side waits for ever: the chains that a rename, a stop behind a running
\* deployment and a middleware clean-up leave (enqueue_interface_task_once_with_task, which
\* rewrites links of them in place) always have a front that agent_poll claims or closes.
THEOREM TasksAlwaysMove == LinkSpec => []NoTaskStuck
<1>1. LinkInv => NoTaskStuck
  <2> SUFFICES ASSUME LinkInv, NEW s \in Side, SideActive(s), work[s] = {}
               PROVE  \E k \in DOMAIN queue[s] : /\ queue[s][k].status = "pending"
                                                 /\ LinkReady(queue[s], k) \/ LinkDoomed(queue[s], k)
    BY DEF NoTaskStuck
  <2>1. Chained(queue[s]) /\ Delivered(queue[s]) = {}
    BY DEF LinkInv, Fetched
  <2>2. PICK k \in DOMAIN queue[s] : queue[s][k].status \in {"pending", "running"}
    BY DEF SideActive
  <2>3. queue[s][k].status = "pending"
    BY <2>1, <2>2 DEF Delivered
  <2> QED BY <2>1, <2>3, ChainMoves
<1> QED BY <1>1, LinkSpecInv, PTL

-----------------------------------------------------------------------------
(* The names of a managed link.                                            *)

Unfinished == {"pending", "running"}
TasksOf(q, type, st) == {k \in DOMAIN q : q[k].type = type /\ q[k].status \in st}

\* A row's two names, and the applies that a request has queued since the last rename.
Named(name, prev, q) ==
  prev < name /\ \A k \in TasksOf(q, "apply", {"pending"}) : q[k].name = name

\* What was never renamed under a running deployment: the node knows one name, the
\* recorded one if there is one, and the next apply replaces it.
Kept(name, prev, q, b) ==
  /\ \A k \in TasksOf(q, "apply", Unfinished) : q[k].name = name /\ (prev = 0 \/ q[k].prev = prev)
  /\ \A n \in IfName : n # (IF prev = 0 THEN name ELSE prev) => b.file[n] = 0 /\ b.up[n] = 0

\* Where no task has failed and the side was renamed once at most: the chain for the
\* old name waits, or is being carried out with no apply of that name left, or is done.
Cleaned(name, q, b) ==
  /\ \A n \in IfName : n > name => b.file[n] = 0 /\ b.up[n] = 0
  /\ \A k \in TasksOf(q, "apply", Unfinished) : q[k].name <= name
  /\ name = 1 => TasksOf(q, "delete", Unfinished) = {}
  /\ name = 2 =>
       \/ \E k \in TasksOf(q, "delete", {"pending"}) : q[k].name = 1
       \/ /\ \A k \in TasksOf(q, "apply", Unfinished) : q[k].name # 1
          /\ \/ \E k \in TasksOf(q, "delete", {"running"}) : q[k].name = 1
             \/ b.file[1] = 0 /\ b.up[1] = 0

SideNamed(row, q, b, h) ==
  /\ Named(row.name, row.prev, q)
  /\ ~ h.overtook => Kept(row.name, row.prev, q, b)
  /\ ~ h.failed /\ row.name <= 2 => Cleaned(row.name, q, b)

OldNames == link.exists => \A s \in Side : SideNamed(side[s], queue[s], box[s], linkHist)

\* A change of a table that queues no apply and no delete, and withdraws no delete.
Spares(q, r) ==
  /\ \A k \in DOMAIN r : r[k].type \in {"apply", "delete"} /\ r[k].status \in Unfinished =>
       k \in DOMAIN q /\ r[k] = q[k]
  /\ \A k \in DOMAIN q : q[k].type = "delete" /\ q[k].status \in Unfinished =>
       k \in DOMAIN r /\ r[k] = q[k]

LEMMA SparesTrans ==
  ASSUME NEW q, NEW r, NEW u, Spares(q, r), Spares(r, u)
  PROVE  Spares(q, u)
<1>1. ASSUME NEW k \in DOMAIN u, u[k].type \in {"apply", "delete"}, u[k].status \in Unfinished
      PROVE  k \in DOMAIN q /\ u[k] = q[k]
  <2>1. k \in DOMAIN r /\ u[k] = r[k]
    BY <1>1 DEF Spares
  <2> QED BY <1>1, <2>1 DEF Spares
<1>2. ASSUME NEW k \in DOMAIN q, q[k].type = "delete", q[k].status \in Unfinished
      PROVE  k \in DOMAIN u /\ u[k] = q[k]
  <2>1. k \in DOMAIN r /\ r[k] = q[k]
    BY <1>2 DEF Spares
  <2> QED BY <1>2, <2>1 DEF Spares
<1> QED BY <1>1, <1>2 DEF Spares

LEMMA EnqueuedSpares ==
  ASSUME NEW q \in Seq(LinkTask), NEW t \in LinkTask, t.type \notin {"apply", "delete"},
         NEW e, Enqueued(q, t, e)
  PROVE  Spares(q, e.q) /\ e.q \in Seq(LinkTask) /\ e.id \in Nat
<1>1. DOMAIN q = 1..Len(q) /\ Len(q) \in Nat
  OBVIOUS
<1>2. ASSUME NEW k \in Like(q, t, {"pending"}), e.q = [q EXCEPT ![k] = t], e.id = k
      PROVE  Spares(q, e.q) /\ e.q \in Seq(LinkTask) /\ e.id \in Nat
  <2>1. k \in DOMAIN q /\ q[k].type = t.type
    BY DEF Like
  <2>2. /\ e.q \in Seq(LinkTask) /\ DOMAIN e.q = DOMAIN q
        /\ e.q[k] = t /\ \A j \in DOMAIN q : j # k => e.q[j] = q[j]
    BY <1>1, <1>2, <2>1
  <2> QED BY <1>1, <1>2, <2>1, <2>2 DEF Spares
<1>3. ASSUME e.q = q, e.id \in Like(q, t, {"pending", "running"})
      PROVE  Spares(q, e.q) /\ e.q \in Seq(LinkTask) /\ e.id \in Nat
  BY <1>1, <1>3 DEF Spares, Like
<1>4. ASSUME e.q = Append(q, t), e.id = Len(q) + 1
      PROVE  Spares(q, e.q) /\ e.q \in Seq(LinkTask) /\ e.id \in Nat
  <2>1. /\ e.q \in Seq(LinkTask) /\ DOMAIN e.q = 1..(Len(q) + 1)
        /\ e.q[Len(q) + 1] = t /\ \A j \in DOMAIN q : e.q[j] = q[j]
    BY <1>1, <1>4
  <2>2. DOMAIN q \subseteq DOMAIN e.q /\ \A j \in DOMAIN e.q : j \in DOMAIN q \/ j = Len(q) + 1
    BY <1>1, <2>1
  <2> QED BY <1>1, <1>4, <2>1, <2>2 DEF Spares
<1> QED BY <1>2, <1>3, <1>4 DEF Enqueued

LEMMA CancelSpares ==
  ASSUME NEW q, NEW types, "delete" \notin types
  PROVE  Spares(q, CancelPending(q, types))
<1> DEFINE r == CancelPending(q, types)
<1>1. DOMAIN r = DOMAIN q
  BY DEF CancelPending
<1>2. ASSUME NEW k \in DOMAIN q
      PROVE  \/ r[k] = q[k]
             \/ q[k].type \in types /\ q[k].status = "pending" /\ r[k].status \notin Unfinished
  BY DEF CancelPending, Unfinished
<1> HIDE DEF r
<1> QED BY <1>1, <1>2 DEF Spares, r

\* A request that spares the applies and deletes of a side leaves what is known of it.
LEMMA SparedStaysNamed ==
  ASSUME NEW name, NEW prev, NEW q, NEW r, NEW b, Spares(q, r)
  PROVE  /\ Named(name, prev, q) => Named(name, prev, r)
         /\ Kept(name, prev, q, b) => Kept(name, prev, r, b)
         /\ Cleaned(name, q, b) => Cleaned(name, r, b)
<1>1. ASSUME NEW k \in TasksOf(r, "apply", Unfinished)
      PROVE  k \in TasksOf(q, "apply", Unfinished) /\ r[k] = q[k]
  BY DEF TasksOf, Spares
<1>2. ASSUME NEW k \in TasksOf(r, "apply", {"pending"})
      PROVE  k \in TasksOf(q, "apply", {"pending"}) /\ r[k] = q[k]
  BY DEF TasksOf, Spares, Unfinished
<1>3. ASSUME NEW k \in TasksOf(q, "delete", {"pending"})
      PROVE  k \in TasksOf(r, "delete", {"pending"}) /\ r[k] = q[k]
  BY DEF TasksOf, Spares, Unfinished
<1>4. ASSUME NEW k \in TasksOf(q, "delete", {"running"})
      PROVE  k \in TasksOf(r, "delete", {"running"}) /\ r[k] = q[k]
  BY DEF TasksOf, Spares, Unfinished
<1>5. TasksOf(r, "delete", Unfinished) \subseteq TasksOf(q, "delete", Unfinished)
  BY DEF TasksOf, Spares
<1>6. Named(name, prev, q) => Named(name, prev, r)
  BY <1>2 DEF Named
<1>7. Kept(name, prev, q, b) => Kept(name, prev, r, b)
  BY <1>1 DEF Kept
<1>8. ASSUME Cleaned(name, q, b) PROVE Cleaned(name, r, b)
  <2>1. \A k \in TasksOf(r, "apply", Unfinished) : r[k].name <= name
    BY <1>1, <1>8 DEF Cleaned
  <2>2. name = 1 => TasksOf(r, "delete", Unfinished) = {}
    BY <1>5, <1>8 DEF Cleaned
  <2>3. name = 2 =>
       \/ \E k \in TasksOf(r, "delete", {"pending"}) : r[k].name = 1
       \/ /\ \A k \in TasksOf(r, "apply", Unfinished) : r[k].name # 1
          /\ \/ \E k \in TasksOf(r, "delete", {"running"}) : r[k].name = 1
             \/ b.file[1] = 0 /\ b.up[1] = 0
    <3> SUFFICES ASSUME name = 2, ~ \E k \in TasksOf(r, "delete", {"pending"}) : r[k].name = 1
                 PROVE  /\ \A k \in TasksOf(r, "apply", Unfinished) : r[k].name # 1
                        /\ \/ \E k \in TasksOf(r, "delete", {"running"}) : r[k].name = 1
                           \/ b.file[1] = 0 /\ b.up[1] = 0
      OBVIOUS
    <3>1. ~ \E k \in TasksOf(q, "delete", {"pending"}) : q[k].name = 1
      BY <1>3
    <3>2. /\ \A k \in TasksOf(q, "apply", Unfinished) : q[k].name # 1
          /\ \/ \E k \in TasksOf(q, "delete", {"running"}) : q[k].name = 1
             \/ b.file[1] = 0 /\ b.up[1] = 0
      BY <1>8, <3>1 DEF Cleaned
    <3> QED BY <1>1, <1>4, <3>2
  <2> QED BY <1>8, <2>1, <2>2, <2>3 DEF Cleaned
<1> QED BY <1>6, <1>7, <1>8

\* Which way enqueue_interface_task_once_with_task goes when it may rewrite a pending
\* task: with or without queueing after a running one.
LEMMA EnqueueRewrites ==
  ASSUME NEW q \in Seq(LinkTask), NEW t, NEW after \in BOOLEAN
  PROVE  LET e == Enqueue(q, t, TRUE, after) IN
         \/ \E k \in Like(q, t, {"pending"}) : e.q = [q EXCEPT ![k] = t] /\ e.id = k
         \/ /\ Like(q, t, {"pending"}) = {}
            /\ \/ e.q = Append(q, t) /\ e.id = Len(q) + 1
               \/ /\ ~ after /\ e.q = q /\ e.id \in Like(q, t, {"running"})
<1> DEFINE P == Like(q, t, {"pending"})
           R == Like(q, t, {"running"})
<1>1. P \subseteq Nat /\ R \subseteq Nat
  BY DEF Like
<1>2. P # {} => Earliest(P) \in P
  BY <1>1, EarliestIn
<1>3. R # {} => Earliest(R) \in R
  BY <1>1, EarliestIn
<1> HIDE DEF P, R
<1> QED BY <1>2, <1>3 DEF Enqueue, P, R

\* Where a task stands after it was appended or has replaced another.
LEMMA Appended ==
  ASSUME NEW q \in Seq(LinkTask), NEW t \in LinkTask
  PROVE  /\ Append(q, t) \in Seq(LinkTask) /\ DOMAIN q \subseteq DOMAIN Append(q, t)
         /\ Len(q) + 1 \in DOMAIN Append(q, t) /\ Append(q, t)[Len(q) + 1] = t
         /\ \A k \in DOMAIN q : Append(q, t)[k] = q[k]
         /\ \A k \in DOMAIN Append(q, t) : k \in DOMAIN q \/ k = Len(q) + 1
<1>1. DOMAIN q = 1..Len(q) /\ Len(q) \in Nat
  OBVIOUS
<1>2. /\ Append(q, t) \in Seq(LinkTask) /\ DOMAIN Append(q, t) = 1..(Len(q) + 1)
      /\ Append(q, t)[Len(q) + 1] = t /\ \A k \in DOMAIN q : Append(q, t)[k] = q[k]
  BY <1>1
<1> QED BY <1>1, <1>2

\* enqueue_apply_config with nothing to clean: an apply of the name, and nothing else.
LEMMA ApplyEnqueued ==
  ASSUME NEW q \in Seq(LinkTask), NEW row, row.name \in IfName, row.prev = 0, NEW config \in Ver
  PROVE  LET r == EnqueueApply(q, row, config).q IN
         /\ r \in Seq(LinkTask)
         /\ \A k \in DOMAIN r : \/ k \in DOMAIN q /\ r[k] = q[k]
                                \/ r[k].type = "apply" /\ r[k].name = row.name /\ r[k].status = "pending"
         /\ \A k \in DOMAIN q : q[k].type = "delete" => k \in DOMAIN r /\ r[k] = q[k]
<1> DEFINE t == TaskOf("apply", row.name, 0, config, NoMw, 0, FALSE)
           e == Enqueue(q, t, TRUE, TRUE)
<1>1. EnqueueApply(q, row, config) = e
  BY DEF EnqueueApply
<1>2. t \in LinkTask /\ t.status = "pending" /\ t.type = "apply" /\ t.name = row.name
  BY Bounds DEF TaskOf, LinkTask, TaskStatus, LinkTaskType
<1> HIDE DEF t
<1>3. Enqueued(q, t, e)
  BY EnqueueEnds
<1> HIDE DEF e
<1>4. ASSUME NEW j \in Like(q, t, {"pending"}), e.q = [q EXCEPT ![j] = t]
      PROVE  /\ e.q \in Seq(LinkTask)
             /\ \A k \in DOMAIN e.q : \/ k \in DOMAIN q /\ e.q[k] = q[k]
                                      \/ e.q[k].type = "apply" /\ e.q[k].name = row.name /\ e.q[k].status = "pending"
             /\ \A k \in DOMAIN q : q[k].type = "delete" => k \in DOMAIN e.q /\ e.q[k] = q[k]
  <2>1. j \in DOMAIN q /\ q[j].type = "apply"
    BY <1>2 DEF Like
  <2>2. /\ e.q \in Seq(LinkTask) /\ DOMAIN e.q = DOMAIN q
        /\ e.q[j] = t /\ \A k \in DOMAIN q : k # j => e.q[k] = q[k]
    BY <1>2, <1>4, <2>1
  <2> QED BY <1>2, <2>1, <2>2
<1>5. ASSUME e.q = Append(q, t)
      PROVE  /\ e.q \in Seq(LinkTask)
             /\ \A k \in DOMAIN e.q : \/ k \in DOMAIN q /\ e.q[k] = q[k]
                                      \/ e.q[k].type = "apply" /\ e.q[k].name = row.name /\ e.q[k].status = "pending"
             /\ \A k \in DOMAIN q : q[k].type = "delete" => k \in DOMAIN e.q /\ e.q[k] = q[k]
  BY <1>2, <1>5, Appended
<1>6. ASSUME e.q = q
      PROVE  /\ e.q \in Seq(LinkTask)
             /\ \A k \in DOMAIN e.q : \/ k \in DOMAIN q /\ e.q[k] = q[k]
                                      \/ e.q[k].type = "apply" /\ e.q[k].name = row.name /\ e.q[k].status = "pending"
             /\ \A k \in DOMAIN q : q[k].type = "delete" => k \in DOMAIN e.q /\ e.q[k] = q[k]
  BY <1>6
<1> QED BY <1>1, <1>3, <1>4, <1>5, <1>6 DEF Enqueued

\* enqueue_apply_config after a rename: the one pending apply is the new one, and the
\* deletion of the old name is queued, unless one is being carried out and none waits.
LEMMA CleanUpEnqueued ==
  ASSUME NEW q \in Seq(LinkTask), NEW row, row.name \in IfName, row.prev \in IfName,
         row.prev # row.name, NEW config \in Ver
  PROVE  LET r == EnqueueApply(q, row, config).q IN
         /\ r \in Seq(LinkTask)
         /\ \A k \in TasksOf(r, "apply", {"pending"}) : r[k].name = row.name /\ r[k].prev = row.prev
         /\ \A k \in TasksOf(r, "apply", {"running"}) : k \in DOMAIN q /\ r[k] = q[k]
         /\ \A k \in TasksOf(q, "delete", {"running"}) : k \in DOMAIN r /\ r[k] = q[k]
         /\ \/ \E k \in TasksOf(r, "delete", {"pending"}) : r[k].name = row.prev
            \/ TasksOf(q, "delete", {"pending"}) = {} /\ TasksOf(q, "delete", {"running"}) # {}
<1> DEFINE c    == CancelPending(q, {"apply"})
           t1   == TaskOf("stop", row.prev, 0, 0, NoMw, 0, FALSE)
           stop == Enqueue(c, t1, TRUE, FALSE)
           t2   == TaskOf("delete", row.prev, 0, 0, NoMw, stop.id, FALSE)
           del  == Enqueue(stop.q, t2, TRUE, FALSE)
           t3   == TaskOf("apply", row.name, row.prev, config, NoMw, del.id, FALSE)
           e    == Enqueue(del.q, t3, TRUE, TRUE)
<1>0. EnqueueApply(q, row, config) = e
  <2>1. row.prev # 0
    BY DEF IfName
  <2> QED BY <2>1 DEF EnqueueApply
<1>1. c \in Seq(LinkTask) /\ Spares(q, c) /\ TasksOf(c, "apply", {"pending"}) = {}
  <2>1. DOMAIN c = DOMAIN q /\ DOMAIN q = 1..Len(q) /\ Len(q) \in Nat
    BY DEF CancelPending
  <2>2. ASSUME NEW k \in DOMAIN q
        PROVE  c[k] \in LinkTask /\ ~ (c[k].type = "apply" /\ c[k].status = "pending")
    <3>1. q[k] \in LinkTask
      OBVIOUS
    <3>2. [q[k] EXCEPT !.status = "cancelled"] \in LinkTask
      BY <3>1 DEF LinkTask, TaskStatus
    <3>3. [q[k] EXCEPT !.status = "cancelled"].status = "cancelled"
      BY <3>1 DEF LinkTask
    <3> QED BY <3>1, <3>2, <3>3 DEF CancelPending
  <2>3. c = [k \in DOMAIN q |-> c[k]]
    BY DEF CancelPending
  <2>4. Spares(q, c)
    BY CancelSpares
  <2> HIDE DEF c
  <2>5. c \in Seq(LinkTask)
    BY <2>1, <2>2, <2>3
  <2> QED BY <2>1, <2>2, <2>4, <2>5 DEF TasksOf
<1> HIDE DEF c
<1>2. t1 \in LinkTask /\ t1.type = "stop"
  BY Bounds DEF TaskOf, LinkTask, TaskStatus, LinkTaskType
<1> HIDE DEF t1
<1>3. Enqueued(c, t1, stop)
  BY <1>1, EnqueueEnds
<1> HIDE DEF stop
<1>4. stop.q \in Seq(LinkTask) /\ Spares(c, stop.q) /\ stop.id \in Nat
  BY <1>1, <1>2, <1>3, EnqueuedSpares
<1>5. Spares(q, stop.q)
  BY <1>1, <1>4, SparesTrans
<1>6. TasksOf(stop.q, "apply", {"pending"}) = {}
  BY <1>1, <1>4 DEF TasksOf, Spares, Unfinished
<1>7. t2 \in LinkTask /\ t2.type = "delete" /\ t2.name = row.prev /\ t2.status = "pending"
  BY <1>4, Bounds DEF TaskOf, LinkTask, TaskStatus, LinkTaskType
<1> HIDE DEF t2
<1>8. \/ \E k \in TasksOf(stop.q, "delete", {"pending"}) : del.q = [stop.q EXCEPT ![k] = t2] /\ del.id = k
      \/ /\ TasksOf(stop.q, "delete", {"pending"}) = {}
         /\ \/ del.q = Append(stop.q, t2) /\ del.id = Len(stop.q) + 1
            \/ del.q = stop.q /\ del.id \in TasksOf(stop.q, "delete", {"running"})
  <2>1. \A st : Like(stop.q, t2, st) = TasksOf(stop.q, "delete", st)
    BY <1>7 DEF Like, TasksOf, MwActions
  <2>2. \/ \E k \in Like(stop.q, t2, {"pending"}) : del.q = [stop.q EXCEPT ![k] = t2] /\ del.id = k
        \/ /\ Like(stop.q, t2, {"pending"}) = {}
           /\ \/ del.q = Append(stop.q, t2) /\ del.id = Len(stop.q) + 1
              \/ del.q = stop.q /\ del.id \in Like(stop.q, t2, {"running"})
    BY <1>4, EnqueueRewrites
  <2> QED BY <2>1, <2>2
<1> HIDE DEF del
<1> DEFINE Done(r) ==
             /\ r \in Seq(LinkTask)
             /\ TasksOf(r, "apply", {"pending"}) = {}
             /\ \A k \in TasksOf(r, "apply", {"running"}) : k \in DOMAIN stop.q /\ r[k] = stop.q[k]
             /\ \A k \in TasksOf(stop.q, "delete", {"running"}) : k \in DOMAIN r /\ r[k] = stop.q[k]
             /\ \/ \E k \in TasksOf(r, "delete", {"pending"}) : r[k].name = row.prev
                \/ /\ TasksOf(stop.q, "delete", {"pending"}) = {}
                   /\ TasksOf(stop.q, "delete", {"running"}) # {}
<1>9. Done(del.q) /\ del.id \in Nat
  <2>1. ASSUME NEW j \in TasksOf(stop.q, "delete", {"pending"}), del.q = [stop.q EXCEPT ![j] = t2], del.id = j
        PROVE  Done(del.q) /\ del.id \in Nat
    <3>1. j \in DOMAIN stop.q /\ stop.q[j].type = "delete" /\ stop.q[j].status = "pending" /\ j \in Nat
      BY <1>4, <2>1 DEF TasksOf
    <3>2. /\ del.q \in Seq(LinkTask) /\ DOMAIN del.q = DOMAIN stop.q
          /\ del.q[j] = t2 /\ \A k \in DOMAIN stop.q : k # j => del.q[k] = stop.q[k]
      BY <1>4, <1>7, <2>1, <3>1
    <3> QED BY <1>6, <1>7, <2>1, <3>1, <3>2 DEF TasksOf
  <2>2. ASSUME TasksOf(stop.q, "delete", {"pending"}) = {}, del.q = Append(stop.q, t2),
               del.id = Len(stop.q) + 1
        PROVE  Done(del.q) /\ del.id \in Nat
    <3>1. /\ del.q \in Seq(LinkTask) /\ DOMAIN stop.q \subseteq DOMAIN del.q
          /\ Len(stop.q) + 1 \in DOMAIN del.q /\ del.q[Len(stop.q) + 1] = t2
          /\ \A k \in DOMAIN stop.q : del.q[k] = stop.q[k]
          /\ \A k \in DOMAIN del.q : k \in DOMAIN stop.q \/ k = Len(stop.q) + 1
      BY <1>4, <1>7, <2>2, Appended
    <3>2. del.id \in Nat
      BY <1>4, <2>2
    <3> QED BY <1>6, <1>7, <3>1, <3>2 DEF TasksOf
  <2>3. ASSUME TasksOf(stop.q, "delete", {"pending"}) = {}, del.q = stop.q,
               del.id \in TasksOf(stop.q, "delete", {"running"})
        PROVE  Done(del.q) /\ del.id \in Nat
    <3>1. del.id \in Nat
      BY <1>4, <2>3 DEF TasksOf
    <3> QED BY <1>4, <1>6, <2>3, <3>1 DEF TasksOf
  <2> QED BY <1>8, <2>1, <2>2, <2>3
<1>10. t3 \in LinkTask /\ t3.type = "apply" /\ t3.name = row.name /\ t3.prev = row.prev /\ t3.status = "pending"
  BY <1>9, Bounds DEF TaskOf, LinkTask, TaskStatus, LinkTaskType
<1> HIDE DEF t3
<1>11. e.q = Append(del.q, t3)
  <2>1. Like(del.q, t3, {"pending"}) = {}
    BY <1>9, <1>10 DEF Like, TasksOf
  <2>2. \/ \E k \in Like(del.q, t3, {"pending"}) : e.q = [del.q EXCEPT ![k] = t3] /\ e.id = k
        \/ /\ Like(del.q, t3, {"pending"}) = {}
           /\ \/ e.q = Append(del.q, t3) /\ e.id = Len(del.q) + 1
              \/ ~ TRUE /\ e.q = del.q /\ e.id \in Like(del.q, t3, {"running"})
    BY <1>9, EnqueueRewrites
  <2> QED BY <2>1, <2>2
<1> HIDE DEF e
<1>12. /\ e.q \in Seq(LinkTask) /\ DOMAIN del.q \subseteq DOMAIN e.q
       /\ Len(del.q) + 1 \in DOMAIN e.q /\ e.q[Len(del.q) + 1] = t3
       /\ \A k \in DOMAIN del.q : e.q[k] = del.q[k]
       /\ \A k \in DOMAIN e.q : k \in DOMAIN del.q \/ k = Len(del.q) + 1
  BY <1>9, <1>10, <1>11, Appended
<1>13. ASSUME NEW k \in TasksOf(e.q, "apply", {"pending"}) PROVE e.q[k].name = row.name /\ e.q[k].prev = row.prev
  BY <1>9, <1>10, <1>12 DEF TasksOf
<1>14. ASSUME NEW k \in TasksOf(e.q, "apply", {"running"}) PROVE k \in DOMAIN q /\ e.q[k] = q[k]
  <2>1. k \in TasksOf(del.q, "apply", {"running"}) /\ e.q[k] = del.q[k]
    BY <1>10, <1>12 DEF TasksOf
  <2>2. k \in DOMAIN stop.q /\ del.q[k] = stop.q[k]
    BY <1>9, <2>1
  <2> QED BY <1>5, <2>1, <2>2 DEF Spares, TasksOf, Unfinished
<1>15. ASSUME NEW k \in TasksOf(q, "delete", {"running"}) PROVE k \in DOMAIN e.q /\ e.q[k] = q[k]
  <2>1. k \in TasksOf(stop.q, "delete", {"running"}) /\ stop.q[k] = q[k]
    BY <1>5 DEF Spares, TasksOf, Unfinished
  <2> QED BY <1>9, <1>12, <2>1
<1>16. \/ \E k \in TasksOf(e.q, "delete", {"pending"}) : e.q[k].name = row.prev
       \/ TasksOf(q, "delete", {"pending"}) = {} /\ TasksOf(q, "delete", {"running"}) # {}
  <2>1. ASSUME NEW k \in TasksOf(del.q, "delete", {"pending"}), del.q[k].name = row.prev
        PROVE  k \in TasksOf(e.q, "delete", {"pending"}) /\ e.q[k].name = row.prev
    BY <1>12, <2>1 DEF TasksOf
  <2>2. /\ TasksOf(q, "delete", {"pending"}) \subseteq TasksOf(stop.q, "delete", {"pending"})
        /\ TasksOf(stop.q, "delete", {"running"}) \subseteq TasksOf(q, "delete", {"running"})
    BY <1>5 DEF Spares, TasksOf, Unfinished
  <2> QED BY <1>9, <2>1, <2>2
<1> QED BY <1>0, <1>12, <1>13, <1>14, <1>15, <1>16


\* update_managed_link on one side.
LEMMA UpdateNames ==
  ASSUME NEW row \in SideRow, NEW name \in IfName, name \in {row.name, row.name + 1},
         NEW q \in Seq(LinkTask), NEW config \in Ver, NEW b, Named(row.name, row.prev, q)
  PROVE  LET new == RecordRename(row, name)
             r   == EnqueueApply(q, new, config).q IN
         /\ new.name = name /\ Named(name, new.prev, r)
         /\ (name # row.name => TasksOf(q, "apply", {"running"}) = {}) /\ Kept(row.name, row.prev, q, b)
              => Kept(name, new.prev, r, b)
         /\ name <= 2 /\ Cleaned(row.name, q, b) => Cleaned(name, r, b)
<1> DEFINE new == RecordRename(row, name)
           r   == EnqueueApply(q, new, config).q
           held(n, p) == IF p = 0 THEN n ELSE p
<1>1. row.name \in IfName /\ row.prev \in 0..MaxName /\ row.prev < row.name /\ row.name \in Nat
      /\ name \in Nat /\ row.name >= 1 /\ MaxName \in Nat
  BY Bounds DEF SideRow, Named, IfName
<1>2. /\ new.name = name /\ new.prev \in 0..MaxName /\ new.prev < name
      /\ name = row.name => new.prev = row.prev
      /\ name # row.name => new.prev # 0 /\ (row.prev = 0 => new.prev = row.name) /\ (row.prev # 0 => new.prev = row.prev)
  <2>1. CASE name = row.name
    <3>1. new = [row EXCEPT !.name = name, !.prev = row.prev]
      BY <2>1 DEF RecordRename
    <3> QED BY <1>1, <2>1, <3>1 DEF SideRow
  <2>2. CASE name # row.name /\ row.prev = 0
    <3>0. row.prev # name
      BY <1>1, <2>2
    <3>1. new = [row EXCEPT !.name = name, !.prev = row.name]
      BY <2>2, <3>0 DEF RecordRename
    <3>2. new.name = name /\ new.prev = row.name
      BY <3>1 DEF SideRow
    <3>3. name = row.name + 1
      BY <2>2
    <3> QED BY <1>1, <2>2, <3>2, <3>3 DEF IfName
  <2>3. CASE name # row.name /\ row.prev # 0
    <3>1. name = row.name + 1
      BY <2>3
    <3>2. row.prev # name
      BY <1>1, <3>1
    <3>3. new = [row EXCEPT !.name = name, !.prev = row.prev]
      BY <2>3, <3>2 DEF RecordRename
    <3>4. new.name = name /\ new.prev = row.prev
      BY <3>3 DEF SideRow
    <3> QED BY <1>1, <2>3, <3>1, <3>4
  <2> QED BY <2>1, <2>2, <2>3
<1> HIDE DEF new, r
<1>3. held(name, new.prev) = held(row.name, row.prev)
  BY <1>2
<1> HIDE DEF held
<1>4. ASSUME new.prev = 0
      PROVE  /\ name = row.name /\ row.prev = 0
             /\ r \in Seq(LinkTask)
             /\ \A k \in DOMAIN r : \/ k \in DOMAIN q /\ r[k] = q[k]
                                    \/ r[k].type = "apply" /\ r[k].name = name /\ r[k].status = "pending"
             /\ \A k \in DOMAIN q : q[k].type = "delete" => k \in DOMAIN r /\ r[k] = q[k]
  BY <1>2, <1>4, ApplyEnqueued DEF r
<1>5. ASSUME new.prev # 0
      PROVE  /\ r \in Seq(LinkTask)
             /\ \A k \in TasksOf(r, "apply", {"pending"}) : r[k].name = name /\ r[k].prev = new.prev
             /\ \A k \in TasksOf(r, "apply", {"running"}) : k \in DOMAIN q /\ r[k] = q[k]
             /\ \A k \in TasksOf(q, "delete", {"running"}) : k \in DOMAIN r /\ r[k] = q[k]
             /\ \/ \E k \in TasksOf(r, "delete", {"pending"}) : r[k].name = new.prev
                \/ TasksOf(q, "delete", {"pending"}) = {} /\ TasksOf(q, "delete", {"running"}) # {}
  <2>1. new.prev \in IfName /\ new.prev # new.name
    BY <1>1, <1>2, <1>5 DEF IfName
  <2> QED BY <1>2, <2>1, CleanUpEnqueued DEF r
<1>6. Named(name, new.prev, r)
  <2>1. CASE new.prev = 0
    <3>1. \A k \in TasksOf(r, "apply", {"pending"}) : r[k].name = name
      BY <1>4, <2>1 DEF TasksOf, Named
    <3> QED BY <1>2, <3>1 DEF Named
  <2>2. CASE new.prev # 0
    BY <1>2, <1>5, <2>2 DEF Named
  <2> QED BY <2>1, <2>2
\* An apply that is unfinished now.
<1>7. ASSUME NEW k \in TasksOf(r, "apply", Unfinished)
      PROVE  \/ k \in TasksOf(q, "apply", {"running"}) /\ r[k] = q[k]
             \/ r[k].name = name /\ (new.prev = 0 \/ r[k].prev = new.prev)
  <2>0. k \in DOMAIN r /\ r[k].type = "apply" /\ r[k].status \in {"pending", "running"}
    BY DEF TasksOf, Unfinished
  <2>1. CASE new.prev = 0
    <3>1. CASE r[k].status = "pending"
      BY <1>6, <2>0, <2>1, <3>1 DEF TasksOf, Named
    <3>2. CASE r[k].status = "running"
      BY <1>4, <2>0, <2>1, <3>2 DEF TasksOf
    <3> QED BY <2>0, <3>1, <3>2
  <2>2. CASE new.prev # 0
    <3>1. CASE r[k].status = "pending"
      BY <1>5, <2>0, <2>2, <3>1 DEF TasksOf
    <3>2. CASE r[k].status = "running"
      BY <1>5, <2>0, <2>2, <3>2 DEF TasksOf
    <3> QED BY <2>0, <3>1, <3>2
  <2> QED BY <2>1, <2>2
<1>8. TasksOf(q, "apply", {"running"}) \subseteq TasksOf(q, "apply", Unfinished)
  BY DEF TasksOf, Unfinished
<1>9. ASSUME name # row.name => TasksOf(q, "apply", {"running"}) = {}, Kept(row.name, row.prev, q, b)
      PROVE  Kept(name, new.prev, r, b)
  <2>1. ASSUME NEW k \in TasksOf(r, "apply", Unfinished)
        PROVE  r[k].name = name /\ (new.prev = 0 \/ r[k].prev = new.prev)
    <3>1. CASE k \in TasksOf(q, "apply", {"running"}) /\ r[k] = q[k]
      <4>1. name = row.name /\ new.prev = row.prev
        BY <1>2, <1>9, <3>1
      <4> QED BY <1>8, <1>9, <3>1, <4>1 DEF Kept
    <3> QED BY <1>7, <3>1
  <2>2. ASSUME NEW n \in IfName, n # held(name, new.prev) PROVE b.file[n] = 0 /\ b.up[n] = 0
    BY <1>3, <1>9, <2>2 DEF Kept, held
  <2> QED BY <2>1, <2>2 DEF Kept, held
<1>10. ASSUME name <= 2, Cleaned(row.name, q, b)
       PROVE  Cleaned(name, r, b)
  <2>1. ASSUME NEW n \in IfName, n > name PROVE b.file[n] = 0 /\ b.up[n] = 0
    <3>1. n > row.name
      BY <1>1, <2>1, Bounds
    <3> QED BY <1>10, <3>1 DEF Cleaned
  <2>2. ASSUME NEW k \in TasksOf(r, "apply", Unfinished) PROVE r[k].name <= name
    <3>1. CASE k \in TasksOf(q, "apply", {"running"}) /\ r[k] = q[k]
      <4>1. q[k].name <= row.name /\ q[k] \in LinkTask
        BY <1>8, <1>10, <3>1 DEF Cleaned, TasksOf
      <4>2. q[k].name \in Nat
        BY <4>1, Bounds DEF LinkTask
      <4> QED BY <1>1, <3>1, <4>1, <4>2
    <3>2. CASE r[k].name = name
      BY <1>1, <3>2
    <3> QED BY <1>7, <3>1, <3>2
  <2>3. ASSUME name = 1 PROVE TasksOf(r, "delete", Unfinished) = {}
    <3>1. row.name = 1 /\ new.prev = 0
      BY <1>1, <1>2, <2>3
    <3>2. TasksOf(q, "delete", Unfinished) = {}
      BY <1>10, <3>1 DEF Cleaned
    <3> QED BY <1>4, <3>1, <3>2 DEF TasksOf
  <2>4. ASSUME name = 2, ~ \E k \in TasksOf(r, "delete", {"pending"}) : r[k].name = 1
        PROVE  /\ \A k \in TasksOf(r, "apply", Unfinished) : r[k].name # 1
               /\ \/ \E k \in TasksOf(r, "delete", {"running"}) : r[k].name = 1
                  \/ b.file[1] = 0 /\ b.up[1] = 0
    <3>1. new.prev = 0 \/ new.prev = 1
      BY <1>1, <1>2, <2>4
    <3>2. CASE new.prev = 1
      <4>1. TasksOf(q, "delete", {"pending"}) = {} /\ TasksOf(q, "delete", {"running"}) # {}
        BY <1>5, <2>4, <3>2
      <4>2. row.name # 1
        BY <1>10, <4>1 DEF Cleaned, TasksOf, Unfinished
      <4>3. row.name = 2
        BY <1>1, <2>4, <4>2
      <4>4. /\ \A k \in TasksOf(q, "apply", Unfinished) : q[k].name # 1
            /\ \/ \E k \in TasksOf(q, "delete", {"running"}) : q[k].name = 1
               \/ b.file[1] = 0 /\ b.up[1] = 0
        BY <1>10, <4>1, <4>3 DEF Cleaned
      <4>5. ASSUME NEW k \in TasksOf(r, "apply", Unfinished) PROVE r[k].name # 1
        BY <1>7, <1>8, <2>4, <4>4
      <4>6. ASSUME NEW k \in TasksOf(q, "delete", {"running"}), q[k].name = 1
            PROVE  k \in TasksOf(r, "delete", {"running"}) /\ r[k].name = 1
        BY <1>5, <3>2, <4>6 DEF TasksOf
      <4> QED BY <4>4, <4>5, <4>6
    <3>3. CASE new.prev = 0
      <4>1. row.name = 2
        BY <1>4, <2>4, <3>3
      <4>2. ~ \E k \in TasksOf(q, "delete", {"pending"}) : q[k].name = 1
        BY <1>4, <2>4, <3>3 DEF TasksOf
      <4>3. /\ \A k \in TasksOf(q, "apply", Unfinished) : q[k].name # 1
            /\ \/ \E k \in TasksOf(q, "delete", {"running"}) : q[k].name = 1
               \/ b.file[1] = 0 /\ b.up[1] = 0
        BY <1>10, <4>1, <4>2 DEF Cleaned
      <4>4. ASSUME NEW k \in TasksOf(r, "apply", Unfinished) PROVE r[k].name # 1
        BY <1>7, <1>8, <2>4, <4>3
      <4>5. ASSUME NEW k \in TasksOf(q, "delete", {"running"}), q[k].name = 1
            PROVE  k \in TasksOf(r, "delete", {"running"}) /\ r[k].name = 1
        BY <1>4, <3>3, <4>5 DEF TasksOf
      <4> QED BY <4>3, <4>4, <4>5
    <3> QED BY <3>1, <3>2, <3>3
  <2> QED BY <2>1, <2>2, <2>3, <2>4 DEF Cleaned
<1> QED BY <1>2, <1>6, <1>9, <1>10 DEF new, r


\* Middleware tasks queue no apply and no delete of an interface.
LEMMA MwTaskSpares ==
  ASSUME NEW q \in Seq(LinkTask), NEW action \in MwActions, NEW name \in IfName, NEW mw \in MwOf,
         NEW dep \in Nat, NEW e, Enqueued(q, MwTask(action, name, mw, dep), e)
  PROVE  Spares(q, e.q) /\ e.q \in Seq(LinkTask) /\ e.id \in Nat
<1> DEFINE t == MwTask(action, name, mw, dep)
<1>1. t \in LinkTask /\ t.type \notin {"apply", "delete"}
  BY Bounds DEF MwTask, TaskOf, LinkTask, TaskStatus, LinkTaskType, MwActions
<1> HIDE DEF t
<1> QED BY <1>1, EnqueuedSpares DEF t

LEMMA EnqueueMwSpares ==
  ASSUME NEW q \in Seq(LinkTask), NEW name \in IfName, NEW mw \in MwOf
  PROVE  /\ Spares(q, EnqueueMw(q, name, mw)) /\ EnqueueMw(q, name, mw) \in Seq(LinkTask)
         /\ Spares(q, EnqueueMwCleanup(q, name, mw)) /\ EnqueueMwCleanup(q, name, mw) \in Seq(LinkTask)
<1>0. {"install", "mw_apply", "mw_stop", "mw_delete"} \subseteq MwActions /\ Spares(q, q) /\ 0 \in Nat
  BY DEF MwActions, Spares
<1>1. Spares(q, EnqueueMw(q, name, mw)) /\ EnqueueMw(q, name, mw) \in Seq(LinkTask)
  <2> DEFINE i == Enqueue(q, MwTask("install", name, mw, 0), FALSE, FALSE)
             a == Enqueue(i.q, MwTask("mw_apply", name, mw, 0), TRUE, TRUE)
             m == Enqueue(q, MwTask("mw_apply", name, mw, 0), FALSE, FALSE)
  <2>1. Enqueued(q, MwTask("install", name, mw, 0), i) /\ Enqueued(q, MwTask("mw_apply", name, mw, 0), m)
    BY EnqueueEnds
  <2> HIDE DEF i, m
  <2>2. Spares(q, i.q) /\ i.q \in Seq(LinkTask) /\ Spares(q, m.q) /\ m.q \in Seq(LinkTask)
    BY <1>0, <2>1, MwTaskSpares
  <2>3. Enqueued(i.q, MwTask("mw_apply", name, mw, 0), a)
    BY <2>2, EnqueueEnds
  <2> HIDE DEF a
  <2>4. Spares(i.q, a.q) /\ a.q \in Seq(LinkTask)
    BY <1>0, <2>2, <2>3, MwTaskSpares
  <2>5. Spares(q, a.q)
    BY <2>2, <2>4, SparesTrans
  <2>6. mw.plugin \in {"none", "udp2raw", "mimic"}
    BY LinkAssumption DEF MwOf
  <2> QED BY <1>0, <2>2, <2>4, <2>5, <2>6 DEF EnqueueMw, i, a, m
<1>2. Spares(q, EnqueueMwCleanup(q, name, mw)) /\ EnqueueMwCleanup(q, name, mw) \in Seq(LinkTask)
  <2> DEFINE stop == Enqueue(q, MwTask("mw_stop", name, mw, 0), TRUE, FALSE)
             del  == Enqueue(stop.q, MwTask("mw_delete", name, mw, stop.id), TRUE, FALSE)
  <2>0. EnqueueMwCleanup(q, name, mw) = IF mw = NoMw THEN q ELSE del.q
    BY DEF EnqueueMwCleanup
  <2>1. Enqueued(q, MwTask("mw_stop", name, mw, 0), stop)
    BY EnqueueEnds
  <2> HIDE DEF stop
  <2>2. Spares(q, stop.q) /\ stop.q \in Seq(LinkTask) /\ stop.id \in Nat
    BY <1>0, <2>1, MwTaskSpares
  <2>3. Enqueued(stop.q, MwTask("mw_delete", name, mw, stop.id), del)
    BY <2>2, EnqueueEnds
  <2> HIDE DEF del
  <2>4. Spares(stop.q, del.q) /\ del.q \in Seq(LinkTask)
    BY <1>0, <2>2, <2>3, MwTaskSpares
  <2>5. Spares(q, del.q)
    BY <2>2, <2>4, SparesTrans
  <2> QED BY <1>0, <2>0, <2>4, <2>5
<1> QED BY <1>1, <1>2

\* What a request that spares a side leaves of it.
LEMMA SparedSide ==
  ASSUME NEW row, NEW q, NEW b, NEW h, SideNamed(row, q, b, h), NEW r, Spares(q, r),
         NEW new, new.name = row.name, new.prev = row.prev,
         NEW g, h.overtook => g.overtook, h.failed => g.failed
  PROVE  SideNamed(new, r, b, g)
<1>1. Named(new.name, new.prev, r)
  BY SparedStaysNamed DEF SideNamed
<1>2. ~ g.overtook => Kept(new.name, new.prev, r, b)
  BY SparedStaysNamed DEF SideNamed
<1>3. ~ g.failed /\ new.name <= 2 => Cleaned(new.name, r, b)
  BY SparedStaysNamed DEF SideNamed
<1> QED BY <1>1, <1>2, <1>3 DEF SideNamed

\* What a request does to the history.
LEMMA AsksMarks ==
  ASSUME LinkInv, NEW request, Asks(request)
  PROVE  /\ linkHist'.failed = linkHist.failed /\ (linkHist.overtook => linkHist'.overtook)
         /\ request = "rename" /\ ~ linkHist'.overtook => \A s \in Side : RunningDeployment(queue[s]) = 0
         /\ link.exists
<1> DEFINE b == linkHist.overtook \/ (request = "rename" /\ \E s \in Side : RunningDeployment(queue[s]) # 0)
<1>1. linkHist' = [linkHist EXCEPT !.requests = @ + 1, !.overtook = b]
  BY DEF Asks
<1>2. b \in BOOLEAN
  OBVIOUS
<1> HIDE DEF b
<1>3. linkHist'.failed = linkHist.failed /\ linkHist'.overtook = b
  BY <1>1, InvParts DEF History
<1> QED BY <1>3 DEF b, Asks

LEMMA UpdateNamed ==
  ASSUME LinkInv, OldNames, NEW request, Asks(request), NEW mw \in MwOf, NEW name \in [Side -> IfName],
         \A s \in Side : name[s] \in {side[s].name, side[s].name + 1},
         request # "rename" => \A s \in Side : name[s] = side[s].name,
         UpdateLink(mw, name)
  PROVE  OldNames'
<1> DEFINE rows == [s \in Side |-> RecordRename(side[s], name[s])]
           q(s) == EnqueueMw(IF mw # link.mw THEN EnqueueMwCleanup(queue[s], name[s], link.mw)
                             ELSE queue[s], name[s], mw)
           queued(s) == EnqueueApply(q(s), rows[s], link.config + 1)
<1> SUFFICES ASSUME NEW s \in Side PROVE SideNamed(side'[s], queue'[s], box'[s], linkHist')
  BY DEF OldNames
<1>1. box' = box
  BY DEF Asks
<1>2. /\ linkHist'.failed = linkHist.failed /\ (linkHist.overtook => linkHist'.overtook)
      /\ request = "rename" /\ ~ linkHist'.overtook => RunningDeployment(queue[s]) = 0
      /\ SideNamed(side[s], queue[s], box[s], linkHist)
  BY AsksMarks DEF OldNames
<1>3. side[s] \in SideRow /\ name[s] \in IfName /\ link.config + 1 \in Ver /\ queue[s] \in Seq(LinkTask)
      /\ Chained(queue[s]) /\ link.mw \in MwOf
  BY InvParts, Bounds DEF UpdateLink, LinkRow, Ver, LinkInv
<1>4. q(s) \in Seq(LinkTask) /\ Spares(queue[s], q(s))
  <2> DEFINE c == IF mw # link.mw THEN EnqueueMwCleanup(queue[s], name[s], link.mw) ELSE queue[s]
  <2>1. c \in Seq(LinkTask) /\ Spares(queue[s], c)
    <3>1. Spares(queue[s], queue[s])
      BY DEF Spares
    <3> QED BY <1>3, <3>1, EnqueueMwSpares
  <2> HIDE DEF c
  <2>2. EnqueueMw(c, name[s], mw) \in Seq(LinkTask) /\ Spares(c, EnqueueMw(c, name[s], mw))
    BY <1>3, <2>1, EnqueueMwSpares
  <2>3. Spares(queue[s], EnqueueMw(c, name[s], mw))
    BY <2>1, <2>2, SparesTrans
  <2> QED BY <2>2, <2>3 DEF c
<1>5. queue'[s] = queued(s).q /\ side'[s].name = rows[s].name /\ side'[s].prev = rows[s].prev
  <2>1. /\ queue' = [u \in Side |-> queued(u).q]
        /\ side' = [u \in Side |-> IF queued(u).changed THEN [rows[u] EXCEPT !.runtime = "starting"] ELSE rows[u]]
    BY DEF UpdateLink
  <2>2. [rows[s] EXCEPT !.runtime = "starting"].name = rows[s].name
        /\ [rows[s] EXCEPT !.runtime = "starting"].prev = rows[s].prev
    BY <1>3 DEF RecordRename, SideRow
  <2> HIDE DEF queued, rows
  <2> QED BY <2>1, <2>2
<1>6. rows[s] = RecordRename(side[s], name[s])
  OBVIOUS
<1> DEFINE new == RecordRename(side[s], name[s])
           r   == EnqueueApply(q(s), new, link.config + 1).q
<1>7. queue'[s] = r /\ side'[s].name = new.name /\ side'[s].prev = new.prev
  BY <1>5, <1>6
<1> HIDE DEF q
<1>8. /\ Named(side[s].name, side[s].prev, q(s))
      /\ ~ linkHist'.overtook => Kept(side[s].name, side[s].prev, q(s), box[s])
      /\ ~ linkHist'.failed /\ side[s].name <= 2 => Cleaned(side[s].name, q(s), box[s])
  BY <1>2, <1>4, SparedStaysNamed DEF SideNamed
<1>9. /\ new.name = name[s] /\ Named(name[s], new.prev, r)
      /\ (name[s] # side[s].name => TasksOf(q(s), "apply", {"running"}) = {})
           /\ Kept(side[s].name, side[s].prev, q(s), box[s]) => Kept(name[s], new.prev, r, box[s])
      /\ name[s] <= 2 /\ Cleaned(side[s].name, q(s), box[s]) => Cleaned(name[s], r, box[s])
  BY <1>3, <1>4, <1>8, UpdateNames
<1>10. ~ linkHist'.overtook /\ name[s] # side[s].name => TasksOf(q(s), "apply", {"running"}) = {}
  <2> SUFFICES ASSUME ~ linkHist'.overtook, name[s] # side[s].name, NEW k \in TasksOf(q(s), "apply", {"running"})
               PROVE  FALSE
    OBVIOUS
  <2>1. RunningDeployment(queue[s]) = 0
    BY <1>2
  <2>2. k \in DOMAIN queue[s] /\ queue[s][k].type = "apply" /\ queue[s][k].status = "running"
    BY <1>4 DEF TasksOf, Spares, Unfinished
  <2>3. RunningDeployment(queue[s]) \in DOMAIN queue[s]
    BY <1>3, <2>2, NewestDeployment
  <2> QED BY <1>3, <2>1, <2>3
<1>11. name[s] <= 2 => side[s].name <= 2
  BY <1>3, Bounds DEF SideRow, IfName
<1> HIDE DEF new, r
<1> QED BY <1>1, <1>7, <1>8, <1>9, <1>10, <1>11 DEF SideNamed

LEMMA StartNamed ==
  ASSUME LinkInv, OldNames, Start
  PROVE  OldNames'
<1> DEFINE mq(s) == IF link.mw = NoMw THEN queue[s]
                    ELSE Enqueue(queue[s], MwTask("mw_start", IfNames[s], link.mw, 0), FALSE, FALSE).q
           t(s) == TaskOf("start", IfNames[s], 0, 0, NoMw, 0, FALSE)
           e(s) == Enqueue(mq(s), t(s), FALSE, FALSE)
           idle(s) == side[s].runtime \notin {"running", "starting"}
<1> SUFFICES ASSUME NEW s \in Side PROVE SideNamed(side'[s], queue'[s], box'[s], linkHist')
  BY DEF OldNames
<1>1. /\ box' = box /\ linkHist'.failed = linkHist.failed /\ (linkHist.overtook => linkHist'.overtook)
      /\ SideNamed(side[s], queue[s], box[s], linkHist)
  BY AsksMarks DEF OldNames, Start, Asks
<1>2. side[s] \in SideRow /\ IfNames[s] \in IfName /\ queue[s] \in Seq(LinkTask) /\ link.mw \in MwOf
      /\ "mw_start" \in MwActions /\ 0 \in Nat
  BY InvParts DEF LinkRow, LinkInv, MwActions
<1>3. mq(s) \in Seq(LinkTask) /\ Spares(queue[s], mq(s))
  <2> DEFINE m == Enqueue(queue[s], MwTask("mw_start", IfNames[s], link.mw, 0), FALSE, FALSE)
  <2>1. Enqueued(queue[s], MwTask("mw_start", IfNames[s], link.mw, 0), m)
    BY <1>2, EnqueueEnds
  <2> HIDE DEF m
  <2>2. m.q \in Seq(LinkTask) /\ Spares(queue[s], m.q)
    BY <1>2, <2>1, MwTaskSpares
  <2>3. Spares(queue[s], queue[s])
    BY DEF Spares
  <2> QED BY <1>2, <2>2, <2>3 DEF m
<1> HIDE DEF mq
<1>4. t(s) \in LinkTask /\ t(s).type \notin {"apply", "delete"}
  BY <1>2, Bounds DEF TaskOf, LinkTask, TaskStatus, LinkTaskType
<1> HIDE DEF t
<1>5. Enqueued(mq(s), t(s), e(s))
  BY <1>3, EnqueueEnds
<1>6. /\ queue' = [u \in Side |-> IF idle(u) THEN e(u).q ELSE mq(u)]
      /\ side' = [u \in Side |-> IF idle(u) /\ e(u).changed THEN [side[u] EXCEPT !.runtime = "starting"]
                                 ELSE side[u]]
  BY DEF Start, mq, t
<1> HIDE DEF e, idle
<1>7. Spares(mq(s), e(s).q)
  BY <1>3, <1>4, <1>5, EnqueuedSpares
<1>8. Spares(queue[s], e(s).q)
  BY <1>3, <1>7, SparesTrans
<1>9. Spares(queue[s], queue'[s])
  BY <1>3, <1>6, <1>8
<1>10. side'[s].name = side[s].name /\ side'[s].prev = side[s].prev
  BY <1>2, <1>6 DEF SideRow
<1> QED BY <1>1, <1>9, <1>10, SparedSide

LEMMA StopNamed ==
  ASSUME LinkInv, OldNames, Stop
  PROVE  OldNames'
<1> DEFINE busy(s) == side[s].runtime \notin {"stopped", "stopping"}
           q(s) == IF busy(s) THEN StopSide(s).q ELSE queue[s]
           r(s) == IF link.mw = NoMw THEN q(s)
                   ELSE Enqueue(q(s), MwTask("mw_stop", IfNames[s], link.mw, 0), FALSE, FALSE).q
<1> SUFFICES ASSUME NEW s \in Side PROVE SideNamed(side'[s], queue'[s], box'[s], linkHist')
  BY DEF OldNames
<1>1. /\ box' = box /\ linkHist'.failed = linkHist.failed /\ (linkHist.overtook => linkHist'.overtook)
      /\ SideNamed(side[s], queue[s], box[s], linkHist)
  BY AsksMarks DEF OldNames, Stop, Asks
<1>2. side[s] \in SideRow /\ IfNames[s] \in IfName /\ Chained(queue[s]) /\ queue[s] \in Seq(LinkTask)
      /\ link.mw \in MwOf /\ "mw_stop" \in MwActions /\ 0 \in Nat
  BY InvParts DEF LinkRow, LinkInv, MwActions
<1>3. StopSide(s).q \in Seq(LinkTask) /\ Spares(queue[s], StopSide(s).q)
  <2> DEFINE c == CancelPending(queue[s], {"apply", "start"})
             d == RunningDeployment(c)
             t == TaskOf("stop", side[s].name, 0, 0, NoMw, d, TRUE)
             e == Enqueue(c, t, TRUE, FALSE)
  <2>1. Chained(c) /\ c \in Seq(LinkTask) /\ Spares(queue[s], c)
    BY <1>2, CancelExtends, CancelSpares DEF Extends, Chained
  <2> HIDE DEF c
  <2>2. d \in Nat
    <3>1. d # 0 => d \in DOMAIN c
      BY <2>1, RunningDeploymentIn
    <3> QED BY <2>1, <3>1
  <2> HIDE DEF d
  <2>3. t \in LinkTask /\ t.type \notin {"apply", "delete"}
    BY <1>2, <2>2, Bounds DEF TaskOf, LinkTask, TaskStatus, LinkTaskType, SideRow
  <2> HIDE DEF t
  <2>4. Enqueued(c, t, e)
    BY <2>1, EnqueueEnds
  <2> HIDE DEF e
  <2>5. Spares(c, e.q) /\ e.q \in Seq(LinkTask)
    BY <2>1, <2>3, <2>4, EnqueuedSpares
  <2>6. StopSide(s) = e
    BY DEF StopSide, c, d, t, e
  <2>7. Spares(queue[s], e.q)
    BY <2>1, <2>5, SparesTrans
  <2> QED BY <2>5, <2>6, <2>7
<1>4. q(s) \in Seq(LinkTask) /\ Spares(queue[s], q(s))
  <2>1. Spares(queue[s], queue[s])
    BY DEF Spares
  <2> QED BY <1>2, <1>3, <2>1
<1> HIDE DEF q
<1>5. Spares(queue[s], r(s))
  <2> DEFINE m == Enqueue(q(s), MwTask("mw_stop", IfNames[s], link.mw, 0), FALSE, FALSE)
  <2>1. Enqueued(q(s), MwTask("mw_stop", IfNames[s], link.mw, 0), m)
    BY <1>4, EnqueueEnds
  <2> HIDE DEF m
  <2>2. Spares(q(s), m.q)
    BY <1>2, <1>4, <2>1, MwTaskSpares
  <2>3. Spares(queue[s], m.q)
    BY <1>4, <2>2, SparesTrans
  <2> QED BY <1>4, <2>3 DEF m
<1>6. /\ queue' = [u \in Side |-> r(u)]
      /\ side' = [u \in Side |-> IF busy(u) /\ StopSide(u).changed
                                 THEN [side[u] EXCEPT !.runtime = "stopping"] ELSE side[u]]
  BY DEF Stop, q
<1> HIDE DEF r, busy
<1>7. side'[s].name = side[s].name /\ side'[s].prev = side[s].prev
  BY <1>2, <1>6 DEF SideRow
<1> QED BY <1>1, <1>5, <1>6, <1>7, SparedSide


\* agent_poll: what was pending may be delivered, or fail behind a failed task.
LEMMA PolledNames ==
  ASSUME NEW name, NEW prev, NEW q, NEW b, NEW r, DOMAIN r = DOMAIN q, Named(name, prev, q),
         \A k \in DOMAIN q : /\ r[k].type = q[k].type /\ r[k].name = q[k].name /\ r[k].prev = q[k].prev
                             /\ q[k].status # "running"
                             /\ \/ r[k].status = q[k].status
                                \/ q[k].status = "pending" /\ r[k].status \in {"running", "failed"}
  PROVE  /\ Named(name, prev, r)
         /\ Kept(name, prev, q, b) => Kept(name, prev, r, b)
         /\ (\A k \in DOMAIN q : q[k].status = "pending" => r[k].status # "failed") /\ Cleaned(name, q, b)
              => Cleaned(name, r, b)
<1>1. ASSUME NEW type, NEW k \in TasksOf(r, type, Unfinished)
      PROVE  k \in TasksOf(q, type, Unfinished) /\ k \in TasksOf(q, type, {"pending"})
             /\ r[k].name = q[k].name /\ r[k].prev = q[k].prev
  BY DEF TasksOf, Unfinished
<1>2. TasksOf(r, "apply", {"pending"}) \subseteq TasksOf(r, "apply", Unfinished)
  BY DEF TasksOf, Unfinished
<1>3. Named(name, prev, r)
  <2>1. ASSUME NEW k \in TasksOf(r, "apply", {"pending"}) PROVE r[k].name = name
    BY <1>1, <1>2 DEF Named
  <2> QED BY <2>1 DEF Named
<1>4. ASSUME Kept(name, prev, q, b) PROVE Kept(name, prev, r, b)
  <2>1. ASSUME NEW k \in TasksOf(r, "apply", Unfinished) PROVE r[k].name = name /\ (prev = 0 \/ r[k].prev = prev)
    BY <1>1, <1>4 DEF Kept
  <2> QED BY <1>4, <2>1 DEF Kept
<1>5. ASSUME \A k \in DOMAIN q : q[k].status = "pending" => r[k].status # "failed", Cleaned(name, q, b)
      PROVE  Cleaned(name, r, b)
  <2>1. ASSUME NEW k \in TasksOf(r, "apply", Unfinished) PROVE r[k].name <= name
    BY <1>1, <1>5 DEF Cleaned
  <2>2. ASSUME name = 1 PROVE TasksOf(r, "delete", Unfinished) = {}
    BY <1>1, <1>5, <2>2 DEF Cleaned
  <2>3. ASSUME name = 2, ~ \E k \in TasksOf(r, "delete", {"pending"}) : r[k].name = 1
        PROVE  /\ \A k \in TasksOf(r, "apply", Unfinished) : r[k].name # 1
               /\ \/ \E k \in TasksOf(r, "delete", {"running"}) : r[k].name = 1
                  \/ b.file[1] = 0 /\ b.up[1] = 0
    <3>1. ASSUME NEW k \in TasksOf(r, "apply", Unfinished) PROVE r[k].name # 1
      <4>1. k \in TasksOf(q, "apply", {"pending"}) /\ r[k].name = q[k].name
        BY <1>1
      <4>2. r[k].name = name
        BY <4>1 DEF Named
      <4> QED BY <2>3, <4>2
    <3>2. CASE \E k \in TasksOf(q, "delete", {"pending"}) : q[k].name = 1
      <4>1. PICK k \in TasksOf(q, "delete", {"pending"}) : q[k].name = 1
        BY <3>2
      <4>2. k \in DOMAIN q /\ q[k].type = "delete" /\ q[k].status = "pending"
        BY DEF TasksOf
      <4>3. r[k].type = "delete" /\ r[k].name = 1 /\ k \in DOMAIN r /\ r[k].status \in {"pending", "running"}
        BY <1>5, <4>1, <4>2
      <4>4. k \notin TasksOf(r, "delete", {"pending"})
        BY <2>3, <4>3
      <4>5. k \in TasksOf(r, "delete", {"running"}) /\ r[k].name = 1
        BY <4>3, <4>4 DEF TasksOf
      <4> QED BY <3>1, <4>5
    <3>3. CASE ~ \E k \in TasksOf(q, "delete", {"pending"}) : q[k].name = 1
      <4>1. TasksOf(q, "delete", {"running"}) = {}
        BY DEF TasksOf
      <4>2. b.file[1] = 0 /\ b.up[1] = 0
        BY <1>5, <2>3, <3>3, <4>1 DEF Cleaned
      <4> QED BY <3>1, <4>2
    <3> QED BY <3>2, <3>3
  <2> QED BY <1>5, <2>1, <2>2, <2>3 DEF Cleaned
<1> QED BY <1>3, <1>4, <1>5

LEMMA PollNamed ==
  ASSUME LinkInv, OldNames, NEW u \in Side, NodePolls(u)
  PROVE  OldNames'
<1> DEFINE q       == queue[u]
           pending == {k \in DOMAIN q : q[k].status = "pending"}
           doomed  == {k \in pending : LinkDoomed(q, k)}
           ready   == {k \in pending : LinkReady(q, k)}
           taken   == {k \in ready : Cardinality({j \in ready : j < k}) < LinkBatchSize}
           r       == [k \in DOMAIN q |-> CASE k \in doomed -> [q[k] EXCEPT !.status = "failed"]
                                           [] k \in taken -> [q[k] EXCEPT !.status = "running"]
                                           [] OTHER -> q[k]]
<1>1. /\ work[u] = {} /\ queue' = [queue EXCEPT ![u] = r]
      /\ linkHist' = [linkHist EXCEPT !.failed = @ \/ doomed # {}]
      /\ UNCHANGED <<scenario, link, side, box>>
  BY DEF NodePolls
<1>2. taken \subseteq pending /\ doomed \subseteq pending /\ taken \cap doomed = {} /\ pending \subseteq DOMAIN q
  BY DEF LinkDoomed
<1>3. linkHist'.overtook = linkHist.overtook /\ (linkHist'.failed <=> linkHist.failed \/ doomed # {})
  BY <1>1, InvParts DEF History
<1> HIDE DEF taken, doomed
<1>4. Chained(q) /\ \A k \in DOMAIN q : q[k] \in LinkTask
  BY InvParts DEF Chained
<1>5. ASSUME NEW k \in DOMAIN q
      PROVE  /\ r[k].type = q[k].type /\ r[k].name = q[k].name /\ r[k].prev = q[k].prev
             /\ q[k].status # "running"
             /\ \/ r[k].status = q[k].status
                \/ q[k].status = "pending" /\ r[k].status \in {"running", "failed"}
             /\ q[k].status = "pending" /\ r[k].status = "failed" => doomed # {}
  <2> DEFINE f == [q[k] EXCEPT !.status = "failed"]
             c == [q[k] EXCEPT !.status = "running"]
  <2>1. /\ f.type = q[k].type /\ f.name = q[k].name /\ f.prev = q[k].prev /\ f.status = "failed"
        /\ c.type = q[k].type /\ c.name = q[k].name /\ c.prev = q[k].prev /\ c.status = "running"
    BY <1>4 DEF LinkTask
  <2>2. r[k] = CASE k \in doomed -> f [] k \in taken -> c [] OTHER -> q[k]
    OBVIOUS
  <2>3. q[k].status # "running"
    BY <1>1 DEF LinkInv, Fetched, Delivered
  <2> HIDE DEF f, c, r, pending
  <2>4. \/ k \in doomed /\ r[k] = f
        \/ k \in taken /\ r[k] = c
        \/ r[k] = q[k]
    BY <2>2
  <2>5. k \in pending => q[k].status = "pending"
    BY DEF pending
  <2> QED BY <1>2, <2>1, <2>3, <2>4, <2>5
<1>6. DOMAIN r = DOMAIN q
  OBVIOUS
<1> HIDE DEF r
<1>7. queue'[u] = r /\ \A s \in Side : s # u => queue'[s] = queue[s]
  BY <1>1 DEF LinkInv
<1> SUFFICES ASSUME link.exists, NEW s \in Side PROVE SideNamed(side[s], queue'[s], box[s], linkHist')
  BY <1>1 DEF OldNames
<1>8. SideNamed(side[s], queue[s], box[s], linkHist)
  BY DEF OldNames
<1>9. CASE s # u
  <2>1. Spares(queue[s], queue'[s])
    BY <1>7, <1>9 DEF Spares
  <2> QED BY <1>3, <1>8, <2>1, SparedSide
<1>10. CASE s = u
  <2>1. Named(side[u].name, side[u].prev, q)
    BY <1>8, <1>10 DEF SideNamed
  <2>2. /\ Named(side[u].name, side[u].prev, r)
        /\ Kept(side[u].name, side[u].prev, q, box[u]) => Kept(side[u].name, side[u].prev, r, box[u])
        /\ doomed = {} /\ Cleaned(side[u].name, q, box[u]) => Cleaned(side[u].name, r, box[u])
    <3>1. \A k \in DOMAIN q : /\ r[k].type = q[k].type /\ r[k].name = q[k].name /\ r[k].prev = q[k].prev
                              /\ q[k].status # "running"
                              /\ \/ r[k].status = q[k].status
                                 \/ q[k].status = "pending" /\ r[k].status \in {"running", "failed"}
      BY <1>5
    <3>2. doomed = {} => \A k \in DOMAIN q : q[k].status = "pending" => r[k].status # "failed"
      BY <1>5
    <3> HIDE DEF q
    <3> QED BY <1>6, <2>1, <3>1, <3>2, PolledNames
  <2> QED BY <1>3, <1>7, <1>8, <1>10, <2>2 DEF SideNamed
<1> QED BY <1>9, <1>10

\* What the node does with a task, by name.
LEMMA NodeNames ==
  ASSUME NEW b \in Box, NEW t \in LinkTask, Feasible(b, t), NEW n \in IfName
  PROVE  LET c == NodeAfter(b, t) IN
         /\ b.file[n] = 0 /\ b.up[n] = 0 /\ ~ (t.type = "apply" /\ t.name = n) => c.file[n] = 0 /\ c.up[n] = 0
         /\ t.type = "apply" /\ t.prev = n => c.file[n] = 0 /\ c.up[n] = 0
         /\ t.type = "delete" /\ t.name = n => c.file[n] = 0 /\ c.up[n] = 0
<1> DEFINE c == NodeAfter(b, t)
           Goal == /\ b.file[n] = 0 /\ b.up[n] = 0 /\ ~ (t.type = "apply" /\ t.name = n) => c.file[n] = 0 /\ c.up[n] = 0
                   /\ t.type = "apply" /\ t.prev = n => c.file[n] = 0 /\ c.up[n] = 0
                   /\ t.type = "delete" /\ t.name = n => c.file[n] = 0 /\ c.up[n] = 0
<1> SUFFICES Goal
  OBVIOUS
<1> HIDE DEF c
<1>0. /\ b.file \in [IfName -> Ver] /\ b.up \in [IfName -> Ver] /\ DOMAIN b = {"file", "up", "mwFile", "mwUp"}
      /\ t.name \in IfName /\ n # 0 /\ t.type \in LinkTaskType
  BY DEF Box, LinkTask, IfName
<1>1. CASE t.type = "apply"
  <2> DEFINE a == [b EXCEPT !.file[t.name] = t.v, !.up[t.name] = t.v]
             z == [a EXCEPT !.file[t.prev] = 0, !.up[t.prev] = 0]
  <2>1. a = [b EXCEPT !.file = [b.file EXCEPT ![t.name] = t.v], !.up = [b.up EXCEPT ![t.name] = t.v]]
    BY DEF Box
  <2>2. a.file = [b.file EXCEPT ![t.name] = t.v] /\ a.up = [b.up EXCEPT ![t.name] = t.v]
        /\ DOMAIN a = {"file", "up", "mwFile", "mwUp"}
    BY <1>0, <2>1
  <2> HIDE DEF a
  <2>3. z.file = [a.file EXCEPT ![t.prev] = 0] /\ z.up = [a.up EXCEPT ![t.prev] = 0]
    BY <2>2
  <2> HIDE DEF z
  <2>4. c = IF t.prev = 0 THEN a ELSE z
    BY <1>1 DEF NodeAfter, a, z, c
  <2>5. t.name # n => a.file[n] = b.file[n] /\ a.up[n] = b.up[n]
    BY <1>0, <2>2
  <2>6. z.file[n] = (IF n = t.prev THEN 0 ELSE a.file[n]) /\ z.up[n] = (IF n = t.prev THEN 0 ELSE a.up[n])
    BY <1>0, <2>2, <2>3
  <2> QED BY <1>0, <1>1, <2>4, <2>5, <2>6
<1>2. CASE t.type = "start"
  <2>1. b.up[t.name] # 0 \/ b.file[t.name] # 0
    BY <1>2 DEF Feasible
  <2> DEFINE d == [b EXCEPT !.up[t.name] = b.file[t.name]]
  <2>2. d.file = b.file /\ d.up = [b.up EXCEPT ![t.name] = b.file[t.name]]
    BY <1>0
  <2> HIDE DEF d
  <2>3. c = IF b.up[t.name] # 0 THEN b ELSE d
    BY <1>2 DEF NodeAfter, d, c
  <2>4. d.up[n] = IF n = t.name THEN b.file[n] ELSE b.up[n]
    BY <1>0, <2>2
  <2> QED BY <1>2, <2>1, <2>2, <2>3, <2>4
<1>3. CASE t.type = "stop"
  <2>1. c = [b EXCEPT !.up[t.name] = 0]
    BY <1>3 DEF NodeAfter, c
  <2>2. c.file = b.file /\ c.up = [b.up EXCEPT ![t.name] = 0]
    BY <1>0, <2>1
  <2> QED BY <1>0, <1>3, <2>2
<1>4. CASE t.type = "delete"
  <2>1. c = [b EXCEPT !.file[t.name] = 0] /\ b.up[t.name] = 0
    BY <1>4 DEF NodeAfter, Feasible, c
  <2>2. c.up = b.up /\ c.file = [b.file EXCEPT ![t.name] = 0]
    BY <1>0, <2>1
  <2> QED BY <1>0, <1>4, <2>1, <2>2
<1>5. CASE t.type \in MwActions
  <2>1. c.file = b.file /\ c.up = b.up
    BY <1>0, <1>5 DEF NodeAfter, MwActions, c
  <2>2. t.type # "apply" /\ t.type # "delete"
    BY <1>5 DEF MwActions
  <2> QED BY <2>1, <2>2
<1> QED BY <1>0, <1>1, <1>2, <1>3, <1>4, <1>5 DEF LinkTaskType

\* A task that was delivered ends.
LEMMA EndedNames ==
  ASSUME NEW name \in IfName, NEW prev, NEW q, NEW b \in Box, NEW k \in DOMAIN q, NEW r, DOMAIN r = DOMAIN q,
         q[k].status = "running", r[k].status \in {"succeeded", "failed"},
         \A j \in DOMAIN q : j # k => r[j] = q[j],
         Named(name, prev, q)
  PROVE  /\ Named(name, prev, r)
         /\ Kept(name, prev, q, b) => Kept(name, prev, r, b)
         /\ q[k] \in LinkTask /\ Feasible(b, q[k]) =>
              /\ Named(name, IF q[k].type = "apply" THEN 0 ELSE prev, r)
              /\ Kept(name, prev, q, b) => Kept(name, IF q[k].type = "apply" THEN 0 ELSE prev, r, NodeAfter(b, q[k]))
              /\ Cleaned(name, q, b) => Cleaned(name, r, NodeAfter(b, q[k]))
<1> DEFINE t == q[k]
           c == NodeAfter(b, t)
           p == IF t.type = "apply" THEN 0 ELSE prev
<1>1. ASSUME NEW type, NEW j \in TasksOf(r, type, Unfinished)
      PROVE  j \in TasksOf(q, type, Unfinished) /\ r[j] = q[j]
  BY DEF TasksOf, Unfinished
<1>2. ASSUME NEW type, NEW j \in TasksOf(r, type, {"pending"})
      PROVE  j \in TasksOf(q, type, {"pending"}) /\ r[j] = q[j]
  BY DEF TasksOf
<1>3. ASSUME NEW j \in TasksOf(q, "delete", {"pending"})
      PROVE  j \in TasksOf(r, "delete", {"pending"}) /\ r[j] = q[j]
  BY DEF TasksOf
<1>4. Named(name, prev, r)
  BY <1>2 DEF Named
<1>5. ASSUME Kept(name, prev, q, b) PROVE Kept(name, prev, r, b)
  <2>1. ASSUME NEW j \in TasksOf(r, "apply", Unfinished) PROVE r[j].name = name /\ (prev = 0 \/ r[j].prev = prev)
    BY <1>1, <1>5 DEF Kept
  <2> QED BY <1>5, <2>1 DEF Kept
<1>6. ASSUME t \in LinkTask, Feasible(b, t)
      PROVE  /\ Named(name, p, r)
             /\ Kept(name, prev, q, b) => Kept(name, p, r, c)
             /\ Cleaned(name, q, b) => Cleaned(name, r, c)
  <2>0. name \in Nat /\ 0 < name /\ 1 \in IfName
    BY Bounds DEF IfName
  <2>1. Named(name, p, r)
    BY <1>4, <2>0 DEF Named
  <2>2. ASSUME NEW n \in IfName
        PROVE  /\ b.file[n] = 0 /\ b.up[n] = 0 /\ ~ (t.type = "apply" /\ t.name = n) => c.file[n] = 0 /\ c.up[n] = 0
               /\ t.type = "apply" /\ t.prev = n => c.file[n] = 0 /\ c.up[n] = 0
               /\ t.type = "delete" /\ t.name = n => c.file[n] = 0 /\ c.up[n] = 0
    BY <1>6, NodeNames
  <2>3. t.type = "apply" => k \in TasksOf(q, "apply", Unfinished)
    BY DEF TasksOf, Unfinished
  <2> HIDE DEF c
  <2>4. ASSUME Kept(name, prev, q, b) PROVE Kept(name, p, r, c)
    <3>1. ASSUME NEW j \in TasksOf(r, "apply", Unfinished) PROVE r[j].name = name /\ (p = 0 \/ r[j].prev = p)
      BY <1>1, <2>4 DEF Kept
    <3>2. ASSUME NEW n \in IfName, n # (IF p = 0 THEN name ELSE p) PROVE c.file[n] = 0 /\ c.up[n] = 0
      <4>1. CASE t.type = "apply"
        <5>1. t.name = name /\ (prev = 0 \/ t.prev = prev) /\ p = 0
          BY <2>3, <2>4, <4>1 DEF Kept
        <5>2. n # name
          BY <3>2, <5>1
        <5>3. n = t.prev \/ (b.file[n] = 0 /\ b.up[n] = 0)
          BY <2>4, <5>1, <5>2 DEF Kept
        <5> QED BY <2>2, <4>1, <5>1, <5>2, <5>3
      <4>2. CASE t.type # "apply"
        <5>1. b.file[n] = 0 /\ b.up[n] = 0
          BY <2>4, <3>2, <4>2 DEF Kept
        <5> QED BY <2>2, <4>2, <5>1
      <4> QED BY <4>1, <4>2
    <3> QED BY <3>1, <3>2 DEF Kept
  <2>5. ASSUME Cleaned(name, q, b) PROVE Cleaned(name, r, c)
    <3>1. ASSUME NEW n \in IfName, n > name PROVE c.file[n] = 0 /\ c.up[n] = 0
      <4>1. b.file[n] = 0 /\ b.up[n] = 0
        BY <2>5, <3>1 DEF Cleaned
      <4>2. ~ (t.type = "apply" /\ t.name = n)
        <5>1. t.type = "apply" => t.name <= name
          BY <2>3, <2>5 DEF Cleaned
        <5>2. n \in Nat
          BY Bounds
        <5> QED BY <2>0, <3>1, <5>1, <5>2
      <4> QED BY <2>2, <4>1, <4>2
    <3>2. ASSUME NEW j \in TasksOf(r, "apply", Unfinished) PROVE r[j].name <= name
      BY <1>1, <2>5 DEF Cleaned
    <3>3. ASSUME name = 1 PROVE TasksOf(r, "delete", Unfinished) = {}
      BY <1>1, <2>5, <3>3 DEF Cleaned
    <3>4. ASSUME name = 2, ~ \E j \in TasksOf(r, "delete", {"pending"}) : r[j].name = 1
          PROVE  /\ \A j \in TasksOf(r, "apply", Unfinished) : r[j].name # 1
                 /\ \/ \E j \in TasksOf(r, "delete", {"running"}) : r[j].name = 1
                    \/ c.file[1] = 0 /\ c.up[1] = 0
      <4>1. ~ \E j \in TasksOf(q, "delete", {"pending"}) : q[j].name = 1
        BY <1>3, <3>4
      <4>2. /\ \A j \in TasksOf(q, "apply", Unfinished) : q[j].name # 1
            /\ \/ \E j \in TasksOf(q, "delete", {"running"}) : q[j].name = 1
               \/ b.file[1] = 0 /\ b.up[1] = 0
        BY <2>5, <3>4, <4>1 DEF Cleaned
      <4>3. ASSUME NEW j \in TasksOf(r, "apply", Unfinished) PROVE r[j].name # 1
        BY <1>1, <4>2
      <4>4. ASSUME NEW j \in TasksOf(q, "delete", {"running"}), q[j].name = 1
            PROVE  \/ j \in TasksOf(r, "delete", {"running"}) /\ r[j].name = 1
                   \/ c.file[1] = 0 /\ c.up[1] = 0
        <5>1. CASE j = k
          <6>1. t.type = "delete" /\ t.name = 1
            BY <4>4, <5>1 DEF TasksOf
          <6> QED BY <2>0, <2>2, <6>1
        <5>2. CASE j # k
          BY <4>4, <5>2 DEF TasksOf
        <5> QED BY <5>1, <5>2
      <4>5. b.file[1] = 0 /\ b.up[1] = 0 => c.file[1] = 0 /\ c.up[1] = 0
        <5>1. ~ (t.type = "apply" /\ t.name = 1)
          BY <2>3, <4>2
        <5> QED BY <2>0, <2>2, <5>1
      <4> QED BY <4>2, <4>3, <4>4, <4>5
    <3> QED BY <3>1, <3>2, <3>3, <3>4 DEF Cleaned
  <2> QED BY <2>1, <2>4, <2>5
<1> QED BY <1>4, <1>5, <1>6

LEMMA ExecuteNamed ==
  ASSUME LinkInv, OldNames, NEW u \in Side, NodeExecutes(u)
  PROVE  OldNames'
<1> DEFINE k == Earliest(work[u])
           q == queue[u]
           t == q[k]
<1>1. k \in DOMAIN q /\ t.status = "running" /\ Chained(q) /\ t \in LinkTask /\ q \in Seq(LinkTask)
  <2>1. work[u] \in SUBSET Nat /\ work[u] # {} /\ work[u] = Delivered(q)
    BY DEF NodeExecutes, LinkInv, Fetched
  <2>2. k \in work[u]
    BY <2>1, EarliestIn
  <2>3. k \in DOMAIN q /\ t.status = "running"
    BY <2>1, <2>2 DEF Delivered
  <2> HIDE DEF k
  <2> QED BY <2>3, InvParts DEF Chained
<1>2. \E st \in {"succeeded", "failed"} :
        /\ queue' = [queue EXCEPT ![u][k].status = st] /\ UNCHANGED link
        /\ \/ /\ Feasible(box[u], t) /\ UNCHANGED linkHist
              /\ box' = [box EXCEPT ![u] = NodeAfter(@, t)]
              /\ side' = [side EXCEPT ![u] = Reported(@, t)]
           \/ /\ UNCHANGED <<box, side>>
              /\ \/ linkHist' = [linkHist EXCEPT !.failed = TRUE]
                 \/ linkHist' = [linkHist EXCEPT !.failures = @ + 1, !.failed = TRUE]
  BY DEF NodeExecutes
<1> HIDE DEF k
<1>3. PICK st \in {"succeeded", "failed"} : queue' = [queue EXCEPT ![u][k].status = st]
  BY <1>2
<1> DEFINE r == [q EXCEPT ![k] = [t EXCEPT !.status = st]]
<1>4. /\ queue'[u] = r /\ DOMAIN r = DOMAIN q /\ r[k].status = st
      /\ \A j \in DOMAIN q : j # k => r[j] = q[j]
      /\ \A s \in Side : s # u => queue'[s] = queue[s]
  <2>1. [t EXCEPT !.status = st].status = st
    BY <1>1 DEF LinkTask
  <2> QED BY <1>1, <1>3, <2>1 DEF LinkInv
<1> HIDE DEF r
<1>5. /\ side \in [Side -> SideRow] /\ box \in [Side -> Box] /\ linkHist \in History
  BY InvParts DEF LinkInv, LinkTypeOK, Box
<1> SUFFICES ASSUME link.exists, NEW s \in Side PROVE SideNamed(side'[s], queue'[s], box'[s], linkHist')
  BY <1>2 DEF OldNames
<1>6. SideNamed(side[s], queue[s], box[s], linkHist)
  BY DEF OldNames
<1>7. linkHist'.overtook = linkHist.overtook /\ (linkHist' = linkHist \/ linkHist'.failed = TRUE)
  <2>1. \/ linkHist' = linkHist \/ linkHist' = [linkHist EXCEPT !.failed = TRUE]
        \/ linkHist' = [linkHist EXCEPT !.failures = @ + 1, !.failed = TRUE]
    BY <1>2
  <2> QED BY <1>5, <2>1 DEF History
<1>8. CASE s # u
  <2>1. Spares(queue[s], queue'[s])
    BY <1>4, <1>8 DEF Spares
  <2>2. side'[s] = side[s] /\ box'[s] = box[s]
    BY <1>2, <1>5, <1>8
  <2> QED BY <1>6, <1>7, <2>1, <2>2, SparedSide
<1>9. CASE s = u
  <2> DEFINE name == side[u].name
             prev == side[u].prev
             p    == IF t.type = "apply" THEN 0 ELSE prev
  <2>1. /\ Named(name, prev, r)
        /\ Kept(name, prev, q, box[u]) => Kept(name, prev, r, box[u])
        /\ Feasible(box[u], t) =>
             /\ Named(name, p, r)
             /\ Kept(name, prev, q, box[u]) => Kept(name, p, r, NodeAfter(box[u], t))
             /\ Cleaned(name, q, box[u]) => Cleaned(name, r, NodeAfter(box[u], t))
    <3>1. Named(name, prev, q) /\ name \in IfName /\ box[u] \in Box
      BY <1>5, <1>6, <1>9 DEF SideNamed, SideRow
    <3>2. r[k].status \in {"succeeded", "failed"} /\ q[k].status = "running" /\ q[k] \in LinkTask
          /\ \A j \in DOMAIN q : j # k => r[j] = q[j]
      BY <1>1, <1>3, <1>4
    <3>3. k \in DOMAIN q /\ DOMAIN r = DOMAIN q
      BY <1>1, <1>4
    <3> HIDE DEF q, name, prev
    <3>4. /\ Named(name, prev, r)
          /\ Kept(name, prev, q, box[u]) => Kept(name, prev, r, box[u])
      BY <3>1, <3>2, <3>3, EndedNames
    <3>5. Feasible(box[u], q[k]) =>
             /\ Named(name, IF q[k].type = "apply" THEN 0 ELSE prev, r)
             /\ Kept(name, prev, q, box[u]) => Kept(name, IF q[k].type = "apply" THEN 0 ELSE prev, r, NodeAfter(box[u], q[k]))
             /\ Cleaned(name, q, box[u]) => Cleaned(name, r, NodeAfter(box[u], q[k]))
      BY <3>1, <3>2, <3>3, EndedNames
    <3> QED BY <3>4, <3>5
  <2>2. CASE UNCHANGED <<box, side>> /\ linkHist'.failed = TRUE
    BY <1>4, <1>6, <1>7, <1>9, <2>1, <2>2 DEF SideNamed
  <2>3. CASE /\ Feasible(box[u], t) /\ UNCHANGED linkHist
             /\ box' = [box EXCEPT ![u] = NodeAfter(@, t)]
             /\ side' = [side EXCEPT ![u] = Reported(@, t)]
    <3>1. box'[u] = NodeAfter(box[u], t) /\ side'[u] = Reported(side[u], t)
      BY <1>5, <2>3
    <3>2. Reported(side[u], t).name = name /\ Reported(side[u], t).prev = p
      BY <1>5 DEF Reported, SideRow
    <3> QED BY <1>4, <1>6, <1>9, <2>1, <2>3, <3>1, <3>2 DEF SideNamed
  <2>4. UNCHANGED <<box, side>> => linkHist'.failed = TRUE \/ (Feasible(box[u], t) /\ UNCHANGED linkHist
             /\ box' = [box EXCEPT ![u] = NodeAfter(@, t)]
             /\ side' = [side EXCEPT ![u] = Reported(@, t)])
    BY <1>2, <1>5 DEF History
  <2> QED BY <1>2, <2>2, <2>3, <2>4
<1> QED BY <1>8, <1>9

LEMMA OldNamesInit == LinkInit => OldNames
<1> SUFFICES ASSUME LinkInit, NEW s \in Side PROVE SideNamed(side[s], queue[s], box[s], linkHist)
  BY DEF OldNames
<1>1. PICK mw \in {NoMw} \cup [plugin : Plugins, v : {1}] :
        /\ side = [u \in Side |-> [name |-> 1, prev |-> 0, runtime |-> "starting"]]
        /\ queue = [u \in Side |-> EnqueueApply(EnqueueMw(<<>>, 1, mw), [name |-> 1, prev |-> 0], 1).q]
  BY DEF LinkInit
<1>2. mw \in MwOf /\ 1 \in IfName /\ 1 \in Ver /\ <<>> \in Seq(LinkTask)
  BY Bounds DEF MwOf
<1> DEFINE m == EnqueueMw(<<>>, 1, mw)
           r == EnqueueApply(m, [name |-> 1, prev |-> 0], 1).q
<1>3. m \in Seq(LinkTask) /\ Spares(<<>>, m)
  BY <1>2, EnqueueMwSpares
<1> HIDE DEF m
<1>4. \A k \in DOMAIN r : \/ k \in DOMAIN m /\ r[k] = m[k]
                          \/ r[k].type = "apply" /\ r[k].name = 1 /\ r[k].status = "pending"
  BY <1>2, <1>3, ApplyEnqueued
<1> HIDE DEF r
<1>5. \A k \in DOMAIN r : r[k].status \in Unfinished /\ r[k].type \in {"apply", "delete"} =>
        r[k].type = "apply" /\ r[k].name = 1
  BY <1>3, <1>4 DEF Spares
<1>6. side[s].name = 1 /\ side[s].prev = 0 /\ queue[s] = r
  BY <1>1 DEF r, m
<1>7. \A n \in IfName : box[s].file[n] = 0 /\ box[s].up[n] = 0
  BY DEF LinkInit
<1>8. Named(1, 0, r)
  BY <1>5 DEF Named, TasksOf, Unfinished
<1>9. Kept(1, 0, r, box[s])
  BY <1>5, <1>7 DEF Kept, TasksOf
<1>10. Cleaned(1, r, box[s])
  BY <1>5, <1>7 DEF Cleaned, TasksOf
<1> QED BY <1>6, <1>8, <1>9, <1>10 DEF SideNamed

LEMMA OldNamesNext ==
  ASSUME LinkInv, OldNames, [LinkNext]_linkVars PROVE OldNames'
<1>0. LinkRow(link) /\ side \in [Side -> SideRow] /\ IfNames \in [Side -> IfName]
      /\ \A s \in Side : IfNames[s] = side[s].name
  BY InvParts DEF IfNames
<1>1. CASE UNCHANGED linkVars
  BY <1>1 DEF linkVars, OldNames, SideNamed
<1>2. CASE UpdateOnly
  BY <1>0, <1>2, UpdateNamed DEF UpdateOnly, LinkRow
<1>3. ASSUME NEW mw \in {NoMw} \cup [plugin : Plugins, v : {link.config + 1}], UpdateMiddleware(mw)
      PROVE  OldNames'
  <2>1. mw \in MwOf
    <3>1. link.config + 1 \in Ver
      BY <1>0, <1>3, Bounds DEF UpdateMiddleware, UpdateLink, LinkRow, Ver
    <3> QED BY <1>3, <3>1, Bounds DEF MwOf
  <2> QED BY <1>0, <1>3, <2>1, UpdateNamed DEF UpdateMiddleware
<1>4. ASSUME NEW S \in SUBSET Side, Rename(S) PROVE OldNames'
  <2> DEFINE name == [s \in Side |-> IF s \in S THEN IfNames[s] + 1 ELSE IfNames[s]]
  <2>1. name \in [Side -> IfName]
    <3>1. \A s \in S : IfNames[s] + 1 \in IfName
      BY <1>0, <1>4, Bounds DEF Rename, IfNames, IfName, SideRow
    <3> QED BY <1>0, <3>1
  <2>2. \A s \in Side : name[s] \in {side[s].name, side[s].name + 1}
    BY <1>0
  <2> QED BY <1>0, <1>4, <2>1, <2>2, UpdateNamed DEF Rename, LinkRow
<1>5. ASSUME NEW files \in BOOLEAN, Delete(files) PROVE OldNames'
  <2>1. link' = [link EXCEPT !.exists = FALSE]
    BY <1>5 DEF Delete
  <2>2. link'.exists = FALSE
    BY <2>1 DEF LinkInv, LinkTypeOK
  <2> QED BY <2>2 DEF OldNames
<1> QED BY <1>1, <1>2, <1>3, <1>4, <1>5, StartNamed, StopNamed, PollNamed, ExecuteNamed DEF LinkNext

\* However requests, nodes and failures interleave, an interface that is up on a node goes
\* by a name that the row or a task to come knows (record_interface_rename,
\* enqueue_apply_config, should_clear_previous_interface_name).
THEOREM OldNameIsAlwaysRecorded == LinkSpec => []OldNameIsRecorded
<1>1. LinkInv /\ OldNames => OldNameIsRecorded
  <2> SUFFICES ASSUME LinkInv, OldNames, link.exists, NEW s \in Side,
                      ~ (linkHist.overtook /\ (linkHist.failed \/ side[s].name > 2)),
                      NEW n \in UpNames(s), n # side[s].name, n # side[s].prev
               PROVE  \E k \in DOMAIN queue[s] : /\ queue[s][k].status \in {"pending", "running"}
                                                 /\ n \in {queue[s][k].name, queue[s][k].prev}
    BY DEF OldNameIsRecorded
  <2>1. SideNamed(side[s], queue[s], box[s], linkHist) /\ n \in IfName /\ box[s].up[n] # 0
    BY DEF OldNames, UpNames
  <2>2. linkHist.overtook
    BY <2>1 DEF SideNamed, Kept
  <2>3. side[s].name \in Nat /\ side[s].name >= 1 /\ n \in Nat /\ n >= 1
    BY <2>1, InvParts, Bounds DEF SideRow, IfName
  <2>4. Cleaned(side[s].name, queue[s], box[s]) /\ side[s].name <= 2
    BY <2>1, <2>2, <2>3 DEF SideNamed
  <2>5. n <= side[s].name
    BY <2>1, <2>3, <2>4 DEF Cleaned
  <2>6. side[s].name = 2 /\ n = 1
    BY <2>3, <2>4, <2>5
  <2>7. PICK k \in TasksOf(queue[s], "delete", {"pending"}) \cup TasksOf(queue[s], "delete", {"running"}) :
               queue[s][k].name = 1
    BY <2>1, <2>4, <2>6 DEF Cleaned
  <2>8. k \in DOMAIN queue[s] /\ queue[s][k].status \in {"pending", "running"}
    BY <2>7 DEF TasksOf
  <2> QED BY <2>6, <2>7, <2>8
<1>2. LinkInv /\ OldNames /\ [LinkNext]_linkVars => OldNames'
  BY OldNamesNext
<1> QED BY <1>1, <1>2, OldNamesInit, LinkSpecInv, PTL DEF LinkSpec

-----------------------------------------------------------------------------
(* The monitors.                                                           *)

MonitorRow == [owner : Owner \cup {"none"}, on : BOOLEAN,
               due : 0..(LastTick + Interval) \cup {Never}, last : Taken \cup {Never}]

\* A poll that is inside the controller read the clock before; the next probe of a
\* row that was claimed and not edited since is an interval after the claim; and
\* what the samples must satisfy.
MonInv ==
  /\ MonTypeOK
  /\ \A p \in PollRequest : polling[p].at <= clock
  /\ \A m \in MonitorId : monHist.claimed[m] # Never => monitor[m].due = monHist.claimed[m] + Interval
  /\ ClaimsAreSpaced /\ LastCheckIsNewest /\ OneSamplePerTime

\* The times the module computes with.
LEMMA MonTimes ==
  /\ Behind \in Nat /\ Ahead \in Nat /\ LastTick \in Nat /\ Interval \in Nat \ {0} /\ RetentionTicks \in Nat
  /\ Never \in Int /\ Never < 0 /\ \A t \in Taken : t \in Int /\ Never < t /\ t <= LastTick
  /\ \A t \in Tick : t \in Taken /\ t \in Nat
  /\ MonitorId \subseteq Nat
BY MonitorAssumption, FS_CardinalityType DEF Never, Taken, Tick, MonitorId

\* An assignment to a field of a row, written out.
LEMMA RowUpdate ==
  ASSUME NEW row \in MonitorRow, NEW due, NEW last
  PROVE  /\ [row EXCEPT !.due = due] = [owner |-> row.owner, on |-> row.on, due |-> due, last |-> row.last]
         /\ [row EXCEPT !.last = last] = [owner |-> row.owner, on |-> row.on, due |-> row.due, last |-> last]
<1>1. [row EXCEPT !.due = due] = [owner |-> row.owner, on |-> row.on, due |-> due, last |-> row.last]
  BY DEF MonitorRow
<1>2. [row EXCEPT !.last = last] = [owner |-> row.owner, on |-> row.on, due |-> row.due, last |-> last]
  BY DEF MonitorRow
<1> QED BY <1>1, <1>2

\* An administrator's request, on the history.
LEMMA EditHistory ==
  ASSUME MonTypeOK, NEW m \in MonitorId, MonEdit(m)
  PROVE  /\ monHist' \in [edits : 0..MaxMonitorEdits, claimed : [MonitorId -> Tick \cup {Never}],
                          spaced : BOOLEAN]
         /\ monHist'.claimed = [monHist.claimed EXCEPT ![m] = Never]
         /\ monHist'.spaced = monHist.spaced
<1> DEFINE cl == [monHist.claimed EXCEPT ![m] = Never]
<1>1. cl \in [MonitorId -> Tick \cup {Never}] /\ monHist.edits + 1 \in 0..MaxMonitorEdits
  BY MonitorAssumption DEF MonTypeOK, MonEdit
<1>2. monHist' = [[monHist EXCEPT !.edits = monHist.edits + 1] EXCEPT !.claimed = cl]
  BY DEF MonTypeOK, MonEdit
<1> HIDE DEF cl
<1>3. monHist' = [edits |-> monHist.edits + 1, claimed |-> cl, spaced |-> monHist.spaced]
  BY <1>2 DEF MonTypeOK
<1> QED BY <1>1, <1>3 DEF MonTypeOK, cl

\* The empty table.
LEMMA MonInvInit == MonInit => MonInv
<1> SUFFICES ASSUME MonInit PROVE MonInv
  OBVIOUS
<1>1. Ids = {}
  BY DEF MonInit, Ids, NoMonitor
<1>2. NoSamples \in [Taken -> 0..2] /\ NoMonitor \in MonitorRow /\ 0 \in Tick
  BY MonitorAssumption DEF NoSamples, NoMonitor, MonitorRow, Tick
<1>3. MonTypeOK
  BY <1>1, <1>2, MonitorAssumption DEF MonInit, MonTypeOK, MonitorRow, IdlePoll, Tick
<1>4. OneSamplePerTime
  BY <1>1 DEF MonInit, OneSamplePerTime, NoSamples
<1>5. ClaimsAreSpaced /\ LastCheckIsNewest
  BY <1>1 DEF MonInit, ClaimsAreSpaced, LastCheckIsNewest
<1>6. \A p \in PollRequest : polling[p].at <= clock
  BY DEF MonInit, IdlePoll
<1>7. \A m \in MonitorId : monHist.claimed[m] = Never
  BY DEF MonInit
<1> QED BY <1>3, <1>4, <1>5, <1>6, <1>7 DEF MonInv

\* An edit of row m that leaves the rows of the others alone, and the samples of m
\* too or empties them with the row.
LEMMA EditStep ==
  ASSUME MonInv, NEW m \in MonitorId, MonEdit(m), NEW row \in MonitorRow, NEW s,
         monitor' = [monitor EXCEPT ![m] = row], sample' = [sample EXCEPT ![m] = s],
         row.owner # "none" => (row.due # Never <=> row.on),
         \/ m \in Ids /\ row.owner # "none" /\ row.last = monitor[m].last /\ s = sample[m]
         \/ row.last = Never /\ s = NoSamples
  PROVE  MonInv'
<1>1. /\ UNCHANGED <<clock, ahead, polling, probing, onTheWay>>
      /\ monHist' \in [edits : 0..MaxMonitorEdits, claimed : [MonitorId -> Tick \cup {Never}],
                          spaced : BOOLEAN]
      /\ monHist'.claimed = [monHist.claimed EXCEPT ![m] = Never]
      /\ monHist'.spaced = monHist.spaced
  BY EditHistory DEF MonEdit, MonInv
<1>2. s \in [Taken -> 0..2]
  BY DEF MonInv, MonTypeOK, NoSamples
<1>3. /\ monitor'[m] = row /\ sample'[m] = s
      /\ \A k \in MonitorId \ {m} : monitor'[k] = monitor[k] /\ sample'[k] = sample[k]
  BY DEF MonInv, MonTypeOK
<1>4. \A k \in MonitorId \ {m} : k \in Ids' <=> k \in Ids
  BY <1>3 DEF Ids
<1>5. m \in Ids' <=> row.owner # "none"
  BY <1>3 DEF Ids
<1>6. MonTypeOK'
  <2>1. /\ monitor' \in [MonitorId -> MonitorRow] /\ sample' \in [MonitorId -> [Taken -> 0..2]]
    BY <1>2 DEF MonInv, MonTypeOK, MonitorRow
  <2>2. \A k \in Ids' : monitor'[k].due # Never <=> monitor'[k].on
    <3> SUFFICES ASSUME NEW k \in Ids' PROVE monitor'[k].due # Never <=> monitor'[k].on
      OBVIOUS
    <3> QED BY <1>3, <1>4, <1>5 DEF MonInv, MonTypeOK, Ids
  <2> QED BY <1>1, <2>1, <2>2 DEF MonInv, MonTypeOK, MonitorRow
<1>7. \A k \in MonitorId : monHist'.claimed[k] # Never => monitor'[k].due = monHist'.claimed[k] + Interval
  BY <1>1, <1>3 DEF MonInv, MonTypeOK
<1>8. LastCheckIsNewest'
  <2> SUFFICES ASSUME NEW k \in Ids'
               PROVE  /\ monitor'[k].last <= clock
                      /\ \A t \in Taken : sample'[k][t] > 0 => t <= monitor'[k].last
    BY <1>1 DEF LastCheckIsNewest
  <2>1. CASE k = m
    BY <1>3, <2>1, MonTimes DEF MonInv, MonTypeOK, LastCheckIsNewest, NoSamples
  <2>2. CASE k # m
    BY <1>3, <1>4, <2>2 DEF MonInv, LastCheckIsNewest, Ids
  <2> QED BY <2>1, <2>2
<1>9. OneSamplePerTime'
  <2>1. \A t \in Taken : s[t] <= 1
    BY DEF MonInv, OneSamplePerTime, NoSamples
  <2>2. m \notin Ids' => s = NoSamples
    BY <1>5
  <2> QED BY <1>3, <1>4, <2>1, <2>2 DEF MonInv, OneSamplePerTime
<1> QED BY <1>1, <1>6, <1>7, <1>8, <1>9 DEF MonInv, ClaimsAreSpaced

\* A row is created: its id has no samples left from a row before it.
LEMMA CreateMonitorStep ==
  ASSUME MonInv, NEW o \in Owner, NEW on \in BOOLEAN, CreateMonitor(o, on)
  PROVE  MonInv'
<1> DEFINE m == Cardinality(Ids) + 1
           row == [owner |-> o, on |-> on, due |-> IF on THEN clock ELSE Never, last |-> Never]
<1>1. m \in MonitorId /\ Ids = 1..(m - 1) /\ MonEdit(m) /\ UNCHANGED sample
      /\ monitor' = [monitor EXCEPT ![m] = row]
  BY DEF CreateMonitor
<1> HIDE DEF m
<1>2. m \notin Ids
  BY <1>1, MonTimes
<1>3. sample[m] = NoSamples /\ sample' = [sample EXCEPT ![m] = NoSamples]
  BY <1>1, <1>2 DEF MonInv, OneSamplePerTime, MonTypeOK
<1>4. row \in MonitorRow /\ row.owner # "none" /\ row.last = Never /\ (row.due # Never <=> row.on)
  BY MonTimes, MonitorAssumption DEF MonInv, MonTypeOK, MonitorRow, Tick
<1> QED BY <1>1, <1>3, <1>4, EditStep

\* A row is edited.
LEMMA EditMonitorStep ==
  ASSUME MonInv, NEW m \in MonitorId, NEW on \in BOOLEAN, EditMonitor(m, on)
  PROVE  MonInv'
<1> DEFINE row == [owner |-> monitor[m].owner, on |-> on, due |-> IF on THEN clock ELSE Never,
                   last |-> monitor[m].last]
<1>1. m \in Ids /\ MonEdit(m) /\ UNCHANGED sample
  BY DEF EditMonitor
<1>2. monitor' = [monitor EXCEPT ![m] = row]
  <2>1. monitor[m] \in MonitorRow
    BY DEF MonInv, MonTypeOK, MonitorRow
  <2> DEFINE due == IF on THEN clock ELSE Never
  <2>2. monitor' = [[monitor EXCEPT ![m].on = on] EXCEPT ![m].due = due]
    BY DEF EditMonitor
  <2> HIDE DEF due
  <2>3. monitor' = [monitor EXCEPT ![m] = [[monitor[m] EXCEPT !.on = on] EXCEPT !.due = due]]
    BY <2>2 DEF MonInv, MonTypeOK
  <2>4. [[monitor[m] EXCEPT !.on = on] EXCEPT !.due = due]
          = [owner |-> monitor[m].owner, on |-> on, due |-> due, last |-> monitor[m].last]
    <3> DEFINE old == monitor[m]
    <3>1. old \in MonitorRow
      BY <2>1
    <3> HIDE DEF old
    <3>2. [[old EXCEPT !.on = on] EXCEPT !.due = due]
            = [owner |-> old.owner, on |-> on, due |-> due, last |-> old.last]
      <4>1. [old EXCEPT !.on = on] = [owner |-> old.owner, on |-> on, due |-> old.due, last |-> old.last]
        BY <3>1 DEF MonitorRow
      <4>2. [[owner |-> old.owner, on |-> on, due |-> old.due, last |-> old.last] EXCEPT !.due = due]
              = [owner |-> old.owner, on |-> on, due |-> due, last |-> old.last]
        OBVIOUS
      <4> QED BY <4>1, <4>2
    <3> QED BY <3>2, Zenon DEF old
  <2> QED BY <2>3, <2>4, Zenon DEF due
<1>3. sample' = [sample EXCEPT ![m] = sample[m]]
  BY <1>1 DEF MonInv, MonTypeOK
<1>4. /\ row \in MonitorRow /\ row.owner # "none" /\ row.last = monitor[m].last
      /\ row.due # Never <=> row.on
  BY <1>1, MonTimes DEF MonInv, MonTypeOK, MonitorRow, Tick, Ids
<1> QED BY <1>1, <1>2, <1>3, <1>4, EditStep

\* A row is deleted, and its samples.
LEMMA DeleteMonitorStep ==
  ASSUME MonInv, NEW m \in MonitorId, DeleteMonitor(m)
  PROVE  MonInv'
<1>1. NoMonitor \in MonitorRow /\ NoMonitor.owner = "none" /\ NoMonitor.last = Never
  BY DEF NoMonitor, MonitorRow
<1> QED BY <1>1, EditStep DEF DeleteMonitor

\* A poll reads its candidates: the time it goes by is the present.
LEMMA PollReadsStep ==
  ASSUME MonInv, NEW p \in PollRequest, PollReads(p)
  PROVE  MonInv'
<1>1. PICK read \in SUBSET MonitorId :
        polling' = [polling EXCEPT ![p] = [busy |-> TRUE, at |-> clock, read |-> read]]
  BY DEF PollReads
<1>2. UNCHANGED <<clock, ahead, monitor, sample, probing, onTheWay, monHist>> /\ Ids' = Ids
  BY DEF PollReads, Ids
<1>3. polling' \in [PollRequest -> [busy : BOOLEAN, at : Tick, read : SUBSET MonitorId]]
  BY <1>1 DEF MonInv, MonTypeOK
<1>4. \A q \in PollRequest : polling'[q].at <= clock
  BY <1>1, MonTimes DEF MonInv, MonTypeOK
<1> QED BY <1>2, <1>3, <1>4 DEF MonInv, MonTypeOK, ClaimsAreSpaced, LastCheckIsNewest,
           OneSamplePerTime

\* A poll claims: the row is due by the poll's clock, so a claim before this one
\* that was not edited away lies an interval back.
LEMMA PollClaimsStep ==
  ASSUME MonInv, NEW p \in PollRequest, PollClaims(p)
  PROVE  MonInv'
<1> DEFINE at == polling[p].at  C == Claimed(p)
<1>0. at \in Tick /\ at \in Nat /\ at <= clock /\ at + Interval \in 0..(LastTick + Interval) /\ C \subseteq MonitorId
  BY MonTimes DEF MonInv, MonTypeOK, Claimed, Tick
<1>1. /\ UNCHANGED <<clock, ahead, sample, onTheWay>> /\ probing' \in {probing, C}
      /\ polling' = [polling EXCEPT ![p] = IdlePoll]
      /\ monitor' = [m \in MonitorId |-> IF m \in C THEN [monitor[m] EXCEPT !.due = at + Interval]
                                         ELSE monitor[m]]
      /\ monHist' = [monHist EXCEPT
           !.claimed = [m \in MonitorId |-> IF m \in C THEN at ELSE @[m]],
           !.spaced = @ /\ \A m \in C : monHist.claimed[m] = Never
                                          \/ at - monHist.claimed[m] >= Interval]
  BY DEF PollClaims
<1>2. \A m \in C : m \in Ids /\ monitor[m].on /\ monitor[m].due <= at
  BY DEF Claimed, Due
<1> HIDE DEF at, C
<1>3. \A m \in C : monHist.claimed[m] = Never \/ at - monHist.claimed[m] >= Interval
  <2> SUFFICES ASSUME NEW m \in C, monHist.claimed[m] # Never PROVE at - monHist.claimed[m] >= Interval
    OBVIOUS
  <2>1. monitor[m].due = monHist.claimed[m] + Interval /\ monitor[m].due <= at
    BY <1>0, <1>2 DEF MonInv
  <2>2. monHist.claimed[m] \in Nat
    BY <1>0, MonTimes DEF MonInv, MonTypeOK
  <2> QED BY <1>0, <2>1, <2>2, MonTimes
<1>4. /\ monHist' \in [edits : 0..MaxMonitorEdits, claimed : [MonitorId -> Tick \cup {Never}],
                       spaced : BOOLEAN]
      /\ monHist'.claimed = [m \in MonitorId |-> IF m \in C THEN at ELSE monHist.claimed[m]]
      /\ monHist'.spaced
  <2> DEFINE cl == [m \in MonitorId |-> IF m \in C THEN at ELSE monHist.claimed[m]]
  <2>1. monHist.spaced
    BY DEF MonInv, ClaimsAreSpaced
  <2>2. cl \in [MonitorId -> Tick \cup {Never}]
    BY <1>0 DEF MonInv, MonTypeOK
  <2>3. monHist' = [monHist EXCEPT !.claimed = cl, !.spaced = TRUE]
    BY <1>1, <1>3, <2>1 DEF MonInv, MonTypeOK
  <2> HIDE DEF cl
  <2>4. /\ monHist' \in [edits : 0..MaxMonitorEdits, claimed : [MonitorId -> Tick \cup {Never}],
                       spaced : BOOLEAN]
        /\ monHist'.claimed = cl /\ monHist'.spaced
    BY <2>2, <2>3 DEF MonInv, MonTypeOK
  <2> QED BY <2>4 DEF cl
<1>5. \A m \in MonitorId : /\ monitor'[m] \in MonitorRow
                           /\ monitor'[m].owner = monitor[m].owner /\ monitor'[m].on = monitor[m].on
                           /\ monitor'[m].last = monitor[m].last
                           /\ monitor'[m].due = IF m \in C THEN at + Interval ELSE monitor[m].due
  <2> TAKE m \in MonitorId
  <2> DEFINE row == [owner |-> monitor[m].owner, on |-> monitor[m].on, last |-> monitor[m].last,
                     due |-> IF m \in C THEN at + Interval ELSE monitor[m].due]
  <2>1. monitor[m] \in MonitorRow
    BY DEF MonInv, MonTypeOK, MonitorRow
  <2>2. monitor'[m] \in MonitorRow /\ monitor'[m] = row
    <3>1. CASE m \in C
      <4>1. monitor'[m] = [monitor[m] EXCEPT !.due = at + Interval]
        BY <1>1, <3>1
      <4> QED BY <1>0, <2>1, <3>1, <4>1, RowUpdate DEF MonitorRow
    <3>2. CASE m \notin C
      <4>1. monitor'[m] = monitor[m]
        BY <1>1, <3>2
      <4> QED BY <2>1, <3>2, <4>1 DEF MonitorRow
    <3> QED BY <3>1, <3>2
  <2> QED BY <2>2
<1>6. Ids' = Ids
  BY <1>5 DEF Ids
<1>7. MonTypeOK'
  <2>1. monitor' \in [MonitorId -> MonitorRow]
    BY <1>1, <1>5
  <2>2. polling' \in [PollRequest -> [busy : BOOLEAN, at : Tick, read : SUBSET MonitorId]]
    BY <1>1, MonitorAssumption DEF MonInv, MonTypeOK, IdlePoll, Tick
  <2>3. probing' \subseteq MonitorId
    BY <1>0, <1>1 DEF MonInv, MonTypeOK
  <2>4. \A m \in Ids' : monitor'[m].due # Never <=> monitor'[m].on
    BY <1>0, <1>2, <1>5, <1>6, MonTimes DEF MonInv, MonTypeOK, Ids
  <2> QED BY <1>1, <1>4, <2>1, <2>2, <2>3, <2>4 DEF MonInv, MonTypeOK, MonitorRow
<1>8. \A q \in PollRequest : polling'[q].at <= clock
  BY <1>1, MonTimes DEF MonInv, MonTypeOK, IdlePoll, Tick
<1>9. \A m \in MonitorId : monHist'.claimed[m] # Never => monitor'[m].due = monHist'.claimed[m] + Interval
  BY <1>4, <1>5 DEF MonInv
<1>10. LastCheckIsNewest' /\ OneSamplePerTime'
  BY <1>1, <1>5, <1>6 DEF MonInv, LastCheckIsNewest, OneSamplePerTime, Ids
<1> QED BY <1>1, <1>4, <1>7, <1>8, <1>9, <1>10 DEF MonInv, ClaimsAreSpaced

\* The agent reports, with the time of its own clock.
LEMMA ProbeStep ==
  ASSUME MonInv, NEW times \in {1, 2}, Probe(times)
  PROVE  MonInv'
<1>1. UNCHANGED <<clock, ahead, monitor, sample, polling, monHist>> /\ Ids' = Ids /\ probing' = {}
  BY DEF Probe, Ids
<1>2. [at |-> clock + ahead, ids |-> probing, times |-> times]
        \in [at : (-Behind)..(LastTick + Ahead), ids : SUBSET MonitorId, times : {1, 2}]
  BY MonitorAssumption DEF MonInv, MonTypeOK, Tick, Skew
<1>3. onTheWay' \subseteq [at : (-Behind)..(LastTick + Ahead), ids : SUBSET MonitorId, times : {1, 2}]
  BY <1>2 DEF Probe, MonInv, MonTypeOK
<1> QED BY <1>1, <1>3 DEF MonInv, MonTypeOK, ClaimsAreSpaced, LastCheckIsNewest, OneSamplePerTime

\* A report is recorded: its time is not in the future, the newest time is kept, and
\* only a row that has no sample of the time gets one.
LEMMA RecordStep ==
  ASSUME MonInv, NEW r \in onTheWay, Record(r)
  PROVE  MonInv'
<1> DEFINE at == IF r.at > clock THEN clock ELSE r.at
           new == {m \in r.ids \cap Ids : ~ Duplicate(m, at)}
           Report == [at : (-Behind)..(LastTick + Ahead), ids : SUBSET MonitorId, times : {1, 2}]
<1>0. r \in Report
  BY DEF MonInv, MonTypeOK
<1>1. at \in Taken /\ at \in Int /\ at <= clock /\ clock \in Int
  BY <1>0, MonitorAssumption DEF MonInv, MonTypeOK, Taken, Tick
<1>2. /\ onTheWay' = (onTheWay \ {r}) \cup (IF r.times = 2 THEN {[r EXCEPT !.times = 1]} ELSE {})
      /\ sample' = [m \in MonitorId |-> IF m \notin new THEN sample[m]
                     ELSE [t \in Taken |-> IF t < clock - RetentionTicks THEN 0
                                            ELSE IF t # at THEN sample[m][t]
                                            ELSE IF sample[m][t] = 0 THEN 1 ELSE 2]]
      /\ monitor' = [m \in MonitorId |-> IF m \notin new THEN monitor[m]
                      ELSE [monitor[m] EXCEPT !.last = LastChecked(m, at)]]
      /\ UNCHANGED <<clock, ahead, polling, probing, monHist>>
  BY DEF Record
<1>3. \A m \in new : m \in Ids /\ m \in MonitorId /\ sample[m][at] = 0
  BY <1>1, SMTT(30) DEF Duplicate, MonInv, MonTypeOK, Ids
<1> HIDE DEF at, new
<1>4. onTheWay' \subseteq Report
  BY <1>0, <1>2 DEF MonInv, MonTypeOK
<1>5. \A m \in MonitorId : /\ monitor'[m] \in MonitorRow
                           /\ monitor'[m].owner = monitor[m].owner /\ monitor'[m].on = monitor[m].on
                           /\ monitor'[m].due = monitor[m].due
                           /\ monitor'[m].last = IF m \in new THEN LastChecked(m, at) ELSE monitor[m].last
  <2> TAKE m \in MonitorId
  <2> DEFINE row == [owner |-> monitor[m].owner, on |-> monitor[m].on, due |-> monitor[m].due,
                     last |-> IF m \in new THEN LastChecked(m, at) ELSE monitor[m].last]
  <2>1. monitor[m] \in MonitorRow /\ LastChecked(m, at) \in Taken \cup {Never}
    BY <1>1 DEF MonInv, MonTypeOK, MonitorRow, LastChecked
  <2>2. monitor'[m] \in MonitorRow /\ monitor'[m] = row
    <3>1. CASE m \in new
      <4>1. monitor'[m] = [monitor[m] EXCEPT !.last = LastChecked(m, at)]
        BY <1>2, <3>1
      <4> QED BY <2>1, <3>1, <4>1, RowUpdate DEF MonitorRow
    <3>2. CASE m \notin new
      <4>1. monitor'[m] = monitor[m]
        BY <1>2, <3>2
      <4> QED BY <2>1, <3>2, <4>1 DEF MonitorRow
    <3> QED BY <3>1, <3>2
  <2> QED BY <2>2
<1>6. Ids' = Ids
  BY <1>5 DEF Ids
<1>7. \A m \in MonitorId : sample'[m] \in [Taken -> 0..2]
  BY <1>2 DEF MonInv, MonTypeOK
<1>8. \A m \in new : \A t \in Taken : sample'[m][t] \in {0, sample[m][t]} \/ (t = at /\ sample'[m][t] = 1)
  BY <1>2, <1>3
<1>9. \A m \in MonitorId \ new : sample'[m] = sample[m]
  BY <1>2
<1>10. MonTypeOK'
  <2>1. monitor' \in [MonitorId -> MonitorRow] /\ sample' \in [MonitorId -> [Taken -> 0..2]]
    BY <1>2, <1>5, <1>7
  <2>2. \A m \in Ids' : monitor'[m].due # Never <=> monitor'[m].on
    BY <1>5, <1>6 DEF MonInv, MonTypeOK, Ids
  <2> QED BY <1>2, <1>4, <2>1, <2>2 DEF MonInv, MonTypeOK, MonitorRow
<1>11. OneSamplePerTime'
  <2>1. \A m \in MonitorId, t \in Taken : sample'[m][t] <= 1
    BY <1>8, <1>9 DEF MonInv, OneSamplePerTime
  <2>2. \A m \in MonitorId \ Ids' : sample'[m] = NoSamples
    BY <1>3, <1>6, <1>9 DEF MonInv, OneSamplePerTime
  <2> QED BY <2>1, <2>2 DEF OneSamplePerTime
<1>12. LastCheckIsNewest'
  <2> SUFFICES ASSUME NEW m \in Ids'
               PROVE  /\ monitor'[m].last <= clock
                      /\ \A t \in Taken : sample'[m][t] > 0 => t <= monitor'[m].last
    BY <1>2 DEF LastCheckIsNewest
  <2>0. m \in Ids /\ m \in MonitorId /\ monitor[m].last \in Int
    BY <1>6, MonTimes DEF Ids, MonInv, MonTypeOK
  <2>1. /\ monitor[m].last <= clock
        /\ \A t \in Taken : sample[m][t] > 0 => t <= monitor[m].last
    BY <2>0 DEF MonInv, LastCheckIsNewest
  <2>2. CASE m \in new
    <3>1. monitor'[m].last \in Int /\ monitor'[m].last <= clock /\ at <= monitor'[m].last
          /\ monitor[m].last <= monitor'[m].last
      BY <1>1, <1>5, <2>0, <2>1, <2>2 DEF LastChecked
    <3> SUFFICES ASSUME NEW t \in Taken, sample'[m][t] > 0 PROVE t <= monitor'[m].last
      BY <3>1
    <3>2. t = at \/ sample[m][t] > 0
      BY <1>8, <2>2
    <3> QED BY <1>1, <2>0, <2>1, <3>1, <3>2, MonTimes
  <2>3. CASE m \notin new
    BY <1>5, <1>9, <2>0, <2>1, <2>3
  <2> QED BY <2>2, <2>3
<1> QED BY <1>2, <1>5, <1>10, <1>11, <1>12 DEF MonInv, ClaimsAreSpaced

\* Time only makes the past longer.
LEMMA TimePassesStep ==
  ASSUME MonInv, TimePasses
  PROVE  MonInv'
<1>1. UNCHANGED <<monitor, sample, polling, probing, onTheWay, monHist>> /\ Ids' = Ids
  BY DEF TimePasses, Ids
<1>2. clock \in Nat /\ clock' \in Tick /\ clock < clock' /\ ahead' \in Skew
  BY MonTimes DEF TimePasses, MonInv, MonTypeOK, Tick
<1>3. \A p \in PollRequest : polling[p].at <= clock'
  BY <1>2, MonTimes DEF MonInv, MonTypeOK, Tick
<1>4. LastCheckIsNewest'
  <2> SUFFICES ASSUME NEW m \in Ids PROVE monitor[m].last <= clock'
    BY <1>1 DEF LastCheckIsNewest, MonInv
  <2> QED BY <1>2, MonTimes DEF MonInv, MonTypeOK, LastCheckIsNewest, Ids
<1> QED BY <1>1, <1>2, <1>3, <1>4 DEF MonInv, MonTypeOK, ClaimsAreSpaced, OneSamplePerTime

\* Every step of the specification preserves the invariant.
LEMMA MonInvStep == MonInv /\ [MonNext]_monVars => MonInv'
<1> SUFFICES ASSUME MonInv, [MonNext]_monVars PROVE MonInv'
  OBVIOUS
<1>1. CASE UNCHANGED monVars
  <2>1. Ids' = Ids
    BY <1>1 DEF monVars, Ids
  <2> QED BY <1>1, <2>1 DEF monVars, MonInv, MonTypeOK, ClaimsAreSpaced, LastCheckIsNewest,
             OneSamplePerTime
<1>2. CASE MonNext
  BY <1>2, CreateMonitorStep, EditMonitorStep, DeleteMonitorStep, PollReadsStep, PollClaimsStep,
     ProbeStep, RecordStep, TimePassesStep DEF MonNext
<1> QED BY <1>1, <1>2

\* So it always holds.
LEMMA MonInvAlways == MonSpec => []MonInv
BY MonInvInit, MonInvStep, PTL DEF MonSpec

\* The rows, samples, polls and reports have their types, and only an enabled row is
\* due at some time.
THEOREM MonitorTypeCorrect == MonSpec => []MonTypeOK
<1>1. MonInv => MonTypeOK
  BY DEF MonInv
<1> QED BY <1>1, MonInvAlways, PTL

\* However many polls are inside the controller with the same candidates, a monitor
\* that nobody edits is given out at most once per interval.
THEOREM ClaimsAreAlwaysSpaced == MonSpec => []ClaimsAreSpaced
<1>1. MonInv => ClaimsAreSpaced
  BY DEF MonInv
<1> QED BY <1>1, MonInvAlways, PTL

\* In whatever order reports arrive and however wrong the agent's clock is, the time
\* of the last check is that of the newest sample and not in the future.
THEOREM LastCheckIsAlwaysNewest == MonSpec => []LastCheckIsNewest
<1>1. MonInv => LastCheckIsNewest
  BY DEF MonInv
<1> QED BY <1>1, MonInvAlways, PTL

\* However often a report arrives, a monitor has at most one sample of a time, and a
\* deleted monitor has none.
THEOREM OneSampleAtATime == MonSpec => []OneSamplePerTime
<1>1. MonInv => OneSamplePerTime
  BY DEF MonInv
<1> QED BY <1>1, MonInvAlways, PTL
-----------------------------------------------------------------------------
(* Types of Middleware.                                                    *)

\* A service that runs something is on.
Sound(s) == s \in Service /\ (s.run # 0 => s.on)

\* The udp2raw services after a command about instance i: the lines of the other
\* instances are the ones there are, or the ones there were before the operation.
UdpFine(u, i) ==
  /\ u \in Services /\ \A r \in Role, j \in MwInst : Sound(u[r][j])
  /\ \A r \in Role, j \in MwInst \ {i} :
       u[r][j].line \in {udp[r][j].line, mwOp.udp[r][j].line}

\* Parameters and their absence.
LEMMA Entries == 0 \in Entry /\ Args \subseteq Entry
BY MiddlewareAssumption DEF Entry, Args

\* What a command does to one service.
LEMMA ServiceCommands ==
  ASSUME MwTypeOK, NEW s, Sound(s), NEW v \in Entry, NEW b \in BOOLEAN
  PROVE  /\ Sound([s EXCEPT !.line = v]) /\ Sound([s EXCEPT !.init = b])
         /\ Sound([s EXCEPT !.boot = b]) /\ Sound(SwitchOn(s)) /\ Sound(SwitchOff(s))
         /\ Sound([SwitchOff(s) EXCEPT !.boot = FALSE])
         /\ [s EXCEPT !.line = v].line = v /\ SwitchOn(s).line = s.line /\ SwitchOff(s).line = s.line
<1>1. Spawned(s) \in Entry
  BY Entries DEF Spawned
<1>2. Sound(SwitchOn(s)) /\ SwitchOn(s).line = s.line
  BY <1>1 DEF Sound, Service, SwitchOn
<1>3. Sound(SwitchOff(s)) /\ SwitchOff(s).line = s.line
  BY Entries DEF Sound, Service, SwitchOff
<1>4. \A q : Sound(q) => Sound([q EXCEPT !.boot = FALSE]) /\ Sound([q EXCEPT !.boot = b])
  BY DEF Sound, Service
<1>5. Sound([s EXCEPT !.line = v]) /\ [s EXCEPT !.line = v].line = v
  BY DEF Sound, Service
<1>6. Sound([s EXCEPT !.init = b])
  BY DEF Sound, Service
<1> QED BY <1>2, <1>3, <1>4, <1>5, <1>6

\* One service is replaced.
LEMMA OneService ==
  ASSUME MwTypeOK, NEW r \in Role, NEW i, NEW s, i \in MwInst => Sound(s),
         NEW v, v = [udp EXCEPT ![r][i] = s]
  PROVE  UdpFine(v, i)
<1>0. udp \in Services /\ \A q \in Role, j \in MwInst : Sound(udp[q][j])
  BY DEF MwTypeOK, Services, Sound
<1> DEFINE row == [udp[r] EXCEPT ![i] = s]
<1> DEFINE u == [udp EXCEPT ![r] = row]
<1>1. row \in [MwInst -> Service]
  BY <1>0 DEF Services, Sound
<1>2. \A j \in MwInst : row[j] = IF j = i THEN s ELSE udp[r][j]
  BY <1>0 DEF Services
<1> HIDE DEF row
<1>3. u \in Services
  BY <1>0, <1>1 DEF Services
<1>4. \A q \in Role : u[q] = IF q = r THEN row ELSE udp[q]
  BY <1>0 DEF Services
<1> HIDE DEF u
<1>5. \A q \in Role, j \in MwInst : Sound(u[q][j])
  BY <1>0, <1>2, <1>4
<1>6. \A q \in Role, j \in MwInst \ {i} : u[q][j].line = udp[q][j].line
  BY <1>2, <1>4
<1>7. u = [udp EXCEPT ![r][i] = s]
  BY DEF u, row
<1> QED BY <1>3, <1>5, <1>6, <1>7 DEF UdpFine

\* Every udp2raw command.
LEMMA UdpEffect ==
  ASSUME MwTypeOK, NEW cmd, NEW r \in Role, NEW i
  PROVE  UdpFine(UdpAfter(cmd, r, i), i)
<1> DEFINE s == udp[r][i]
<1>0. /\ udp \in Services /\ \A q \in Role, j \in MwInst : Sound(udp[q][j])
      /\ mwOp.args \in Entry /\ mwOp.udp \in Services /\ (i \in MwInst => Sound(s))
  BY DEF MwTypeOK, Services, Sound, MwOperation
<1>a. i \in MwInst =>
        /\ Sound([s EXCEPT !.line = mwOp.args]) /\ Sound([s EXCEPT !.init = TRUE])
        /\ Sound([s EXCEPT !.init = FALSE]) /\ Sound([s EXCEPT !.boot = TRUE])
        /\ Sound([s EXCEPT !.boot = FALSE]) /\ Sound(SwitchOn(s)) /\ Sound(SwitchOff(s))
        /\ Sound([SwitchOff(s) EXCEPT !.boot = FALSE])
        /\ Sound(IF s.on THEN s ELSE SwitchOn(s)) /\ Sound([s EXCEPT !.line = 0])
  BY <1>0, Entries, ServiceCommands
<1> HIDE DEF s
<1>1. CASE cmd = "upsert"
  <2>1. UdpAfter(cmd, r, i) = [udp EXCEPT ![r][i] = [s EXCEPT !.line = mwOp.args]]
    BY <1>1 DEF UdpAfter, s
  <2> QED BY <1>a, <2>1, OneService
<1>2. CASE cmd = "write_init"
  <2>1. UdpAfter(cmd, r, i) = [udp EXCEPT ![r][i] = [s EXCEPT !.init = TRUE]]
    BY <1>2 DEF UdpAfter, s
  <2> QED BY <1>a, <2>1, OneService
<1>3. CASE cmd = "unlink_init"
  <2>1. UdpAfter(cmd, r, i) = [udp EXCEPT ![r][i] = [s EXCEPT !.init = FALSE]]
    BY <1>3 DEF UdpAfter, s
  <2> QED BY <1>a, <2>1, OneService
<1>4. CASE cmd = "enable"
  <2>1. UdpAfter(cmd, r, i) = [udp EXCEPT ![r][i] = [s EXCEPT !.boot = TRUE]]
    BY <1>4 DEF UdpAfter, s
  <2> QED BY <1>a, <2>1, OneService
<1>5. CASE cmd = "disable"
  <2>1. UdpAfter(cmd, r, i) = [udp EXCEPT ![r][i] = [s EXCEPT !.boot = FALSE]]
    BY <1>5 DEF UdpAfter, s
  <2> QED BY <1>a, <2>1, OneService
<1>6. CASE cmd \in {"restart", "start_again"}
  <2>1. UdpAfter(cmd, r, i) = [udp EXCEPT ![r][i] = SwitchOn(s)]
    BY <1>6 DEF UdpAfter, s
  <2> QED BY <1>a, <2>1, OneService
<1>7. CASE cmd = "start"
  <2>1. UdpAfter(cmd, r, i) = [udp EXCEPT ![r][i] = IF s.on THEN s ELSE SwitchOn(s)]
    BY <1>7 DEF UdpAfter, s
  <2> QED BY <1>a, <2>1, OneService
<1>8. CASE cmd = "stop"
  <2>1. UdpAfter(cmd, r, i) = [udp EXCEPT ![r][i] = SwitchOff(s)]
    BY <1>8 DEF UdpAfter, s
  <2> QED BY <1>a, <2>1, OneService
<1>9. CASE cmd = "disable_now"
  <2>1. UdpAfter(cmd, r, i) = [udp EXCEPT ![r][i] = [SwitchOff(s) EXCEPT !.boot = FALSE]]
    BY <1>9 DEF UdpAfter, s
  <2> QED BY <1>a, <2>1, OneService
<1>10. CASE cmd = "remove"
  <2>1. UdpAfter(cmd, r, i) = [udp EXCEPT ![r][i] = [s EXCEPT !.line = 0]]
    BY <1>10 DEF UdpAfter, RemoveLine, s
  <2> QED BY <1>a, <2>1, OneService
<1>11. CASE cmd = "restore_file"
  <2> DEFINE row == [j \in MwInst |-> [udp[r][j] EXCEPT !.line = mwOp.udp[r][j].line]]
  <2>1. UdpAfter(cmd, r, i) = [udp EXCEPT ![r] = row]
    BY <1>11 DEF UdpAfter
  <2>2. ASSUME NEW j \in MwInst
        PROVE  Sound(row[j]) /\ row[j].line = mwOp.udp[r][j].line
    <3>1. mwOp.udp[r][j].line \in Entry
      BY <1>0 DEF Services, Service
    <3> QED BY <1>0, <3>1, ServiceCommands
  <2>3. row \in [MwInst -> Service]
    BY <2>2 DEF Sound
  <2> HIDE DEF row
  <2> DEFINE u == [udp EXCEPT ![r] = row]
  <2>4. u \in Services
    BY <1>0, <2>3 DEF Services
  <2>5. \A q \in Role : u[q] = IF q = r THEN row ELSE udp[q]
    BY <1>0 DEF Services
  <2> HIDE DEF u
  <2>6. UdpFine(u, i)
    BY <1>0, <2>2, <2>4, <2>5 DEF UdpFine
  <2> QED BY <2>1, <2>6 DEF u
<1>12. CASE cmd \notin {"upsert", "write_init", "unlink_init", "enable", "disable", "restart",
                        "start_again", "start", "stop", "disable_now", "remove", "restore_file"}
  <2>1. UdpAfter(cmd, r, i) = udp
    BY <1>12 DEF UdpAfter
  <2> QED BY <1>0, <2>1 DEF UdpFine
<1> QED BY <1>1, <1>2, <1>3, <1>4, <1>5, <1>6, <1>7, <1>8, <1>9, <1>10, <1>11, <1>12

\* The mimic service after a command about instance i.
MimicFine(m, i) ==
  /\ m \in MimicHost
  /\ \A j \in MwInst \ {i} : m.snippet[j] = mimic.snippet[j]

\* Loading and unloading it leaves the files alone.
LEMMA LoadKeeps ==
  ASSUME NEW m \in MimicHost
  PROVE  /\ LoadMimic(m) \in MimicHost /\ UnloadMimic(m) \in MimicHost
         /\ LoadMimic(m).snippet = m.snippet /\ LoadMimic(m).base = m.base
         /\ UnloadMimic(m).snippet = m.snippet /\ UnloadMimic(m).base = m.base
         /\ [UnloadMimic(m) EXCEPT !.boot = FALSE] \in MimicHost
         /\ [UnloadMimic(m) EXCEPT !.boot = FALSE].snippet = m.snippet
         /\ [UnloadMimic(m) EXCEPT !.boot = FALSE].base = m.base
<1>1. Nobody \in [MwInst -> Entry]
  BY Entries DEF Nobody
<1>2. /\ UnloadMimic(m) \in MimicHost
      /\ UnloadMimic(m).snippet = m.snippet /\ UnloadMimic(m).base = m.base
  BY <1>1 DEF UnloadMimic, MimicHost
<1>3. /\ LoadMimic(m) \in MimicHost
      /\ LoadMimic(m).snippet = m.snippet /\ LoadMimic(m).base = m.base
  <2>1. [m EXCEPT !.on = TRUE, !.loaded = m.block] \in MimicHost
    BY DEF MimicHost
  <2>2. /\ [m EXCEPT !.on = TRUE, !.loaded = m.block].snippet = m.snippet
        /\ [m EXCEPT !.on = TRUE, !.loaded = m.block].base = m.base
    BY DEF MimicHost
  <2> QED BY <1>2, <2>1, <2>2 DEF LoadMimic, UnloadMimic
<1>4. \A q \in MimicHost : /\ [q EXCEPT !.boot = FALSE] \in MimicHost
                           /\ [q EXCEPT !.boot = FALSE].snippet = q.snippet
                           /\ [q EXCEPT !.boot = FALSE].base = q.base
  BY DEF MimicHost
<1> QED BY <1>2, <1>3, <1>4

\* Every mimic command; the administrator's text goes with one of them only.
LEMMA MimicEffect ==
  ASSUME MwTypeOK, NEW cmd, NEW i
  PROVE  /\ MimicFine(MimicAfter(cmd, i), i)
         /\ cmd # "unlink_system" => MimicAfter(cmd, i).base \in {mimic.base, mwOp.mimic.base}
         /\ MimicAfter(cmd, i).base \in {mimic.base, mwOp.mimic.base, FALSE}
<1> DEFINE m == MimicAfter(cmd, i)
<1>0. mimic \in MimicHost /\ mwOp.mimic \in MimicHost /\ mwOp.args \in Entry
  BY DEF MwTypeOK, MwOperation
<1>s. ASSUME NEW v, i \in MwInst => v \in Entry, m = [mimic EXCEPT !.snippet[i] = v]
      PROVE  MimicFine(m, i) /\ m.base = mimic.base
  <2> DEFINE sn == [mimic.snippet EXCEPT ![i] = v]
  <2>1. sn \in [MwInst -> Entry] /\ \A j \in MwInst \ {i} : sn[j] = mimic.snippet[j]
    BY <1>0, <1>s DEF MimicHost
  <2>2. m = [mimic EXCEPT !.snippet = sn]
    BY <1>s
  <2> HIDE DEF sn, m
  <2>3. m \in MimicHost /\ m.snippet = sn /\ m.base = mimic.base
    BY <1>0, <2>1, <2>2 DEF MimicHost
  <2> QED BY <2>1, <2>3 DEF MimicFine
<1>1. CASE cmd = "snippet"
  BY <1>0, <1>1, <1>s DEF MimicAfter
<1>2. CASE cmd = "unlink_snippet"
  BY <1>2, <1>s, Entries DEF MimicAfter
<1>3. CASE cmd = "restore_snippet"
  <2>1. i \in MwInst => mwOp.mimic.snippet[i] \in Entry
    BY <1>0 DEF MimicHost
  <2>2. m = [mimic EXCEPT !.snippet[i] = mwOp.mimic.snippet[i]]
    BY <1>3 DEF MimicAfter
  <2> QED BY <1>3, <1>s, <2>1, <2>2
<1>4. CASE cmd = "system"
  <2>1. m = [mimic EXCEPT !.block = mimic.snippet]
    BY <1>4 DEF MimicAfter, Rendered
  <2> HIDE DEF m
  <2>2. m \in MimicHost /\ m.snippet = mimic.snippet /\ m.base = mimic.base
    BY <1>0, <2>1 DEF MimicHost
  <2> QED BY <2>2 DEF MimicFine, m
<1>5. CASE cmd = "unlink_system"
  <2>1. m = [mimic EXCEPT !.block = Nobody, !.base = FALSE]
    BY <1>5 DEF MimicAfter
  <2>2. Nobody \in [MwInst -> Entry]
    BY Entries DEF Nobody
  <2> HIDE DEF m
  <2>3. m \in MimicHost /\ m.snippet = mimic.snippet /\ m.base = FALSE
    BY <1>0, <2>1, <2>2 DEF MimicHost
  <2> QED BY <1>5, <2>3 DEF MimicFine, m
<1>6. CASE cmd = "enable"
  <2>1. m = [mimic EXCEPT !.boot = TRUE]
    BY <1>6 DEF MimicAfter
  <2> HIDE DEF m
  <2>2. m \in MimicHost /\ m.snippet = mimic.snippet /\ m.base = mimic.base
    BY <1>0, <2>1 DEF MimicHost
  <2> QED BY <2>2 DEF MimicFine, m
<1>7. CASE cmd = "restore_system"
  <2>1. m = [mimic EXCEPT !.block = mwOp.mimic.block, !.base = mwOp.mimic.base]
    BY <1>7 DEF MimicAfter
  <2>2. mwOp.mimic.block \in [MwInst -> Entry] /\ mwOp.mimic.base \in BOOLEAN
    BY <1>0 DEF MimicHost
  <2> HIDE DEF m
  <2>3. m \in MimicHost /\ m.snippet = mimic.snippet /\ m.base = mwOp.mimic.base
    BY <1>0, <2>1, <2>2 DEF MimicHost
  <2> QED BY <2>3 DEF MimicFine, m
<1>8. CASE cmd \in {"restart", "start_again", "start", "stop", "stop_again", "disable_now"}
  <2>1. m \in {mimic, LoadMimic(mimic), UnloadMimic(mimic), [UnloadMimic(mimic) EXCEPT !.boot = FALSE]}
    BY <1>8 DEF MimicAfter
  <2> HIDE DEF m
  <2>2. m \in MimicHost /\ m.snippet = mimic.snippet /\ m.base = mimic.base
    BY <1>0, <2>1, LoadKeeps
  <2> QED BY <2>2 DEF MimicFine, m
<1>9. CASE cmd \notin {"snippet", "unlink_snippet", "restore_snippet", "system", "unlink_system",
                       "enable", "restore_system", "restart", "start_again", "start", "stop",
                       "stop_again", "disable_now"}
  <2>1. m = mimic
    BY <1>9 DEF MimicAfter
  <2> QED BY <1>0, <2>1 DEF MimicFine
<1> QED BY <1>1, <1>2, <1>3, <1>4, <1>5, <1>6, <1>7, <1>8, <1>9

\* What is installed stays in 0..2: none, an older release, this one.
LEMMA AssetsEffect ==
  ASSUME MwTypeOK, NEW cmd, NEW r
  PROVE  AssetsAfter(cmd, r) \in Assets
<1>0. assets \in Assets /\ mwOp.assets \in Assets
  BY DEF MwTypeOK, MwOperation
<1>1. CASE cmd \in Asset
  <2>1. cmd \notin {"put_back_binary", "put_back_services"}
    BY <1>1 DEF Asset
  <2>2. AssetsAfter(cmd, r) = [assets EXCEPT ![cmd] = 2]
    BY <1>1, <2>1 DEF AssetsAfter
  <2>3. [assets EXCEPT ![cmd] = 2] \in [Asset -> 0..2]
    BY <1>0, <1>1 DEF Assets
  <2> QED BY <2>2, <2>3 DEF Assets
<1>2. CASE cmd \notin Asset
  <2>1. mwOp.assets["binary"] \in 0..2
    BY <1>0 DEF Assets, Asset
  <2>2. [assets EXCEPT !["binary"] = mwOp.assets["binary"]] \in Assets
    BY <1>0, <2>1 DEF Assets
  <2>3. [a \in Asset |-> IF a = "binary" THEN assets[a] ELSE mwOp.assets[a]] \in Assets
    BY <1>0 DEF Assets
  <2> QED BY <1>0, <1>2, <2>2, <2>3 DEF AssetsAfter
<1> QED BY <1>1, <1>2

\* Sequences of commands, each for one role.
MwSteps == Seq(MwCommand \X Role)

\* A list of commands on the host, and one list per role.
LEMMA StepLists ==
  ASSUME NEW cmds \in Seq(MwCommand), NEW roles
  PROVE  Host(cmds) \in MwSteps /\ EachOf(roles, cmds) \in MwSteps
<1>1. ASSUME NEW r \in Role PROVE [k \in DOMAIN cmds |-> <<cmds[k], r>>] \in MwSteps
  <2> DEFINE s == [k \in 1..Len(cmds) |-> <<cmds[k], r>>]
  <2>1. \A k \in 1..Len(cmds) : <<cmds[k], r>> \in MwCommand \X Role
    OBVIOUS
  <2>2. s \in [1..Len(cmds) -> MwCommand \X Role] /\ Len(cmds) \in Nat
    BY <2>1
  <2>3. s \in Seq(MwCommand \X Role)
    BY <2>2
  <2>4. DOMAIN cmds = 1..Len(cmds)
    OBVIOUS
  <2> QED BY <2>3, <2>4 DEF MwSteps
<1>2. "server" \in Role /\ "client" \in Role
  BY DEF Role
<1>3. Host(cmds) \in MwSteps
  BY <1>1, <1>2 DEF Host
<1>4. EachOf(roles, cmds) \in MwSteps
  <2> DEFINE of(r) == IF r \in roles THEN [k \in DOMAIN cmds |-> <<cmds[k], r>>] ELSE <<>>
  <2>1. of("server") \in MwSteps /\ of("client") \in MwSteps
    BY <1>1, <1>2 DEF MwSteps
  <2>2. EachOf(roles, cmds) = of("server") \o of("client")
    BY DEF EachOf
  <2> HIDE DEF of
  <2> QED BY <2>1, <2>2 DEF MwSteps
<1> QED BY <1>3, <1>4

\* The commands of an operation, and of its rollback.
LEMMA StepsType ==
  ASSUME MwTypeOK, NEW i, NEW roles, NEW kind \in {"apply", "start", "stop", "delete", "install"}
  PROVE  StepsOf(kind, i, roles) \in MwSteps /\ MwRollback \in MwSteps
<1>0. \A s, t \in MwSteps : s \o t \in MwSteps
  BY DEF MwSteps
<1>e. <<>> \in MwSteps
  BY DEF MwSteps
<1>1. \A r : UdpApply(r) \in MwSteps
  <2>1. /\ <<"upsert", "write_init", "enable", "restart">> \in Seq(MwCommand)
        /\ <<"upsert", "reload", "enable", "restart">> \in Seq(MwCommand)
    BY DEF MwCommand
  <2> QED BY <2>1, StepLists DEF UdpApply
<1>2. UdpDelete(roles) \in MwSteps
  <2>1. /\ <<"stop", "disable">> \in Seq(MwCommand) /\ <<"disable_now">> \in Seq(MwCommand)
        /\ <<"remove", "unlink_init">> \in Seq(MwCommand) /\ <<"remove">> \in Seq(MwCommand)
        /\ <<"reload">> \in Seq(MwCommand)
    BY DEF MwCommand
  <2>2. /\ EachOf(roles, <<"stop", "disable">>) \in MwSteps
        /\ EachOf(roles, <<"disable_now">>) \in MwSteps
        /\ EachOf(roles, <<"remove", "unlink_init">>) \in MwSteps
        /\ EachOf(roles, <<"remove">>) \in MwSteps /\ Host(<<"reload">>) \in MwSteps
    BY <2>1, StepLists
  <2> QED BY <1>0, <1>e, <2>2 DEF UdpDelete
<1>3. MimicApply \in MwSteps /\ MimicDelete(i) \in MwSteps
  <2>1. /\ <<"snippet", "system", "reload", "enable", "restart">> \in Seq(MwCommand)
        /\ <<"unlink_snippet", "system", "restart">> \in Seq(MwCommand)
        /\ <<"unlink_snippet", "unlink_system", "disable_now">> \in Seq(MwCommand)
    BY DEF MwCommand
  <2> QED BY <2>1, StepLists DEF MimicApply, MimicDelete
<1>4. UdpInstall \in MwSteps
  <2>1. /\ <<"binary">> \in Seq(MwCommand)
        /\ <<"binary", "wrapper", "server_unit", "client_unit", "reload">> \in Seq(MwCommand)
    BY DEF MwCommand, Asset
  <2> QED BY <2>1, StepLists DEF UdpInstall
<1>5. kind \in {"start", "stop"} => Host(<<kind>>) \in MwSteps /\ EachOf(roles, <<kind>>) \in MwSteps
  <2>1. <<"start">> \in Seq(MwCommand) /\ <<"stop">> \in Seq(MwCommand)
    BY DEF MwCommand
  <2> QED BY <2>1, StepLists
<1>6. StepsOf(kind, i, roles) \in MwSteps
  BY <1>1, <1>2, <1>3, <1>4, <1>5 DEF StepsOf
<1>7. MwRollback \in MwSteps
  <2>1. /\ <<"put_back_binary", "put_back_services">> \in Seq(MwCommand)
        /\ <<"restore_file", "start_again">> \in Seq(MwCommand)
        /\ <<"restore_file", "reload_again", "start_again">> \in Seq(MwCommand)
        /\ <<"restore_snippet", "restore_system", "reload_again", "start_again">> \in Seq(MwCommand)
        /\ <<"restore_snippet", "restore_system", "reload_again", "stop_again">> \in Seq(MwCommand)
    BY DEF MwCommand
  <2>2. /\ Host(<<"put_back_binary", "put_back_services">>) \in MwSteps
        /\ EachOf(mwOp.roles, <<"restore_file", "start_again">>) \in MwSteps
        /\ EachOf(mwOp.roles, <<"restore_file", "reload_again", "start_again">>) \in MwSteps
        /\ Host(<<"restore_snippet", "restore_system", "reload_again", "start_again">>) \in MwSteps
        /\ Host(<<"restore_snippet", "restore_system", "reload_again", "stop_again">>) \in MwSteps
    BY <2>1, StepLists
  <2> QED BY <2>2 DEF MwRollback
<1> QED BY <1>6, <1>7

\* What the agent remembers when it has no operation.
LEMMA NoOperationType == NoMwOp \in MwOperation
<1>1. 0 \in Entry /\ 0 \in 0..2
  BY Entries
<1>2. NoService \in Service
  BY <1>1 DEF NoService, Service
<1>3. Nobody \in [MwInst -> Entry]
  BY <1>1 DEF Nobody
<1>4. [r \in Role |-> [i \in MwInst |-> NoService]] \in Services
  BY <1>2 DEF Services
<1>5. [a \in Asset |-> 0] \in Assets
  BY <1>1 DEF Assets
<1>6. <<>> \in Seq(MwCommand \X Role)
  OBVIOUS
<1>7. [base |-> FALSE, snippet |-> Nobody, block |-> Nobody, on |-> FALSE, boot |-> FALSE,
       loaded |-> Nobody] \in MimicHost
  BY <1>3 DEF MimicHost
<1> QED BY <1>1, <1>4, <1>5, <1>6, <1>7 DEF NoMwOp, MwOperation

\* A state without an operation, the host as MwInit finds it.
LEMMA MwTypeInit == MwInit => MwTypeOK
<1> SUFFICES ASSUME MwInit PROVE MwTypeOK
  OBVIOUS
<1>0. 0 \in Entry /\ 1 \in Entry /\ 0 \in 0..2 /\ 1 \in 0..2
  BY MiddlewareAssumption DEF Entry
<1>1. NoService \in Service /\ Deployed \in Service
  BY <1>0 DEF NoService, Deployed, Service
<1>2. NoService.run = 0 /\ Deployed.on
  BY DEF NoService, Deployed
<1>3. Nobody \in [MwInst -> Entry]
  BY <1>0 DEF Nobody
<1>4. [r \in Role |-> [i \in MwInst |-> NoService]] \in Services
  BY <1>1 DEF Services
<1>5. NoMwOp.mimic \in MimicHost
  BY <1>3 DEF NoMwOp, MimicHost
<1>6. [a \in Asset |-> 0] \in Assets
  BY <1>0 DEF Assets
<1>7. NoMwOp \in MwOperation
  BY NoOperationType
<1>8. udp \in Services /\ assets \in Assets /\ mimic \in MimicHost
      /\ \A r \in Role, i \in MwInst : udp[r][i].run # 0 => udp[r][i].on
  <2>1. PICK v \in {0, 1}, user \in {{}} \cup {{i} : i \in MwInst}, q \in Role, base \in BOOLEAN :
          LET entry == [i \in MwInst |-> IF i \in user THEN 1 ELSE 0]
          IN /\ v = 0 => user = {}
             /\ IF hostKind = "mimic"
                THEN /\ mimic = [base |-> base, snippet |-> entry, block |-> entry, on |-> user # {},
                                 boot |-> user # {}, loaded |-> entry]
                     /\ udp = [p \in Role |-> [i \in MwInst |-> NoService]]
                     /\ assets = [a \in Asset |-> 0]
                ELSE /\ udp = [p \in Role |-> [i \in MwInst |->
                                 IF i \in user /\ p = q THEN Deployed ELSE NoService]]
                     /\ assets = [a \in Asset |->
                                    IF hostKind = "openwrt" /\ a # "binary" THEN 0 ELSE v]
                     /\ mimic = NoMwOp.mimic
    BY DEF MwInit
  <2> DEFINE entry == [i \in MwInst |-> IF i \in user THEN 1 ELSE 0]
  <2>2. CASE hostKind = "mimic"
    <3>1. entry \in [MwInst -> Entry]
      BY <1>0
    <3>2. /\ mimic = [base |-> base, snippet |-> entry, block |-> entry, on |-> user # {},
                      boot |-> user # {}, loaded |-> entry]
          /\ udp = [p \in Role |-> [i \in MwInst |-> NoService]]
          /\ assets = [a \in Asset |-> 0]
      BY <2>1, <2>2
    <3> HIDE DEF entry
    <3>3. mimic \in MimicHost
      BY <3>1, <3>2 DEF MimicHost
    <3> QED BY <1>2, <1>4, <1>6, <3>2, <3>3
  <2>3. CASE hostKind # "mimic"
    <3>1. udp = [p \in Role |-> [i \in MwInst |-> IF i \in user /\ p = q THEN Deployed ELSE NoService]]
      BY <2>1, <2>3
    <3>2. udp \in Services
      BY <1>1, <3>1 DEF Services
    <3>3. assets = [a \in Asset |-> IF hostKind = "openwrt" /\ a # "binary" THEN 0 ELSE v]
      BY <2>1, <2>3
    <3>4. assets \in Assets
      BY <1>0, <3>3 DEF Assets
    <3>5. \A r \in Role, i \in MwInst : udp[r][i].run # 0 => udp[r][i].on
      BY <1>2, <3>1
    <3> QED BY <1>5, <2>1, <2>3, <3>2, <3>4, <3>5
  <2> QED BY <2>2, <2>3
<1>9. mwCount \in [ops : 0..MaxMwOps, faults : 0..MaxMwFaults]
  BY MiddlewareAssumption DEF MwInit
<1> QED BY <1>7, <1>8, <1>9 DEF MwInit, MwTypeOK

\* No command of the list removes the system configuration of mimic, which holds
\* the administrator's own text too.
BaseSafe(list) == \A k \in 1..Len(list) : list[k][1] # "unlink_system"

\* The files of the other instances and the administrator's text are the ones the
\* operation found, and what is left of it will not remove that text.
OthersInv ==
  mwOp.stage # "idle" =>
    /\ \A r \in Role, i \in Others : udp[r][i].line = mwOp.udp[r][i].line
    /\ \A i \in Others : mimic.snippet[i] = mwOp.mimic.snippet[i]
    /\ mimic.base = mwOp.mimic.base
    /\ hostKind = "mimic" /\ mwOp.mimic.base => BaseSafe(mwOp.todo)

\* A list of commands on the host that does not name the removal.
LEMMA HostSafe ==
  ASSUME NEW cmds \in Seq(MwCommand \ {"unlink_system"})
  PROVE  BaseSafe(Host(cmds))
<1>0. cmds \in Seq(MwCommand) /\ \A k \in 1..Len(cmds) : cmds[k] # "unlink_system"
  OBVIOUS
<1>1. Host(cmds) = [k \in 1..Len(cmds) |-> <<cmds[k], "client">>]
  BY <1>0 DEF Host
<1>2. Host(cmds) \in MwSteps
  BY <1>0, StepLists
<1>3. Len(Host(cmds)) = Len(cmds)
  BY <1>0, <1>1, <1>2 DEF MwSteps
<1> QED BY <1>0, <1>1, <1>3 DEF BaseSafe

\* Deleting an instance removes the system configuration only where the administrator
\* has no text of his own; no other operation and no rollback does.
LEMMA ListsSafe ==
  ASSUME hostKind = "mimic", NEW kind \in {"apply", "start", "stop", "delete"}, NEW i, NEW roles
  PROVE  /\ mimic.base => BaseSafe(StepsOf(kind, i, roles))
         /\ BaseSafe(MwRollback)
<1>1. ASSUME mimic.base PROVE BaseSafe(StepsOf(kind, i, roles))
  <2>1. <<"snippet", "system", "reload", "enable", "restart">> \in Seq(MwCommand \ {"unlink_system"})
        /\ <<"unlink_snippet", "system", "restart">> \in Seq(MwCommand \ {"unlink_system"})
        /\ <<"start">> \in Seq(MwCommand \ {"unlink_system"}) /\ <<"stop">> \in Seq(MwCommand \ {"unlink_system"})
    BY DEF MwCommand
  <2>2. BaseSafe(Host(<<"snippet", "system", "reload", "enable", "restart">>))
    BY <2>1, HostSafe
  <2>3. BaseSafe(Host(<<"unlink_snippet", "system", "restart">>))
    BY <2>1, HostSafe
  <2>4. BaseSafe(Host(<<"start">>)) /\ BaseSafe(Host(<<"stop">>))
    BY <2>1, HostSafe
  <2> QED BY <1>1, <2>2, <2>3, <2>4 DEF StepsOf, MimicApply, MimicDelete
<1>2. BaseSafe(MwRollback)
  <2>1. /\ <<"put_back_binary", "put_back_services">> \in Seq(MwCommand \ {"unlink_system"})
        /\ <<"restore_snippet", "restore_system", "reload_again", "start_again">> \in Seq(MwCommand \ {"unlink_system"})
        /\ <<"restore_snippet", "restore_system", "reload_again", "stop_again">> \in Seq(MwCommand \ {"unlink_system"})
    BY DEF MwCommand
  <2>2. BaseSafe(Host(<<"put_back_binary", "put_back_services">>))
    BY <2>1, HostSafe
  <2>3. BaseSafe(Host(<<"restore_snippet", "restore_system", "reload_again", "start_again">>))
    BY <2>1, HostSafe
  <2>4. BaseSafe(Host(<<"restore_snippet", "restore_system", "reload_again", "stop_again">>))
    BY <2>1, HostSafe
  <2> QED BY <2>2, <2>3, <2>4 DEF MwRollback
<1> QED BY <1>1, <1>2

\* What a command leaves behind, seen from the operation it belongs to.
LEMMA TakesEffect ==
  ASSUME MwTypeOK, OthersInv, mwOp.stage # "idle", NEW step \in MwCommand \X Role, Takes(step),
         hostKind = "mimic" /\ mwOp.mimic.base => step[1] # "unlink_system"
  PROVE  /\ udp' \in Services /\ assets' \in Assets /\ mimic' \in MimicHost
         /\ \A r \in Role, i \in MwInst : udp'[r][i].run # 0 => udp'[r][i].on
         /\ \A r \in Role, i \in Others : udp'[r][i].line = mwOp.udp[r][i].line
         /\ \A i \in Others : mimic'.snippet[i] = mwOp.mimic.snippet[i]
         /\ mimic'.base = mwOp.mimic.base
<1>0. /\ udp \in Services /\ assets \in Assets /\ mimic \in MimicHost /\ mwOp.mimic \in MimicHost
      /\ \A r \in Role, i \in MwInst : udp[r][i].run # 0 => udp[r][i].on
  BY DEF MwTypeOK, MwOperation
<1>1. /\ \A r \in Role, i \in Others : udp[r][i].line = mwOp.udp[r][i].line
      /\ \A i \in Others : mimic.snippet[i] = mwOp.mimic.snippet[i]
      /\ mimic.base = mwOp.mimic.base
  BY DEF OthersInv
<1>2. CASE hostKind = "mimic"
  <2>1. mimic' = MimicAfter(step[1], mwOp.inst) /\ udp' = udp /\ assets' = assets
    BY <1>2 DEF Takes
  <2>2. MimicFine(mimic', mwOp.inst)
    BY <2>1, MimicEffect
  <2>3. mimic'.base \in {mimic.base, mwOp.mimic.base, FALSE}
    BY <2>1, MimicEffect
  <2>4. step[1] # "unlink_system" => mimic'.base \in {mimic.base, mwOp.mimic.base}
    BY <2>1, MimicEffect
  <2>5. mimic'.base = mwOp.mimic.base
    <3>1. mwOp.mimic.base \in BOOLEAN
      BY <1>0 DEF MimicHost
    <3> QED BY <1>1, <1>2, <2>3, <2>4, <3>1
  <2>6. mimic' \in MimicHost /\ \A i \in Others : mimic'.snippet[i] = mwOp.mimic.snippet[i]
    BY <1>1, <2>2 DEF MimicFine, Others
  <2> QED BY <1>0, <1>1, <2>1, <2>5, <2>6
<1>3. CASE hostKind # "mimic" /\ mwOp.kind = "install"
  <2>1. assets' = AssetsAfter(step[1], step[2]) /\ udp' = udp /\ mimic' = mimic
    BY <1>3 DEF Takes
  <2>2. assets' \in Assets
    BY <2>1, AssetsEffect
  <2> QED BY <1>0, <1>1, <2>1, <2>2
<1>4. CASE hostKind # "mimic" /\ mwOp.kind # "install"
  <2>1. udp' = UdpAfter(step[1], step[2], mwOp.inst) /\ assets' = assets /\ mimic' = mimic
    BY <1>4 DEF Takes
  <2>2. step[2] \in Role
    OBVIOUS
  <2>3. UdpFine(udp', mwOp.inst)
    BY <2>1, <2>2, UdpEffect
  <2>4. /\ udp' \in Services /\ \A r \in Role, i \in MwInst : udp'[r][i].run # 0 => udp'[r][i].on
    BY <2>3 DEF UdpFine, Sound
  <2>5. \A r \in Role, i \in Others : udp'[r][i].line = mwOp.udp[r][i].line
    BY <1>1, <2>3 DEF UdpFine, Others
  <2> QED BY <1>0, <1>1, <2>1, <2>4, <2>5
<1> QED BY <1>2, <1>3, <1>4

\* What an operation does about a failing step: it remembers the same host, and only
\* goes on with a rollback or with the commands of delete_service.
LEMMA FailureEffect ==
  ASSUME MwTypeOK, ~ MwDone, NEW step \in MwCommand \X Role
  PROVE  LET f == MwFailure(step) IN
         /\ f \in MwOperation /\ f.stage # "idle" /\ f.inst = mwOp.inst
         /\ f.udp = mwOp.udp /\ f.mimic = mwOp.mimic
         /\ hostKind = "mimic" => BaseSafe(f.todo)
<1> DEFINE f == MwFailure(step)
<1>0. mwOp \in MwOperation
  BY DEF MwTypeOK
<1>1. MwRollback \in Seq(MwCommand \X Role)
  BY StepsType DEF MwSteps
<1>2. <<<<"disable", step[2]>>, <<"raise", step[2]>>>> \in Seq(MwCommand \X Role)
  BY DEF MwCommand
<1>3. <<>> \in Seq(MwCommand \X Role)
  OBVIOUS
<1>4. CASE f = [mwOp EXCEPT !.stage = "rollback", !.todo = MwRollback]
  <2>1. hostKind = "mimic" => BaseSafe(MwRollback)
    BY ListsSafe
  <2> HIDE DEF f
  <2>2. /\ f \in MwOperation /\ f.stage = "rollback" /\ f.inst = mwOp.inst
        /\ f.udp = mwOp.udp /\ f.mimic = mwOp.mimic /\ f.todo = MwRollback
    BY <1>0, <1>1, <1>4 DEF MwOperation
  <2> QED BY <2>1, <2>2 DEF f
<1>5. CASE /\ f = [mwOp EXCEPT !.todo = <<<<"disable", step[2]>>, <<"raise", step[2]>>>>, !.clean = FALSE]
           /\ hostKind = "openwrt"
  <2> HIDE DEF f
  <2>1. /\ f \in MwOperation /\ f.stage = mwOp.stage /\ f.inst = mwOp.inst
        /\ f.udp = mwOp.udp /\ f.mimic = mwOp.mimic
    BY <1>0, <1>2, <1>5 DEF MwOperation
  <2> QED BY <1>5, <2>1 DEF f, MwDone
<1>6. CASE f = [mwOp EXCEPT !.stage = "failed", !.todo = <<>>, !.clean = FALSE]
  <2> HIDE DEF f
  <2>1. /\ f \in MwOperation /\ f.stage = "failed" /\ f.inst = mwOp.inst
        /\ f.udp = mwOp.udp /\ f.mimic = mwOp.mimic /\ f.todo = <<>>
    BY <1>0, <1>3, <1>6 DEF MwOperation
  <2>2. BaseSafe(f.todo)
    BY <2>1 DEF BaseSafe
  <2> QED BY <2>1, <2>2 DEF f
<1>7. \/ f = [mwOp EXCEPT !.stage = "rollback", !.todo = MwRollback]
      \/ /\ f = [mwOp EXCEPT !.todo = <<<<"disable", step[2]>>, <<"raise", step[2]>>>>, !.clean = FALSE]
         /\ hostKind = "openwrt"
      \/ f = [mwOp EXCEPT !.stage = "failed", !.todo = <<>>, !.clean = FALSE]
  BY DEF MwFailure
<1> QED BY <1>4, <1>5, <1>6, <1>7

\* The list of commands left when the first one is done.
LEMMA RestOfList ==
  ASSUME MwTypeOK, mwOp.todo # <<>>
  PROVE  /\ Head(mwOp.todo) \in MwCommand \X Role /\ Tail(mwOp.todo) \in Seq(MwCommand \X Role)
         /\ BaseSafe(mwOp.todo) => Head(mwOp.todo)[1] # "unlink_system" /\ BaseSafe(Tail(mwOp.todo))
<1>1. mwOp.todo \in Seq(MwCommand \X Role)
  BY DEF MwTypeOK, MwOperation
<1> DEFINE t == mwOp.todo
<1> HIDE DEF t
<1>2. t \in Seq(MwCommand \X Role) /\ t # <<>>
  BY <1>1 DEF t
<1>3. /\ Head(t) \in MwCommand \X Role /\ Tail(t) \in Seq(MwCommand \X Role)
      /\ Head(t) = t[1] /\ Len(t) > 0 /\ Len(Tail(t)) = Len(t) - 1
      /\ \A k \in 1..Len(Tail(t)) : Tail(t)[k] = t[k + 1]
  BY <1>2
<1>4. BaseSafe(t) => Head(t)[1] # "unlink_system" /\ BaseSafe(Tail(t))
  BY <1>2, <1>3 DEF BaseSafe
<1> QED BY <1>3, <1>4 DEF t

\* What an action leaves the operation as: the same task with the same picture of the
\* host before it, and a list without the removal wherever that matters.
SameOperation(o) ==
  /\ o \in MwOperation /\ o.stage # "idle" /\ o.inst = mwOp.inst
  /\ o.udp = mwOp.udp /\ o.mimic = mwOp.mimic
  /\ hostKind = "mimic" /\ mwOp.mimic.base => BaseSafe(o.todo)

\* A step that leaves the operation the same, and the host as a command leaves it.
LEMMA SameKept ==
  ASSUME MwTypeOK, OthersInv, mwOp.stage # "idle", SameOperation(mwOp'),
         hostKind' = hostKind, rejected' = rejected,
         mwCount' \in [ops : 0..MaxMwOps, faults : 0..MaxMwFaults],
         udp' \in Services, assets' \in Assets, mimic' \in MimicHost,
         \A r \in Role, i \in MwInst : udp'[r][i].run # 0 => udp'[r][i].on,
         \A r \in Role, i \in Others : udp'[r][i].line = mwOp.udp[r][i].line,
         \A i \in Others : mimic'.snippet[i] = mwOp.mimic.snippet[i],
         mimic'.base = mwOp.mimic.base
  PROVE  MwTypeOK' /\ OthersInv'
<1>1. MwTypeOK'
  BY DEF MwTypeOK, SameOperation
<1>2. Others' = Others
  BY DEF Others, SameOperation
<1> QED BY <1>1, <1>2 DEF OthersInv, SameOperation

\* One command of an operation, whatever becomes of it.
LEMMA OneCommand ==
  ASSUME MwTypeOK, OthersInv, ~ MwDone, mwOp.todo # <<>>,
         NEW step, step = Head(mwOp.todo), Takes(step) \/ UNCHANGED <<udp, assets, mimic>>,
         \/ mwOp' = [mwOp EXCEPT !.todo = Tail(@)]
         \/ mwOp' = [mwOp EXCEPT !.todo = Tail(@), !.clean = FALSE]
         \/ mwOp' = MwFailure(step),
         hostKind' = hostKind, rejected' = rejected,
         mwCount' \in [ops : 0..MaxMwOps, faults : 0..MaxMwFaults]
  PROVE  MwTypeOK' /\ OthersInv'
<1>0. mwOp \in MwOperation /\ mwOp.stage # "idle"
  BY DEF MwTypeOK, MwDone
<1>1. step \in MwCommand \X Role /\ Tail(mwOp.todo) \in Seq(MwCommand \X Role)
  BY RestOfList
<1>2. hostKind = "mimic" /\ mwOp.mimic.base =>
        step[1] # "unlink_system" /\ BaseSafe(Tail(mwOp.todo))
  BY <1>0, RestOfList DEF OthersInv
<1>3. SameOperation(mwOp')
  <2>1. CASE mwOp' = [mwOp EXCEPT !.todo = Tail(@)]
    <3>1. /\ mwOp' \in MwOperation /\ mwOp'.stage = mwOp.stage /\ mwOp'.inst = mwOp.inst
          /\ mwOp'.udp = mwOp.udp /\ mwOp'.mimic = mwOp.mimic /\ mwOp'.todo = Tail(mwOp.todo)
      BY <1>0, <1>1, <2>1 DEF MwOperation
    <3> QED BY <1>0, <1>2, <3>1 DEF SameOperation
  <2>2. CASE mwOp' = [mwOp EXCEPT !.todo = Tail(@), !.clean = FALSE]
    <3>1. /\ mwOp' \in MwOperation /\ mwOp'.stage = mwOp.stage /\ mwOp'.inst = mwOp.inst
          /\ mwOp'.udp = mwOp.udp /\ mwOp'.mimic = mwOp.mimic /\ mwOp'.todo = Tail(mwOp.todo)
      BY <1>0, <1>1, <2>2 DEF MwOperation
    <3> QED BY <1>0, <1>2, <3>1 DEF SameOperation
  <2>3. CASE mwOp' = MwFailure(step)
    BY <1>1, <2>3, FailureEffect DEF SameOperation
  <2> QED BY <2>1, <2>2, <2>3
<1>4. /\ udp' \in Services /\ assets' \in Assets /\ mimic' \in MimicHost
      /\ \A r \in Role, i \in MwInst : udp'[r][i].run # 0 => udp'[r][i].on
      /\ \A r \in Role, i \in Others : udp'[r][i].line = mwOp.udp[r][i].line
      /\ \A i \in Others : mimic'.snippet[i] = mwOp.mimic.snippet[i]
      /\ mimic'.base = mwOp.mimic.base
  <2>1. CASE Takes(step)
    BY <1>0, <1>1, <1>2, <2>1, TakesEffect
  <2>2. CASE UNCHANGED <<udp, assets, mimic>>
    BY <1>0, <2>2 DEF MwTypeOK, OthersInv
  <2> QED BY <2>1, <2>2
<1> QED BY <1>0, <1>3, <1>4, SameKept

\* The start of an operation, which remembers the host as it is.
LEMMA BeginKeeps ==
  ASSUME MwTypeOK, NEW kind \in {"apply", "start", "stop", "delete", "install"},
         NEW i \in MwInst \cup {NoInst}, NEW roles \in SUBSET Role, NEW v \in Entry,
         BeginMw(kind, i, roles, v), kind = "install" => hostKind # "mimic"
  PROVE  MwTypeOK' /\ OthersInv'
<1>1. StepsOf(kind, i, roles) \in Seq(MwCommand \X Role)
  BY StepsType DEF MwSteps
<1>2. mwOp' = [kind |-> kind, inst |-> i, roles |-> roles, args |-> v,
               todo |-> StepsOf(kind, i, roles), stage |-> "before", clean |-> TRUE,
               udp |-> udp, mimic |-> mimic, assets |-> assets]
      /\ udp' = udp /\ mimic' = mimic /\ assets' = assets /\ hostKind' = hostKind
      /\ rejected' = rejected
  BY DEF BeginMw
<1>3. mwOp' \in MwOperation
  BY <1>1, <1>2 DEF MwTypeOK, MwOperation
<1>4. mwCount' \in [ops : 0..MaxMwOps, faults : 0..MaxMwFaults]
  BY MiddlewareAssumption DEF BeginMw, MwTypeOK
<1>5. MwTypeOK'
  BY <1>2, <1>3, <1>4 DEF MwTypeOK
<1>6. hostKind = "mimic" /\ mimic.base => BaseSafe(StepsOf(kind, i, roles))
  BY ListsSafe
<1>7. OthersInv'
  BY <1>2, <1>6 DEF OthersInv
<1> QED BY <1>5, <1>7

\* A process that is started again, and a boot of the host.
LEMMA ServicesStart ==
  ASSUME MwTypeOK
  PROVE  /\ \A r \in Role, i \in MwInst :
              /\ Sound(SwitchOn(udp[r][i])) /\ Sound(SwitchOff(udp[r][i]))
              /\ SwitchOn(udp[r][i]).line = udp[r][i].line
<1>1. SUFFICES ASSUME NEW r \in Role, NEW i \in MwInst
               PROVE  /\ Sound(SwitchOn(udp[r][i])) /\ Sound(SwitchOff(udp[r][i]))
                      /\ SwitchOn(udp[r][i]).line = udp[r][i].line
  OBVIOUS
<1>2. Sound(udp[r][i])
  BY DEF MwTypeOK, Services, Sound
<1> QED BY <1>2, Entries, ServiceCommands

\* Every action keeps the types and the others' files.
LEMMA OthersStep == MwTypeOK /\ OthersInv /\ [MwNext]_mwVars => MwTypeOK' /\ OthersInv'
<1> SUFFICES ASSUME MwTypeOK, OthersInv, [MwNext]_mwVars PROVE MwTypeOK' /\ OthersInv'
  OBVIOUS
<1>0. /\ mwCount \in [ops : 0..MaxMwOps, faults : 0..MaxMwFaults] /\ mwOp \in MwOperation
      /\ 0 \in Entry /\ Args \subseteq Entry
  BY Entries DEF MwTypeOK
<1>m. \A S \in SUBSET (SUBSET Role) : Modes(S) \subseteq SUBSET Role
  BY DEF Modes
<1>n. NoMwOp \in MwOperation /\ NoMwOp.stage = "idle"
  BY NoOperationType DEF NoMwOp
<1>1. CASE \E i \in MwInst, v \in Args : \E roles \in Modes({{"server"}, {"client"}}) :
             BeginMw("apply", i, roles, v)
  <2>1. PICK i \in MwInst, v \in Args, roles \in Modes({{"server"}, {"client"}}) :
          BeginMw("apply", i, roles, v)
    BY <1>1
  <2>2. roles \in SUBSET Role
    BY <1>m DEF Role
  <2> QED BY <1>0, <2>1, <2>2, BeginKeeps
<1>2. CASE \E i \in MwInst, kind \in {"start", "stop", "delete"} :
             \E roles \in Modes({{"server"}, {"client"}, RolesOf(i)}) : BeginMw(kind, i, roles, 0)
  <2>a. PICK i \in MwInst, kind \in {"start", "stop", "delete"} :
          \E roles \in Modes({{"server"}, {"client"}, RolesOf(i)}) : BeginMw(kind, i, roles, 0)
    BY <1>2
  <2>1. PICK roles \in Modes({{"server"}, {"client"}, RolesOf(i)}) : BeginMw(kind, i, roles, 0)
    BY <2>a
  <2>2. RolesOf(i) \in SUBSET Role
    BY DEF RolesOf
  <2>3. {{"server"}, {"client"}, RolesOf(i)} \in SUBSET (SUBSET Role)
    BY <2>2 DEF Role
  <2>4. roles \in SUBSET Role
    BY <1>m, <2>3
  <2> QED BY <1>0, <2>1, <2>4, BeginKeeps
<1>3. CASE hostKind # "mimic" /\ BeginMw("install", NoInst, {}, 0)
  BY <1>0, <1>3, BeginKeeps
<1>4. CASE MwStep
  <2> DEFINE step == Head(mwOp.todo)
  <2>1. /\ ~ MwDone /\ mwOp.todo # <<>>
        /\ hostKind' = hostKind /\ rejected' = rejected /\ mwCount' = mwCount
    BY <1>4 DEF MwStep
  <2>2. Takes(step) \/ UNCHANGED <<udp, assets, mimic>>
    BY <1>4 DEF MwStep
  <2>3. mwOp' = [mwOp EXCEPT !.todo = Tail(@)] \/ mwOp' = MwFailure(step)
    BY <1>4 DEF MwStep
  <2> HIDE DEF step
  <2>4. step = Head(mwOp.todo)
    BY DEF step
  <2> QED BY <1>0, <2>1, <2>2, <2>3, <2>4, OneCommand
<1>5. CASE MwStepFails
  <2> DEFINE step == Head(mwOp.todo)
  <2>1. /\ ~ MwDone /\ mwOp.todo # <<>> /\ hostKind' = hostKind /\ rejected' = rejected
    BY <1>5 DEF MwStepFails
  <2>2. Takes(step) \/ UNCHANGED <<udp, assets, mimic>>
    BY <1>5 DEF MwStepFails
  <2>3. mwOp' = [mwOp EXCEPT !.todo = Tail(@), !.clean = FALSE] \/ mwOp' = MwFailure(step)
    BY <1>5 DEF MwStepFails
  <2>4. mwCount' \in [ops : 0..MaxMwOps, faults : 0..MaxMwFaults]
    BY <1>0, <1>5, MiddlewareAssumption DEF MwStepFails
  <2> HIDE DEF step
  <2>5. step = Head(mwOp.todo)
    BY DEF step
  <2> QED BY <2>1, <2>2, <2>3, <2>4, <2>5, OneCommand
<1>6. CASE MwFinish
  <2>1. /\ mwOp' = [mwOp EXCEPT !.stage = IF @ = "rollback" THEN "restored" ELSE "ok"]
        /\ mwOp.stage # "idle" /\ UNCHANGED <<hostKind, rejected, udp, assets, mimic, mwCount>>
    BY <1>6 DEF MwFinish, MwDone
  <2>2. /\ mwOp' \in MwOperation /\ mwOp'.stage \in {"restored", "ok"} /\ mwOp'.inst = mwOp.inst
        /\ mwOp'.udp = mwOp.udp /\ mwOp'.mimic = mwOp.mimic /\ mwOp'.todo = mwOp.todo
    BY <1>0, <2>1 DEF MwOperation
  <2>3. SameOperation(mwOp')
    BY <2>1, <2>2 DEF SameOperation, OthersInv
  <2>4. MwTypeOK'
    BY <2>1, <2>2 DEF MwTypeOK
  <2>5. OthersInv'
    BY <2>1, <2>2 DEF OthersInv, Others
  <2> QED BY <2>4, <2>5
<1>7. CASE AgentKilled
  <2>1. /\ mwOp' = NoMwOp /\ UNCHANGED <<hostKind, rejected, udp, assets, mimic>>
        /\ mwCount' \in [ops : 0..MaxMwOps, faults : 0..MaxMwFaults]
    BY <1>0, <1>7, MiddlewareAssumption DEF AgentKilled
  <2>2. MwTypeOK'
    BY <1>n, <2>1 DEF MwTypeOK
  <2> QED BY <1>n, <2>1, <2>2 DEF OthersInv
<1>8. CASE HostReboots
  <2>1. /\ mwOp' = NoMwOp /\ UNCHANGED <<hostKind, rejected, assets>>
        /\ mwCount' \in [ops : 0..MaxMwOps, faults : 0..MaxMwFaults]
    BY <1>0, <1>8, MiddlewareAssumption DEF HostReboots
  <2>2. mimic' \in MimicHost
    BY <1>8, LoadKeeps DEF HostReboots, MwTypeOK
  <2>3. udp' = [r \in Role |-> [i \in MwInst |->
                 IF udp[r][i].boot THEN SwitchOn(udp[r][i]) ELSE SwitchOff(udp[r][i])]]
    BY <1>8 DEF HostReboots
  <2>4. \A r \in Role, i \in MwInst : Sound(udp'[r][i])
    BY <2>3, ServicesStart
  <2>5. udp' \in Services
    <3>1. \A r \in Role, i \in MwInst :
            (IF udp[r][i].boot THEN SwitchOn(udp[r][i]) ELSE SwitchOff(udp[r][i])) \in Service
      BY ServicesStart DEF Sound
    <3> QED BY <2>3, <3>1 DEF Services
  <2>6. MwTypeOK'
    BY <1>n, <2>1, <2>2, <2>4, <2>5 DEF MwTypeOK, Sound
  <2> QED BY <1>n, <2>1, <2>6 DEF OthersInv
<1>9. CASE \E r \in Role, i \in MwInst : ServiceRespawns(r, i)
  <2>1. PICK r \in Role, i \in MwInst : ServiceRespawns(r, i)
    BY <1>9
  <2>2. /\ udp' = [udp EXCEPT ![r][i] = SwitchOn(udp[r][i])]
        /\ UNCHANGED <<hostKind, rejected, assets, mimic, mwOp, mwCount>>
    BY <2>1 DEF ServiceRespawns
  <2>3. Sound(SwitchOn(udp[r][i])) /\ SwitchOn(udp[r][i]).line = udp[r][i].line
    BY ServicesStart
  <2>4. udp' \in Services /\ \A q \in Role, j \in MwInst : Sound(udp'[q][j])
    BY <2>2, <2>3, OneService DEF UdpFine
  <2>5. \A q \in Role, j \in MwInst : udp'[q][j].line = udp[q][j].line
    BY <2>2, <2>3 DEF MwTypeOK, Services
  <2>6. MwTypeOK'
    BY <2>2, <2>4 DEF MwTypeOK, Sound
  <2>7. OthersInv'
    BY <2>2, <2>5 DEF OthersInv, Others
  <2> QED BY <2>6, <2>7
<1>10. CASE UNCHANGED mwVars
  BY <1>10 DEF mwVars, MwTypeOK, OthersInv, Others
<1> QED BY <1>1, <1>2, <1>3, <1>4, <1>5, <1>6, <1>7, <1>8, <1>9, <1>10 DEF MwNext

\* At the start there is no operation.
LEMMA OthersInit == MwInit => MwTypeOK /\ OthersInv
<1>1. MwInit => mwOp = NoMwOp
  BY DEF MwInit
<1>2. NoMwOp.stage = "idle"
  BY DEF NoMwOp
<1> QED BY <1>1, <1>2, MwTypeInit DEF OthersInv

\* The state of the middleware always has its type, and a process runs only for a
\* service that is on: whatever the instances, the parameters and the bounds.
THEOREM MwTypeCorrect == MwSpec => []MwTypeOK
<1>1. MwInit => MwTypeOK /\ OthersInv
  BY OthersInit
<1> QED BY <1>1, OthersStep, PTL DEF MwSpec

\* An operation of the middleware on one link's instance, its failure and its rollback
\* leave the lines and snippets of all others and the administrator's text as they were.
THEOREM OthersAlwaysKept == MwSpec => []OthersKept
<1>1. MwInit => MwTypeOK /\ OthersInv
  BY OthersInit
<1>2. OthersInv => OthersKept
  BY DEF OthersInv, OthersKept
<1> QED BY <1>1, <1>2, OthersStep, PTL DEF MwSpec

-----------------------------------------------------------------------------
(* Lists of commands: what is in them and in which order, as in             *)
(* AgentHostProofs.                                                        *)

\* The command is still to be given; every a comes before every b.
In(s, c)        == \E k \in 1..Len(s) : s[k] = c
Before(s, a, b) == \A j, k \in 1..Len(s) : s[j] = a /\ s[k] = b => j < k

\* One command fewer.
LEMMA OneFewer ==
  ASSUME NEW S, NEW s \in Seq(S), s # <<>>
  PROVE  LET h == Head(s) t == Tail(s) IN
         /\ h \in S /\ t \in Seq(S)
         /\ \A c : In(s, c) <=> In(t, c) \/ c = h
         /\ \A a, b : Before(s, a, b) =>
              /\ Before(t, a, b)
              /\ h = b => ~ In(s, a)
              /\ h = a /\ In(s, b) => In(t, b)
<1> DEFINE h == Head(s)
<1> DEFINE t == Tail(s)
<1>1. /\ h \in S /\ t \in Seq(S) /\ h = s[1] /\ Len(s) \in Nat /\ Len(s) > 0
      /\ Len(t) = Len(s) - 1 /\ \A k \in 1..Len(t) : t[k] = s[k + 1]
  OBVIOUS
<1> HIDE DEF h, t
<1>2. ASSUME NEW k \in 1..Len(s) PROVE k = 1 \/ (k - 1 \in 1..Len(t) /\ t[k - 1] = s[k])
  BY <1>1
<1>3. \A k \in 1..Len(t) : k + 1 \in 1..Len(s) /\ t[k] = s[k + 1]
  BY <1>1
<1>4. ASSUME NEW c PROVE In(s, c) <=> In(t, c) \/ c = h
  <2>1. In(s, c) => In(t, c) \/ c = h
    BY <1>1, <1>2 DEF In
  <2>2. In(t, c) => In(s, c)
    BY <1>3 DEF In
  <2>3. In(s, h)
    BY <1>1 DEF In
  <2> QED BY <2>1, <2>2, <2>3
<1>5. ASSUME NEW a, NEW b, Before(s, a, b)
      PROVE  /\ Before(t, a, b) /\ (h = b => ~ In(s, a)) /\ (h = a /\ In(s, b) => In(t, b))
  <2>1. Before(t, a, b)
    BY <1>1, <1>3, <1>5 DEF Before
  <2>a. 1 \in 1..Len(s)
    BY <1>1
  <2>b. \A j, k \in 1..Len(s) : s[j] = a /\ s[k] = b => j < k
    BY <1>5 DEF Before
  <2>2. ASSUME h = b, In(s, a) PROVE FALSE
    <3>1. PICK j \in 1..Len(s) : s[j] = a
      BY <2>2 DEF In
    <3>2. j < 1
      BY <1>1, <2>2, <2>a, <2>b, <3>1
    <3> QED BY <3>2
  <2>3. ASSUME h = a, In(s, b) PROVE In(t, b)
    <3>1. PICK k \in 1..Len(s) : s[k] = b
      BY <2>3 DEF In
    <3>2. 1 < k
      BY <1>1, <2>3, <2>a, <2>b, <3>1
    <3> QED BY <1>2, <3>1, <3>2 DEF In
  <2> QED BY <2>1, <2>2, <2>3
<1> QED BY <1>1, <1>4, <1>5 DEF h, t

\* Short lists and lists put together.
LEMMA InLists ==
  /\ \A c : ~ In(<<>>, c)
  /\ \A x, c : In(<<x>>, c) <=> c = x
  /\ \A x, y, c : In(<<x, y>>, c) <=> c \in {x, y}
  /\ \A x, y, z, c : In(<<x, y, z>>, c) <=> c \in {x, y, z}
<1>1. \A c : ~ In(<<>>, c)
  BY DEF In
<1>2. ASSUME NEW x, NEW c PROVE In(<<x>>, c) <=> c = x
  BY DEF In
<1>3. ASSUME NEW x, NEW y, NEW c PROVE In(<<x, y>>, c) <=> c \in {x, y}
  <2>1. Len(<<x, y>>) = 2 /\ <<x, y>>[1] = x /\ <<x, y>>[2] = y
    OBVIOUS
  <2>2. 1 \in 1..2 /\ 2 \in 1..2 /\ \A k \in 1..2 : k = 1 \/ k = 2
    OBVIOUS
  <2> QED BY <2>1, <2>2 DEF In
<1>4. ASSUME NEW x, NEW y, NEW z, NEW c PROVE In(<<x, y, z>>, c) <=> c \in {x, y, z}
  <2>1. Len(<<x, y, z>>) = 3 /\ <<x, y, z>>[1] = x /\ <<x, y, z>>[2] = y /\ <<x, y, z>>[3] = z
    OBVIOUS
  <2>2. 1 \in 1..3 /\ 2 \in 1..3 /\ 3 \in 1..3 /\ \A k \in 1..3 : k = 1 \/ k = 2 \/ k = 3
    OBVIOUS
  <2> QED BY <2>1, <2>2 DEF In
<1> QED BY <1>1, <1>2, <1>3, <1>4

\* A list after another one.
LEMMA InJoined ==
  ASSUME NEW S, NEW s \in Seq(S), NEW t \in Seq(S)
  PROVE  /\ s \o t \in Seq(S)
         /\ \A c : In(s \o t, c) <=> In(s, c) \/ In(t, c)
         /\ \A a, b : ~ In(s, b) /\ ~ In(t, a) => Before(s \o t, a, b)
         /\ \A a, b : ~ In(s, a) /\ ~ In(s, b) /\ Before(t, a, b) => Before(s \o t, a, b)
         /\ \A c : In(s, c) => c \in S
<1> DEFINE u == s \o t
<1>1. /\ u \in Seq(S) /\ Len(u) = Len(s) + Len(t) /\ Len(s) \in Nat /\ Len(t) \in Nat
      /\ \A j \in 1..Len(s) + Len(t) : u[j] = IF j <= Len(s) THEN s[j] ELSE t[j - Len(s)]
  BY ConcatProperties
<1> HIDE DEF u
<1>a. \A j \in 1..Len(s) : j \in 1..Len(u) /\ u[j] = s[j]
  BY <1>1
<1>b. ASSUME NEW j \in 1..Len(t) PROVE Len(s) + j \in 1..Len(u) /\ u[Len(s) + j] = t[j]
  <2>1. /\ Len(s) + j \in 1..Len(s) + Len(t) /\ ~ (Len(s) + j <= Len(s))
        /\ (Len(s) + j) - Len(s) = j
    BY <1>1
  <2> QED BY <1>1, <2>1
<1>2. /\ \A j \in 1..Len(s) : j \in 1..Len(u) /\ u[j] = s[j]
      /\ \A j \in 1..Len(t) : Len(s) + j \in 1..Len(u) /\ u[Len(s) + j] = t[j]
  BY <1>a, <1>b
<1>3. \A j \in 1..Len(u) : \/ j \in 1..Len(s) /\ u[j] = s[j]
                           \/ j - Len(s) \in 1..Len(t) /\ u[j] = t[j - Len(s)] /\ j > Len(s)
  BY <1>1
<1>4. ASSUME NEW c PROVE In(u, c) <=> In(s, c) \/ In(t, c)
  <2>1. In(u, c) => In(s, c) \/ In(t, c)
    BY <1>3 DEF In
  <2>2. In(s, c) \/ In(t, c) => In(u, c)
    BY <1>2 DEF In
  <2> QED BY <2>1, <2>2
<1>5. ASSUME NEW a, NEW b, ~ In(s, b), ~ In(t, a) PROVE Before(u, a, b)
  <2> SUFFICES ASSUME NEW j \in 1..Len(u), NEW k \in 1..Len(u), u[j] = a, u[k] = b PROVE j < k
    BY DEF Before
  <2>1. j \in 1..Len(s)
    BY <1>3, <1>5 DEF In
  <2>2. k > Len(s)
    BY <1>3, <1>5 DEF In
  <2> QED BY <1>1, <2>1, <2>2
<1>6. ASSUME NEW a, NEW b, ~ In(s, a), ~ In(s, b), Before(t, a, b) PROVE Before(u, a, b)
  <2> SUFFICES ASSUME NEW j \in 1..Len(u), NEW k \in 1..Len(u), u[j] = a, u[k] = b PROVE j < k
    BY DEF Before
  <2>1. j - Len(s) \in 1..Len(t) /\ t[j - Len(s)] = a
    BY <1>3, <1>6 DEF In
  <2>2. k - Len(s) \in 1..Len(t) /\ t[k - Len(s)] = b
    BY <1>3, <1>6 DEF In
  <2>3. j - Len(s) < k - Len(s)
    BY <1>6, <2>1, <2>2 DEF Before
  <2> QED BY <1>1, <2>3
<1>7. \A c : In(s, c) => c \in S
  BY DEF In
<1> QED BY <1>1, <1>4, <1>5, <1>6, <1>7 DEF u

-----------------------------------------------------------------------------
(* MwSuccessIsReal and MwFailureRestores.                                  *)

\* The command is still to be given to the role; a before b, and then b too.
ToDo(c, r)       == In(mwOp.todo, <<c, r>>)
Comes(a, b, r)   == Before(mwOp.todo, <<a, r>>, <<b, r>>)
Follows(a, b, r) == Comes(a, b, r) /\ (ToDo(a, r) => ToDo(b, r))
OnHost(c)        == ToDo(c, "client")

\* The commands an operation, or its rollback, can consist of.
MwPlan ==
  CASE mwOp.kind = "install" -> IF mwOp.stage = "rollback" THEN {"put_back_binary", "put_back_services"}
                                ELSE Asset \cup {"reload"}
    [] mwOp.kind \in {"start", "stop"} -> {mwOp.kind}
    [] mwOp.kind \in {"apply", "delete"} /\ mwOp.stage = "rollback" ->
         IF hostKind # "mimic" THEN {"restore_file", "reload_again", "start_again"}
         ELSE {"restore_snippet", "restore_system", "reload_again", "start_again", "stop_again"}
    [] mwOp.kind = "apply" /\ mwOp.stage # "rollback" ->
         IF hostKind # "mimic" THEN {"upsert", "write_init", "reload", "enable", "restart"}
         ELSE {"snippet", "system", "reload", "enable", "restart"}
    [] mwOp.kind = "delete" /\ mwOp.stage # "rollback" ->
         IF hostKind # "mimic" THEN {"stop", "disable", "disable_now", "remove", "unlink_init", "reload", "raise"}
         ELSE {"unlink_snippet", "system", "restart", "unlink_system", "disable_now"}

\* Commands about a udp2raw service go to the roles of the operation.
Planned ==
  \A c \in MwCommand, r \in Role : ToDo(c, r) =>
    /\ c \in MwPlan
    /\ hostKind # "mimic" /\ mwOp.kind # "install" /\ c # "reload" => r \in mwOp.roles
    /\ hostKind = "mimic" \/ mwOp.kind = "install" => r = "client"

\* What runs was accepted; on OpenWrt only a service with a script is on or enabled, and
\* the binary is the only file that is installed.
SoundService(s) ==
  /\ s.run # 0 => s.run \notin rejected /\ s.on
  /\ hostKind = "openwrt" /\ (s.on \/ s.boot) => s.init
SoundHost(u, m, a) ==
  /\ \A r \in Role, i \in MwInst : SoundService(u[r][i])
  /\ m.on => \A i \in MwInst : m.loaded[i] \notin rejected
  /\ hostKind = "openwrt" => \A x \in Asset \ {"binary"} : a[x] = 0

\* A process that ran with the parameters of its line runs with them again.
Resumed(s, o) == o.run # 0 /\ o.run = o.line => s.run = o.run
Mine(r, i)    == r \in mwOp.roles /\ i = mwOp.inst

\* What no command of the operation is about is as it was.
Untouched ==
  /\ \A r \in Role, i \in MwInst : ~ Mine(r, i) =>
       udp[r][i].line = mwOp.udp[r][i].line /\ Resumed(udp[r][i], mwOp.udp[r][i])
  /\ mwOp.kind # "install" => assets = mwOp.assets /\ mwOp.inst \in MwInst
  /\ hostKind # "mimic" => mimic = mwOp.mimic
  /\ hostKind = "mimic" => mwOp.kind # "install"
  /\ hostKind = "mimic" \/ mwOp.kind = "install" => mwOp.roles = {}
  /\ mwOp.stage = "rollback" => /\ mwOp.kind \notin {"start", "stop"}
                                /\ mwOp.kind \in {"install", "apply"} \/ hostKind = "mimic"
  /\ mwOp.kind \notin {"apply", "delete", "start", "stop"} => mwOp.kind = "install"

\* udp2raw: applied, one command after the other; put back; deleted.
UdpApplied(r) ==
  LET s == udp[r][mwOp.inst] IN
  mwOp.kind = "apply" /\ mwOp.stage = "before" =>
    /\ Follows("upsert", "restart", r)
    /\ ToDo("upsert", r) \/ s.line = mwOp.args
    /\ ToDo("restart", r) \/ (s.on /\ s.run = Spawned(s))
UdpPutBack(r) ==
  LET s == udp[r][mwOp.inst] o == mwOp.udp[r][mwOp.inst] IN
  /\ mwOp.kind = "apply" => (o.init => s.init)
  /\ mwOp.stage = "rollback" =>
      /\ Follows("restore_file", "start_again", r)
      /\ ToDo("restore_file", r) \/ s.line = o.line
      /\ ToDo("start_again", r) \/ ~ mwOp.clean \/ Resumed(s, o)
Raising == \E q \in Role : ToDo("raise", q)
UdpDeleted(r) ==
  LET s == udp[r][mwOp.inst] IN
  mwOp.kind = "delete" /\ hostKind # "mimic" =>
    /\ Raising => ~ ToDo("unlink_init", r)
    /\ ~ Raising =>
         /\ hostKind = "openwrt" =>
              /\ Comes("stop", "unlink_init", r) /\ Comes("disable", "unlink_init", r)
              /\ ToDo("stop", r) \/ ~ s.on
              /\ ToDo("disable", r) \/ ~ s.boot
         /\ hostKind # "openwrt" => ToDo("disable_now", r) \/ (~ s.on /\ ~ s.boot)
         /\ ToDo("remove", r) \/ s.line = 0
UdpWork == \A r \in mwOp.roles : UdpApplied(r) /\ UdpPutBack(r) /\ UdpDeleted(r)

\* mimic: the snippet, the configuration made of it, the service that loads it.
MimicDone ==
  hostKind = "mimic" /\ mwOp.kind \in {"apply", "delete"} /\ mwOp.stage = "before" =>
    /\ Follows("system", "restart", "client") /\ Follows("unlink_system", "disable_now", "client")
    /\ Comes("snippet", "system", "client") /\ Comes("unlink_snippet", "system", "client")
    /\ Comes("unlink_snippet", "unlink_system", "client")
    /\ OnHost("snippet") \/ OnHost("unlink_snippet") =>
         OnHost("system") \/ OnHost("unlink_system")
    /\ OnHost("snippet") \/ OnHost("unlink_snippet") \/ mimic.snippet[mwOp.inst] = mwOp.args
    /\ OnHost("system") \/ OnHost("unlink_system") \/ mimic.block = mimic.snippet
    /\ OnHost("restart") \/ OnHost("disable_now") \/ mimic.loaded = mimic.block
    /\ mwOp.kind = "delete" => mwOp.args = 0
    /\ OnHost("unlink_system") => \A j \in MwInst \ {mwOp.inst} : mimic.snippet[j] = 0
    /\ OnHost("disable_now") => ~ OnHost("system") /\ (OnHost("unlink_system") \/ mimic.block = Nobody)
MimicPutBack ==
  hostKind = "mimic" /\ mwOp.kind \in {"apply", "delete"} /\ mwOp.stage = "rollback" =>
    /\ Comes("restore_system", "start_again", "client") /\ Comes("restore_system", "stop_again", "client")
    /\ OnHost("restore_system") => OnHost("start_again") \/ OnHost("stop_again")
    /\ OnHost("restore_snippet") \/ mimic.snippet = mwOp.mimic.snippet
    /\ OnHost("restore_system") \/ mimic.block = mwOp.mimic.block
    /\ OnHost("stop_again") => mwOp.mimic.block = Nobody
    /\ OnHost("start_again") \/ OnHost("stop_again") \/ ~ mwOp.clean
       \/ (mwOp.mimic.on /\ mwOp.mimic.loaded = mwOp.mimic.block => mimic.loaded = mwOp.mimic.loaded)

\* Installing udp2raw, and putting back what was there.
InstallWork ==
  mwOp.kind = "install" =>
    /\ mwOp.stage = "before" =>
         \A a \in Asset : IF hostKind = "openwrt" /\ a # "binary" THEN ~ OnHost(a)
                          ELSE OnHost(a) \/ assets[a] = 2
    /\ mwOp.stage = "rollback" /\ mwOp.clean =>
         /\ OnHost("put_back_binary") \/ assets["binary"] = mwOp.assets["binary"]
         /\ OnHost("put_back_services") \/ \A a \in Asset \ {"binary"} : assets[a] = mwOp.assets[a]

MwUnderWay ==
  ~ MwDone =>
    /\ SoundHost(mwOp.udp, mwOp.mimic, mwOp.assets) /\ Planned /\ Untouched
    /\ UdpWork /\ MimicDone /\ MimicPutBack /\ InstallWork
MwProgress ==
  SoundHost(udp, mimic, assets) /\ MwUnderWay /\ MwFailureRestores /\ MwSuccessIsReal

\* What is left when the first command, c for role r, is taken off.
Popped(c, r) ==
  /\ \A b, q : ToDo(b, q) <=> ToDo(b, q)' \/ (b = c /\ q = r)
  /\ \A a, b, q : Comes(a, b, q) =>
       /\ Comes(a, b, q)'
       /\ b = c /\ q = r => ~ ToDo(a, q)
       /\ a = c /\ q = r /\ ToDo(b, q) => ToDo(b, q)'
LEMMA NextCommand ==
  ASSUME MwTypeOK, mwOp.todo # <<>>, NEW c \in MwCommand, NEW r \in Role,
         Head(mwOp.todo) = <<c, r>>
  PROVE  /\ ToDo(c, r)
         /\ mwOp'.todo = Tail(mwOp.todo) => Popped(c, r)
<1> DEFINE s == mwOp.todo
<1> DEFINE t == Tail(mwOp.todo)
<1>1. s \in Seq(MwCommand \X Role) /\ s # <<>>
  BY DEF MwTypeOK, MwOperation
<1> HIDE DEF s
<1>2. /\ \A x : In(s, x) <=> In(Tail(s), x) \/ x = <<c, r>>
      /\ \A x, y : Before(s, x, y) =>
           /\ Before(Tail(s), x, y)
           /\ <<c, r>> = y => ~ In(s, x)
           /\ <<c, r>> = x /\ In(s, y) => In(Tail(s), y)
  <2>1. Head(s) = <<c, r>>
    BY DEF s
  <2> QED BY <1>1, <2>1, OneFewer, ZenonT(60)
<1>3. ToDo(c, r)
  BY <1>2 DEF ToDo, s
<1>4. ASSUME mwOp'.todo = Tail(mwOp.todo) PROVE Popped(c, r)
  <2>1. mwOp'.todo = Tail(s)
    BY <1>4 DEF s
  <2>2. ASSUME NEW b, NEW q PROVE ToDo(b, q) <=> ToDo(b, q)' \/ (b = c /\ q = r)
    <3>1. <<b, q>> = <<c, r>> <=> b = c /\ q = r
      OBVIOUS
    <3> QED BY <1>2, <2>1, <3>1 DEF ToDo, s
  <2>3. ASSUME NEW a, NEW b, NEW q, Comes(a, b, q)
        PROVE  /\ Comes(a, b, q)'
               /\ b = c /\ q = r => ~ ToDo(a, q)
               /\ a = c /\ q = r /\ ToDo(b, q) => ToDo(b, q)'
    <3>1. Before(s, <<a, q>>, <<b, q>>)
      BY <2>3 DEF Comes, s
    <3>2. /\ Before(Tail(s), <<a, q>>, <<b, q>>)
          /\ <<c, r>> = <<b, q>> => ~ In(s, <<a, q>>)
          /\ <<c, r>> = <<a, q>> /\ In(s, <<b, q>>) => In(Tail(s), <<b, q>>)
      BY <1>2, <3>1
    <3> QED BY <2>1, <3>2 DEF ToDo, Comes, s
  <2> QED BY <2>2, <2>3 DEF Popped
<1> QED BY <1>3, <1>4

-----------------------------------------------------------------------------
(* The steps of an operation.                                              *)

SameMw ==
  /\ hostKind' = hostKind /\ rejected' = rejected
  /\ mwOp'.kind = mwOp.kind /\ mwOp'.inst = mwOp.inst /\ mwOp'.roles = mwOp.roles
  /\ mwOp'.args = mwOp.args /\ mwOp'.udp = mwOp.udp /\ mwOp'.mimic = mwOp.mimic
  /\ mwOp'.assets = mwOp.assets
SameHost == udp' = udp /\ assets' = assets /\ mimic' = mimic

\* A command is given and has its effect: a udp2raw service needs its script for that.
GivenTo(c, r) == Takes(<<c, r>>) /\ (hostKind = "mimic" \/ MwWorks(<<c, r>>))

\* The operation goes on after command c for role r.
MwGoes(c, r) ==
  /\ SameMw /\ ~ MwDone /\ mwOp.todo # <<>> /\ Head(mwOp.todo) = <<c, r>>
  /\ mwOp'.todo = Tail(mwOp.todo) /\ mwOp'.stage = mwOp.stage
  /\ \/ Takes(<<c, r>>) /\ MwWorks(<<c, r>>) /\ mwOp'.clean = mwOp.clean
     \/ /\ Ignored(<<c, r>>) /\ (GivenTo(c, r) \/ SameHost)
        /\ mwOp'.clean = FALSE \/ (mwOp'.clean = mwOp.clean /\ ~ MwWorks(<<c, r>>))

\* It does not: it ends, is rolled back, or a script that would not stop is disabled.
MwFailed(c, r) ==
  /\ SameMw /\ ~ MwDone /\ mwOp.todo # <<>> /\ Head(mwOp.todo) = <<c, r>>
  /\ GivenTo(c, r) \/ SameHost
  /\ \/ mwOp'.stage = "failed"
     \/ /\ mwOp.stage = "before" /\ mwOp.kind \notin {"start", "stop"}
        /\ mwOp.kind \in {"install", "apply"} \/ hostKind = "mimic"
        /\ mwOp'.stage = "rollback" /\ mwOp'.todo = MwRollback /\ mwOp'.clean = mwOp.clean
     \/ /\ mwOp.kind = "delete" /\ hostKind = "openwrt" /\ c = "stop"
        /\ mwOp'.stage = mwOp.stage /\ mwOp'.todo = <<<<"disable", r>>, <<"raise", r>>>>

MwFinishes ==
  /\ SameMw /\ ~ MwDone /\ mwOp.todo = <<>> /\ SameHost /\ mwOp'.clean = mwOp.clean
  /\ mwOp'.stage = IF mwOp.stage = "rollback" THEN "restored" ELSE "ok"

MwBegins(kind, i, roles, v) ==
  /\ hostKind' = hostKind /\ rejected' = rejected /\ SameHost
  /\ mwOp'.kind = kind /\ mwOp'.inst = i /\ mwOp'.roles = roles /\ mwOp'.args = v
  /\ mwOp'.todo = StepsOf(kind, i, roles) /\ mwOp'.stage = "before" /\ mwOp'.clean = TRUE
  /\ mwOp'.udp = udp /\ mwOp'.mimic = mimic /\ mwOp'.assets = assets

\* One role, or the roles of a clean-up; mimic has none, and installing is about the host.
RolesFor(kind, roles) ==
  /\ roles \in SUBSET Role
  /\ hostKind = "mimic" \/ kind = "install" => roles = {}
  /\ hostKind # "mimic" /\ kind = "apply" => \E r \in Role : roles = {r}

MwBooted ==
  /\ udp' = [r \in Role |-> [i \in MwInst |->
               IF udp[r][i].boot THEN SwitchOn(udp[r][i]) ELSE SwitchOff(udp[r][i])]]
  /\ mimic' = IF mimic.boot THEN LoadMimic(mimic) ELSE UnloadMimic(mimic)
  /\ assets' = assets

\* One command less, with or without the mark.
LEMMA LessToDo ==
  ASSUME MwTypeOK, NEW b \in {mwOp.clean, FALSE},
         mwOp' = [mwOp EXCEPT !.todo = Tail(@), !.clean = b]
  PROVE  /\ mwOp'.todo = Tail(mwOp.todo) /\ mwOp'.clean = b /\ mwOp'.stage = mwOp.stage
         /\ mwOp'.kind = mwOp.kind /\ mwOp'.inst = mwOp.inst /\ mwOp'.roles = mwOp.roles
         /\ mwOp'.args = mwOp.args /\ mwOp'.udp = mwOp.udp /\ mwOp'.mimic = mwOp.mimic
         /\ mwOp'.assets = mwOp.assets
<1>1. mwOp \in MwOperation
  BY DEF MwTypeOK
<1> QED BY <1>1 DEF MwOperation

LEMMA MwFailsSo ==
  ASSUME MwTypeOK, ~ MwDone, mwOp.todo # <<>>, NEW c \in MwCommand, NEW r \in Role,
         Head(mwOp.todo) = <<c, r>>, GivenTo(c, r) \/ SameHost,
         mwOp' = MwFailure(<<c, r>>), hostKind' = hostKind, rejected' = rejected
  PROVE  MwFailed(c, r)
<1>0. mwOp \in MwOperation
  BY DEF MwTypeOK
<1>1. CASE /\ mwOp.stage = "before" /\ mwOp.kind \notin {"start", "stop"}
           /\ mwOp.kind \in {"install", "apply"} \/ hostKind = "mimic"
           /\ mwOp' = [mwOp EXCEPT !.stage = "rollback", !.todo = MwRollback]
  <2>1. /\ mwOp'.todo = MwRollback /\ mwOp'.clean = mwOp.clean /\ mwOp'.stage = "rollback"
        /\ mwOp'.kind = mwOp.kind /\ mwOp'.inst = mwOp.inst /\ mwOp'.roles = mwOp.roles
        /\ mwOp'.args = mwOp.args /\ mwOp'.udp = mwOp.udp /\ mwOp'.mimic = mwOp.mimic
        /\ mwOp'.assets = mwOp.assets
    BY <1>0, <1>1 DEF MwOperation
  <2> QED BY <1>1, <2>1 DEF MwFailed, SameMw
<1>2. CASE /\ mwOp.kind = "delete" /\ hostKind = "openwrt" /\ c = "stop"
           /\ mwOp' = [mwOp EXCEPT !.todo = <<<<"disable", r>>, <<"raise", r>>>>, !.clean = FALSE]
  <2>1. /\ mwOp'.todo = <<<<"disable", r>>, <<"raise", r>>>> /\ mwOp'.stage = mwOp.stage
        /\ mwOp'.kind = mwOp.kind /\ mwOp'.inst = mwOp.inst /\ mwOp'.roles = mwOp.roles
        /\ mwOp'.args = mwOp.args /\ mwOp'.udp = mwOp.udp /\ mwOp'.mimic = mwOp.mimic
        /\ mwOp'.assets = mwOp.assets
    BY <1>0, <1>2 DEF MwOperation
  <2> QED BY <1>2, <2>1 DEF MwFailed, SameMw
<1>3. CASE mwOp' = [mwOp EXCEPT !.stage = "failed", !.todo = <<>>, !.clean = FALSE]
  <2>1. /\ mwOp'.stage = "failed"
        /\ mwOp'.kind = mwOp.kind /\ mwOp'.inst = mwOp.inst /\ mwOp'.roles = mwOp.roles
        /\ mwOp'.args = mwOp.args /\ mwOp'.udp = mwOp.udp /\ mwOp'.mimic = mwOp.mimic
        /\ mwOp'.assets = mwOp.assets
    BY <1>0, <1>3 DEF MwOperation
  <2> QED BY <2>1 DEF MwFailed, SameMw
<1>4. <<c, r>>[1] = c /\ <<c, r>>[2] = r
  OBVIOUS
<1> QED BY <1>1, <1>2, <1>3, <1>4 DEF MwFailure

\* Every step is one of these.
LEMMA MwCases ==
  ASSUME MwTypeOK, [MwNext]_mwVars
  PROVE  \/ \E kind \in {"apply", "start", "stop", "delete", "install"}, i \in MwInst \cup {NoInst},
               v \in Entry, roles \in SUBSET Role :
              /\ RolesFor(kind, roles) /\ MwBegins(kind, i, roles, v)
              /\ kind # "install" => i \in MwInst
              /\ kind = "install" => hostKind # "mimic"
              /\ kind = "delete" => v = 0
         \/ \E c \in MwCommand, r \in Role : MwGoes(c, r) \/ MwFailed(c, r)
         \/ MwFinishes
         \/ /\ hostKind' = hostKind /\ rejected' = rejected /\ mwOp' = NoMwOp
            /\ SameHost \/ MwBooted
         \/ \E r \in Role, i \in MwInst :
              /\ ServiceRespawns(r, i) /\ SameMw /\ mwOp' = mwOp
         \/ SameHost /\ hostKind' = hostKind /\ rejected' = rejected /\ mwOp' = mwOp
<1>0. 0 \in Entry /\ Args \subseteq Entry
  BY Entries
<1>b. ASSUME NEW kind, NEW i, NEW roles, NEW v, BeginMw(kind, i, roles, v)
      PROVE  MwBegins(kind, i, roles, v)
  BY <1>b DEF BeginMw, MwBegins, SameHost
<1>1. ASSUME NEW i \in MwInst, NEW v \in Args, NEW roles \in Modes({{"server"}, {"client"}}),
             BeginMw("apply", i, roles, v)
      PROVE  roles \in SUBSET Role /\ RolesFor("apply", roles)
  BY <1>1 DEF Modes, RolesFor, Role
<1>2. ASSUME NEW i \in MwInst, NEW kind \in {"start", "stop", "delete"},
             NEW roles \in Modes({{"server"}, {"client"}, RolesOf(i)})
      PROVE  roles \in SUBSET Role /\ RolesFor(kind, roles)
  <2>1. RolesOf(i) \in SUBSET Role
    BY DEF RolesOf
  <2> QED BY <2>1 DEF Modes, RolesFor, Role
<1>3. {} \in SUBSET Role /\ RolesFor("install", {})
  BY DEF RolesFor
<1>4. ASSUME ~ MwDone, mwOp.todo # <<>>
      PROVE  \E c \in MwCommand, r \in Role : Head(mwOp.todo) = <<c, r>>
  BY <1>4, RestOfList
<1>5. CASE MwStep
  <2>1. PICK c \in MwCommand, r \in Role : Head(mwOp.todo) = <<c, r>>
    BY <1>4, <1>5 DEF MwStep
  <2>2. /\ ~ MwDone /\ mwOp.todo # <<>> /\ hostKind' = hostKind /\ rejected' = rejected
    BY <1>5 DEF MwStep
  <2>3. CASE MwWorks(<<c, r>>)
    <3>1. Takes(<<c, r>>) /\ mwOp' = [mwOp EXCEPT !.todo = Tail(@)]
      BY <1>5, <2>1, <2>3 DEF MwStep
    <3>2. mwOp' = [mwOp EXCEPT !.todo = Tail(@), !.clean = mwOp.clean]
      BY <3>1 DEF MwTypeOK, MwOperation
    <3> QED BY <2>1, <2>2, <2>3, <3>1, <3>2, LessToDo DEF MwGoes, SameMw
  <2>4. CASE ~ MwWorks(<<c, r>>)
    <3>1. /\ mwOp' = IF Ignored(<<c, r>>) THEN [mwOp EXCEPT !.todo = Tail(@)] ELSE MwFailure(<<c, r>>)
          /\ IF hostKind = "mimic" THEN Takes(<<c, r>>) ELSE UNCHANGED <<udp, assets, mimic>>
      BY <1>5, <2>1, <2>4 DEF MwStep
    <3>2. GivenTo(c, r) \/ SameHost
      BY <3>1 DEF GivenTo, SameHost
    <3>3. CASE Ignored(<<c, r>>)
      <4>1. mwOp' = [mwOp EXCEPT !.todo = Tail(@), !.clean = mwOp.clean]
        BY <3>1, <3>3 DEF MwTypeOK, MwOperation
      <4> QED BY <2>1, <2>2, <2>4, <3>2, <3>3, <4>1, LessToDo DEF MwGoes, SameMw
    <3>4. CASE ~ Ignored(<<c, r>>)
      BY <2>1, <2>2, <3>1, <3>2, <3>4, MwFailsSo
    <3> QED BY <3>3, <3>4
  <2> QED BY <2>3, <2>4
<1>6. CASE MwStepFails
  <2>1. PICK c \in MwCommand, r \in Role : Head(mwOp.todo) = <<c, r>>
    BY <1>4, <1>6 DEF MwStepFails
  <2>2. /\ ~ MwDone /\ mwOp.todo # <<>> /\ hostKind' = hostKind /\ rejected' = rejected
    BY <1>6 DEF MwStepFails
  <2>3. GivenTo(c, r) \/ SameHost
    BY <1>6, <2>1 DEF MwStepFails, GivenTo, SameHost
  <2>4. mwOp' = IF Ignored(<<c, r>>) THEN [mwOp EXCEPT !.todo = Tail(@), !.clean = FALSE]
                ELSE MwFailure(<<c, r>>)
    BY <1>6, <2>1 DEF MwStepFails
  <2>5. CASE Ignored(<<c, r>>)
    BY <2>1, <2>2, <2>3, <2>4, <2>5, LessToDo DEF MwGoes, SameMw
  <2>6. CASE ~ Ignored(<<c, r>>)
    BY <2>1, <2>2, <2>3, <2>4, <2>6, MwFailsSo
  <2> QED BY <2>5, <2>6
<1>7. CASE MwFinish
  <2>1. /\ mwOp' = [mwOp EXCEPT !.stage = IF @ = "rollback" THEN "restored" ELSE "ok"]
        /\ ~ MwDone /\ mwOp.todo = <<>> /\ SameHost /\ hostKind' = hostKind /\ rejected' = rejected
    BY <1>7 DEF MwFinish, SameHost
  <2>2. /\ mwOp'.stage = IF mwOp.stage = "rollback" THEN "restored" ELSE "ok"
        /\ mwOp'.clean = mwOp.clean
        /\ mwOp'.kind = mwOp.kind /\ mwOp'.inst = mwOp.inst /\ mwOp'.roles = mwOp.roles
        /\ mwOp'.args = mwOp.args /\ mwOp'.udp = mwOp.udp /\ mwOp'.mimic = mwOp.mimic
        /\ mwOp'.assets = mwOp.assets
    BY <2>1 DEF MwTypeOK, MwOperation
  <2> QED BY <2>1, <2>2 DEF MwFinishes, SameMw
<1>8. CASE AgentKilled
  BY <1>8 DEF AgentKilled, SameHost
<1>9. CASE HostReboots
  BY <1>9 DEF HostReboots, MwBooted
<1>10. CASE \E r \in Role, i \in MwInst : ServiceRespawns(r, i)
  <2>1. PICK r \in Role, i \in MwInst : ServiceRespawns(r, i)
    BY <1>10
  <2>2. mwOp' = mwOp /\ SameMw
    BY <2>1 DEF ServiceRespawns, SameMw
  <2> QED BY <2>1, <2>2
<1>11. CASE UNCHANGED mwVars
  BY <1>11 DEF mwVars, SameHost
<1>12. CASE \E i \in MwInst, v \in Args : \E roles \in Modes({{"server"}, {"client"}}) :
              BeginMw("apply", i, roles, v)
  <2>1. PICK i \in MwInst, v \in Args, roles \in Modes({{"server"}, {"client"}}) :
          BeginMw("apply", i, roles, v)
    BY <1>12
  <2>2. roles \in SUBSET Role /\ RolesFor("apply", roles) /\ MwBegins("apply", i, roles, v)
    BY <1>1, <1>b, <2>1
  <2> QED BY <1>0, <2>2
<1>13. CASE \E i \in MwInst, kind \in {"start", "stop", "delete"} :
              \E roles \in Modes({{"server"}, {"client"}, RolesOf(i)}) : BeginMw(kind, i, roles, 0)
  <2>a. PICK i \in MwInst, kind \in {"start", "stop", "delete"} :
          \E roles \in Modes({{"server"}, {"client"}, RolesOf(i)}) : BeginMw(kind, i, roles, 0)
    BY <1>13
  <2>1. PICK roles \in Modes({{"server"}, {"client"}, RolesOf(i)}) : BeginMw(kind, i, roles, 0)
    BY <2>a
  <2>2. roles \in SUBSET Role /\ RolesFor(kind, roles) /\ MwBegins(kind, i, roles, 0)
    BY <1>2, <1>b, <2>1
  <2> QED BY <1>0, <2>2
<1>14. CASE hostKind # "mimic" /\ BeginMw("install", NoInst, {}, 0)
  BY <1>0, <1>3, <1>14, <1>b
<1> QED BY <1>5, <1>6, <1>7, <1>8, <1>9, <1>10, <1>11, <1>12, <1>13, <1>14 DEF MwNext

-----------------------------------------------------------------------------
(* The lists of an operation and of its rollback: what is in them and in     *)
(* which order.                                                             *)

\* Longer lists, and the order in which a list was written.
LEMMA LongLists ==
  /\ \A x, y, z, w, c : In(<<x, y, z, w>>, c) <=> c \in {x, y, z, w}
  /\ \A x, y, z, w, v, c : In(<<x, y, z, w, v>>, c) <=> c \in {x, y, z, w, v}
<1>1. ASSUME NEW x, NEW y, NEW z, NEW w, NEW c PROVE In(<<x, y, z, w>>, c) <=> c \in {x, y, z, w}
  <2>1. /\ Len(<<x, y, z, w>>) = 4 /\ <<x, y, z, w>>[1] = x /\ <<x, y, z, w>>[2] = y
        /\ <<x, y, z, w>>[3] = z /\ <<x, y, z, w>>[4] = w
    OBVIOUS
  <2>2. 1 \in 1..4 /\ 2 \in 1..4 /\ 3 \in 1..4 /\ 4 \in 1..4 /\ \A k \in 1..4 : k \in {1, 2, 3, 4}
    OBVIOUS
  <2> QED BY <2>1, <2>2 DEF In
<1>2. ASSUME NEW x, NEW y, NEW z, NEW w, NEW v, NEW c
      PROVE  In(<<x, y, z, w, v>>, c) <=> c \in {x, y, z, w, v}
  <2>1. /\ Len(<<x, y, z, w, v>>) = 5 /\ <<x, y, z, w, v>>[1] = x /\ <<x, y, z, w, v>>[2] = y
        /\ <<x, y, z, w, v>>[3] = z /\ <<x, y, z, w, v>>[4] = w /\ <<x, y, z, w, v>>[5] = v
    OBVIOUS
  <2>2. /\ 1 \in 1..5 /\ 2 \in 1..5 /\ 3 \in 1..5 /\ 4 \in 1..5 /\ 5 \in 1..5
        /\ \A k \in 1..5 : k \in {1, 2, 3, 4, 5}
    OBVIOUS
  <2> QED BY <2>1, <2>2 DEF In
<1> QED BY <1>1, <1>2

\* A command that is not in a list comes before and after everything; and one that is
\* only in the first part comes before what it came before there.
LEMMA BeforeJoined ==
  /\ \A s, a, b : ~ In(s, a) \/ ~ In(s, b) => Before(s, a, b)
  /\ \A S : \A s, t \in Seq(S) : \A a, b : ~ In(t, a) /\ Before(s, a, b) => Before(s \o t, a, b)
<1>1. \A s, a, b : ~ In(s, a) \/ ~ In(s, b) => Before(s, a, b)
  BY DEF In, Before
<1>2. ASSUME NEW S, NEW s \in Seq(S), NEW t \in Seq(S), NEW a, NEW b, ~ In(t, a), Before(s, a, b)
      PROVE  Before(s \o t, a, b)
  <2> DEFINE u == s \o t
  <2>1. /\ u \in Seq(S) /\ Len(u) = Len(s) + Len(t) /\ Len(s) \in Nat /\ Len(t) \in Nat
        /\ \A j \in 1..Len(s) + Len(t) : u[j] = IF j <= Len(s) THEN s[j] ELSE t[j - Len(s)]
    BY ConcatProperties
  <2> HIDE DEF u
  <2>2. ASSUME NEW j \in 1..Len(u), NEW k \in 1..Len(u), u[j] = a, u[k] = b PROVE j < k
    <3>1. j \in 1..Len(s) /\ s[j] = a
      <4>1. CASE j <= Len(s)
        BY <2>1, <2>2, <4>1
      <4>2. CASE ~ (j <= Len(s))
        <5>1. j - Len(s) \in 1..Len(t) /\ t[j - Len(s)] = a
          BY <2>1, <2>2, <4>2
        <5> QED BY <1>2, <5>1 DEF In
      <4> QED BY <4>1, <4>2
    <3>2. CASE k <= Len(s)
      <4>1. k \in 1..Len(s) /\ s[k] = b
        BY <2>1, <2>2, <3>2
      <4> QED BY <1>2, <3>1, <4>1 DEF Before
    <3>3. CASE ~ (k <= Len(s))
      BY <2>1, <3>1, <3>3
    <3> QED BY <3>2, <3>3
  <2> QED BY <2>2 DEF Before, u
<1> QED BY <1>1, <1>2

\* The same commands given to one role.
Batch(cmds, r) == [k \in DOMAIN cmds |-> <<cmds[k], r>>]
LEMMA Batches ==
  ASSUME NEW cmds \in Seq(MwCommand), NEW r
  PROVE  /\ Batch(cmds, r) \in Seq(MwCommand \X {r})
         /\ \A c, q : In(Batch(cmds, r), <<c, q>>) <=> q = r /\ In(cmds, c)
         /\ \A a, b : Before(cmds, a, b) => Before(Batch(cmds, r), <<a, r>>, <<b, r>>)
<1> DEFINE s == Batch(cmds, r)
<1>1. DOMAIN cmds = 1..Len(cmds) /\ Len(cmds) \in Nat
  OBVIOUS
<1>2. s \in Seq(MwCommand \X {r}) /\ Len(s) = Len(cmds)
  <2>1. \A k \in 1..Len(cmds) : <<cmds[k], r>> \in MwCommand \X {r}
    OBVIOUS
  <2> DEFINE f == [k \in 1..Len(cmds) |-> <<cmds[k], r>>]
  <2>2. f \in [1..Len(cmds) -> MwCommand \X {r}]
    BY <2>1
  <2>3. f \in Seq(MwCommand \X {r}) /\ Len(f) = Len(cmds)
    BY <1>1, <2>2
  <2> QED BY <1>1, <2>3 DEF Batch
<1>3. \A k \in 1..Len(s) : s[k] = <<cmds[k], r>>
  BY <1>1, <1>2 DEF Batch
<1> HIDE DEF s
<1>4. ASSUME NEW c, NEW q PROVE In(s, <<c, q>>) <=> q = r /\ In(cmds, c)
  <2>1. \A k : <<cmds[k], r>> = <<c, q>> <=> cmds[k] = c /\ r = q
    OBVIOUS
  <2> QED BY <1>2, <1>3, <2>1 DEF In
<1>5. ASSUME NEW a, NEW b, Before(cmds, a, b) PROVE Before(s, <<a, r>>, <<b, r>>)
  <2>1. ASSUME NEW k \in 1..Len(s), NEW c, s[k] = <<c, r>> PROVE k \in 1..Len(cmds) /\ cmds[k] = c
    <3>1. <<cmds[k], r>> = <<c, r>>
      BY <1>3, <2>1
    <3> QED BY <1>2, <3>1
  <2> QED BY <1>5, <2>1 DEF Before
<1> QED BY <1>2, <1>4, <1>5 DEF s

LEMMA HostList ==
  ASSUME NEW cmds \in Seq(MwCommand)
  PROVE  /\ Host(cmds) \in MwSteps
         /\ \A c, q : In(Host(cmds), <<c, q>>) <=> q = "client" /\ In(cmds, c)
         /\ \A a, b : Before(cmds, a, b) => Before(Host(cmds), <<a, "client">>, <<b, "client">>)
<1>1. Host(cmds) \in MwSteps
  BY StepLists
<1>2. Host(cmds) = Batch(cmds, "client")
  BY DEF Host, Batch
<1>3. /\ \A c, q : In(Batch(cmds, "client"), <<c, q>>) <=> q = "client" /\ In(cmds, c)
      /\ \A a, b : Before(cmds, a, b) =>
           Before(Batch(cmds, "client"), <<a, "client">>, <<b, "client">>)
  BY Batches
<1> QED BY <1>1, <1>2, <1>3

LEMMA EachList ==
  ASSUME NEW cmds \in Seq(MwCommand), NEW roles
  PROVE  /\ EachOf(roles, cmds) \in MwSteps
         /\ \A c, q : In(EachOf(roles, cmds), <<c, q>>) <=> q \in roles \cap Role /\ In(cmds, c)
         /\ \A a, b : \A q \in Role : Before(cmds, a, b) => Before(EachOf(roles, cmds), <<a, q>>, <<b, q>>)
<1> DEFINE of(r) == IF r \in roles THEN Batch(cmds, r) ELSE <<>>
<1>1. EachOf(roles, cmds) = of("server") \o of("client")
  BY DEF EachOf, Batch
<1>2. ASSUME NEW r \in Role
      PROVE  /\ of(r) \in MwSteps
             /\ \A c, q : In(of(r), <<c, q>>) <=> q = r /\ r \in roles /\ In(cmds, c)
             /\ \A a, b : Before(cmds, a, b) => Before(of(r), <<a, r>>, <<b, r>>)
  <2>1. CASE r \in roles
    <3>1. /\ Batch(cmds, r) \in Seq(MwCommand \X {r})
          /\ \A c, q : In(Batch(cmds, r), <<c, q>>) <=> q = r /\ In(cmds, c)
          /\ \A a, b : Before(cmds, a, b) => Before(Batch(cmds, r), <<a, r>>, <<b, r>>)
      BY Batches
    <3>2. Batch(cmds, r) \in MwSteps
      BY <3>1 DEF MwSteps
    <3> QED BY <2>1, <3>1, <3>2
  <2>2. CASE r \notin roles
    BY <2>2, InLists, BeforeJoined DEF MwSteps
  <2> QED BY <2>1, <2>2
<1> HIDE DEF of
<1>3. "server" \in Role /\ "client" \in Role /\ \A r \in Role : r \in {"server", "client"}
  BY DEF Role
<1>4. /\ of("server") \in Seq(MwCommand \X Role) /\ of("client") \in Seq(MwCommand \X Role)
  BY <1>2, <1>3 DEF MwSteps
<1> DEFINE s == of("server")
<1> DEFINE t == of("client")
<1>5. /\ s \o t \in Seq(MwCommand \X Role)
      /\ \A c : In(s \o t, c) <=> In(s, c) \/ In(t, c)
      /\ \A a, b : ~ In(s, a) /\ ~ In(s, b) /\ Before(t, a, b) => Before(s \o t, a, b)
      /\ \A a, b : ~ In(t, a) /\ Before(s, a, b) => Before(s \o t, a, b)
  BY <1>4, InJoined, BeforeJoined
<1>6. /\ \A c, q : In(s, <<c, q>>) <=> q = "server" /\ q \in roles /\ In(cmds, c)
      /\ \A c, q : In(t, <<c, q>>) <=> q = "client" /\ q \in roles /\ In(cmds, c)
      /\ \A a, b : Before(cmds, a, b) => /\ Before(s, <<a, "server">>, <<b, "server">>)
                                         /\ Before(t, <<a, "client">>, <<b, "client">>)
  BY <1>2, <1>3
<1> HIDE DEF s, t
<1>7. \A c, q : In(s \o t, <<c, q>>) <=> q \in roles \cap Role /\ In(cmds, c)
  BY <1>3, <1>5, <1>6
<1>8. ASSUME NEW a, NEW b, NEW q \in Role, Before(cmds, a, b) PROVE Before(s \o t, <<a, q>>, <<b, q>>)
  <2>1. CASE q = "server"
    <3>1. ~ In(t, <<a, q>>) /\ Before(s, <<a, q>>, <<b, q>>)
      BY <1>6, <1>8, <2>1
    <3> QED BY <1>5, <3>1
  <2>2. CASE q = "client"
    <3>1. ~ In(s, <<a, q>>) /\ ~ In(s, <<b, q>>) /\ Before(t, <<a, q>>, <<b, q>>)
      BY <1>6, <1>8, <2>2
    <3> QED BY <1>5, <3>1
  <2> QED BY <1>3, <2>1, <2>2
<1>9. EachOf(roles, cmds) = s \o t
  BY <1>1 DEF s, t
<1> QED BY <1>5, <1>7, <1>8, <1>9 DEF MwSteps

\* Applying to udp2raw.
LEMMA UdpApplyList ==
  ASSUME NEW r \in Role
  PROVE  /\ \A c, q : In(UdpApply(r), <<c, q>>) <=>
              q = r /\ c \in {"upsert", IF hostKind = "openwrt" THEN "write_init" ELSE "reload",
                              "enable", "restart"}
         /\ \A q \in Role : Before(UdpApply(r), <<"upsert", q>>, <<"restart", q>>)
<1> DEFINE x == IF hostKind = "openwrt" THEN "write_init" ELSE "reload"
<1> DEFINE cmds == <<"upsert", x, "enable", "restart">>
<1>1. x \in MwCommand /\ x # "upsert" /\ x # "restart"
  BY DEF MwCommand
<1>2. UdpApply(r) = EachOf({r}, cmds)
  BY DEF UdpApply
<1> HIDE DEF x
<1>3. cmds \in Seq(MwCommand)
  <2>1. "upsert" \in MwCommand /\ "enable" \in MwCommand /\ "restart" \in MwCommand
    BY DEF MwCommand
  <2> QED BY <1>1, <2>1
<1>4. \A c : In(cmds, c) <=> c \in {"upsert", x, "enable", "restart"}
  BY LongLists
<1>5. Before(cmds, "upsert", "restart")
  <2>1. Len(cmds) = 4 /\ cmds[1] = "upsert" /\ cmds[2] = x /\ cmds[3] = "enable" /\ cmds[4] = "restart"
    OBVIOUS
  <2>2. \A k \in 1..4 : k \in {1, 2, 3, 4}
    OBVIOUS
  <2> HIDE DEF cmds
  <2> QED BY <1>1, <2>1, <2>2 DEF Before
<1> HIDE DEF cmds
<1>6. /\ \A c, q : In(EachOf({r}, cmds), <<c, q>>) <=> q \in {r} \cap Role /\ In(cmds, c)
      /\ \A a, b : \A q \in Role :
           Before(cmds, a, b) => Before(EachOf({r}, cmds), <<a, q>>, <<b, q>>)
  BY <1>3, EachList
<1> QED BY <1>2, <1>4, <1>5, <1>6 DEF x

\* Deleting from udp2raw.
LEMMA UdpDeleteList ==
  ASSUME NEW roles \in SUBSET Role
  PROVE  /\ \A c, q : In(UdpDelete(roles), <<c, q>>) <=>
              \/ /\ q \in roles
                 /\ c \in (IF hostKind = "openwrt" THEN {"stop", "disable", "remove", "unlink_init"}
                           ELSE {"disable_now", "remove"})
              \/ hostKind # "openwrt" /\ c = "reload" /\ q = "client"
         /\ hostKind = "openwrt" => \A q \in Role :
              /\ Before(UdpDelete(roles), <<"stop", q>>, <<"unlink_init", q>>)
              /\ Before(UdpDelete(roles), <<"disable", q>>, <<"unlink_init", q>>)
<1>1. /\ <<"stop", "disable">> \in Seq(MwCommand) /\ <<"disable_now">> \in Seq(MwCommand)
      /\ <<"remove", "unlink_init">> \in Seq(MwCommand) /\ <<"remove">> \in Seq(MwCommand)
      /\ <<"reload">> \in Seq(MwCommand)
  BY DEF MwCommand
<1>s. ASSUME NEW cmds \in Seq(MwCommand)
      PROVE  /\ EachOf(roles, cmds) \in Seq(MwCommand \X Role)
             /\ \A c, q : In(EachOf(roles, cmds), <<c, q>>) <=> q \in roles /\ In(cmds, c)
  BY EachList DEF MwSteps
<1>2. CASE hostKind = "openwrt"
  <2> DEFINE s == EachOf(roles, <<"stop", "disable">>)
  <2> DEFINE t == EachOf(roles, <<"remove", "unlink_init">>)
  <2>1. /\ s \in Seq(MwCommand \X Role) /\ t \in Seq(MwCommand \X Role)
        /\ \A c, q : In(s, <<c, q>>) <=> q \in roles /\ c \in {"stop", "disable"}
        /\ \A c, q : In(t, <<c, q>>) <=> q \in roles /\ c \in {"remove", "unlink_init"}
    <3> DEFINE x == <<"stop", "disable">>
    <3> DEFINE y == <<"remove", "unlink_init">>
    <3>1. /\ \A c : In(x, c) <=> c \in {"stop", "disable"}
          /\ \A c : In(y, c) <=> c \in {"remove", "unlink_init"}
      BY InLists
    <3>2. x \in Seq(MwCommand) /\ y \in Seq(MwCommand) /\ s = EachOf(roles, x) /\ t = EachOf(roles, y)
      BY <1>1
    <3> HIDE DEF x, y, s, t
    <3> QED BY <1>s, <3>1, <3>2
  <2>2. UdpDelete(roles) = (s \o t) \o <<>>
    BY <1>2 DEF UdpDelete
  <2> HIDE DEF s, t
  <2>3. UdpDelete(roles) = s \o t
    <3>1. s \o t \in Seq(MwCommand \X Role)
      BY <2>1
    <3> QED BY <2>2, <3>1
  <2>4. /\ \A c : In(s \o t, c) <=> In(s, c) \/ In(t, c)
        /\ \A a, b : ~ In(s, b) /\ ~ In(t, a) => Before(s \o t, a, b)
    BY <2>1, InJoined
  <2>5. ASSUME NEW q \in Role, NEW a \in {"stop", "disable"}
        PROVE  Before(s \o t, <<a, q>>, <<"unlink_init", q>>)
    <3>1. ~ In(s, <<"unlink_init", q>>) /\ ~ In(t, <<a, q>>)
      BY <2>1
    <3> QED BY <2>4, <3>1
  <2> QED BY <1>2, <2>1, <2>3, <2>4, <2>5
<1>3. CASE hostKind # "openwrt"
  <2> DEFINE s == EachOf(roles, <<"disable_now">>)
  <2> DEFINE t == EachOf(roles, <<"remove">>)
  <2> DEFINE u == Host(<<"reload">>)
  <2>1. /\ s \in Seq(MwCommand \X Role) /\ t \in Seq(MwCommand \X Role)
        /\ \A c, q : In(s, <<c, q>>) <=> q \in roles /\ c = "disable_now"
        /\ \A c, q : In(t, <<c, q>>) <=> q \in roles /\ c = "remove"
    BY <1>1, <1>s, InLists
  <2>2. u \in Seq(MwCommand \X Role) /\ \A c, q : In(u, <<c, q>>) <=> q = "client" /\ c = "reload"
    BY <1>1, HostList, InLists, ZenonT(60) DEF MwSteps
  <2>3. UdpDelete(roles) = (s \o t) \o u
    BY <1>3 DEF UdpDelete
  <2> HIDE DEF s, t, u
  <2>4. s \o t \in Seq(MwCommand \X Role) /\ \A c : In(s \o t, c) <=> In(s, c) \/ In(t, c)
    BY <2>1, InJoined
  <2> DEFINE v == s \o t
  <2> HIDE DEF v
  <2>5. \A c : In(v \o u, c) <=> In(v, c) \/ In(u, c)
    BY <2>2, <2>4, InJoined, ZenonT(60) DEF v
  <2> QED BY <1>3, <2>1, <2>2, <2>3, <2>4, <2>5 DEF v
<1> QED BY <1>2, <1>3

\* Both operations of mimic: what is written is loaded afterwards.
LEMMA MimicLists ==
  ASSUME NEW i, NEW s \in {MimicApply, MimicDelete(i)}
  PROVE  /\ s = MimicApply =>
              \A c, q : In(s, <<c, q>>) <=>
                q = "client" /\ c \in {"snippet", "system", "reload", "enable", "restart"}
         /\ s = MimicDelete(i) =>
              \/ \A c, q : In(s, <<c, q>>) <=>
                   q = "client" /\ c \in {"unlink_snippet", "system", "restart"}
              \/ /\ \A c, q : In(s, <<c, q>>) <=>
                      q = "client" /\ c \in {"unlink_snippet", "unlink_system", "disable_now"}
                 /\ ~ (mimic.base \/ \E j \in MwInst \ {i} : mimic.snippet[j] # 0)
         /\ Before(s, <<"system", "client">>, <<"restart", "client">>)
         /\ Before(s, <<"unlink_system", "client">>, <<"disable_now", "client">>)
         /\ Before(s, <<"snippet", "client">>, <<"system", "client">>)
         /\ Before(s, <<"unlink_snippet", "client">>, <<"system", "client">>)
         /\ Before(s, <<"unlink_snippet", "client">>, <<"unlink_system", "client">>)
<1> DEFINE x == <<"snippet", "system", "reload", "enable", "restart">>
<1> DEFINE y == <<"unlink_snippet", "system", "restart">>
<1> DEFINE z == <<"unlink_snippet", "unlink_system", "disable_now">>
<1> DEFINE More == mimic.base \/ \E j \in MwInst \ {i} : mimic.snippet[j] # 0
<1>1. x \in Seq(MwCommand) /\ y \in Seq(MwCommand) /\ z \in Seq(MwCommand)
  BY DEF MwCommand
<1>2. /\ \A c : In(x, c) <=> c \in {"snippet", "system", "reload", "enable", "restart"}
      /\ \A c : In(y, c) <=> c \in {"unlink_snippet", "system", "restart"}
      /\ \A c : In(z, c) <=> c \in {"unlink_snippet", "unlink_system", "disable_now"}
  BY LongLists, InLists
<1>3. MimicApply = Host(x) /\ MimicDelete(i) = IF More THEN Host(y) ELSE Host(z)
  BY DEF MimicApply, MimicDelete
<1>4. ASSUME NEW w \in {x, y, z}
      PROVE  /\ Before(w, "system", "restart") /\ Before(w, "unlink_system", "disable_now")
             /\ Before(w, "snippet", "system") /\ Before(w, "unlink_snippet", "system")
             /\ Before(w, "unlink_snippet", "unlink_system")
  <2>1. CASE w = x
    <3>1. Len(x) = 5 /\ x[1] = "snippet" /\ x[2] = "system" /\ x[3] = "reload" /\ x[4] = "enable" /\ x[5] = "restart"
      OBVIOUS
    <3>2. \A k \in 1..5 : k \in {1, 2, 3, 4, 5}
      OBVIOUS
    <3> HIDE DEF x
    <3> QED BY <2>1, <3>1, <3>2 DEF Before
  <2>2. CASE w = y
    <3>1. Len(y) = 3 /\ y[1] = "unlink_snippet" /\ y[2] = "system" /\ y[3] = "restart"
      OBVIOUS
    <3>2. \A k \in 1..3 : k \in {1, 2, 3}
      OBVIOUS
    <3> HIDE DEF y
    <3> QED BY <2>2, <3>1, <3>2 DEF Before
  <2>3. CASE w = z
    <3>1. Len(z) = 3 /\ z[1] = "unlink_snippet" /\ z[2] = "unlink_system" /\ z[3] = "disable_now"
      OBVIOUS
    <3>2. \A k \in 1..3 : k \in {1, 2, 3}
      OBVIOUS
    <3> HIDE DEF z
    <3> QED BY <2>3, <3>1, <3>2 DEF Before
  <2> QED BY <2>1, <2>2, <2>3
<1> HIDE DEF x, y, z, More
<1>5. ASSUME NEW w \in {x, y, z}
      PROVE  /\ \A c, q : In(Host(w), <<c, q>>) <=> q = "client" /\ In(w, c)
             /\ Before(Host(w), <<"system", "client">>, <<"restart", "client">>)
             /\ Before(Host(w), <<"unlink_system", "client">>, <<"disable_now", "client">>)
             /\ Before(Host(w), <<"snippet", "client">>, <<"system", "client">>)
             /\ Before(Host(w), <<"unlink_snippet", "client">>, <<"system", "client">>)
             /\ Before(Host(w), <<"unlink_snippet", "client">>, <<"unlink_system", "client">>)
  <2>1. w \in Seq(MwCommand)
    BY <1>1
  <2>2. /\ \A c, q : In(Host(w), <<c, q>>) <=> q = "client" /\ In(w, c)
        /\ \A a, b : Before(w, a, b) => Before(Host(w), <<a, "client">>, <<b, "client">>)
    BY <2>1, HostList
  <2> QED BY <1>4, <2>2
<1>6. s \in {Host(x), Host(y), Host(z)}
  BY <1>3
<1>7. ASSUME s = MimicApply, NEW c, NEW q
      PROVE  In(s, <<c, q>>) <=>
               q = "client" /\ c \in {"snippet", "system", "reload", "enable", "restart"}
  <2>1. In(Host(x), <<c, q>>) <=> q = "client" /\ In(x, c)
    BY <1>5
  <2>2. s = Host(x)
    BY <1>3, <1>7
  <2>3. In(x, c) <=> c \in {"snippet", "system", "reload", "enable", "restart"}
    BY <1>2
  <2> QED BY <2>1, <2>2, <2>3
<1>8. CASE More
  <2>1. MimicDelete(i) = Host(y)
    BY <1>3, <1>8
  <2> QED BY <1>2, <1>5, <1>6, <1>7, <2>1
<1>9. CASE ~ More
  <2>1. MimicDelete(i) = Host(z)
    BY <1>3, <1>9
  <2>2. ~ (mimic.base \/ \E j \in MwInst \ {i} : mimic.snippet[j] # 0)
    BY <1>9 DEF More
  <2> QED BY <1>2, <1>5, <1>6, <1>7, <2>1, <2>2
<1> QED BY <1>8, <1>9

\* Installing udp2raw; starting and stopping.
LEMMA PlainLists ==
  ASSUME NEW roles \in SUBSET Role
  PROVE  /\ \A c, q : In(UdpInstall, <<c, q>>) <=>
              /\ q = "client"
              /\ c \in (IF hostKind = "openwrt" THEN {"binary"}
                        ELSE {"binary", "wrapper", "server_unit", "client_unit", "reload"})
         /\ \A k \in {"start", "stop"} :
              /\ \A c, q : In(Host(<<k>>), <<c, q>>) <=> q = "client" /\ c = k
              /\ \A c, q : In(EachOf(roles, <<k>>), <<c, q>>) <=> q \in roles /\ c = k
<1> DEFINE x == <<"binary">>
<1> DEFINE y == <<"binary", "wrapper", "server_unit", "client_unit", "reload">>
<1>1. x \in Seq(MwCommand) /\ y \in Seq(MwCommand)
  BY DEF MwCommand, Asset
<1>2. /\ \A c : In(x, c) <=> c \in {"binary"}
      /\ \A c : In(y, c) <=> c \in {"binary", "wrapper", "server_unit", "client_unit", "reload"}
  BY LongLists, InLists
<1>3. UdpInstall = Host(IF hostKind = "openwrt" THEN x ELSE y)
  BY DEF UdpInstall
<1> HIDE DEF x, y
<1>4. /\ \A c, q : In(Host(x), <<c, q>>) <=> q = "client" /\ In(x, c)
      /\ \A c, q : In(Host(y), <<c, q>>) <=> q = "client" /\ In(y, c)
  BY <1>1, HostList
<1>5. ASSUME NEW k \in {"start", "stop"}
      PROVE  /\ \A c, q : In(Host(<<k>>), <<c, q>>) <=> q = "client" /\ c = k
             /\ \A c, q : In(EachOf(roles, <<k>>), <<c, q>>) <=> q \in roles /\ c = k
  <2>1. <<k>> \in Seq(MwCommand)
    BY DEF MwCommand
  <2>2. \A c : In(<<k>>, c) <=> c = k
    BY InLists
  <2> DEFINE l == <<k>>
  <2> HIDE DEF l
  <2>3. /\ \A c, q : In(Host(l), <<c, q>>) <=> q = "client" /\ In(l, c)
        /\ \A c, q : In(EachOf(roles, l), <<c, q>>) <=> q \in roles \cap Role /\ In(l, c)
    BY <2>1, HostList, EachList DEF l
  <2> QED BY <2>2, <2>3 DEF l
<1>6. CASE hostKind = "openwrt"
  BY <1>2, <1>3, <1>4, <1>5, <1>6
<1>7. CASE hostKind # "openwrt"
  BY <1>2, <1>3, <1>4, <1>5, <1>7
<1> QED BY <1>6, <1>7

\* What is put back after a failure, and the service again after its file.
LEMMA MwRollbackList ==
  ASSUME mwOp.roles \in SUBSET Role
  PROVE  /\ mwOp.kind = "install" => \A c, q : In(MwRollback, <<c, q>>) <=>
              q = "client" /\ c \in {"put_back_binary", "put_back_services"}
         /\ mwOp.kind # "install" /\ hostKind = "mimic" =>
              /\ \E z \in {"start_again", "stop_again"} :
                   /\ \A c, q : In(MwRollback, <<c, q>>) <=>
                        q = "client" /\ c \in {"restore_snippet", "restore_system", "reload_again", z}
                   /\ z = "stop_again" => mwOp.mimic.block = Nobody
              /\ Before(MwRollback, <<"restore_system", "client">>, <<"start_again", "client">>)
              /\ Before(MwRollback, <<"restore_system", "client">>, <<"stop_again", "client">>)
         /\ mwOp.kind # "install" /\ hostKind # "mimic" =>
              /\ \A c, q : In(MwRollback, <<c, q>>) =>
                   q \in mwOp.roles /\ c \in {"restore_file", "reload_again", "start_again"}
              /\ \A q \in mwOp.roles : /\ In(MwRollback, <<"restore_file", q>>)
                                       /\ In(MwRollback, <<"start_again", q>>)
              /\ \A q \in Role : Before(MwRollback, <<"restore_file", q>>, <<"start_again", q>>)
<1>1. ASSUME mwOp.kind = "install", NEW c, NEW q
      PROVE  In(MwRollback, <<c, q>>) <=> q = "client" /\ c \in {"put_back_binary", "put_back_services"}
  <2> DEFINE x == <<"put_back_binary", "put_back_services">>
  <2>1. x \in Seq(MwCommand)
    BY DEF MwCommand
  <2>2. In(x, c) <=> c \in {"put_back_binary", "put_back_services"}
    BY InLists
  <2>3. MwRollback = Host(x)
    BY <1>1 DEF MwRollback
  <2> HIDE DEF x
  <2> QED BY <2>1, <2>2, <2>3, HostList
<1>2. ASSUME mwOp.kind # "install", hostKind = "mimic"
      PROVE  /\ \E z \in {"start_again", "stop_again"} :
                  /\ \A c, q : In(MwRollback, <<c, q>>) <=>
                       q = "client" /\ c \in {"restore_snippet", "restore_system", "reload_again", z}
                  /\ z = "stop_again" => mwOp.mimic.block = Nobody
             /\ Before(MwRollback, <<"restore_system", "client">>, <<"start_again", "client">>)
             /\ Before(MwRollback, <<"restore_system", "client">>, <<"stop_again", "client">>)
  <2> DEFINE z == IF mwOp.mimic.base \/ mwOp.mimic.block # Nobody THEN "start_again" ELSE "stop_again"
  <2> DEFINE x == <<"restore_snippet", "restore_system", "reload_again", z>>
  <2>0. z \in {"start_again", "stop_again"} /\ (z = "stop_again" => mwOp.mimic.block = Nobody)
    OBVIOUS
  <2>1. MwRollback = Host(x)
    BY <1>2 DEF MwRollback
  <2> HIDE DEF z
  <2>2. x \in Seq(MwCommand)
    <3>1. z \in MwCommand /\ "restore_snippet" \in MwCommand /\ "restore_system" \in MwCommand
          /\ "reload_again" \in MwCommand
      BY <2>0 DEF MwCommand
    <3> QED BY <3>1
  <2>3. \A c : In(x, c) <=> c \in {"restore_snippet", "restore_system", "reload_again", z}
    BY LongLists
  <2>4. Before(x, "restore_system", "start_again") /\ Before(x, "restore_system", "stop_again")
    <3>1. Len(x) = 4 /\ x[1] = "restore_snippet" /\ x[2] = "restore_system"
          /\ x[3] = "reload_again" /\ x[4] = z
      OBVIOUS
    <3>2. \A k \in 1..4 : k \in {1, 2, 3, 4}
      OBVIOUS
    <3> HIDE DEF x
    <3> QED BY <2>0, <3>1, <3>2 DEF Before
  <2> HIDE DEF x
  <2>5. /\ \A c, q : In(Host(x), <<c, q>>) <=> q = "client" /\ In(x, c)
        /\ \A a, b : Before(x, a, b) => Before(Host(x), <<a, "client">>, <<b, "client">>)
    BY <2>2, HostList
  <2>6. ASSUME NEW c, NEW q
        PROVE  In(MwRollback, <<c, q>>) <=>
                 q = "client" /\ c \in {"restore_snippet", "restore_system", "reload_again", z}
    <3>1. In(Host(x), <<c, q>>) <=> q = "client" /\ In(x, c)
      BY <2>5
    <3>2. In(x, c) <=> c \in {"restore_snippet", "restore_system", "reload_again", z}
      BY <2>3
    <3> QED BY <2>1, <3>1, <3>2
  <2>7. /\ Before(MwRollback, <<"restore_system", "client">>, <<"start_again", "client">>)
        /\ Before(MwRollback, <<"restore_system", "client">>, <<"stop_again", "client">>)
    BY <2>1, <2>4, <2>5
  <2> QED BY <2>0, <2>6, <2>7
<1>3. ASSUME mwOp.kind # "install", hostKind # "mimic"
      PROVE  /\ \A c, q : In(MwRollback, <<c, q>>) =>
                  q \in mwOp.roles /\ c \in {"restore_file", "reload_again", "start_again"}
             /\ \A q \in mwOp.roles : /\ In(MwRollback, <<"restore_file", q>>)
                                      /\ In(MwRollback, <<"start_again", q>>)
             /\ \A q \in Role : Before(MwRollback, <<"restore_file", q>>, <<"start_again", q>>)
  <2> DEFINE x == <<"restore_file", "start_again">>
  <2> DEFINE y == <<"restore_file", "reload_again", "start_again">>
  <2>1. x \in Seq(MwCommand) /\ y \in Seq(MwCommand)
    BY DEF MwCommand
  <2>2. /\ \A c : In(x, c) <=> c \in {"restore_file", "start_again"}
        /\ \A c : In(y, c) <=> c \in {"restore_file", "reload_again", "start_again"}
    BY InLists
  <2>3. Before(x, "restore_file", "start_again")
    <3>1. Len(x) = 2 /\ x[1] = "restore_file" /\ x[2] = "start_again"
      OBVIOUS
    <3> HIDE DEF x
    <3> QED BY <3>1 DEF Before
  <2>4. Before(y, "restore_file", "start_again")
    <3>1. Len(y) = 3 /\ y[1] = "restore_file" /\ y[2] = "reload_again" /\ y[3] = "start_again"
      OBVIOUS
    <3>2. \A k \in 1..3 : k \in {1, 2, 3}
      OBVIOUS
    <3> HIDE DEF y
    <3> QED BY <3>1, <3>2 DEF Before
  <2>5. MwRollback = EachOf(mwOp.roles, x) \/ MwRollback = EachOf(mwOp.roles, y)
    BY <1>3 DEF MwRollback
  <2> HIDE DEF x, y
  <2>6. ASSUME NEW w \in {x, y}, MwRollback = EachOf(mwOp.roles, w)
        PROVE  /\ \A c, q : In(MwRollback, <<c, q>>) =>
                    q \in mwOp.roles /\ c \in {"restore_file", "reload_again", "start_again"}
               /\ \A q \in mwOp.roles : /\ In(MwRollback, <<"restore_file", q>>)
                                        /\ In(MwRollback, <<"start_again", q>>)
               /\ \A q \in Role : Before(MwRollback, <<"restore_file", q>>, <<"start_again", q>>)
    <3>1. /\ w \in Seq(MwCommand) /\ In(w, "restore_file") /\ In(w, "start_again")
          /\ \A c : In(w, c) => c \in {"restore_file", "reload_again", "start_again"}
          /\ Before(w, "restore_file", "start_again")
      BY <2>1, <2>2, <2>3, <2>4, <2>6
    <3>2. /\ \A c, q : In(EachOf(mwOp.roles, w), <<c, q>>) <=> q \in mwOp.roles \cap Role /\ In(w, c)
          /\ \A a, b : \A q \in Role :
               Before(w, a, b) => Before(EachOf(mwOp.roles, w), <<a, q>>, <<b, q>>)
      BY <3>1, EachList
    <3> QED BY <2>6, <3>1, <3>2
  <2> QED BY <2>5, <2>6
<1>4. mwOp.kind = "install" => \A c, q : In(MwRollback, <<c, q>>) <=>
        q = "client" /\ c \in {"put_back_binary", "put_back_services"}
  BY <1>1
<1> QED BY <1>2, <1>3, <1>4

-----------------------------------------------------------------------------
(* What a command does to the service it is given to.                      *)

ServiceAfter(c, s, line) ==
  CASE c = "upsert"       -> [s EXCEPT !.line = mwOp.args]
    [] c = "remove"       -> [s EXCEPT !.line = 0]
    [] c = "restore_file" -> [s EXCEPT !.line = line]
    [] c = "write_init"   -> [s EXCEPT !.init = TRUE]
    [] c = "unlink_init"  -> [s EXCEPT !.init = FALSE]
    [] c = "enable"       -> [s EXCEPT !.boot = TRUE]
    [] c = "disable"      -> [s EXCEPT !.boot = FALSE]
    [] c \in {"restart", "start_again"} -> SwitchOn(s)
    [] c = "start"        -> IF s.on THEN s ELSE SwitchOn(s)
    [] c = "stop"         -> SwitchOff(s)
    [] c = "disable_now"  -> [SwitchOff(s) EXCEPT !.boot = FALSE]
    [] OTHER -> s

LEMMA ServiceFields ==
  ASSUME NEW s \in Service, NEW c, NEW line,
         NEW n, n = ServiceAfter(c, s, line)
  PROVE  /\ n.line = IF c = "upsert" THEN mwOp.args ELSE IF c = "remove" THEN 0
                     ELSE IF c = "restore_file" THEN line ELSE s.line
         /\ n.on <=> c \in {"restart", "start_again", "start"}
                     \/ (c \notin {"stop", "disable_now"} /\ s.on)
         /\ n.run = IF c \in {"restart", "start_again"} \/ (c = "start" /\ ~ s.on) THEN Spawned(s)
                    ELSE IF c \in {"stop", "disable_now"} THEN 0 ELSE s.run
         /\ n.boot <=> c = "enable" \/ (c \notin {"disable", "disable_now"} /\ s.boot)
         /\ n.init <=> c = "write_init" \/ (c # "unlink_init" /\ s.init)
<1>1. CASE c \in {"upsert", "remove", "restore_file"}
  BY <1>1 DEF Service, ServiceAfter
<1>2. CASE c \in {"write_init", "unlink_init"}
  BY <1>2 DEF Service, ServiceAfter
<1>3. CASE c \in {"enable", "disable"}
  BY <1>3 DEF Service, ServiceAfter
<1>4. CASE c \in {"restart", "start_again", "start"}
  BY <1>4 DEF Service, ServiceAfter, SwitchOn
<1>5. CASE c \in {"stop", "disable_now"}
  BY <1>5 DEF Service, ServiceAfter, SwitchOff
<1>6. CASE c \notin {"upsert", "remove", "restore_file", "write_init", "unlink_init", "enable",
                     "disable", "restart", "start_again", "start", "stop", "disable_now"}
  BY <1>6 DEF Service, ServiceAfter
<1> QED BY <1>1, <1>2, <1>3, <1>4, <1>5, <1>6

\* A udp2raw command leaves all other services alone.
LEMMA UdpServices ==
  ASSUME MwTypeOK, Untouched, NEW c \in MwCommand, NEW r \in Role, hostKind # "mimic",
         mwOp.kind # "install", Takes(<<c, r>>)
  PROVE  /\ assets' = assets /\ mimic' = mimic /\ mwOp.inst \in MwInst
         /\ udp'[r][mwOp.inst] = ServiceAfter(c, udp[r][mwOp.inst], mwOp.udp[r][mwOp.inst].line)
         /\ \A q \in Role, j \in MwInst : q # r \/ j # mwOp.inst => udp'[q][j] = udp[q][j]
<1> DEFINE i == mwOp.inst
<1> DEFINE s == udp[r][i]
<1>0. /\ udp \in Services /\ i \in MwInst /\ udp[r] \in [MwInst -> Service]
      /\ mwOp.udp \in Services
  BY DEF MwTypeOK, MwOperation, Services, Untouched
<1>1. udp' = UdpAfter(c, r, i) /\ assets' = assets /\ mimic' = mimic
  <2>1. <<c, r>>[1] = c /\ <<c, r>>[2] = r
    OBVIOUS
  <2> QED BY <2>1 DEF Takes
<1>2. ASSUME NEW n, UdpAfter(c, r, i) = [udp EXCEPT ![r][i] = n]
      PROVE  udp'[r][i] = n /\ \A q \in Role, j \in MwInst : q # r \/ j # i => udp'[q][j] = udp[q][j]
  <2> DEFINE row == [udp[r] EXCEPT ![i] = n]
  <2>1. row[i] = n /\ \A j \in MwInst : j # i => row[j] = udp[r][j]
    BY <1>0
  <2>2. udp' = [udp EXCEPT ![r] = row]
    BY <1>1, <1>2
  <2> HIDE DEF row
  <2>3. \A q \in Role : udp'[q] = IF q = r THEN row ELSE udp[q]
    BY <1>0, <2>2 DEF Services
  <2> QED BY <2>1, <2>3
<1>3. CASE c # "restore_file"
  <2>1. \/ UdpAfter(c, r, i) = [udp EXCEPT ![r][i] = ServiceAfter(c, s, mwOp.udp[r][i].line)]
        \/ UdpAfter(c, r, i) = udp /\ ServiceAfter(c, s, mwOp.udp[r][i].line) = s
    <3>1. CASE c \in {"upsert", "write_init", "unlink_init", "enable", "disable"}
      BY <3>1 DEF UdpAfter, ServiceAfter
    <3>2. CASE c \in {"restart", "start_again", "start", "stop", "disable_now"}
      BY <3>2 DEF UdpAfter, ServiceAfter
    <3>3. CASE c = "remove"
      BY <3>3 DEF UdpAfter, ServiceAfter, RemoveLine
    <3>4. CASE c \notin {"upsert", "write_init", "unlink_init", "enable", "disable", "restart",
                         "start_again", "start", "stop", "disable_now", "remove"}
      BY <1>3, <3>4 DEF UdpAfter, ServiceAfter
    <3> QED BY <3>1, <3>2, <3>3, <3>4
  <2>2. CASE UdpAfter(c, r, i) = [udp EXCEPT ![r][i] = ServiceAfter(c, s, mwOp.udp[r][i].line)]
    BY <1>0, <1>1, <1>2, <2>2
  <2>3. CASE UdpAfter(c, r, i) = udp /\ ServiceAfter(c, s, mwOp.udp[r][i].line) = s
    BY <1>0, <1>1, <2>3
  <2> QED BY <2>1, <2>2, <2>3
<1>4. CASE c = "restore_file"
  <2> DEFINE row == [j \in MwInst |-> [udp[r][j] EXCEPT !.line = mwOp.udp[r][j].line]]
  <2>1. udp' = [udp EXCEPT ![r] = row]
    BY <1>1, <1>4 DEF UdpAfter
  <2>2. row[i] = [s EXCEPT !.line = mwOp.udp[r][i].line]
    BY <1>0
  <2>3. ASSUME NEW j \in MwInst, j # i PROVE row[j] = udp[r][j]
    <3>1. udp[r][j].line = mwOp.udp[r][j].line /\ udp[r][j] \in Service
      BY <1>0, <2>3 DEF Untouched, Mine
    <3>2. row[j] = [udp[r][j] EXCEPT !.line = udp[r][j].line]
      BY <3>1
    <3> HIDE DEF row
    <3> QED BY <3>1, <3>2 DEF Service
  <2> HIDE DEF row
  <2>4. \A q \in Role : udp'[q] = IF q = r THEN row ELSE udp[q]
    BY <1>0, <2>1 DEF Services
  <2>5. ServiceAfter(c, s, mwOp.udp[r][i].line) = [s EXCEPT !.line = mwOp.udp[r][i].line]
    BY <1>4 DEF ServiceAfter
  <2> QED BY <1>0, <1>1, <2>2, <2>3, <2>4, <2>5
<1> QED BY <1>3, <1>4

\* What a command does to mimic.
LEMMA MimicFields ==
  ASSUME MwTypeOK, NEW c \in MwCommand, NEW r \in Role, hostKind = "mimic",
         Takes(<<c, r>>), mwOp.inst \in MwInst
  PROVE  /\ udp' = udp /\ assets' = assets
         /\ mimic'.snippet = IF c = "snippet" THEN [mimic.snippet EXCEPT ![mwOp.inst] = mwOp.args]
                             ELSE IF c = "unlink_snippet" THEN [mimic.snippet EXCEPT ![mwOp.inst] = 0]
                             ELSE IF c = "restore_snippet"
                                  THEN [mimic.snippet EXCEPT ![mwOp.inst] = mwOp.mimic.snippet[mwOp.inst]]
                                  ELSE mimic.snippet
         /\ mimic'.block = IF c = "system" THEN mimic.snippet
                           ELSE IF c = "unlink_system" THEN Nobody
                           ELSE IF c = "restore_system" THEN mwOp.mimic.block ELSE mimic.block
         /\ c \in {"restart", "start_again"} =>
              IF Loadable(mimic) THEN mimic'.on /\ mimic'.loaded = mimic.block
              ELSE ~ mimic'.on /\ mimic'.loaded = Nobody
         /\ c \in {"stop", "stop_again", "disable_now"} => ~ mimic'.on /\ mimic'.loaded = Nobody
         /\ c \notin {"restart", "start_again", "start", "stop", "stop_again", "disable_now"} =>
              mimic'.on = mimic.on /\ mimic'.loaded = mimic.loaded
         /\ mimic'.on => \/ Loadable(mimic) /\ mimic'.loaded = mimic.block
                         \/ mimic.on /\ mimic'.loaded = mimic.loaded
<1> DEFINE i == mwOp.inst
<1>0. mimic \in MimicHost
  BY DEF MwTypeOK
<1>1. mimic' = MimicAfter(c, i) /\ udp' = udp /\ assets' = assets
  <2>1. <<c, r>>[1] = c
    OBVIOUS
  <2> QED BY <2>1 DEF Takes
<1>2. /\ LoadMimic(mimic).snippet = mimic.snippet /\ LoadMimic(mimic).block = mimic.block
      /\ IF Loadable(mimic) THEN LoadMimic(mimic).on /\ LoadMimic(mimic).loaded = mimic.block
         ELSE ~ LoadMimic(mimic).on /\ LoadMimic(mimic).loaded = Nobody
  BY <1>0 DEF LoadMimic, MimicHost
<1>3. LET m == UnloadMimic(mimic) IN
      /\ m.snippet = mimic.snippet /\ m.block = mimic.block /\ ~ m.on /\ m.loaded = Nobody
  BY <1>0 DEF UnloadMimic, MimicHost
<1>4. LET m == [UnloadMimic(mimic) EXCEPT !.boot = FALSE] IN
      /\ m.snippet = mimic.snippet /\ m.block = mimic.block /\ ~ m.on /\ m.loaded = Nobody
  BY <1>0 DEF UnloadMimic, MimicHost
<1>5. CASE c \in {"snippet", "unlink_snippet", "restore_snippet"}
  <2> DEFINE v == IF c = "snippet" THEN mwOp.args ELSE IF c = "unlink_snippet" THEN 0
                  ELSE mwOp.mimic.snippet[i]
  <2> DEFINE sn == [mimic.snippet EXCEPT ![i] = v]
  <2>1. mimic' = [mimic EXCEPT !.snippet = sn]
    BY <1>1, <1>5 DEF MimicAfter
  <2>2. c = "snippet" => sn = [mimic.snippet EXCEPT ![i] = mwOp.args]
    OBVIOUS
  <2>3. c = "unlink_snippet" => sn = [mimic.snippet EXCEPT ![i] = 0]
    OBVIOUS
  <2>4. c = "restore_snippet" => sn = [mimic.snippet EXCEPT ![i] = mwOp.mimic.snippet[i]]
    OBVIOUS
  <2> HIDE DEF sn, v
  <2>5. /\ mimic'.snippet = sn /\ mimic'.block = mimic.block /\ mimic'.on = mimic.on
        /\ mimic'.loaded = mimic.loaded
    BY <1>0, <2>1 DEF MimicHost
  <2> QED BY <1>1, <1>5, <2>2, <2>3, <2>4, <2>5
<1>6. CASE c \in {"system", "unlink_system", "restore_system", "enable"}
  <2>1. /\ mimic'.snippet = mimic.snippet /\ mimic'.on = mimic.on /\ mimic'.loaded = mimic.loaded
        /\ mimic'.block = IF c = "system" THEN mimic.snippet ELSE IF c = "unlink_system" THEN Nobody
                          ELSE IF c = "restore_system" THEN mwOp.mimic.block ELSE mimic.block
    BY <1>0, <1>1, <1>6 DEF MimicAfter, Rendered, MimicHost
  <2> QED BY <1>1, <1>6, <2>1
<1>7. CASE c \in {"restart", "start_again"}
  <2>1. mimic' = LoadMimic(mimic)
    BY <1>1, <1>7 DEF MimicAfter
  <2> QED BY <1>1, <1>2, <1>7, <2>1
<1>8. CASE c = "start"
  <2>1. mimic' = IF mimic.on THEN mimic ELSE LoadMimic(mimic)
    BY <1>1, <1>8 DEF MimicAfter
  <2> QED BY <1>1, <1>2, <1>8, <2>1
<1>9. CASE c \in {"stop", "stop_again", "disable_now"}
  <2>1. mimic' = IF c = "disable_now" THEN [UnloadMimic(mimic) EXCEPT !.boot = FALSE] ELSE UnloadMimic(mimic)
    BY <1>1, <1>9 DEF MimicAfter
  <2> QED BY <1>1, <1>3, <1>4, <1>9, <2>1
<1>10. CASE c \notin {"snippet", "unlink_snippet", "restore_snippet", "system", "unlink_system",
                      "restore_system", "enable", "restart", "start_again", "start", "stop",
                      "stop_again", "disable_now"}
  <2>1. mimic' = mimic
    BY <1>1, <1>10 DEF MimicAfter
  <2> QED BY <1>1, <1>10, <2>1
<1> QED BY <1>5, <1>6, <1>7, <1>8, <1>9, <1>10

\* What a command does to the files of udp2raw.
LEMMA AssetFields ==
  ASSUME MwTypeOK, NEW c \in MwCommand, NEW r \in Role, hostKind # "mimic",
         Takes(<<c, r>>), mwOp.kind = "install", NEW a \in Asset
  PROVE  /\ udp' = udp /\ mimic' = mimic
         /\ assets'[a] = IF c = a THEN 2
                         ELSE IF c = "put_back_binary" /\ a = "binary" THEN mwOp.assets[a]
                         ELSE IF c = "put_back_services" /\ a # "binary" THEN mwOp.assets[a]
                         ELSE assets[a]
<1>0. assets \in [Asset -> 0..2] /\ "binary" \in Asset
  BY DEF MwTypeOK, Assets, Asset
<1>1. assets' = AssetsAfter(c, r) /\ udp' = udp /\ mimic' = mimic
  <2>1. <<c, r>>[1] = c /\ <<c, r>>[2] = r
    OBVIOUS
  <2> QED BY <2>1 DEF Takes
<1>2. CASE c \in Asset
  <2>1. assets' = [assets EXCEPT ![c] = 2] /\ c \notin {"put_back_binary", "put_back_services"}
    BY <1>1, <1>2 DEF AssetsAfter, Asset
  <2> QED BY <1>0, <1>1, <2>1
<1>3. CASE c = "put_back_binary"
  <2>1. assets' = [assets EXCEPT !["binary"] = mwOp.assets["binary"]] /\ c \notin Asset
    BY <1>1, <1>3 DEF AssetsAfter, Asset
  <2> QED BY <1>0, <1>1, <1>3, <2>1
<1>4. CASE c = "put_back_services"
  <2>1. /\ assets' = [x \in Asset |-> IF x = "binary" THEN assets[x] ELSE mwOp.assets[x]]
        /\ c \notin Asset
    BY <1>1, <1>4 DEF AssetsAfter, Asset
  <2> QED BY <1>0, <1>1, <1>4, <2>1
<1>5. CASE c \notin Asset \cup {"put_back_binary", "put_back_services"}
  <2>1. assets' = assets
    BY <1>1, <1>5 DEF AssetsAfter
  <2> QED BY <1>1, <1>5, <2>1
<1> QED BY <1>2, <1>3, <1>4, <1>5

-----------------------------------------------------------------------------
(* The host stays sound.                                                   *)

LEMMA SpawnsSound == \A s : Spawned(s) # 0 => Spawned(s) \notin rejected
BY DEF Spawned

\* A script is removed only from a service that is off and disabled.
LEMMA UnlinksIdle ==
  ASSUME MwTypeOK, MwUnderWay, ~ MwDone, mwOp.todo # <<>>, NEW r \in Role,
         Head(mwOp.todo) = <<"unlink_init", r>>, hostKind = "openwrt"
  PROVE  ~ udp[r][mwOp.inst].on /\ ~ udp[r][mwOp.inst].boot
<1> DEFINE s == mwOp.todo
<1>0. "unlink_init" \in MwCommand /\ s \in Seq(MwCommand \X Role) /\ s # <<>>
  BY DEF MwCommand, MwTypeOK, MwOperation
<1>1. Planned /\ UdpWork
  BY DEF MwUnderWay
<1> HIDE DEF s
<1>2. Head(s) = <<"unlink_init", r>>
  BY DEF s
<1>3. /\ In(s, <<"unlink_init", r>>)
      /\ \A a : Before(s, a, <<"unlink_init", r>>) => ~ In(s, a)
  BY <1>0, <1>2, OneFewer
<1>4. ToDo("unlink_init", r) /\ \A a : Comes(a, "unlink_init", r) => ~ ToDo(a, r)
  BY <1>3 DEF ToDo, Comes, s
<1>5. mwOp.kind = "delete" /\ r \in mwOp.roles
  <2>1. "unlink_init" \in MwPlan /\ (mwOp.kind # "install" => r \in mwOp.roles)
    BY <1>0, <1>1, <1>4 DEF Planned
  <2>2. mwOp.kind \in {"none", "apply", "start", "stop", "delete", "install"}
        /\ mwOp.stage \in {"before", "rollback"}
    BY DEF MwTypeOK, MwOperation, MwDone
  <2>3. mwOp.kind = "delete"
    <3>1. mwOp.kind # "none"
      BY DEF MwUnderWay, Untouched
    <3> QED BY <2>1, <2>2, <3>1 DEF MwPlan, Asset
  <2> QED BY <2>1, <2>3
<1>6. UdpDeleted(r)
  BY <1>1, <1>5 DEF UdpWork
<1> QED BY <1>4, <1>5, <1>6 DEF UdpDeleted

LEMMA SoundGiven ==
  ASSUME MwTypeOK, SoundHost(udp, mimic, assets), MwUnderWay, ~ MwDone, mwOp.todo # <<>>,
         NEW c \in MwCommand, NEW r \in Role, Head(mwOp.todo) = <<c, r>>, GivenTo(c, r)
  PROVE  SoundHost(udp', mimic', assets')
<1>0. Planned /\ Untouched /\ UdpWork /\ InstallWork /\ SoundHost(mwOp.udp, mwOp.mimic, mwOp.assets)
  BY DEF MwUnderWay
<1>1. CASE hostKind = "mimic"
  <2>1. mwOp.inst \in MwInst /\ Takes(<<c, r>>)
    BY <1>0, <1>1 DEF Untouched, GivenTo
  <2>2. /\ udp' = udp /\ assets' = assets
        /\ mimic'.on => \/ Loadable(mimic) /\ mimic'.loaded = mimic.block
                        \/ mimic.on /\ mimic'.loaded = mimic.loaded
    BY <1>1, <2>1, MimicFields
  <2> QED BY <2>2 DEF SoundHost, Loadable
<1>2. CASE hostKind # "mimic" /\ mwOp.kind = "install"
  <2>1. udp' = udp /\ mimic' = mimic
    BY <1>2, AssetFields DEF GivenTo, Asset
  <2>2. ASSUME hostKind = "openwrt", NEW a \in Asset \ {"binary"} PROVE assets'[a] = 0
    <3>1. ToDo(c, r)
      BY NextCommand
    <3>2. r = "client"
      BY <1>0, <1>2, <3>1 DEF Planned
    <3>3. assets[a] = 0 /\ mwOp.assets[a] = 0
      BY <1>0, <2>2 DEF SoundHost
    <3>4. c # a
      <4>1. CASE mwOp.stage = "before"
        BY <1>0, <1>2, <2>2, <3>1, <3>2, <4>1 DEF InstallWork, OnHost
      <4>2. CASE mwOp.stage # "before"
        <5>1. mwOp.stage = "rollback"
          BY <4>2 DEF MwDone
        <5> QED BY <1>0, <1>2, <3>1, <5>1 DEF Planned, MwPlan, Asset
      <4> QED BY <4>1, <4>2
    <3> QED BY <1>2, <3>3, <3>4, AssetFields DEF GivenTo
  <2> QED BY <2>1, <2>2 DEF SoundHost
<1>3. CASE hostKind # "mimic" /\ mwOp.kind # "install"
  <2> DEFINE i == mwOp.inst
  <2>1. Takes(<<c, r>>) /\ MwWorks(<<c, r>>)
    BY <1>3 DEF GivenTo
  <2>2. /\ assets' = assets /\ mimic' = mimic /\ i \in MwInst
        /\ udp'[r][i] = ServiceAfter(c, udp[r][i], mwOp.udp[r][i].line)
        /\ \A q \in Role, j \in MwInst : q # r \/ j # i => udp'[q][j] = udp[q][j]
    BY <1>0, <1>3, <2>1, UdpServices
  <2> DEFINE s == udp[r][i]
  <2> DEFINE n == udp'[r][i]
  <2>3. s \in Service /\ SoundService(s)
    BY <2>2 DEF MwTypeOK, Services, SoundHost
  <2>4. hostKind = "openwrt" /\ c \in {"enable", "disable", "restart", "start", "stop", "start_again"} => s.init
    <3>1. <<c, r>>[1] = c /\ <<c, r>>[2] = r /\ c # "raise"
      BY <2>1 DEF MwWorks
    <3> QED BY <1>3, <2>1, <3>1 DEF MwWorks
  <2>5. c = "unlink_init" /\ hostKind = "openwrt" => ~ s.on /\ ~ s.boot
    BY UnlinksIdle
  <2> HIDE DEF s, n
  <2>6. n = ServiceAfter(c, s, mwOp.udp[r][i].line)
    BY <2>2 DEF n, s
  <2>7. /\ n.on <=> c \in {"restart", "start_again", "start"}
                    \/ (c \notin {"stop", "disable_now"} /\ s.on)
        /\ n.run = IF c \in {"restart", "start_again"} \/ (c = "start" /\ ~ s.on) THEN Spawned(s)
                   ELSE IF c \in {"stop", "disable_now"} THEN 0 ELSE s.run
        /\ n.boot <=> c = "enable" \/ (c \notin {"disable", "disable_now"} /\ s.boot)
        /\ n.init <=> c = "write_init" \/ (c # "unlink_init" /\ s.init)
    BY <2>3, <2>6, ServiceFields
  <2>8. SoundService(n)
    <3>1. n.run # 0 => n.run \notin rejected /\ n.on
      BY <2>3, <2>7, SpawnsSound DEF SoundService
    <3>2. hostKind = "openwrt" /\ (n.on \/ n.boot) => n.init
      BY <2>3, <2>4, <2>5, <2>7 DEF SoundService
    <3> QED BY <3>1, <3>2 DEF SoundService
  <2>9. \A q \in Role, j \in MwInst : SoundService(udp'[q][j])
    BY <2>2, <2>8 DEF SoundHost, n
  <2> QED BY <2>2, <2>9 DEF SoundHost
<1> QED BY <1>1, <1>2, <1>3

-----------------------------------------------------------------------------
(* An operation goes on.                                                   *)

\* What an operation does not ignore has worked.
LEMMA NotIgnoredWorks ==
  ASSUME MwTypeOK, MwUnderWay, NEW c \in MwCommand, NEW r \in Role, MwGoes(c, r)
  PROVE  /\ ToDo(c, r) /\ Popped(c, r) /\ c \in MwPlan
         /\ c # "raise" /\ (GivenTo(c, r) \/ SameHost)
         /\ mwOp'.clean => mwOp.clean /\ ((Takes(<<c, r>>) /\ MwWorks(<<c, r>>)) \/ ~ MwWorks(<<c, r>>))
         /\ /\ mwOp.kind \notin {"start", "stop"}
            /\ \/ mwOp.stage = "before"
               \/ c \notin {"start_again", "stop_again", "reload_again", "put_back_binary",
                            "put_back_services"}
            => Takes(<<c, r>>) /\ MwWorks(<<c, r>>)
<1>0. <<c, r>>[1] = c /\ <<c, r>>[2] = r
  OBVIOUS
<1>1. ToDo(c, r) /\ Popped(c, r)
  BY NextCommand DEF MwGoes
<1>2. c \in MwPlan
  BY <1>1 DEF MwUnderWay, MwGoes, Planned
<1>3. \/ Takes(<<c, r>>) /\ MwWorks(<<c, r>>) /\ mwOp'.clean = mwOp.clean
      \/ /\ Ignored(<<c, r>>) /\ (GivenTo(c, r) \/ SameHost)
         /\ mwOp'.clean = FALSE \/ (mwOp'.clean = mwOp.clean /\ ~ MwWorks(<<c, r>>))
  BY DEF MwGoes
<1>4. c # "raise"
  <2>1. c = "raise" => ~ MwWorks(<<c, r>>)
    BY <1>0 DEF MwWorks
  <2>2. c = "raise" => ~ Ignored(<<c, r>>)
    <3>1. mwOp.kind \in {"start", "stop"} => c # "raise"
      BY <1>2 DEF MwPlan
    <3> QED BY <1>0, <3>1 DEF Ignored
  <2> QED BY <1>3, <2>1, <2>2
<1>5. GivenTo(c, r) \/ SameHost
  BY <1>3 DEF GivenTo
<1>6. /\ mwOp.kind \notin {"start", "stop"}
      /\ \/ mwOp.stage = "before"
         \/ c \notin {"start_again", "stop_again", "reload_again", "put_back_binary",
                      "put_back_services"}
      => ~ Ignored(<<c, r>>)
  BY <1>0 DEF Ignored
<1> QED BY <1>1, <1>2, <1>3, <1>4, <1>5, <1>6

\* What comes before goes on doing so.
LEMMA StillFollows ==
  ASSUME NEW c, NEW r, Popped(c, r), NEW a, NEW b, NEW q, Follows(a, b, q)
  PROVE  Follows(a, b, q)'
BY DEF Follows, Popped

\* A command leaves alone what it is not about.
LEMMA NotMine ==
  ASSUME MwTypeOK, MwUnderWay, ~ MwDone, mwOp.todo # <<>>, NEW c \in MwCommand, NEW r \in Role,
         Head(mwOp.todo) = <<c, r>>, GivenTo(c, r) \/ SameHost
  PROVE  /\ \A q \in Role, j \in MwInst : ~ Mine(q, j) => udp'[q][j] = udp[q][j]
         /\ mwOp.kind # "install" => assets' = assets
         /\ hostKind # "mimic" => mimic' = mimic
         /\ hostKind = "mimic" \/ mwOp.kind = "install" => udp' = udp
<1>0. Planned /\ Untouched /\ ToDo(c, r)
  BY NextCommand DEF MwUnderWay
<1>1. CASE SameHost
  BY <1>1 DEF SameHost
<1>2. CASE GivenTo(c, r) /\ hostKind = "mimic"
  BY <1>0, <1>2, MimicFields DEF GivenTo, Untouched
<1>3. CASE GivenTo(c, r) /\ hostKind # "mimic" /\ mwOp.kind = "install"
  BY <1>3, AssetFields DEF GivenTo, Asset
<1>4. CASE GivenTo(c, r) /\ hostKind # "mimic" /\ mwOp.kind # "install"
  <2>1. /\ assets' = assets /\ mimic' = mimic /\ mwOp.inst \in MwInst
        /\ udp'[r][mwOp.inst] = ServiceAfter(c, udp[r][mwOp.inst], mwOp.udp[r][mwOp.inst].line)
        /\ \A q \in Role, j \in MwInst : q # r \/ j # mwOp.inst => udp'[q][j] = udp[q][j]
    BY <1>0, <1>4, UdpServices DEF GivenTo
  <2>2. ASSUME NEW q \in Role, NEW j \in MwInst, ~ Mine(q, j), q = r, j = mwOp.inst
        PROVE  udp'[q][j] = udp[q][j]
    <3>1. c = "reload"
      BY <1>0, <1>4, <2>2 DEF Planned, Mine
    <3>2. ServiceAfter(c, udp[r][mwOp.inst], mwOp.udp[r][mwOp.inst].line) = udp[r][mwOp.inst]
      BY <3>1 DEF ServiceAfter
    <3> QED BY <2>1, <2>2, <3>2
  <2> QED BY <1>4, <2>1, <2>2
<1> QED BY <1>1, <1>2, <1>3, <1>4

LEMMA UntouchedStill ==
  ASSUME Untouched, SameMw,
         mwOp'.stage = "rollback" =>
           \/ mwOp.stage = "rollback"
           \/ /\ mwOp.kind \notin {"start", "stop"}
              /\ mwOp.kind \in {"install", "apply"} \/ hostKind = "mimic",
         \A q \in Role, j \in MwInst : ~ Mine(q, j) => udp'[q][j] = udp[q][j],
         mwOp.kind # "install" => assets' = assets,
         hostKind # "mimic" => mimic' = mimic
  PROVE  Untouched'
<1>1. \A q \in Role, j \in MwInst : Mine(q, j)' <=> Mine(q, j)
  BY DEF Mine, SameMw
<1>2. ASSUME NEW q \in Role, NEW j \in MwInst, ~ Mine(q, j)'
      PROVE  /\ udp'[q][j].line = mwOp'.udp[q][j].line
             /\ Resumed(udp[q][j], mwOp.udp[q][j])'
  <2>1. /\ udp'[q][j] = udp[q][j] /\ mwOp'.udp = mwOp.udp
        /\ udp[q][j].line = mwOp.udp[q][j].line /\ Resumed(udp[q][j], mwOp.udp[q][j])
    BY <1>1, <1>2 DEF Untouched, SameMw
  <2> QED BY <2>1 DEF Resumed
<1> QED BY <1>2 DEF Untouched, SameMw

LEMMA GroundGoes ==
  ASSUME MwTypeOK, SoundHost(udp, mimic, assets), MwUnderWay,
         NEW c \in MwCommand, NEW r \in Role, MwGoes(c, r)
  PROVE  /\ SoundHost(udp, mimic, assets)'
         /\ SoundHost(mwOp.udp, mwOp.mimic, mwOp.assets)'
         /\ Planned' /\ Untouched'
<1>0. /\ ~ MwDone /\ mwOp.todo # <<>> /\ Head(mwOp.todo) = <<c, r>> /\ SameMw
      /\ mwOp'.stage = mwOp.stage /\ Planned /\ Untouched
      /\ SoundHost(mwOp.udp, mwOp.mimic, mwOp.assets)
  BY DEF MwGoes, MwUnderWay
<1>1. Popped(c, r) /\ (GivenTo(c, r) \/ SameHost)
  BY NotIgnoredWorks
<1>2. SoundHost(udp', mimic', assets')
  <2>1. CASE GivenTo(c, r)
    BY <1>0, <2>1, SoundGiven
  <2>2. CASE SameHost
    BY <2>2 DEF SameHost
  <2> QED BY <1>1, <2>1, <2>2
<1>3. SoundHost(udp, mimic, assets)'
  BY <1>0, <1>2 DEF SoundHost, SoundService, SameMw
<1>4. SoundHost(mwOp.udp, mwOp.mimic, mwOp.assets)'
  BY <1>0 DEF SoundHost, SoundService, SameMw
<1>5. Planned'
  <2>1. MwPlan' = MwPlan
    BY <1>0 DEF MwPlan, SameMw
  <2>2. \A b, q : ToDo(b, q)' => ToDo(b, q)
    BY <1>1 DEF Popped
  <2> QED BY <1>0, <2>1, <2>2 DEF Planned, SameMw
<1>6. Untouched'
  BY <1>0, <1>1, NotMine, UntouchedStill
<1> QED BY <1>3, <1>4, <1>5, <1>6

\* udp2raw.
LEMMA UdpGoes ==
  ASSUME MwTypeOK, MwTypeOK', SoundHost(udp, mimic, assets), MwUnderWay,
         NEW c \in MwCommand, NEW r \in Role, MwGoes(c, r)
  PROVE  UdpWork'
<1>0. /\ ~ MwDone /\ mwOp.todo # <<>> /\ Head(mwOp.todo) = <<c, r>> /\ SameMw
      /\ mwOp'.stage = mwOp.stage /\ Planned /\ Untouched /\ UdpWork
      /\ SoundHost(mwOp.udp, mwOp.mimic, mwOp.assets)
  BY DEF MwGoes, MwUnderWay
<1>1. /\ ToDo(c, r) /\ Popped(c, r) /\ c \in MwPlan
      /\ c # "raise" /\ (GivenTo(c, r) \/ SameHost)
      /\ mwOp'.clean => mwOp.clean /\ ((Takes(<<c, r>>) /\ MwWorks(<<c, r>>)) \/ ~ MwWorks(<<c, r>>))
      /\ /\ mwOp.kind \notin {"start", "stop"}
         /\ \/ mwOp.stage = "before"
            \/ c \notin {"start_again", "stop_again", "reload_again", "put_back_binary",
                         "put_back_services"}
         => Takes(<<c, r>>) /\ MwWorks(<<c, r>>)
  BY NotIgnoredWorks
<1>2. SUFFICES ASSUME NEW q \in mwOp.roles PROVE UdpApplied(q)' /\ UdpPutBack(q)' /\ UdpDeleted(q)'
  BY <1>0 DEF UdpWork, SameMw
<1>3. /\ hostKind # "mimic" /\ mwOp.kind # "install" /\ q \in Role /\ mwOp.inst \in MwInst
      /\ UdpApplied(q) /\ UdpPutBack(q) /\ UdpDeleted(q)
  BY <1>0, <1>2 DEF Untouched, UdpWork, MwTypeOK, MwOperation
<1> DEFINE i == mwOp.inst
<1> DEFINE s == udp[q][i]
<1> DEFINE n == udp'[q][i]
<1> DEFINE o == mwOp.udp[q][i]
<1>4. /\ mwOp'.inst = i /\ mwOp'.kind = mwOp.kind /\ mwOp'.args = mwOp.args /\ mwOp'.udp = mwOp.udp
      /\ hostKind' = hostKind /\ rejected' = rejected
  BY <1>0 DEF SameMw
<1>5. /\ \A b, p : ToDo(b, p) <=> ToDo(b, p)' \/ (b = c /\ p = r)
      /\ \A a, b : Comes(a, b, q) =>
           /\ Comes(a, b, q)' /\ (b = c /\ q = r => ~ ToDo(a, q))
           /\ a = c /\ q = r /\ ToDo(b, q) => ToDo(b, q)'
  BY <1>1 DEF Popped
<1>6. s \in Service /\ o \in Service /\ n \in Service
  BY <1>3, <1>4 DEF MwTypeOK, MwOperation, Services
<1>7. \/ n = s /\ (q # r \/ ~ (Takes(<<c, r>>) /\ MwWorks(<<c, r>>)))
      \/ /\ q = r /\ Takes(<<c, r>>) /\ MwWorks(<<c, r>>) /\ n = ServiceAfter(c, s, o.line)
  <2>1. CASE SameHost /\ ~ (Takes(<<c, r>>) /\ MwWorks(<<c, r>>))
    BY <2>1 DEF SameHost
  <2>2. CASE Takes(<<c, r>>) /\ MwWorks(<<c, r>>)
    <3>1. /\ udp'[r][i] = ServiceAfter(c, udp[r][i], mwOp.udp[r][i].line)
          /\ \A p \in Role, j \in MwInst : p # r \/ j # i => udp'[p][j] = udp[p][j]
      BY <1>0, <1>3, <2>2, UdpServices
    <3> QED BY <1>3, <2>2, <3>1
  <2> QED BY <1>1, <1>3, <2>1, <2>2 DEF GivenTo
<1>8. ASSUME q = r, n = ServiceAfter(c, s, o.line)
      PROVE  /\ n.line = IF c = "upsert" THEN mwOp.args ELSE IF c = "remove" THEN 0
                         ELSE IF c = "restore_file" THEN o.line ELSE s.line
             /\ n.on <=> c \in {"restart", "start_again", "start"}
                         \/ (c \notin {"stop", "disable_now"} /\ s.on)
             /\ n.run = IF c \in {"restart", "start_again"} \/ (c = "start" /\ ~ s.on) THEN Spawned(s)
                        ELSE IF c \in {"stop", "disable_now"} THEN 0 ELSE s.run
             /\ n.boot <=> c = "enable" \/ (c \notin {"disable", "disable_now"} /\ s.boot)
             /\ n.init <=> c = "write_init" \/ (c # "unlink_init" /\ s.init)
  BY <1>6, <1>8, ServiceFields
<1>9. /\ n.line = s.line => Spawned(n) = Spawned(s)
      /\ Spawned(udp[q][mwOp.inst])' = Spawned(n)
  BY <1>4 DEF Spawned
<1> HIDE DEF i, s, n, o
<1>10. UdpApplied(q)'
  <2>1. SUFFICES ASSUME mwOp.kind = "apply", mwOp.stage = "before"
                 PROVE  /\ Follows("upsert", "restart", q)'
                        /\ ToDo("upsert", q)' \/ n.line = mwOp.args
                        /\ ToDo("restart", q)' \/ (n.on /\ n.run = Spawned(n))
    BY <1>0, <1>4, <1>9 DEF UdpApplied, i, n
  <2>2. /\ Follows("upsert", "restart", q)
        /\ ToDo("upsert", q) \/ s.line = mwOp.args
        /\ ToDo("restart", q) \/ (s.on /\ s.run = Spawned(s))
    BY <1>3, <2>1 DEF UdpApplied, s, i
  <2>3. Follows("upsert", "restart", q)'
    BY <1>1, <2>2, StillFollows
  <2>4. Takes(<<c, r>>) /\ MwWorks(<<c, r>>)
    BY <1>1, <2>1
  <2>5. CASE q # r
    BY <1>5, <1>7, <1>9, <2>2, <2>3, <2>5
  <2>6. CASE q = r
    <3>1. n = ServiceAfter(c, s, o.line)
      BY <1>7, <2>4, <2>6
    <3>2. c \in {"upsert", "write_init", "reload", "enable", "restart"}
      BY <1>1, <1>3, <2>1 DEF MwPlan
    <3>3. ToDo("upsert", q)' \/ n.line = mwOp.args
      BY <1>5, <1>8, <2>2, <2>6, <3>1, <3>2
    <3>4. CASE c = "restart"
      BY <1>8, <1>9, <2>3, <2>6, <3>1, <3>3, <3>4
    <3>5. CASE c # "restart" /\ ~ ToDo("restart", q)
      <4>1. ~ ToDo("upsert", q)
        BY <2>2, <3>5 DEF Follows
      <4>2. c # "upsert"
        BY <1>1, <2>6, <4>1
      <4> QED BY <1>8, <1>9, <2>2, <2>3, <2>6, <3>1, <3>2, <3>3, <3>5, <4>2
    <3>6. CASE c # "restart" /\ ToDo("restart", q)
      BY <1>5, <2>3, <3>3, <3>6
    <3> QED BY <3>4, <3>5, <3>6
  <2> QED BY <2>5, <2>6
<1>11. UdpPutBack(q)'
  <2>1. mwOp.kind = "apply" => (o.init => s.init)
    BY <1>3 DEF UdpPutBack, o, s, i
  <2>2. mwOp.kind = "apply" => (o.init => n.init)
    <3>1. mwOp.kind = "apply" => c # "unlink_init"
      BY <1>1, <1>3 DEF MwPlan
    <3> QED BY <1>7, <1>8, <2>1, <3>1
  <2>3. ASSUME mwOp.stage = "rollback"
        PROVE  /\ Follows("restore_file", "start_again", q)'
               /\ ToDo("restore_file", q)' \/ n.line = o.line
               /\ ToDo("start_again", q)' \/ ~ mwOp'.clean \/ Resumed(n, o)
    <3>1. /\ Follows("restore_file", "start_again", q)
          /\ ToDo("restore_file", q) \/ s.line = o.line
          /\ ToDo("start_again", q) \/ ~ mwOp.clean \/ Resumed(s, o)
      BY <1>3, <2>3 DEF UdpPutBack, o, s, i
    <3>2. Follows("restore_file", "start_again", q)'
      BY <1>1, <3>1, StillFollows
    <3>3. mwOp.kind = "apply"
      BY <1>0, <1>3, <2>3 DEF Untouched
    <3>4. c \in {"restore_file", "reload_again", "start_again"}
      BY <1>1, <1>3, <2>3, <3>3 DEF MwPlan
    <3>5. c = "restore_file" => Takes(<<c, r>>) /\ MwWorks(<<c, r>>)
      BY <1>1, <3>3
    <3>6. CASE q # r
      BY <1>1, <1>5, <1>7, <3>1, <3>2, <3>6
    <3>7. CASE q = r /\ c = "restore_file"
      <4>1. n.line = o.line
        BY <1>7, <1>8, <3>5, <3>7
      <4>2. ToDo("start_again", q)
        BY <1>1, <3>1, <3>7 DEF Follows
      <4>3. ToDo("start_again", q)'
        BY <1>5, <3>7, <4>2
      <4> QED BY <3>2, <4>1, <4>3
    <3>8. CASE q = r /\ c = "reload_again"
      <4>1. n.line = s.line /\ n.run = s.run
        BY <1>7, <1>8, <3>8
      <4> QED BY <1>1, <1>5, <3>1, <3>2, <3>8, <4>1 DEF Resumed
    <3>9. CASE q = r /\ c = "start_again"
      <4>1. s.line = o.line
        BY <1>5, <3>1, <3>9 DEF Follows
      <4>2. n.line = s.line
        BY <1>7, <1>8, <3>9
      <4>3. ASSUME mwOp'.clean, o.run # 0, o.run = o.line PROVE n.run = o.run
        <5>1. SoundService(o)
          BY <1>0, <1>3 DEF SoundHost, o, i
        <5>2. o.run \notin rejected /\ o.on /\ (hostKind = "openwrt" => o.init)
          BY <4>3, <5>1 DEF SoundService
        <5>3. s.init \/ hostKind # "openwrt"
          BY <2>1, <3>3, <5>2
        <5>4. MwWorks(<<c, r>>)
          <6>1. <<c, r>>[1] = c /\ <<c, r>>[2] = r
            OBVIOUS
          <6>2. udp[r][mwOp.inst].init \/ hostKind # "openwrt"
            BY <3>9, <5>3 DEF s, i
          <6> QED BY <1>3, <3>9, <6>1, <6>2 DEF MwWorks
        <5>5. n.run = Spawned(s)
          BY <1>1, <1>7, <1>8, <3>9, <4>3, <5>4
        <5>6. s.line \in Args \ rejected
          <6>1. o.run \in Entry /\ o.run # 0
            BY <1>6, <4>3 DEF Service
          <6>2. o.run \in Args
            BY <6>1, MiddlewareAssumption DEF Entry, Args
          <6> QED BY <4>1, <4>3, <5>2, <6>2
        <5> QED BY <4>1, <4>3, <5>5, <5>6 DEF Spawned
      <4> QED BY <3>2, <4>1, <4>2, <4>3 DEF Resumed
    <3> QED BY <3>4, <3>6, <3>7, <3>8, <3>9
  <2> QED BY <1>0, <1>4, <2>2, <2>3 DEF UdpPutBack, Resumed, o, n, i
<1>12. UdpDeleted(q)'
  <2>1. Raising' <=> Raising
    BY <1>1, <1>5 DEF Raising
  <2>2. SUFFICES ASSUME mwOp.kind = "delete"
                 PROVE  /\ Raising => ~ ToDo("unlink_init", q)'
                        /\ ~ Raising =>
                             /\ hostKind = "openwrt" =>
                                  /\ Comes("stop", "unlink_init", q)' /\ Comes("disable", "unlink_init", q)'
                                  /\ ToDo("stop", q)' \/ ~ n.on
                                  /\ ToDo("disable", q)' \/ ~ n.boot
                             /\ hostKind # "openwrt" => ToDo("disable_now", q)' \/ (~ n.on /\ ~ n.boot)
                             /\ ToDo("remove", q)' \/ n.line = 0
    BY <1>4, <2>1 DEF UdpDeleted, i, n
  <2>3. /\ Raising => ~ ToDo("unlink_init", q)
        /\ ~ Raising =>
             /\ hostKind = "openwrt" =>
                  /\ Comes("stop", "unlink_init", q) /\ Comes("disable", "unlink_init", q)
                  /\ ToDo("stop", q) \/ ~ s.on
                  /\ ToDo("disable", q) \/ ~ s.boot
             /\ hostKind # "openwrt" => ToDo("disable_now", q) \/ (~ s.on /\ ~ s.boot)
             /\ ToDo("remove", q) \/ s.line = 0
    BY <1>3, <2>2 DEF UdpDeleted, i, s
  <2>4. mwOp.stage = "before"
    BY <1>0, <1>3, <2>2 DEF Untouched, MwDone
  <2>5. Takes(<<c, r>>) /\ MwWorks(<<c, r>>)
    BY <1>1, <2>2, <2>4
  <2>6. c \in {"stop", "disable", "disable_now", "remove", "unlink_init", "reload"}
    BY <1>1, <1>3, <2>2, <2>4 DEF MwPlan
  <2>7. CASE q # r
    <3>1. n = s /\ \A b : ToDo(b, q)' <=> ToDo(b, q)
      BY <1>5, <1>7, <2>7
    <3> QED BY <1>5, <2>3, <3>1
  <2>8. CASE q = r
    <3>1. n = ServiceAfter(c, s, o.line)
      BY <1>7, <2>5, <2>8
    <3>2. /\ n.on => s.on /\ c \notin {"stop", "disable_now"}
          /\ n.boot => s.boot /\ c \notin {"disable", "disable_now"}
          /\ c = "remove" \/ s.line = 0 => n.line = 0
      BY <1>8, <2>6, <2>8, <3>1
    <3>3. \A b : ToDo(b, q) /\ b # c => ToDo(b, q)'
      BY <1>5, <2>8
    <3>4. \A b : ToDo(b, q)' => ToDo(b, q)
      BY <1>5
    <3> QED BY <1>5, <2>3, <3>2, <3>3, <3>4
  <2> QED BY <2>7, <2>8
<1> QED BY <1>10, <1>11, <1>12

\* mimic.
LEMMA MimicGoes ==
  ASSUME MwTypeOK, MwUnderWay, NEW c \in MwCommand, NEW r \in Role, MwGoes(c, r)
  PROVE  MimicDone'
<1>0. /\ ~ MwDone /\ SameMw /\ mwOp'.stage = mwOp.stage /\ Planned /\ Untouched /\ MimicDone
  BY DEF MwGoes, MwUnderWay
<1>1. /\ ToDo(c, r) /\ Popped(c, r) /\ c \in MwPlan
      /\ /\ mwOp.kind \notin {"start", "stop"} /\ mwOp.stage = "before"
         => Takes(<<c, r>>) /\ MwWorks(<<c, r>>)
  BY NotIgnoredWorks
<1>2. SUFFICES ASSUME hostKind = "mimic", mwOp.kind \in {"apply", "delete"}, mwOp.stage = "before"
               PROVE  MimicDone'
  BY <1>0 DEF MimicDone, SameMw
<1> DEFINE i == mwOp.inst
<1> DEFINE sn == mimic.snippet
<1> DEFINE tn == mimic'.snippet
<1>3. /\ mwOp'.inst = i /\ mwOp'.kind = mwOp.kind /\ mwOp'.args = mwOp.args
      /\ i \in MwInst /\ r = "client" /\ Takes(<<c, r>>) /\ MwWorks(<<c, r>>)
  BY <1>0, <1>1, <1>2 DEF SameMw, Untouched, Planned
<1>4. /\ tn = IF c = "snippet" THEN [sn EXCEPT ![i] = mwOp.args]
              ELSE IF c = "unlink_snippet" THEN [sn EXCEPT ![i] = 0]
              ELSE IF c = "restore_snippet" THEN [sn EXCEPT ![i] = mwOp.mimic.snippet[i]] ELSE sn
      /\ mimic'.block = IF c = "system" THEN sn ELSE IF c = "unlink_system" THEN Nobody
                        ELSE IF c = "restore_system" THEN mwOp.mimic.block ELSE mimic.block
      /\ c \in {"restart", "start_again"} =>
           IF Loadable(mimic) THEN mimic'.on /\ mimic'.loaded = mimic.block
           ELSE ~ mimic'.on /\ mimic'.loaded = Nobody
      /\ c \in {"stop", "stop_again", "disable_now"} => ~ mimic'.on /\ mimic'.loaded = Nobody
      /\ c \notin {"restart", "start_again", "start", "stop", "stop_again", "disable_now"} =>
           mimic'.on = mimic.on /\ mimic'.loaded = mimic.loaded
  BY <1>2, <1>3, MimicFields
<1>5. c = "restart" => Loadable(mimic)
  <2>1. <<c, r>>[1] = c
    OBVIOUS
  <2> QED BY <1>2, <1>3, <2>1 DEF MwWorks
<1>6. /\ Follows("system", "restart", "client") /\ Follows("unlink_system", "disable_now", "client")
      /\ Comes("snippet", "system", "client") /\ Comes("unlink_snippet", "system", "client")
      /\ Comes("unlink_snippet", "unlink_system", "client")
      /\ OnHost("snippet") \/ OnHost("unlink_snippet") =>
           OnHost("system") \/ OnHost("unlink_system")
      /\ OnHost("snippet") \/ OnHost("unlink_snippet") \/ sn[i] = mwOp.args
      /\ OnHost("system") \/ OnHost("unlink_system") \/ mimic.block = sn
      /\ OnHost("restart") \/ OnHost("disable_now") \/ mimic.loaded = mimic.block
      /\ mwOp.kind = "delete" => mwOp.args = 0
      /\ OnHost("unlink_system") => \A j \in MwInst \ {i} : sn[j] = 0
      /\ OnHost("disable_now") => ~ OnHost("system") /\ (OnHost("unlink_system") \/ mimic.block = Nobody)
  BY <1>0, <1>2 DEF MimicDone
<1>7. /\ \A b : OnHost(b) <=> OnHost(b)' \/ b = c
      /\ \A a, b : Comes(a, b, "client") =>
           /\ Comes(a, b, "client")' /\ (b = c => ~ OnHost(a))
           /\ a = c /\ OnHost(b) => OnHost(b)'
  BY <1>1, <1>3 DEF Popped, OnHost
<1>8. /\ OnHost("snippet") \/ c = "snippet" => mwOp.kind = "apply"
      /\ OnHost("unlink_snippet") \/ OnHost("unlink_system") \/ OnHost("disable_now") => mwOp.kind = "delete"
      /\ c \in {"snippet", "system", "reload", "enable", "restart", "unlink_snippet", "unlink_system",
                "disable_now"}
  <2>1. \A b \in MwCommand : OnHost(b) => b \in MwPlan
    BY <1>0 DEF Planned, OnHost, Role
  <2>2. {"snippet", "unlink_snippet", "unlink_system", "disable_now"} \subseteq MwCommand
    BY DEF MwCommand
  <2>3. MwPlan = IF mwOp.kind = "apply" THEN {"snippet", "system", "reload", "enable", "restart"}
                 ELSE {"unlink_snippet", "system", "restart", "unlink_system", "disable_now"}
    BY <1>2 DEF MwPlan
  <2> QED BY <1>1, <1>2, <2>1, <2>2, <2>3
<1>9. sn \in [MwInst -> Entry] /\ Nobody = [j \in MwInst |-> 0]
  BY DEF MwTypeOK, MimicHost, Nobody
<1>10. OnHost(c)
  BY <1>1, <1>3 DEF OnHost
<1> HIDE DEF i, sn, tn
<1>11. Follows("system", "restart", "client")' /\ Follows("unlink_system", "disable_now", "client")'
  BY <1>1, <1>6, StillFollows
<1>12. /\ Comes("snippet", "system", "client")' /\ Comes("unlink_snippet", "system", "client")'
       /\ Comes("unlink_snippet", "unlink_system", "client")'
  BY <1>6, <1>7
<1>13. OnHost("snippet")' \/ OnHost("unlink_snippet")' =>
         OnHost("system")' \/ OnHost("unlink_system")'
  <2>1. c = "system" => ~ OnHost("snippet") /\ ~ OnHost("unlink_snippet")
    BY <1>6, <1>7
  <2>2. c = "unlink_system" => ~ OnHost("snippet") /\ ~ OnHost("unlink_snippet")
    BY <1>6, <1>7, <1>8, <1>10
  <2> QED BY <1>6, <1>7, <2>1, <2>2
<1>14. OnHost("snippet")' \/ OnHost("unlink_snippet")' \/ tn[i] = mwOp.args
  <2>1. CASE c \in {"snippet", "unlink_snippet"}
    <3>1. tn[i] = IF c = "snippet" THEN mwOp.args ELSE 0
      BY <1>3, <1>4, <1>9, <2>1 DEF i
    <3> QED BY <1>6, <1>8, <1>10, <2>1, <3>1
  <2>2. CASE c \notin {"snippet", "unlink_snippet"}
    <3>1. tn = sn
      BY <1>4, <1>8, <2>2
    <3> QED BY <1>6, <1>7, <2>2, <3>1
  <2> QED BY <2>1, <2>2
<1>15. OnHost("system")' \/ OnHost("unlink_system")' \/ mimic'.block = tn
  <2>1. CASE c = "system"
    BY <1>4, <2>1
  <2>2. CASE c = "unlink_system"
    <3>1. \A j \in MwInst : sn[j] = 0
      BY <1>6, <1>7, <1>8, <1>10, <2>2
    <3>2. sn = Nobody
      BY <1>9, <3>1
    <3> QED BY <1>4, <2>2, <3>2
  <2>3. CASE c \notin {"system", "unlink_system"} /\ ~ OnHost("system") /\ ~ OnHost("unlink_system")
    <3>1. c \notin {"snippet", "unlink_snippet"}
      BY <1>6, <1>10, <2>3
    <3> QED BY <1>4, <1>6, <1>8, <2>3, <3>1
  <2>4. CASE c \notin {"system", "unlink_system"} /\ (OnHost("system") \/ OnHost("unlink_system"))
    BY <1>7, <2>4
  <2> QED BY <2>1, <2>2, <2>3, <2>4
<1>16. OnHost("restart")' \/ OnHost("disable_now")' \/ mimic'.loaded = mimic'.block
  <2>1. CASE c = "restart"
    BY <1>4, <1>5, <2>1
  <2>2. CASE c = "disable_now"
    <3>1. ~ OnHost("unlink_system")
      BY <1>6, <1>7, <2>2 DEF Follows
    <3> QED BY <1>4, <1>6, <1>10, <2>2, <3>1
  <2>3. CASE c \notin {"restart", "disable_now"} /\ ~ OnHost("restart") /\ ~ OnHost("disable_now")
    <3>1. ~ OnHost("system") /\ ~ OnHost("unlink_system")
      BY <1>6, <2>3 DEF Follows, OnHost
    <3>2. c \notin {"system", "unlink_system"}
      BY <1>10, <3>1
    <3> QED BY <1>4, <1>6, <1>8, <2>3, <3>2
  <2>4. CASE c \notin {"restart", "disable_now"} /\ (OnHost("restart") \/ OnHost("disable_now"))
    BY <1>7, <2>4
  <2> QED BY <2>1, <2>2, <2>3, <2>4
<1>17. OnHost("unlink_system")' => \A j \in MwInst \ {i} : tn[j] = 0
  <2>1. \A j \in MwInst \ {i} : tn[j] = sn[j]
    BY <1>4, <1>8, <1>9
  <2> QED BY <1>6, <1>7, <2>1
<1>18. OnHost("disable_now")' => ~ OnHost("system")' /\ (OnHost("unlink_system")' \/ mimic'.block = Nobody)
  <2>1. SUFFICES ASSUME OnHost("disable_now")
                 PROVE  ~ OnHost("system")' /\ (OnHost("unlink_system")' \/ mimic'.block = Nobody)
    BY <1>7
  <2>2. ~ OnHost("system") /\ c # "system"
    BY <1>6, <1>10, <2>1
  <2> QED BY <1>4, <1>6, <1>7, <1>8, <2>1, <2>2
<1> QED BY <1>3, <1>6, <1>11, <1>12, <1>13, <1>14, <1>15, <1>16, <1>17, <1>18 DEF MimicDone, i, tn

LEMMA MimicGoesBack ==
  ASSUME MwTypeOK, OthersInv, MwUnderWay, NEW c \in MwCommand, NEW r \in Role, MwGoes(c, r)
  PROVE  MimicPutBack'
<1>0. /\ ~ MwDone /\ SameMw /\ mwOp'.stage = mwOp.stage /\ Planned /\ Untouched /\ MimicPutBack
      /\ SoundHost(mwOp.udp, mwOp.mimic, mwOp.assets)
  BY DEF MwGoes, MwUnderWay
<1>1. /\ ToDo(c, r) /\ Popped(c, r) /\ c \in MwPlan /\ (GivenTo(c, r) \/ SameHost)
      /\ mwOp'.clean => mwOp.clean /\ ((Takes(<<c, r>>) /\ MwWorks(<<c, r>>)) \/ ~ MwWorks(<<c, r>>))
      /\ /\ mwOp.kind \notin {"start", "stop"}
         /\ \/ mwOp.stage = "before"
            \/ c \notin {"start_again", "stop_again", "reload_again", "put_back_binary",
                         "put_back_services"}
         => Takes(<<c, r>>) /\ MwWorks(<<c, r>>)
  BY NotIgnoredWorks
<1>2. SUFFICES ASSUME hostKind = "mimic", mwOp.kind \in {"apply", "delete"}, mwOp.stage = "rollback"
               PROVE  MimicPutBack'
  BY <1>0 DEF MimicPutBack, SameMw
<1> DEFINE i == mwOp.inst
<1> DEFINE w == mwOp.mimic
<1>3. /\ mwOp'.mimic = w /\ i \in MwInst /\ r = "client"
      /\ \A j \in MwInst \ {i} : mimic.snippet[j] = w.snippet[j]
  BY <1>0, <1>1, <1>2 DEF SameMw, Untouched, Planned, OthersInv, Others
<1>4. ASSUME Takes(<<c, r>>)
      PROVE
      /\ mimic'.snippet = IF c = "snippet" THEN [mimic.snippet EXCEPT ![i] = mwOp.args]
                          ELSE IF c = "unlink_snippet" THEN [mimic.snippet EXCEPT ![i] = 0]
                          ELSE IF c = "restore_snippet" THEN [mimic.snippet EXCEPT ![i] = w.snippet[i]]
                          ELSE mimic.snippet
      /\ mimic'.block = IF c = "system" THEN mimic.snippet ELSE IF c = "unlink_system" THEN Nobody
                        ELSE IF c = "restore_system" THEN w.block ELSE mimic.block
      /\ c \in {"restart", "start_again"} =>
           IF Loadable(mimic) THEN mimic'.on /\ mimic'.loaded = mimic.block
           ELSE ~ mimic'.on /\ mimic'.loaded = Nobody
      /\ c \in {"stop", "stop_again", "disable_now"} => ~ mimic'.on /\ mimic'.loaded = Nobody
      /\ c \notin {"restart", "start_again", "start", "stop", "stop_again", "disable_now"} =>
           mimic'.on = mimic.on /\ mimic'.loaded = mimic.loaded
  BY <1>2, <1>3, <1>4, MimicFields
<1>5. /\ c = "start_again" /\ ~ MwWorks(<<c, r>>) => ~ Loadable(mimic)
      /\ c = "start_again" /\ MwWorks(<<c, r>>) => Loadable(mimic)
      /\ c = "stop_again" => MwWorks(<<c, r>>)
  <2>1. <<c, r>>[1] = c
    OBVIOUS
  <2> QED BY <1>2, <2>1 DEF MwWorks
<1>6. /\ Comes("restore_system", "start_again", "client") /\ Comes("restore_system", "stop_again", "client")
      /\ OnHost("restore_system") => OnHost("start_again") \/ OnHost("stop_again")
      /\ OnHost("restore_snippet") \/ mimic.snippet = w.snippet
      /\ OnHost("restore_system") \/ mimic.block = w.block
      /\ OnHost("stop_again") => w.block = Nobody
      /\ OnHost("start_again") \/ OnHost("stop_again") \/ ~ mwOp.clean
         \/ (w.on /\ w.loaded = w.block => mimic.loaded = w.loaded)
  BY <1>0, <1>2 DEF MimicPutBack
<1>7. /\ \A b : OnHost(b) <=> OnHost(b)' \/ b = c
      /\ \A a, b : Comes(a, b, "client") =>
           Comes(a, b, "client")' /\ (b = c => ~ OnHost(a))
  BY <1>1, <1>3 DEF Popped, OnHost
<1>8. c \in {"restore_snippet", "restore_system", "reload_again", "start_again", "stop_again"}
  BY <1>1, <1>2 DEF MwPlan
<1>9. c \in {"restore_snippet", "restore_system"} => Takes(<<c, r>>)
  BY <1>1, <1>2, <1>8
<1>10. OnHost(c) /\ (Takes(<<c, r>>) \/ SameHost)
  BY <1>1, <1>3 DEF OnHost, GivenTo
<1>11. mimic.snippet \in [MwInst -> Entry] /\ w.snippet \in [MwInst -> Entry]
  BY DEF MwTypeOK, MwOperation, MimicHost
<1>12. w.on => \A j \in MwInst : w.loaded[j] \notin rejected
  BY <1>0 DEF SoundHost
<1> HIDE DEF i, w
<1>13. /\ Comes("restore_system", "start_again", "client")'
       /\ Comes("restore_system", "stop_again", "client")'
       /\ OnHost("restore_system")' => OnHost("start_again")' \/ OnHost("stop_again")'
       /\ OnHost("stop_again")' => w.block = Nobody
  BY <1>6, <1>7
<1>14. OnHost("restore_snippet")' \/ mimic'.snippet = w.snippet
  <2>1. CASE c = "restore_snippet"
    <3>1. mimic'.snippet = [mimic.snippet EXCEPT ![i] = w.snippet[i]]
      BY <1>4, <1>9, <2>1
    <3>2. [mimic.snippet EXCEPT ![i] = w.snippet[i]] = w.snippet
      BY <1>3, <1>11
    <3> QED BY <3>1, <3>2
  <2>2. CASE c # "restore_snippet"
    <3>1. mimic'.snippet = mimic.snippet
      BY <1>4, <1>8, <1>10, <2>2 DEF SameHost
    <3> QED BY <1>6, <1>7, <2>2, <3>1
  <2> QED BY <2>1, <2>2
<1>15. /\ OnHost("restore_system")' \/ mimic'.block = w.block
       /\ c # "restore_system" => mimic'.block = mimic.block
  <2>1. CASE c = "restore_system"
    BY <1>4, <1>9, <2>1
  <2>2. CASE c # "restore_system"
    <3>1. mimic'.block = mimic.block
      BY <1>4, <1>8, <1>10, <2>2 DEF SameHost
    <3> QED BY <1>6, <1>7, <2>2, <3>1
  <2> QED BY <2>1, <2>2
<1>16. ASSUME ~ OnHost("start_again")', ~ OnHost("stop_again")', mwOp'.clean, w.on, w.loaded = w.block
       PROVE  mimic'.loaded = w.loaded
  <2>1. CASE c = "start_again"
    <3>1. mimic.block = w.block
      BY <1>6, <1>7, <2>1
    <3>2. Loadable(mimic)
      BY <1>12, <1>16, <3>1 DEF Loadable
    <3>3. Takes(<<c, r>>)
      BY <1>1, <1>5, <1>16, <2>1, <3>2
    <3> QED BY <1>4, <1>16, <2>1, <3>1, <3>2, <3>3
  <2>2. CASE c = "stop_again"
    <3>1. Takes(<<c, r>>) /\ w.block = Nobody
      BY <1>1, <1>5, <1>6, <1>10, <1>16, <2>2
    <3> QED BY <1>4, <1>16, <2>2, <3>1
  <2>3. CASE c \notin {"start_again", "stop_again"}
    <3>1. ~ OnHost("start_again") /\ ~ OnHost("stop_again")
      BY <1>7, <1>16, <2>3
    <3>2. mimic.loaded = w.loaded
      BY <1>1, <1>6, <1>16, <3>1
    <3>3. mimic'.loaded = mimic.loaded
      BY <1>4, <1>8, <1>10, <2>3 DEF SameHost
    <3> QED BY <3>2, <3>3
  <2> QED BY <2>1, <2>2, <2>3
<1>17. \/ OnHost("start_again")' \/ OnHost("stop_again")' \/ ~ mwOp'.clean
       \/ (w.on /\ w.loaded = w.block => mimic'.loaded = w.loaded)
  BY <1>16
<1> QED BY <1>3, <1>13, <1>14, <1>15, <1>17 DEF MimicPutBack

\* Installing.
LEMMA InstallGoes ==
  ASSUME MwTypeOK, MwUnderWay, NEW c \in MwCommand, NEW r \in Role, MwGoes(c, r)
  PROVE  InstallWork'
<1>0. /\ ~ MwDone /\ SameMw /\ mwOp'.stage = mwOp.stage /\ Planned /\ Untouched /\ InstallWork
  BY DEF MwGoes, MwUnderWay
<1>1. /\ ToDo(c, r) /\ Popped(c, r) /\ c \in MwPlan /\ (GivenTo(c, r) \/ SameHost)
      /\ mwOp'.clean => mwOp.clean /\ ((Takes(<<c, r>>) /\ MwWorks(<<c, r>>)) \/ ~ MwWorks(<<c, r>>))
      /\ /\ mwOp.kind \notin {"start", "stop"}
         /\ \/ mwOp.stage = "before"
            \/ c \notin {"start_again", "stop_again", "reload_again", "put_back_binary",
                         "put_back_services"}
         => Takes(<<c, r>>) /\ MwWorks(<<c, r>>)
  BY NotIgnoredWorks
<1>2. SUFFICES ASSUME mwOp.kind = "install" PROVE InstallWork'
  BY <1>0 DEF InstallWork, SameMw
<1>3. hostKind # "mimic" /\ r = "client" /\ mwOp'.assets = mwOp.assets /\ hostKind' = hostKind
      /\ mwOp'.kind = mwOp.kind
  BY <1>0, <1>1, <1>2 DEF Untouched, Planned, SameMw
<1>4. ASSUME Takes(<<c, r>>), NEW a \in Asset
      PROVE  assets'[a] = IF c = a THEN 2
                          ELSE IF c = "put_back_binary" /\ a = "binary" THEN mwOp.assets[a]
                          ELSE IF c = "put_back_services" /\ a # "binary" THEN mwOp.assets[a]
                          ELSE assets[a]
  BY <1>2, <1>3, <1>4, AssetFields
<1>5. \A b : OnHost(b) <=> OnHost(b)' \/ b = c
  BY <1>1, <1>3 DEF Popped, OnHost
<1>6. ASSUME mwOp.stage = "before", NEW a \in Asset
      PROVE  IF hostKind = "openwrt" /\ a # "binary" THEN ~ OnHost(a)'
             ELSE OnHost(a)' \/ assets'[a] = 2
  <2>1. IF hostKind = "openwrt" /\ a # "binary" THEN ~ OnHost(a) ELSE OnHost(a) \/ assets[a] = 2
    BY <1>0, <1>2, <1>6 DEF InstallWork
  <2>2. Takes(<<c, r>>)
    BY <1>1, <1>2, <1>6
  <2>3. c \notin {"put_back_binary", "put_back_services"}
    BY <1>1, <1>2, <1>6 DEF MwPlan, Asset
  <2>4. assets'[a] = IF c = a THEN 2 ELSE assets[a]
    BY <1>4, <2>2, <2>3
  <2> QED BY <1>5, <2>1, <2>4
<1>7. ASSUME mwOp.stage = "rollback", mwOp'.clean
      PROVE  /\ OnHost("put_back_binary")' \/ assets'["binary"] = mwOp.assets["binary"]
             /\ OnHost("put_back_services")' \/ \A a \in Asset \ {"binary"} : assets'[a] = mwOp.assets[a]
  <2>1. /\ OnHost("put_back_binary") \/ assets["binary"] = mwOp.assets["binary"]
        /\ OnHost("put_back_services") \/ \A a \in Asset \ {"binary"} : assets[a] = mwOp.assets[a]
    BY <1>0, <1>1, <1>2, <1>7 DEF InstallWork
  <2>2. c \in {"put_back_binary", "put_back_services"} /\ "binary" \in Asset /\ c \notin Asset
    BY <1>1, <1>2, <1>7 DEF MwPlan, Asset
  <2>3. Takes(<<c, r>>)
    <3>1. <<c, r>>[1] = c
      OBVIOUS
    <3>2. MwWorks(<<c, r>>)
      BY <1>3, <2>2, <3>1 DEF MwWorks
    <3> QED BY <1>1, <1>7, <3>2
  <2>4. \A a \in Asset : assets'[a] = IF (c = "put_back_binary") <=> (a = "binary") THEN mwOp.assets[a]
                                      ELSE assets[a]
    BY <1>4, <2>2, <2>3
  <2> QED BY <1>5, <2>1, <2>2, <2>4
<1> QED BY <1>0, <1>3, <1>6, <1>7 DEF InstallWork

-----------------------------------------------------------------------------
(* An operation fails, begins and ends.                                    *)

LEMMA MwFailedStep ==
  ASSUME MwTypeOK, MwTypeOK', SoundHost(udp, mimic, assets), MwUnderWay,
         NEW c \in MwCommand, NEW r \in Role, MwFailed(c, r)
  PROVE  MwProgress'
<1>0. /\ ~ MwDone /\ mwOp.todo # <<>> /\ Head(mwOp.todo) = <<c, r>> /\ SameMw
      /\ GivenTo(c, r) \/ SameHost
      /\ Planned /\ Untouched /\ UdpWork /\ SoundHost(mwOp.udp, mwOp.mimic, mwOp.assets)
  BY DEF MwFailed, MwUnderWay
<1>1. SoundHost(udp, mimic, assets)' /\ SoundHost(mwOp.udp, mwOp.mimic, mwOp.assets)'
  <2>1. SoundHost(udp', mimic', assets')
    <3>1. CASE GivenTo(c, r)
      BY <1>0, <3>1, SoundGiven
    <3>2. CASE SameHost
      BY <3>2 DEF SameHost
    <3> QED BY <1>0, <3>1, <3>2
  <2> QED BY <1>0, <2>1 DEF SoundHost, SoundService, SameMw
<1>2. ToDo(c, r)
  BY <1>0, NextCommand
<1>k. mwOp.kind \in {"apply", "start", "stop", "delete", "install"} /\ mwOp.roles \in SUBSET Role
  BY <1>0 DEF Untouched, MwTypeOK, MwOperation
<1>3. CASE mwOp'.stage = "failed"
  BY <1>1, <1>3 DEF MwProgress, MwUnderWay, MwDone, MwFailureRestores, MwSuccessIsReal
<1>4. CASE /\ mwOp.stage = "before" /\ mwOp.kind \notin {"start", "stop"}
           /\ mwOp.kind \in {"install", "apply"} \/ hostKind = "mimic"
           /\ mwOp'.stage = "rollback" /\ mwOp'.todo = MwRollback /\ mwOp'.clean = mwOp.clean
  <2>u. Untouched'
    BY <1>0, <1>4, NotMine, UntouchedStill
  <2>t. \A b, q : ToDo(b, q)' <=> In(MwRollback, <<b, q>>)
    BY <1>4 DEF ToDo
  <2>c. \A a, b, q : Comes(a, b, q)' <=> Before(MwRollback, <<a, q>>, <<b, q>>)
    BY <1>4 DEF Comes
  <2>s. /\ hostKind' = hostKind /\ mwOp'.kind = mwOp.kind /\ mwOp'.roles = mwOp.roles
        /\ mwOp'.inst = mwOp.inst /\ mwOp'.udp = mwOp.udp /\ mwOp'.mimic = mwOp.mimic
    BY <1>0 DEF SameMw
  <2>1. CASE mwOp.kind = "install"
    <3>1. \A b, q : ToDo(b, q)' <=> q = "client" /\ b \in {"put_back_binary", "put_back_services"}
      BY <1>k, <2>1, <2>t, MwRollbackList
    <3>2. Planned'
      <4>1. MwPlan' = {"put_back_binary", "put_back_services"}
        BY <1>4, <2>1, <2>s DEF MwPlan
      <4> QED BY <2>1, <2>s, <3>1, <4>1 DEF Planned
    <3>3. UdpWork' /\ MimicDone' /\ MimicPutBack'
      <4>1. mwOp.roles = {}
        BY <1>0, <2>1 DEF Untouched
      <4> QED BY <2>1, <2>s, <4>1 DEF UdpWork, MimicDone, MimicPutBack
    <3>4. InstallWork'
      BY <1>4, <3>1 DEF InstallWork, OnHost
    <3> QED BY <1>1, <1>4, <2>u, <3>2, <3>3, <3>4 DEF MwProgress, MwUnderWay, MwFailureRestores,
               MwSuccessIsReal
  <2>2. CASE mwOp.kind # "install" /\ hostKind = "mimic"
    <3>1. PICK z \in {"start_again", "stop_again"} :
            /\ \A b, q : In(MwRollback, <<b, q>>) <=>
                 q = "client" /\ b \in {"restore_snippet", "restore_system", "reload_again", z}
            /\ z = "stop_again" => mwOp.mimic.block = Nobody
      BY <1>k, <2>2, MwRollbackList
    <3>2. \A b, q : ToDo(b, q)' <=>
            q = "client" /\ b \in {"restore_snippet", "restore_system", "reload_again", z}
      BY <2>t, <3>1
    <3>3. /\ Comes("restore_system", "start_again", "client")'
          /\ Comes("restore_system", "stop_again", "client")'
      BY <1>k, <2>2, <2>c, MwRollbackList
    <3>4. Planned'
      <4>1. MwPlan' = {"restore_snippet", "restore_system", "reload_again", "start_again", "stop_again"}
        BY <1>4, <1>k, <2>2, <2>s DEF MwPlan
      <4> QED BY <2>2, <2>s, <3>2, <4>1 DEF Planned
    <3>5. UdpWork' /\ MimicDone' /\ InstallWork'
      <4>1. mwOp.roles = {}
        BY <1>0, <2>2 DEF Untouched
      <4> QED BY <1>4, <2>2, <2>s, <4>1 DEF UdpWork, MimicDone, InstallWork
    <3>6. MimicPutBack'
      BY <2>s, <3>1, <3>2, <3>3 DEF MimicPutBack, OnHost
    <3> QED BY <1>1, <1>4, <2>u, <3>4, <3>5, <3>6 DEF MwProgress, MwUnderWay, MwFailureRestores,
               MwSuccessIsReal
  <2>3. CASE mwOp.kind # "install" /\ hostKind # "mimic"
    <3>0. mwOp.kind = "apply"
      BY <1>4, <2>3
    <3>1. /\ \A b, q : ToDo(b, q)' =>
               q \in mwOp.roles /\ b \in {"restore_file", "reload_again", "start_again"}
          /\ \A q \in mwOp.roles : ToDo("restore_file", q)' /\ ToDo("start_again", q)'
          /\ \A q \in Role : Comes("restore_file", "start_again", q)'
      BY <1>k, <2>3, <2>c, <2>t, MwRollbackList
    <3>2. Planned'
      <4>1. MwPlan' = {"restore_file", "reload_again", "start_again"}
        BY <1>4, <2>3, <2>s, <3>0 DEF MwPlan
      <4> QED BY <2>3, <2>s, <3>1, <4>1 DEF Planned
    <3>3. UdpWork'
      <4>1. SUFFICES ASSUME NEW q \in mwOp.roles PROVE UdpApplied(q)' /\ UdpPutBack(q)' /\ UdpDeleted(q)'
        BY <2>s DEF UdpWork
      <4>2. UdpApplied(q)' /\ UdpDeleted(q)'
        BY <1>4, <2>s, <3>0 DEF UdpApplied, UdpDeleted
      <4>3. Follows("restore_file", "start_again", q)' /\ ToDo("restore_file", q)' /\ ToDo("start_again", q)'
        BY <1>k, <3>1 DEF Follows
      <4> DEFINE i == mwOp.inst
      <4>4. mwOp.udp[q][i].init => udp'[q][i].init
        <5>1. mwOp.udp[q][i].init => udp[q][i].init
          BY <1>0, <3>0 DEF UdpWork, UdpPutBack
        <5>2. c # "unlink_init"
          BY <1>0, <1>2, <1>4, <2>3, <3>0 DEF Planned, MwPlan
        <5>3. udp'[q][i] = udp[q][i] \/ udp'[q][i] = ServiceAfter(c, udp[q][i], mwOp.udp[q][i].line)
          <6>1. CASE SameHost
            BY <6>1 DEF SameHost
          <6>2. CASE GivenTo(c, r)
            <7>1. /\ udp'[r][i] = ServiceAfter(c, udp[r][i], mwOp.udp[r][i].line)
                  /\ \A p \in Role, j \in MwInst : p # r \/ j # i => udp'[p][j] = udp[p][j]
              BY <1>0, <2>3, <6>2, UdpServices DEF GivenTo
            <7>2. i \in MwInst /\ q \in Role
              BY <1>0, <1>k, <2>3 DEF Untouched
            <7> QED BY <7>1, <7>2
          <6> QED BY <1>0, <6>1, <6>2
        <5>4. udp[q][i] \in Service
          BY <1>0, <1>k, <2>3 DEF MwTypeOK, Services, Untouched
        <5>5. udp[q][i].init => ServiceAfter(c, udp[q][i], mwOp.udp[q][i].line).init
          BY <5>2, <5>4, ServiceFields
        <5> QED BY <5>1, <5>3, <5>5
      <4>5. UdpPutBack(q)'
        BY <2>s, <4>3, <4>4 DEF UdpPutBack
      <4> QED BY <4>2, <4>5
    <3>4. MimicDone' /\ MimicPutBack' /\ InstallWork'
      BY <2>3, <2>s DEF MimicDone, MimicPutBack, InstallWork
    <3> QED BY <1>1, <1>4, <2>u, <3>2, <3>3, <3>4 DEF MwProgress, MwUnderWay, MwFailureRestores,
               MwSuccessIsReal
  <2> QED BY <2>1, <2>2, <2>3
<1>5. CASE /\ mwOp.kind = "delete" /\ hostKind = "openwrt" /\ c = "stop"
           /\ mwOp'.stage = mwOp.stage /\ mwOp'.todo = <<<<"disable", r>>, <<"raise", r>>>>
  <2>0. mwOp.stage = "before" /\ r \in mwOp.roles
    <3>1. mwOp.stage = "before"
      BY <1>0, <1>5 DEF Untouched, MwDone
    <3> QED BY <1>0, <1>2, <1>5, <3>1 DEF Planned
  <2>u. Untouched'
    BY <1>0, <1>5, NotMine, UntouchedStill
  <2>s. /\ hostKind' = hostKind /\ mwOp'.kind = mwOp.kind /\ mwOp'.roles = mwOp.roles
        /\ mwOp'.inst = mwOp.inst /\ mwOp'.udp = mwOp.udp /\ mwOp'.mimic = mwOp.mimic
    BY <1>0 DEF SameMw
  <2>t. \A b, q : ToDo(b, q)' <=> q = r /\ b \in {"disable", "raise"}
    <3>1. SUFFICES ASSUME NEW b, NEW q
                   PROVE  In(<<<<"disable", r>>, <<"raise", r>>>>, <<b, q>>) <=> q = r /\ b \in {"disable", "raise"}
      BY <1>5 DEF ToDo
    <3>2. In(<<<<"disable", r>>, <<"raise", r>>>>, <<b, q>>) <=> <<b, q>> \in {<<"disable", r>>, <<"raise", r>>}
      BY InLists
    <3> QED BY <3>2
  <2>1. Planned'
    <3>1. MwPlan' = {"stop", "disable", "disable_now", "remove", "unlink_init", "reload", "raise"}
      BY <1>5, <2>0, <2>s DEF MwPlan
    <3> QED BY <1>5, <2>0, <2>s, <2>t, <3>1 DEF Planned
  <2>2. UdpWork'
    <3>1. Raising' /\ \A q : ~ ToDo("unlink_init", q)'
      BY <2>t DEF Raising
    <3> QED BY <1>5, <2>0, <2>s, <3>1 DEF UdpWork, UdpApplied, UdpPutBack, UdpDeleted
  <2>3. MimicDone' /\ MimicPutBack' /\ InstallWork'
    BY <1>5, <2>s DEF MimicDone, MimicPutBack, InstallWork
  <2> QED BY <1>1, <1>5, <2>0, <2>u, <2>1, <2>2, <2>3
          DEF MwProgress, MwUnderWay, MwFailureRestores, MwSuccessIsReal
<1> QED BY <1>3, <1>4, <1>5 DEF MwFailed

\* The list of an operation, and what has to come of it.
LEMMA MwBeginStep ==
  ASSUME MwTypeOK, SoundHost(udp, mimic, assets),
         NEW kind \in {"apply", "start", "stop", "delete", "install"}, NEW i \in MwInst \cup {NoInst},
         NEW v, NEW roles \in SUBSET Role, RolesFor(kind, roles), MwBegins(kind, i, roles, v),
         kind # "install" => i \in MwInst, kind = "install" => hostKind # "mimic",
         kind = "delete" => v = 0
  PROVE  MwProgress'
<1>0. /\ hostKind' = hostKind /\ rejected' = rejected /\ udp' = udp /\ assets' = assets /\ mimic' = mimic
      /\ mwOp'.kind = kind /\ mwOp'.inst = i /\ mwOp'.roles = roles /\ mwOp'.args = v
      /\ mwOp'.todo = StepsOf(kind, i, roles) /\ mwOp'.stage = "before" /\ mwOp'.clean = TRUE
      /\ mwOp'.udp = udp /\ mwOp'.mimic = mimic /\ mwOp'.assets = assets
  BY DEF MwBegins, SameHost
<1>1. SoundHost(udp, mimic, assets)' /\ SoundHost(mwOp.udp, mwOp.mimic, mwOp.assets)'
  BY <1>0 DEF SoundHost, SoundService
<1>2. /\ hostKind = "mimic" \/ kind = "install" => roles = {}
      /\ hostKind # "mimic" /\ kind = "apply" => \E r \in Role : roles = {r}
  BY DEF RolesFor
<1>u. Untouched'
  BY <1>0, <1>2 DEF Untouched, Mine, Resumed
<1> DEFINE s == StepsOf(kind, i, roles)
<1>t. /\ \A b, q : ToDo(b, q)' <=> In(s, <<b, q>>)
      /\ \A a, b, q : Comes(a, b, q)' <=> Before(s, <<a, q>>, <<b, q>>)
  BY <1>0 DEF ToDo, Comes
<1>8. SUFFICES Planned' /\ UdpWork' /\ MimicDone' /\ MimicPutBack' /\ InstallWork'
  BY <1>0, <1>1, <1>u DEF MwProgress, MwUnderWay, MwFailureRestores, MwSuccessIsReal
<1>3. CASE kind = "install"
  <2>1. s = UdpInstall
    BY <1>3 DEF StepsOf
  <2> HIDE DEF s
  <2>2. \A b, q : ToDo(b, q)' <=>
          /\ q = "client"
          /\ b \in (IF hostKind = "openwrt" THEN {"binary"}
                    ELSE {"binary", "wrapper", "server_unit", "client_unit", "reload"})
    BY <1>t, <2>1, PlainLists
  <2>3. Planned'
    <3>1. MwPlan' = Asset \cup {"reload"}
      BY <1>0, <1>3 DEF MwPlan
    <3> QED BY <1>0, <1>3, <2>2, <3>1 DEF Planned, Asset
  <2>4. UdpWork' /\ MimicDone' /\ MimicPutBack'
    BY <1>0, <1>2, <1>3 DEF UdpWork, MimicDone, MimicPutBack
  <2>5. InstallWork'
    <3>1. SUFFICES ASSUME NEW a \in Asset
                   PROVE  IF hostKind = "openwrt" /\ a # "binary" THEN ~ ToDo(a, "client")'
                          ELSE ToDo(a, "client")'
      BY <1>0, <1>3 DEF InstallWork, OnHost
    <3>2. CASE hostKind = "openwrt"
      BY <2>2, <3>2
    <3>3. CASE hostKind # "openwrt"
      BY <2>2, <3>3 DEF Asset
    <3> QED BY <3>2, <3>3
  <2> QED BY <2>3, <2>4, <2>5
<1>4. CASE kind \in {"start", "stop"}
  <2>1. s = IF hostKind = "mimic" THEN Host(<<kind>>) ELSE EachOf(roles, <<kind>>)
    BY <1>4 DEF StepsOf
  <2> HIDE DEF s
  <2>2. \A b, q : ToDo(b, q)' => b = kind /\ (IF hostKind = "mimic" THEN q = "client" ELSE q \in roles)
    <3>1. CASE hostKind = "mimic"
      <4>1. \A b, q : In(Host(<<kind>>), <<b, q>>) <=> q = "client" /\ b = kind
        BY <1>4, PlainLists
      <4> QED BY <1>t, <2>1, <3>1, <4>1
    <3>2. CASE hostKind # "mimic"
      <4>1. \A b, q : In(EachOf(roles, <<kind>>), <<b, q>>) <=> q \in roles /\ b = kind
        <5>1. \A k \in {"start", "stop"} : \A b, q : In(EachOf(roles, <<k>>), <<b, q>>) <=> q \in roles /\ b = k
          BY PlainLists
        <5> QED BY <1>4, <5>1
      <4> QED BY <1>t, <2>1, <3>2, <4>1
    <3> QED BY <3>1, <3>2
  <2>3. Planned'
    <3>1. MwPlan' = {kind}
      BY <1>0, <1>4 DEF MwPlan
    <3> QED BY <1>0, <1>4, <2>2, <3>1 DEF Planned
  <2>4. UdpWork' /\ MimicDone' /\ MimicPutBack' /\ InstallWork'
    <3>1. SUFFICES ASSUME NEW q \in roles PROVE UdpApplied(q)' /\ UdpPutBack(q)' /\ UdpDeleted(q)'
      BY <1>0, <1>4 DEF UdpWork, MimicDone, MimicPutBack, InstallWork
    <3> QED BY <1>0, <1>4 DEF UdpApplied, UdpPutBack, UdpDeleted
  <2> QED BY <2>3, <2>4
<1>5. CASE kind \in {"apply", "delete"} /\ hostKind = "mimic"
  <2>1. s = (IF kind = "apply" THEN MimicApply ELSE MimicDelete(i))
    BY <1>5 DEF StepsOf
  <2> HIDE DEF s
  <2>2. /\ Comes("system", "restart", "client")' /\ Comes("unlink_system", "disable_now", "client")'
        /\ Comes("snippet", "system", "client")' /\ Comes("unlink_snippet", "system", "client")'
        /\ Comes("unlink_snippet", "unlink_system", "client")'
    BY <1>t, <2>1, MimicLists
  <2>3. \/ /\ kind = "apply"
           /\ \A b, q : ToDo(b, q)' <=>
                q = "client" /\ b \in {"snippet", "system", "reload", "enable", "restart"}
        \/ /\ kind = "delete"
           /\ \A b, q : ToDo(b, q)' <=> q = "client" /\ b \in {"unlink_snippet", "system", "restart"}
        \/ /\ kind = "delete"
           /\ \A b, q : ToDo(b, q)' <=>
                q = "client" /\ b \in {"unlink_snippet", "unlink_system", "disable_now"}
           /\ \A j \in MwInst \ {i} : mimic.snippet[j] = 0
    <3>1. CASE kind = "apply"
      <4>1. \A b, q : In(s, <<b, q>>) <=>
              q = "client" /\ b \in {"snippet", "system", "reload", "enable", "restart"}
        BY <2>1, <3>1, MimicLists
      <4> QED BY <1>t, <3>1, <4>1, ZenonT(60)
    <3>2. CASE kind = "delete"
      <4>1. \/ \A b, q : In(s, <<b, q>>) <=>
                 q = "client" /\ b \in {"unlink_snippet", "system", "restart"}
            \/ /\ \A b, q : In(s, <<b, q>>) <=>
                    q = "client" /\ b \in {"unlink_snippet", "unlink_system", "disable_now"}
               /\ ~ (mimic.base \/ \E j \in MwInst \ {i} : mimic.snippet[j] # 0)
        BY <2>1, <3>2, MimicLists
      <4> QED BY <1>t, <3>2, <4>1, ZenonT(60)
    <3> QED BY <1>5, <3>1, <3>2
  <2>4. Planned'
    <3>1. MwPlan' = IF kind = "apply" THEN {"snippet", "system", "reload", "enable", "restart"}
                    ELSE {"unlink_snippet", "system", "restart", "unlink_system", "disable_now"}
      BY <1>0, <1>5 DEF MwPlan
    <3> QED BY <1>0, <1>5, <2>3, <3>1 DEF Planned
  <2>5. UdpWork' /\ MimicPutBack' /\ InstallWork'
    BY <1>0, <1>2, <1>5 DEF UdpWork, MimicPutBack, InstallWork
  <2>6. MimicDone'
    <3>1. /\ hostKind' = "mimic" /\ mwOp'.args = v /\ mwOp'.stage = "before"
          /\ kind = "delete" => v = 0
      BY <1>0, <1>5
    <3>2. /\ Follows("system", "restart", "client")' /\ Follows("unlink_system", "disable_now", "client")'
          /\ OnHost("snippet")' \/ OnHost("unlink_snippet")'
          /\ OnHost("system")' \/ OnHost("unlink_system")'
          /\ OnHost("restart")' \/ OnHost("disable_now")'
          /\ OnHost("disable_now")' => ~ OnHost("system")' /\ OnHost("unlink_system")'
          /\ OnHost("unlink_system")' => \A j \in MwInst \ {i} : mimic.snippet[j] = 0
      <4>1. CASE /\ kind = "apply"
                 /\ \A b, q : ToDo(b, q)' <=>
                      q = "client" /\ b \in {"snippet", "system", "reload", "enable", "restart"}
        BY <2>2, <4>1 DEF Follows, OnHost
      <4>2. CASE /\ kind = "delete"
                 /\ \A b, q : ToDo(b, q)' <=> q = "client" /\ b \in {"unlink_snippet", "system", "restart"}
        BY <2>2, <4>2 DEF Follows, OnHost
      <4>3. CASE /\ kind = "delete"
                 /\ \A b, q : ToDo(b, q)' <=>
                      q = "client" /\ b \in {"unlink_snippet", "unlink_system", "disable_now"}
                 /\ \A j \in MwInst \ {i} : mimic.snippet[j] = 0
        BY <2>2, <4>3 DEF Follows, OnHost
      <4> QED BY <2>3, <4>1, <4>2, <4>3
    <3> QED BY <1>0, <2>2, <3>1, <3>2 DEF MimicDone
  <2> QED BY <2>4, <2>5, <2>6
<1>6. CASE kind = "apply" /\ hostKind # "mimic"
  <2>0. PICK r \in Role : roles = {r}
    BY <1>2, <1>6
  <2>1. s = UdpApply(r)
    <3>1. (CHOOSE q \in roles : TRUE) = r
      BY <2>0
    <3> QED BY <1>6, <3>1 DEF StepsOf
  <2> HIDE DEF s
  <2>l. /\ \A b, q : In(s, <<b, q>>) <=>
             q = r /\ b \in {"upsert", IF hostKind = "openwrt" THEN "write_init" ELSE "reload",
                             "enable", "restart"}
        /\ \A q \in Role : Before(s, <<"upsert", q>>, <<"restart", q>>)
    BY <2>1, UdpApplyList
  <2>2. /\ \A b, q : ToDo(b, q)' <=>
             q = r /\ b \in {"upsert", IF hostKind = "openwrt" THEN "write_init" ELSE "reload",
                             "enable", "restart"}
        /\ Comes("upsert", "restart", r)'
    <3>1. Comes("upsert", "restart", r)' <=> Before(s, <<"upsert", r>>, <<"restart", r>>)
      BY <1>t
    <3>2. ASSUME NEW b, NEW q
          PROVE  ToDo(b, q)' <=>
             q = r /\ b \in {"upsert", IF hostKind = "openwrt" THEN "write_init" ELSE "reload",
                             "enable", "restart"}
      <4>1. ToDo(b, q)' <=> In(s, <<b, q>>)
        BY <1>t
      <4> QED BY <2>l, <4>1
    <3> QED BY <2>l, <3>1, <3>2
  <2>3. Planned'
    <3>1. MwPlan' = {"upsert", "write_init", "reload", "enable", "restart"}
      BY <1>0, <1>6 DEF MwPlan
    <3> QED BY <1>0, <1>6, <2>0, <2>2, <3>1 DEF Planned
  <2>4. UdpWork'
    <3>1. ToDo("upsert", r)' /\ ToDo("restart", r)'
      BY <2>2
    <3>2. UdpApplied(r)'
      BY <2>2, <3>1 DEF UdpApplied, Follows
    <3>3. UdpPutBack(r)' /\ UdpDeleted(r)'
      BY <1>0, <1>6 DEF UdpPutBack, UdpDeleted
    <3> QED BY <1>0, <2>0, <3>2, <3>3 DEF UdpWork
  <2>5. MimicDone' /\ MimicPutBack' /\ InstallWork'
    <3>1. MimicDone'
      BY <1>0, <1>6 DEF MimicDone
    <3>2. MimicPutBack'
      BY <1>0, <1>6 DEF MimicPutBack
    <3>3. InstallWork'
      BY <1>0, <1>6 DEF InstallWork
    <3> QED BY <3>1, <3>2, <3>3
  <2> QED BY <2>3, <2>4, <2>5
<1>7. CASE kind = "delete" /\ hostKind # "mimic"
  <2>1. s = UdpDelete(roles)
    BY <1>7 DEF StepsOf
  <2> HIDE DEF s
  <2>2. /\ \A b, q : ToDo(b, q)' <=>
             \/ /\ q \in roles
                /\ b \in (IF hostKind = "openwrt" THEN {"stop", "disable", "remove", "unlink_init"}
                          ELSE {"disable_now", "remove"})
             \/ hostKind # "openwrt" /\ b = "reload" /\ q = "client"
        /\ hostKind = "openwrt" => \A q \in Role :
             Comes("stop", "unlink_init", q)' /\ Comes("disable", "unlink_init", q)'
    BY <1>t, <2>1, UdpDeleteList
  <2>3. Planned'
    <3>1. MwPlan' = {"stop", "disable", "disable_now", "remove", "unlink_init", "reload", "raise"}
      BY <1>0, <1>7 DEF MwPlan
    <3> QED BY <1>0, <1>7, <2>2, <3>1 DEF Planned
  <2>4. UdpWork'
    <3>1. ~ Raising'
      BY <2>2 DEF Raising
    <3>2. SUFFICES ASSUME NEW q \in roles PROVE UdpApplied(q)' /\ UdpPutBack(q)' /\ UdpDeleted(q)'
      BY <1>0 DEF UdpWork
    <3>3. UdpApplied(q)' /\ UdpPutBack(q)'
      BY <1>0, <1>7 DEF UdpApplied, UdpPutBack
    <3>4. /\ ToDo("remove", q)'
          /\ hostKind = "openwrt" => ToDo("stop", q)' /\ ToDo("disable", q)'
          /\ hostKind # "openwrt" => ToDo("disable_now", q)'
      BY <2>2
    <3>5. UdpDeleted(q)'
      BY <1>0, <2>2, <3>1, <3>4 DEF UdpDeleted
    <3> QED BY <3>3, <3>5
  <2>5. MimicDone' /\ MimicPutBack' /\ InstallWork'
    <3>1. MimicDone'
      BY <1>0, <1>7 DEF MimicDone
    <3>2. MimicPutBack'
      BY <1>0, <1>7 DEF MimicPutBack
    <3>3. InstallWork'
      BY <1>0, <1>7 DEF InstallWork
    <3> QED BY <3>1, <3>2, <3>3
  <2> QED BY <2>3, <2>4, <2>5
<1> QED BY <1>3, <1>4, <1>5, <1>6, <1>7

-----------------------------------------------------------------------------
(* The end of an operation, and what happens beside it.                    *)

LEMMA MwGoesStep ==
  ASSUME MwTypeOK, MwTypeOK', OthersInv, SoundHost(udp, mimic, assets), MwUnderWay,
         NEW c \in MwCommand, NEW r \in Role, MwGoes(c, r)
  PROVE  MwProgress'
<1>1. /\ SoundHost(udp, mimic, assets)'
      /\ SoundHost(mwOp.udp, mwOp.mimic, mwOp.assets)' /\ Planned' /\ Untouched'
  BY GroundGoes
<1>2. UdpWork'
  BY UdpGoes
<1>3. MimicDone'
  BY MimicGoes
<1>4. MimicPutBack'
  BY MimicGoesBack
<1>5. InstallWork'
  BY InstallGoes
<1>6. MwUnderWay'
  BY <1>1, <1>2, <1>3, <1>4, <1>5 DEF MwUnderWay
<1>7. mwOp'.stage \in {"before", "rollback"}
  BY DEF MwGoes, MwDone
<1> QED BY <1>1, <1>6, <1>7 DEF MwProgress, MwFailureRestores, MwSuccessIsReal

\* Nothing is left to do.
LEMMA MwFinishStep ==
  ASSUME MwTypeOK, MwTypeOK', SoundHost(udp, mimic, assets), MwUnderWay, MwFinishes
  PROVE  MwProgress'
<1>0. /\ ~ MwDone /\ SameMw /\ SameHost /\ mwOp'.clean = mwOp.clean
      /\ mwOp'.stage = IF mwOp.stage = "rollback" THEN "restored" ELSE "ok"
      /\ Planned /\ Untouched /\ UdpWork /\ MimicDone /\ MimicPutBack /\ InstallWork
  BY DEF MwFinishes, MwUnderWay
<1>1. ASSUME NEW b, NEW q PROVE ~ ToDo(b, q)
  BY DEF MwFinishes, ToDo, In
<1>s. SoundHost(udp, mimic, assets)'
  BY <1>0 DEF SoundHost, SoundService, SameHost, SameMw
<1>u. MwUnderWay'
  BY <1>0 DEF MwUnderWay, MwDone
<1>m. /\ hostKind' = hostKind /\ udp' = udp /\ assets' = assets /\ mimic' = mimic /\ rejected' = rejected
      /\ mwOp'.kind = mwOp.kind /\ mwOp'.inst = mwOp.inst /\ mwOp'.roles = mwOp.roles
      /\ mwOp'.args = mwOp.args /\ mwOp'.udp = mwOp.udp /\ mwOp'.mimic = mwOp.mimic
      /\ mwOp'.assets = mwOp.assets
  BY <1>0 DEF SameMw, SameHost
<1>2. CASE mwOp.stage = "rollback"
  <2>f. MwSuccessIsReal'
    BY <1>0, <1>2 DEF MwSuccessIsReal
  <2>1. SUFFICES ASSUME mwOp.clean
                 PROVE  /\ assets = mwOp.assets
                        /\ \A r \in Role, i \in MwInst :
                             udp[r][i].line = mwOp.udp[r][i].line /\ Resumed(udp[r][i], mwOp.udp[r][i])
                        /\ mimic.snippet = mwOp.mimic.snippet /\ mimic.block = mwOp.mimic.block
                        /\ mwOp.mimic.on /\ mwOp.mimic.loaded = mwOp.mimic.block
                             => mimic.loaded = mwOp.mimic.loaded
    BY <1>0, <1>s, <1>u, <1>m, <2>f DEF MwProgress, MwFailureRestores, Resumed
  <2>2. assets = mwOp.assets
    <3>1. CASE mwOp.kind = "install"
      <4>1. \A a \in Asset : assets[a] = mwOp.assets[a]
        BY <1>0, <1>1, <1>2, <2>1, <3>1 DEF InstallWork, OnHost
      <4>2. assets \in Assets /\ mwOp.assets \in Assets
        BY DEF MwTypeOK, MwOperation
      <4> QED BY <4>1, <4>2 DEF Assets
    <3> QED BY <1>0, <3>1 DEF Untouched
  <2>3. ASSUME NEW r \in Role, NEW i \in MwInst
        PROVE  udp[r][i].line = mwOp.udp[r][i].line /\ Resumed(udp[r][i], mwOp.udp[r][i])
    <3>1. CASE ~ Mine(r, i)
      BY <1>0, <3>1 DEF Untouched
    <3>2. CASE Mine(r, i)
      <4>1. UdpPutBack(r) /\ i = mwOp.inst
        BY <1>0, <3>2 DEF UdpWork, Mine
      <4> QED BY <1>1, <1>2, <2>1, <4>1 DEF UdpPutBack
    <3> QED BY <3>1, <3>2
  <2>4. /\ mimic.snippet = mwOp.mimic.snippet /\ mimic.block = mwOp.mimic.block
        /\ mwOp.mimic.on /\ mwOp.mimic.loaded = mwOp.mimic.block => mimic.loaded = mwOp.mimic.loaded
    <3>1. CASE hostKind # "mimic"
      BY <1>0, <3>1 DEF Untouched
    <3>2. CASE hostKind = "mimic"
      <4>1. mwOp.kind \in {"apply", "delete"}
        BY <1>0, <1>2, <3>2 DEF Untouched
      <4> QED BY <1>0, <1>1, <1>2, <2>1, <3>2, <4>1 DEF MimicPutBack, OnHost
    <3> QED BY <3>1, <3>2
  <2> QED BY <2>2, <2>3, <2>4
<1>3. CASE mwOp.stage = "before"
  <2>f. MwFailureRestores'
    BY <1>0, <1>3 DEF MwFailureRestores
  <2>1. MwSuccessIsReal'
    <3>1. CASE mwOp.kind = "install"
      <4>1. \A a \in Asset : assets[a] = (IF hostKind = "openwrt" /\ a # "binary" THEN 0 ELSE 2)
        BY <1>0, <1>1, <1>3, <3>1 DEF InstallWork, OnHost, SoundHost
      <4> QED BY <1>m, <3>1, <4>1 DEF MwSuccessIsReal
    <3>2. CASE mwOp.kind = "apply" /\ hostKind # "mimic"
      <4>1. ASSUME NEW r \in mwOp.roles
            PROVE  LET s == udp[r][mwOp.inst] IN s.line = mwOp.args /\ s.on /\ s.run = Spawned(s)
        <5>1. UdpApplied(r)
          BY <1>0 DEF UdpWork
        <5> QED BY <1>1, <1>3, <3>2, <5>1 DEF UdpApplied
      <4>2. \A s : Spawned(s)' = Spawned(s)
        BY <1>m DEF Spawned
      <4> QED BY <1>m, <3>2, <4>1, <4>2 DEF MwSuccessIsReal
    <3>3. CASE mwOp.kind = "delete" /\ hostKind # "mimic"
      <4>1. ASSUME NEW r \in mwOp.roles
            PROVE  udp[r][mwOp.inst].line = 0 /\ ~ udp[r][mwOp.inst].on /\ ~ udp[r][mwOp.inst].boot
        <5>1. UdpDeleted(r) /\ ~ Raising
          BY <1>0, <1>1 DEF UdpWork, Raising
        <5> QED BY <1>1, <3>3, <5>1 DEF UdpDeleted
      <4> QED BY <1>m, <3>3, <4>1 DEF MwSuccessIsReal
    <3>4. CASE mwOp.kind \in {"apply", "delete"} /\ hostKind = "mimic"
      <4>1. mimic.snippet[mwOp.inst] = mwOp.args /\ mimic.loaded = mimic.snippet
        BY <1>0, <1>1, <1>3, <3>4 DEF MimicDone, OnHost
      <4> QED BY <1>m, <3>4, <4>1 DEF MwSuccessIsReal
    <3>5. CASE mwOp.kind \notin {"install", "apply", "delete"}
      BY <1>m, <3>5 DEF MwSuccessIsReal
    <3> QED BY <3>1, <3>2, <3>3, <3>4, <3>5
  <2> QED BY <1>s, <1>u, <2>f, <2>1 DEF MwProgress
<1> QED BY <1>0, <1>2, <1>3 DEF MwDone

\* A process that is started again was not running, and its service stays on.
LEMMA Respawned ==
  ASSUME MwTypeOK, NEW r \in Role, NEW i \in MwInst, ServiceRespawns(r, i),
         NEW q \in Role, NEW j \in MwInst
  PROVE  \/ udp'[q][j] = udp[q][j]
         \/ /\ udp[q][j].on /\ udp[q][j].run = 0 /\ Spawned(udp[q][j]) # 0
            /\ udp'[q][j].on /\ udp'[q][j].run = Spawned(udp[q][j])
            /\ udp'[q][j].line = udp[q][j].line /\ udp'[q][j].boot = udp[q][j].boot
            /\ udp'[q][j].init = udp[q][j].init
<1>1. udp \in [Role -> [MwInst -> Service]]
  BY DEF MwTypeOK, Services
<1>2. udp' = [udp EXCEPT ![r][i] = SwitchOn(@)]
  BY DEF ServiceRespawns
<1>3. CASE q = r /\ j = i
  <2>1. udp'[q][j] = SwitchOn(udp[q][j]) /\ udp[q][j] \in Service
    BY <1>1, <1>2, <1>3
  <2>2. udp[q][j].on /\ udp[q][j].run = 0 /\ Spawned(udp[q][j]) # 0
    BY <1>3 DEF ServiceRespawns
  <2> HIDE DEF ServiceRespawns
  <2> QED BY <2>1, <2>2 DEF SwitchOn, Service
<1>4. CASE q # r \/ j # i
  BY <1>1, <1>2, <1>4
<1> QED BY <1>3, <1>4

\* An operation on an instance names it.
MwNamed == mwOp.kind \notin {"none", "install"} => mwOp.inst \in MwInst

\* The operation, or its end, does not depend on it.
LEMMA MwBesideStep ==
  ASSUME MwTypeOK, MwTypeOK', MwNamed, MwProgress, mwOp' = mwOp, hostKind' = hostKind, rejected' = rejected,
         assets' = assets, mimic' = mimic,
         \A q \in Role, j \in MwInst :
           \/ udp'[q][j] = udp[q][j]
           \/ /\ udp[q][j].on /\ udp[q][j].run = 0 /\ Spawned(udp[q][j]) # 0
              /\ udp'[q][j].on /\ udp'[q][j].run = Spawned(udp[q][j])
              /\ udp'[q][j].line = udp[q][j].line /\ udp'[q][j].boot = udp[q][j].boot
              /\ udp'[q][j].init = udp[q][j].init
  PROVE  MwProgress'
<1>t. /\ \A b, q : ToDo(b, q)' <=> ToDo(b, q)
      /\ \A a, b, q : Comes(a, b, q)' <=> Comes(a, b, q)
  BY DEF ToDo, Comes
<1>p. \A s : Spawned(s)' = Spawned(s)
  BY DEF Spawned
<1>i. ~ MwDone => \A r \in mwOp.roles : r \in Role /\ mwOp.inst \in MwInst
  BY DEF MwProgress, MwUnderWay, Untouched, MwTypeOK, MwOperation
<1>r. mwOp.roles \in SUBSET Role /\ (~ MwDone /\ mwOp.kind # "install" => mwOp.inst \in MwInst)
  BY DEF MwProgress, MwUnderWay, Untouched, MwTypeOK, MwOperation
<1>k. \A q \in Role, j \in MwInst : \A o : Resumed(udp[q][j], o) => Resumed(udp'[q][j], o)
  BY DEF Resumed
<1>1. SoundHost(udp, mimic, assets)'
  <2>1. ASSUME NEW q \in Role, NEW j \in MwInst PROVE SoundService(udp[q][j])'
    <3>1. SoundService(udp[q][j])
      BY DEF MwProgress, SoundHost
    <3>2. CASE udp'[q][j] = udp[q][j]
      BY <3>1, <3>2 DEF SoundService
    <3>3. CASE udp'[q][j] # udp[q][j]
      BY <3>1, <3>3, SpawnsSound DEF SoundService
    <3> QED BY <3>2, <3>3
  <2> QED BY <2>1 DEF MwProgress, SoundHost
<1>2. MwUnderWay'
  <2>0. SUFFICES ASSUME ~ MwDone PROVE MwUnderWay'
    BY DEF MwUnderWay, MwDone
  <2>1. /\ SoundHost(mwOp.udp, mwOp.mimic, mwOp.assets) /\ Planned /\ Untouched
        /\ UdpWork /\ MimicDone /\ MimicPutBack /\ InstallWork
    BY <2>0 DEF MwProgress, MwUnderWay
  <2>2. SoundHost(mwOp.udp, mwOp.mimic, mwOp.assets)'
    BY <2>1 DEF SoundHost, SoundService
  <2>3. Planned'
    <3>1. MwPlan' = MwPlan
      BY DEF MwPlan
    <3> QED BY <1>t, <2>1, <3>1 DEF Planned
  <2>4. Untouched'
    <3>1. ASSUME NEW q \in Role, NEW j \in MwInst, ~ Mine(q, j)'
          PROVE  /\ udp'[q][j].line = mwOp'.udp[q][j].line
                 /\ Resumed(udp[q][j], mwOp.udp[q][j])'
      <4>1. udp[q][j].line = mwOp.udp[q][j].line /\ Resumed(udp[q][j], mwOp.udp[q][j])
        BY <2>1, <3>1 DEF Untouched, Mine
      <4>2. Resumed(udp'[q][j], mwOp.udp[q][j])
        BY <1>k, <4>1
      <4>3. udp'[q][j].line = udp[q][j].line
        OBVIOUS
      <4> QED BY <4>1, <4>2, <4>3 DEF Resumed
    <3> QED BY <2>1, <3>1 DEF Untouched
  <2>5. UdpWork'
    <3>1. SUFFICES ASSUME NEW q \in mwOp.roles PROVE UdpApplied(q)' /\ UdpPutBack(q)' /\ UdpDeleted(q)'
      BY DEF UdpWork
    <3>2. UdpApplied(q) /\ UdpPutBack(q) /\ UdpDeleted(q) /\ q \in Role
      BY <1>r, <2>1 DEF UdpWork
    <3> DEFINE s == udp[q][mwOp.inst]
    <3> DEFINE n == udp'[q][mwOp.inst]
    <3>3. mwOp.inst \in MwInst
      BY <1>r, <2>0, <2>1 DEF Untouched
    <3>4. /\ n.line = s.line /\ n.boot = s.boot /\ n.init = s.init
          /\ s.on => n.on
          /\ ~ s.on => n = s
          /\ s.run = Spawned(s) => n.run = Spawned(n)
      <4>1. n.line = s.line => Spawned(n) = Spawned(s)
        BY DEF Spawned
      <4> HIDE DEF s, n
      <4>2. \/ n = s
            \/ /\ s.on /\ s.run = 0 /\ Spawned(s) # 0 /\ n.on /\ n.run = Spawned(s)
               /\ n.line = s.line /\ n.boot = s.boot /\ n.init = s.init
        BY <3>2, <3>3 DEF s, n
      <4> QED BY <4>1, <4>2
    <3>5. \A o : Resumed(s, o) => Resumed(n, o)
      BY <1>k, <3>2, <3>3
    <3> HIDE DEF s, n
    <3>6. UdpApplied(q)'
      <4>1. SUFFICES ASSUME mwOp.kind = "apply", mwOp.stage = "before" PROVE UdpApplied(q)'
        BY DEF UdpApplied
      <4>2. /\ Follows("upsert", "restart", q)
            /\ ToDo("upsert", q) \/ s.line = mwOp.args
            /\ ToDo("restart", q) \/ (s.on /\ s.run = Spawned(s))
        BY <3>2, <4>1 DEF UdpApplied, s
      <4>3. /\ Follows("upsert", "restart", q)'
            /\ ToDo("upsert", q)' \/ n.line = mwOp.args
            /\ ToDo("restart", q)' \/ (n.on /\ n.run = Spawned(n))
        BY <1>t, <3>4, <4>2 DEF Follows
      <4> QED BY <1>p, <4>3 DEF UdpApplied, n
    <3>7. UdpPutBack(q)'
      <4> DEFINE o == mwOp.udp[q][mwOp.inst]
      <4>1. /\ mwOp.kind = "apply" => (o.init => s.init)
            /\ mwOp.stage = "rollback" =>
                /\ Follows("restore_file", "start_again", q)
                /\ ToDo("restore_file", q) \/ s.line = o.line
                /\ ToDo("start_again", q) \/ ~ mwOp.clean \/ Resumed(s, o)
        BY <3>2 DEF UdpPutBack, s
      <4> HIDE DEF o
      <4>2. /\ mwOp.kind = "apply" => (o.init => n.init)
            /\ mwOp.stage = "rollback" =>
                /\ Follows("restore_file", "start_again", q)'
                /\ ToDo("restore_file", q)' \/ n.line = o.line
                /\ ToDo("start_again", q)' \/ ~ mwOp.clean \/ Resumed(n, o)
        BY <1>t, <3>4, <3>5, <4>1 DEF Follows
      <4> QED BY <4>2 DEF UdpPutBack, Resumed, n, o
    <3>8. UdpDeleted(q)'
      <4>1. Raising' <=> Raising
        BY <1>t DEF Raising
      <4>2. s.on = n.on \/ s.on
        BY <3>4
      <4>3. CASE s.on
        <5>1. n.on /\ n.boot = s.boot /\ n.line = s.line
          BY <3>4, <4>3
        <5> QED BY <1>t, <3>2, <4>1, <4>3, <5>1 DEF UdpDeleted, s, n
      <4>4. CASE ~ s.on
        <5>1. n = s
          BY <3>4, <4>4
        <5> QED BY <1>t, <3>2, <4>1, <5>1 DEF UdpDeleted, s, n
      <4> QED BY <4>3, <4>4
    <3> QED BY <3>6, <3>7, <3>8
  <2>6. MimicDone' /\ MimicPutBack'
    <3>1. MimicDone'
      BY <1>t, <2>1 DEF MimicDone, Follows, OnHost
    <3>2. MimicPutBack'
      BY <1>t, <2>1 DEF MimicPutBack, OnHost
    <3> QED BY <3>1, <3>2
  <2>7. InstallWork'
    BY <1>t, <2>1 DEF InstallWork, OnHost
  <2> QED BY <2>2, <2>3, <2>4, <2>5, <2>6, <2>7 DEF MwUnderWay
<1>3. MwFailureRestores'
  <2>0. SUFFICES ASSUME mwOp.stage = "restored", mwOp.clean PROVE MwFailureRestores'
    BY DEF MwFailureRestores
  <2>1. /\ assets = mwOp.assets
        /\ \A q \in Role, j \in MwInst :
             udp[q][j].line = mwOp.udp[q][j].line /\ Resumed(udp[q][j], mwOp.udp[q][j])
        /\ mimic.snippet = mwOp.mimic.snippet /\ mimic.block = mwOp.mimic.block
        /\ mwOp.mimic.on /\ mwOp.mimic.loaded = mwOp.mimic.block => mimic.loaded = mwOp.mimic.loaded
    BY <2>0 DEF MwProgress, MwFailureRestores, Resumed
  <2>2. ASSUME NEW q \in Role, NEW j \in MwInst
        PROVE  udp'[q][j].line = mwOp.udp[q][j].line /\ Resumed(udp'[q][j], mwOp.udp[q][j])
    BY <1>k, <2>1
  <2> QED BY <2>1, <2>2 DEF MwFailureRestores, Resumed
<1>4. MwSuccessIsReal'
  <2>0. SUFFICES ASSUME mwOp.stage = "ok" PROVE MwSuccessIsReal'
    BY DEF MwSuccessIsReal
  <2>a. MwSuccessIsReal
    BY DEF MwProgress
  <2>1. CASE mwOp.kind = "install"
    BY <2>0, <2>1, <2>a DEF MwSuccessIsReal
  <2>2. CASE mwOp.kind = "apply" /\ hostKind # "mimic" /\ mwOp.inst \in MwInst
    <3>1. ASSUME NEW q \in mwOp.roles
          PROVE  udp'[q][mwOp.inst].line = mwOp.args /\ udp'[q][mwOp.inst].on
                 /\ udp'[q][mwOp.inst].run = Spawned(udp'[q][mwOp.inst])
      <4>1. udp[q][mwOp.inst].line = mwOp.args /\ udp[q][mwOp.inst].on
            /\ udp[q][mwOp.inst].run = Spawned(udp[q][mwOp.inst])
        BY <2>0, <2>2, <2>a DEF MwSuccessIsReal
      <4>2. udp'[q][mwOp.inst] = udp[q][mwOp.inst]
        BY <1>r, <2>2, <4>1
      <4> QED BY <4>1, <4>2
    <3> QED BY <1>p, <2>2, <3>1 DEF MwSuccessIsReal
  <2>3. CASE mwOp.kind = "delete" /\ hostKind # "mimic" /\ mwOp.inst \in MwInst
    <3>1. ASSUME NEW q \in mwOp.roles
          PROVE  udp'[q][mwOp.inst].line = 0 /\ ~ udp'[q][mwOp.inst].on /\ ~ udp'[q][mwOp.inst].boot
      <4>1. udp[q][mwOp.inst].line = 0 /\ ~ udp[q][mwOp.inst].on /\ ~ udp[q][mwOp.inst].boot
        BY <2>0, <2>3, <2>a DEF MwSuccessIsReal
      <4>2. udp'[q][mwOp.inst] = udp[q][mwOp.inst]
        BY <1>r, <2>3, <4>1
      <4> QED BY <4>1, <4>2
    <3> QED BY <2>3, <3>1 DEF MwSuccessIsReal
  <2>4. CASE mwOp.kind \in {"apply", "delete"} /\ hostKind = "mimic"
    BY <2>0, <2>4, <2>a DEF MwSuccessIsReal
  <2>5. CASE mwOp.kind \notin {"install", "apply", "delete"}
    BY <2>5 DEF MwSuccessIsReal
  <2>6. mwOp.kind \in {"apply", "delete"} => mwOp.inst \in MwInst
    BY DEF MwNamed
  <2> QED BY <2>1, <2>2, <2>3, <2>4, <2>5, <2>6
<1> QED BY <1>1, <1>2, <1>3, <1>4 DEF MwProgress

\* The agent is killed or the host reboots: what is on was accepted.
LEMMA MwResetStep ==
  ASSUME MwTypeOK, SoundHost(udp, mimic, assets), hostKind' = hostKind, rejected' = rejected,
         mwOp' = NoMwOp, SameHost \/ MwBooted
  PROVE  MwProgress'
<1>1. SoundHost(udp, mimic, assets)'
  <2>1. CASE SameHost
    BY <2>1 DEF SoundHost, SoundService, SameHost
  <2>2. CASE MwBooted
    <3>1. ASSUME NEW q \in Role, NEW j \in MwInst PROVE SoundService(udp[q][j])'
      <4>1. udp'[q][j] = IF udp[q][j].boot THEN SwitchOn(udp[q][j]) ELSE SwitchOff(udp[q][j])
        BY <2>2 DEF MwBooted
      <4>2. SoundService(udp[q][j]) /\ udp[q][j] \in Service
        BY DEF SoundHost, MwTypeOK, Services
      <4> DEFINE s == udp[q][j]
      <4> DEFINE n == udp'[q][j]
      <4>3. CASE s.boot
        <5>1. n = SwitchOn(s) /\ s \in Service
          BY <4>1, <4>2, <4>3
        <5> HIDE DEF s, n
        <5>2. n.on /\ n.run = Spawned(s) /\ n.boot = s.boot /\ n.init = s.init
          BY <5>1 DEF SwitchOn, Service
        <5>3. /\ n.run # 0 => n.run \notin rejected /\ n.on
              /\ hostKind = "openwrt" /\ (n.on \/ n.boot) => n.init
          BY <4>2, <4>3, <5>2, SpawnsSound DEF SoundService, s
        <5> QED BY <5>3 DEF SoundService, n
      <4>4. CASE ~ s.boot
        <5>1. n = SwitchOff(s) /\ s \in Service
          BY <4>1, <4>2, <4>4
        <5> HIDE DEF s, n
        <5>2. ~ n.on /\ n.run = 0 /\ n.boot = s.boot
          BY <5>1 DEF SwitchOff, Service
        <5> QED BY <4>4, <5>2 DEF SoundService, n, s
      <4> QED BY <4>3, <4>4
    <3>2. mimic'.on => \A j \in MwInst : mimic'.loaded[j] \notin rejected
      <4>1. mimic \in MimicHost
        BY DEF MwTypeOK
      <4>2. \/ mimic' = [mimic EXCEPT !.on = TRUE, !.loaded = mimic.block] /\ Loadable(mimic)
            \/ mimic' = [mimic EXCEPT !.on = FALSE, !.loaded = Nobody]
        BY <2>2 DEF MwBooted, LoadMimic, UnloadMimic
      <4> QED BY <4>1, <4>2 DEF MimicHost, Loadable
    <3>3. assets' = assets
      BY <2>2 DEF MwBooted
    <3> QED BY <3>1, <3>2, <3>3 DEF SoundHost
  <2> QED BY <2>1, <2>2
<1>2. mwOp'.stage = "idle"
  BY DEF NoMwOp
<1> QED BY <1>1, <1>2 DEF MwProgress, MwUnderWay, MwDone, MwFailureRestores, MwSuccessIsReal

LEMMA MwProgressStep ==
  MwTypeOK /\ OthersInv /\ MwNamed /\ MwProgress /\ [MwNext]_mwVars => MwNamed' /\ MwProgress'
<1> SUFFICES ASSUME MwTypeOK, OthersInv, MwNamed, MwProgress, [MwNext]_mwVars
             PROVE  MwNamed' /\ MwProgress'
  OBVIOUS
<1>t. MwTypeOK'
  BY OthersStep
<1>p. SoundHost(udp, mimic, assets) /\ MwUnderWay
  BY DEF MwProgress
<1>1. ASSUME NEW kind \in {"apply", "start", "stop", "delete", "install"}, NEW i \in MwInst \cup {NoInst},
             NEW v \in Entry, NEW roles \in SUBSET Role,
             RolesFor(kind, roles), MwBegins(kind, i, roles, v), kind # "install" => i \in MwInst,
             kind = "install" => hostKind # "mimic", kind = "delete" => v = 0
      PROVE  MwNamed' /\ MwProgress'
  <2>1. MwNamed'
    BY <1>1 DEF MwNamed, MwBegins
  <2> QED BY <1>1, <1>p, <2>1, MwBeginStep
<1>2. ASSUME NEW c \in MwCommand, NEW r \in Role, MwGoes(c, r) PROVE MwNamed' /\ MwProgress'
  <2>1. MwNamed'
    BY <1>2 DEF MwNamed, MwGoes, SameMw
  <2> QED BY <1>2, <1>p, <1>t, <2>1, MwGoesStep
<1>3. ASSUME NEW c \in MwCommand, NEW r \in Role, MwFailed(c, r) PROVE MwNamed' /\ MwProgress'
  <2>1. MwNamed'
    BY <1>3 DEF MwNamed, MwFailed, SameMw
  <2> QED BY <1>3, <1>p, <1>t, <2>1, MwFailedStep
<1>4. CASE MwFinishes
  <2>1. MwNamed'
    BY <1>4 DEF MwNamed, MwFinishes, SameMw
  <2> QED BY <1>4, <1>p, <1>t, <2>1, MwFinishStep
<1>5. CASE /\ hostKind' = hostKind /\ rejected' = rejected /\ mwOp' = NoMwOp
           /\ SameHost \/ MwBooted
  <2>1. MwNamed'
    BY <1>5 DEF MwNamed, NoMwOp
  <2> QED BY <1>5, <1>p, <2>1, MwResetStep
<1>6. ASSUME NEW r \in Role, NEW i \in MwInst, ServiceRespawns(r, i), mwOp' = mwOp
      PROVE  MwNamed' /\ MwProgress'
  <2>1. MwNamed'
    BY <1>6 DEF MwNamed
  <2>2. hostKind' = hostKind /\ rejected' = rejected /\ assets' = assets /\ mimic' = mimic
    BY <1>6 DEF ServiceRespawns
  <2> QED BY <1>6, <1>t, <2>1, <2>2, Respawned, MwBesideStep
<1>7. CASE SameHost /\ hostKind' = hostKind /\ rejected' = rejected /\ mwOp' = mwOp
  <2>1. MwNamed'
    BY <1>7 DEF MwNamed
  <2>2. udp' = udp /\ assets' = assets /\ mimic' = mimic
    BY <1>7 DEF SameHost
  <2> QED BY <1>7, <1>t, <2>1, <2>2, MwBesideStep
<1> QED BY <1>1, <1>2, <1>3, <1>4, <1>5, <1>6, <1>7, MwCases

LEMMA MwProgressInit == MwInit => MwNamed /\ MwProgress
<1> SUFFICES ASSUME MwInit PROVE MwNamed /\ MwProgress
  OBVIOUS
<1>1. mwOp.kind = "none" /\ mwOp.stage = "idle"
  BY DEF MwInit, NoMwOp
<1>2. SoundHost(udp, mimic, assets)
  <2>1. rejected \subseteq Args \ {1}
    BY DEF MwInit
  <2>2. PICK e \in {0, 1}, user \in {{}} \cup {{i} : i \in MwInst}, r \in Role, base \in BOOLEAN :
          LET entry == [i \in MwInst |-> IF i \in user THEN 1 ELSE 0]
          IN /\ e = 0 => user = {}
             /\ IF hostKind = "mimic"
                THEN /\ mimic = [base |-> base, snippet |-> entry, block |-> entry, on |-> user # {},
                                 boot |-> user # {}, loaded |-> entry]
                     /\ udp = [q \in Role |-> [i \in MwInst |-> NoService]] /\ assets = [a \in Asset |-> 0]
                ELSE /\ udp = [q \in Role |->
                                [i \in MwInst |-> IF i \in user /\ q = r THEN Deployed ELSE NoService]]
                     /\ assets = [a \in Asset |-> IF hostKind = "openwrt" /\ a # "binary" THEN 0 ELSE e]
                     /\ mimic = NoMwOp.mimic
    BY Zenon DEF MwInit
  <2>3. SoundService(NoService) /\ SoundService(Deployed)
    BY <2>1 DEF SoundService, NoService, Deployed
  <2>4. CASE hostKind = "mimic"
    <3>1. /\ mimic.loaded = [i \in MwInst |-> IF i \in user THEN 1 ELSE 0]
          /\ udp = [q \in Role |-> [i \in MwInst |-> NoService]]
      BY <2>2, <2>4
    <3>2. 0 \notin rejected /\ 1 \notin rejected
      BY <2>1 DEF Args
    <3> QED BY <2>3, <2>4, <3>1, <3>2 DEF SoundHost
  <2>5. CASE hostKind # "mimic"
    <3>1. /\ udp = [q \in Role |-> [i \in MwInst |-> IF i \in user /\ q = r THEN Deployed ELSE NoService]]
          /\ assets = [a \in Asset |-> IF hostKind = "openwrt" /\ a # "binary" THEN 0 ELSE e]
          /\ mimic = NoMwOp.mimic
      BY <2>2, <2>5
    <3>2. ~ mimic.on
      BY <3>1 DEF NoMwOp
    <3>3. ASSUME NEW q \in Role, NEW j \in MwInst PROVE SoundService(udp[q][j])
      <4>1. udp[q][j] = Deployed \/ udp[q][j] = NoService
        BY <3>1
      <4> QED BY <2>3, <4>1
    <3> QED BY <3>1, <3>2, <3>3 DEF SoundHost
  <2> QED BY <2>4, <2>5
<1> QED BY <1>1, <1>2 DEF MwNamed, MwProgress, MwUnderWay, MwDone, MwFailureRestores,
           MwSuccessIsReal

\* An operation of the middleware that reports success has done what it was asked for, for
\* its link and for the others that share the service, whatever failed or was killed before.
THEOREM MwSuccessIsAlwaysReal == MwSpec => []MwSuccessIsReal
<1>1. MwInit => MwTypeOK /\ OthersInv /\ MwNamed /\ MwProgress
  BY OthersInit, MwProgressInit
<1>2. MwProgress => MwSuccessIsReal
  BY DEF MwProgress
<1> QED BY <1>1, <1>2, OthersStep, MwProgressStep, PTL DEF MwSpec

\* A failed apply, delete (mimic) or installation whose rollback went through has put the
\* files back, and what ran with the parameters of its file runs with them again.
THEOREM MwFailureAlwaysRestores == MwSpec => []MwFailureRestores
<1>1. MwInit => MwTypeOK /\ OthersInv /\ MwNamed /\ MwProgress
  BY OthersInit, MwProgressInit
<1>2. MwProgress => MwFailureRestores
  BY DEF MwProgress
<1> QED BY <1>1, <1>2, OthersStep, MwProgressStep, PTL DEF MwSpec
=============================================================================
