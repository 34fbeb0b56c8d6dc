----------------------- MODULE DependencyVerdictProofs -----------------------
(***************************************************************************)
(* The verdict of is_task_ready_for_poll on a dependency chain is right for *)
(* every table of tasks, however damaged, and every depth limit.  The       *)
(* reference is not a walk: the ancestors of a task are the least set that  *)
(* holds its dependency and is closed under dependencies.                   *)
(***************************************************************************)
EXTENDS MCTaskDependencies, TaskDependenciesProofs, FunctionTheorems, FiniteSetTheorems

\* Any table: rows are tasks, and a dependency is a task or none.
GraphOK == /\ rows \subseteq TaskId
           /\ dep \in [TaskId -> TaskId \cup {NoTask}]
           /\ node \in [TaskId -> Nodes]

\* The walk from t, and that it goes on until position k.
Walk(t) == Chain(t, dep, rows, MaxDepth)
Passes(t, k) == \A i \in 1..(k - 1) : Walk(t)[i] \in rows /\ dep[Walk(t)[i]] # NoTask

\* A step of the walk.
LEMMA WalkAt ==
  ASSUME NEW t
  PROVE  /\ Walk(t)[0] = t
         /\ \A k \in 0..MaxDepth : Walk(t)[k] \in rows => Walk(t)[k + 1] = dep[Walk(t)[k]]
BY GraphAssumption, ChainAt DEF Walk

\* A closed set that holds one position of a walk holds those after it.
LEMMA ClosedHoldsWalk ==
  ASSUME NEW t, NEW j \in 0..MaxDepth, NEW k \in (j + 1)..(MaxDepth + 1), Passes(t, k),
         NEW S \in Closed, Walk(t)[j + 1] \in S
  PROVE  Walk(t)[k] \in S
<1> DEFINE T == {n \in Nat : (j + 1) + n <= k => Walk(t)[(j + 1) + n] \in S}
<1>0. MaxDepth \in Nat /\ j \in Nat /\ k \in Nat
  BY GraphAssumption
<1>1. 0 \in T
  BY <1>0
<1>2. ASSUME NEW n \in Nat, n \in T PROVE n + 1 \in T
  <2> SUFFICES ASSUME (j + 1) + (n + 1) <= k PROVE Walk(t)[(j + 1) + (n + 1)] \in S
    OBVIOUS
  <2> DEFINE i == (j + 1) + n
  <2>1. i \in 1..(k - 1) /\ i \in 0..MaxDepth /\ i <= k /\ i + 1 = (j + 1) + (n + 1)
    BY <1>0
  <2>2. Walk(t)[i] \in S
    BY <1>2, <2>1
  <2> HIDE DEF i
  <2>3. Walk(t)[i] \in rows /\ dep[Walk(t)[i]] # NoTask
    BY <2>1 DEF Passes
  <2>4. Walk(t)[i + 1] = dep[Walk(t)[i]]
    BY <2>1, <2>3, WalkAt
  <2> QED BY <2>1, <2>2, <2>3, <2>4 DEF Closed
<1> HIDE DEF T
<1>3. Nat \subseteq T
  BY <1>1, <1>2, SetInduction
<1>4. k - (j + 1) \in T
  BY <1>0, <1>3
<1> QED BY <1>0, <1>4 DEF T

\* The positions of a walk are tasks, and ancestors of the task it began at.
LEMMA WalkIsAncestor ==
  ASSUME GraphOK, NEW t \in rows, dep[t] # NoTask, NEW k \in 1..(MaxDepth + 1), Passes(t, k)
  PROVE  Walk(t)[k] \in TaskId /\ Walk(t)[k] \in Ancestors(t)
<1>0. MaxDepth \in Nat /\ 0 \in 0..MaxDepth /\ k \in (0 + 1)..(MaxDepth + 1) /\ 0 + 1 = 1
  BY GraphAssumption
<1>1. Walk(t)[0] = t /\ Walk(t)[1] = dep[t]
  BY <1>0, WalkAt
<1>2. Walk(t)[k] \in TaskId
  <2>1. CASE k = 1
    BY <1>1, <2>1 DEF GraphOK
  <2>2. CASE k # 1
    <3>1. k - 1 \in 1..(k - 1) /\ k - 1 \in 0..MaxDepth /\ (k - 1) + 1 = k
      BY <1>0, <2>2
    <3>2. Walk(t)[k - 1] \in rows /\ dep[Walk(t)[k - 1]] # NoTask
      BY <3>1 DEF Passes
    <3>3. Walk(t)[k] = dep[Walk(t)[k - 1]]
      BY <3>1, <3>2, WalkAt
    <3> QED BY <3>2, <3>3 DEF GraphOK
  <2> QED BY <2>1, <2>2
<1>3. ASSUME NEW S \in Closed, dep[t] \in S PROVE Walk(t)[k] \in S
  BY <1>0, <1>1, <1>3, ClosedHoldsWalk
<1> QED BY <1>2, <1>3 DEF Ancestors

\* A walk that comes back to where it was has found a cycle.
LEMMA RepeatIsCycle ==
  ASSUME GraphOK, NEW t \in rows, dep[t] # NoTask, NEW k \in 1..(MaxDepth + 1), Passes(t, k),
         NEW j \in 0..(k - 1), Walk(t)[j] = Walk(t)[k]
  PROVE  Walk(t)[k] \in rows => Circular(t)
<1> DEFINE u == Walk(t)[k]
<1>0. MaxDepth \in Nat /\ j \in 0..MaxDepth /\ k \in (j + 1)..(MaxDepth + 1)
  BY GraphAssumption
<1>1. Walk(t)[j] \in rows /\ dep[Walk(t)[j]] # NoTask
  <2>1. CASE j = 0
    BY <2>1, WalkAt
  <2>2. CASE j # 0
    BY <1>0, <2>2 DEF Passes
  <2> QED BY <2>1, <2>2
<1>2. Walk(t)[j + 1] = dep[u]
  BY <1>0, <1>1, WalkAt
<1>3. u \in Ancestors(u)
  <2>1. ASSUME NEW S \in Closed, dep[u] \in S PROVE u \in S
    BY <1>0, <1>2, <2>1, ClosedHoldsWalk
  <2> QED BY <2>1, WalkIsAncestor DEF Ancestors
<1>4. u \in Ancestors(t) /\ u \in rows /\ dep[u] # NoTask
  BY <1>1, WalkIsAncestor
<1> QED BY <1>3, <1>4 DEF Circular

\* Where the walk of t ends, and what holds at a position where it does not.
EndsOf(t) == Ends(t, dep, node, rows, MaxDepth)
EndOf(t)  == FirstEnd(t, dep, node, rows, MaxDepth)

\* A position before the end: it has a row of the same node that was not seen before.
LEMMA GoesOn ==
  ASSUME NEW t, NEW i \in 1..(MaxDepth + 1), i \notin EndsOf(t)
  PROVE  /\ Walk(t)[i] \in rows /\ node[Walk(t)[i]] = node[t]
         /\ i <= MaxDepth => /\ dep[Walk(t)[i]] # NoTask
                             /\ \A j \in 0..(i - 1) : Walk(t)[j] # Walk(t)[i]
BY DEF EndsOf, Ends, Walk, Stops, Missing, Foreign, Repeated, Root

\* The walk goes on until its first end, or to the limit when it has none.
LEMMA PassesToEnd ==
  ASSUME NEW t
  PROVE  /\ EndsOf(t) = {} => Passes(t, MaxDepth + 1)
         /\ EndsOf(t) # {} => /\ EndOf(t) \in EndsOf(t) /\ EndOf(t) \in 1..(MaxDepth + 1)
                              /\ Passes(t, EndOf(t))
                              /\ \A i \in 1..(EndOf(t) - 1) : i \in 1..MaxDepth /\ i \notin EndsOf(t)
<1>0. MaxDepth \in Nat
  BY GraphAssumption
<1>1. EndsOf(t) \subseteq 1..(MaxDepth + 1)
  BY DEF EndsOf, Ends
<1>2. ASSUME EndsOf(t) = {} PROVE Passes(t, MaxDepth + 1)
  <2>1. \A i \in 1..((MaxDepth + 1) - 1) : i \in 1..(MaxDepth + 1) /\ i <= MaxDepth /\ i \notin EndsOf(t)
    BY <1>0, <1>2
  <2> QED BY <2>1, GoesOn DEF Passes
<1>3. ASSUME EndsOf(t) # {}
      PROVE  /\ EndOf(t) \in EndsOf(t) /\ EndOf(t) \in 1..(MaxDepth + 1)
             /\ Passes(t, EndOf(t))
             /\ \A i \in 1..(EndOf(t) - 1) : i \in 1..MaxDepth /\ i \notin EndsOf(t)
  <2>1. EndOf(t) \in EndsOf(t) /\ \A j \in EndsOf(t) : EndOf(t) <= j
    BY <1>0, <1>3, FirstEndIsEnd DEF EndOf, EndsOf
  <2>2. EndOf(t) \in 1..(MaxDepth + 1)
    BY <1>1, <2>1
  <2>3. \A i \in 1..(EndOf(t) - 1) : i \in 1..MaxDepth /\ i \in 1..(MaxDepth + 1) /\ i \notin EndsOf(t)
    BY <1>0, <2>1, <2>2
  <2>4. Passes(t, EndOf(t))
    BY <2>3, GoesOn DEF Passes
  <2> QED BY <2>1, <2>2, <2>3, <2>4
<1> QED BY <1>2, <1>3

\* The verdict on a task that has a dependency.
LEMMA VerdictOf ==
  ASSUME NEW t, dep[t] # NoTask
  PROVE  Verdict(t) = IF EndsOf(t) = {} THEN "deep"
                      ELSE IF Missing(EndOf(t), Walk(t), rows) THEN "missing"
                      ELSE IF Foreign(EndOf(t), Walk(t), node, t) THEN "foreign"
                      ELSE IF Repeated(EndOf(t), Walk(t), MaxDepth) THEN "cycle"
                      ELSE "ok"
BY VerdictDef DEF Verdict, EndsOf, EndOf, Walk

\* More distinct positions than the limit make a long chain.
LEMMA DistinctIsLong ==
  ASSUME GraphOK, NEW t \in rows, dep[t] # NoTask, EndsOf(t) = {},
         \A j \in 1..MaxDepth : Walk(t)[j] # Walk(t)[MaxDepth + 1]
  PROVE  Long(t)
<1> DEFINE N == MaxDepth + 1
           f == [i \in 1..N |-> Walk(t)[i]]
<1>0. MaxDepth \in Nat /\ N \in Nat /\ MaxTasks \in Nat
  BY GraphAssumption
<1>1. ASSUME NEW i \in 1..N PROVE Walk(t)[i] \in Ancestors(t)
  <2>1. Passes(t, i)
    BY <1>0, PassesToEnd DEF Passes
  <2> QED BY <2>1, WalkIsAncestor
<1>2. ASSUME NEW i \in 1..N, NEW j \in 1..N, j < i PROVE Walk(t)[j] # Walk(t)[i]
  <2>1. CASE i = N
    BY <1>0, <1>2, <2>1
  <2>2. CASE i # N
    <3>1. i <= MaxDepth /\ j \in 0..(i - 1)
      BY <1>0, <1>2, <2>2
    <3> QED BY <3>1, GoesOn
  <2> QED BY <2>1, <2>2
<1>3. f \in Injection(1..N, Ancestors(t))
  <2>1. f \in [1..N -> Ancestors(t)]
    BY <1>1
  <2>2. \A i, j \in 1..N : f[i] = f[j] => i = j
    BY <1>0, <1>2
  <2> QED BY <2>1, <2>2, Fun_IsInj
<1>4. IsFiniteSet(Ancestors(t))
  <2>1. IsFiniteSet(TaskId)
    BY <1>0, FS_Interval DEF TaskId
  <2>2. Ancestors(t) \in SUBSET TaskId
    BY DEF Ancestors
  <2> QED BY <2>1, <2>2, FS_Subset
<1> HIDE DEF f, N
<1>5. Cardinality(1..N) <= Cardinality(Ancestors(t)) /\ Cardinality(Ancestors(t)) \in Nat
  BY <1>3, <1>4, FS_Injection, FS_CardinalityType
<1>6. Cardinality(1..N) = N
  BY <1>0, FS_Interval DEF N
<1> QED BY <1>0, <1>5, <1>6 DEF Long, N

\* The error that closes a task names a fault of its chain.
LEMMA FaultsAreReal == GraphOK => FaultIsReal
<1> SUFFICES ASSUME GraphOK, NEW t \in rows
             PROVE  /\ Verdict(t) = "missing" => Dangling(t)
                    /\ Verdict(t) = "foreign" => Crossing(t)
                    /\ Verdict(t) = "cycle"   => Circular(t)
                    /\ Verdict(t) = "deep"    => Long(t) \/ Circular(t)
  BY DEF FaultIsReal
<1>1. CASE dep[t] = NoTask
  BY <1>1, VerdictNone DEF Verdict
<1>2. CASE dep[t] # NoTask
  <2> DEFINE k == EndOf(t)
  <2>1. ASSUME Verdict(t) \in {"missing", "foreign", "cycle"}
        PROVE  k \in 1..(MaxDepth + 1) /\ Passes(t, k) /\ Walk(t)[k] \in Ancestors(t)
    <3>1. EndsOf(t) # {}
      BY <1>2, <2>1, VerdictOf
    <3> QED BY <1>2, <3>1, PassesToEnd, WalkIsAncestor
  <2> HIDE DEF k
  <2>2. ASSUME Verdict(t) = "missing" PROVE Dangling(t)
    <3>1. Walk(t)[k] \notin rows
      BY <1>2, <2>2, VerdictOf DEF Missing, k
    <3> QED BY <2>1, <2>2, <3>1 DEF Dangling
  <2>3. ASSUME Verdict(t) = "foreign" PROVE Crossing(t)
    <3>1. node[Walk(t)[k]] # node[t]
      BY <1>2, <2>3, VerdictOf DEF Foreign, k
    <3> QED BY <2>1, <2>3, <3>1 DEF Crossing
  <2>4. ASSUME Verdict(t) = "cycle" PROVE Circular(t)
    <3>1. Walk(t)[k] \in rows /\ \E j \in 0..(k - 1) : Walk(t)[j] = Walk(t)[k]
      BY <1>2, <2>4, VerdictOf DEF Missing, Repeated, k
    <3> QED BY <1>2, <2>1, <2>4, <3>1, RepeatIsCycle
  <2>5. ASSUME Verdict(t) = "deep" PROVE Long(t) \/ Circular(t)
    <3>1. EndsOf(t) = {}
      BY <1>2, <2>5, VerdictOf
    <3>2. MaxDepth \in Nat /\ MaxDepth + 1 \in 1..(MaxDepth + 1)
      BY GraphAssumption
    <3>3. Passes(t, MaxDepth + 1) /\ Walk(t)[MaxDepth + 1] \in rows
      BY <3>1, <3>2, PassesToEnd, GoesOn
    <3>4. ASSUME NEW j \in 1..MaxDepth, Walk(t)[j] = Walk(t)[MaxDepth + 1] PROVE Circular(t)
      <4>1. j \in 0..((MaxDepth + 1) - 1)
        BY <3>2
      <4> QED BY <1>2, <3>2, <3>3, <3>4, <4>1, RepeatIsCycle
    <3> QED BY <1>2, <3>1, <3>4, DistinctIsLong
  <2> QED BY <2>2, <2>3, <2>4, <2>5
<1> QED BY <1>1, <1>2

\* A walk that comes to its root has seen all ancestors of the task, none of them
\* missing, foreign or on a cycle.
LEMMA OkIsResolvable ==
  ASSUME GraphOK, NEW t \in rows, dep[t] # NoTask, Verdict(t) = "ok"
  PROVE  ~ (Dangling(t) \/ Crossing(t) \/ Circular(t) \/ Long(t))
<1> DEFINE k == EndOf(t)
           c == Walk(t)
           After(j) == {c[i] : i \in (j + 1)..k}
<1>0. MaxDepth \in Nat
  BY GraphAssumption
<1>1. EndsOf(t) # {} /\ ~ Missing(k, c, rows) /\ ~ Foreign(k, c, node, t) /\ ~ Repeated(k, c, MaxDepth)
  BY VerdictOf
<1>2. /\ k \in EndsOf(t) /\ k \in 1..(MaxDepth + 1) /\ Passes(t, k)
      /\ \A i \in 1..(k - 1) : i \in 1..MaxDepth /\ i \notin EndsOf(t)
  BY <1>1, PassesToEnd
<1>3. k <= MaxDepth /\ dep[c[k]] = NoTask /\ c[k] \in rows /\ node[c[k]] = node[t]
  BY <1>1, <1>2 DEF EndsOf, Ends, Stops, Root, Missing, Foreign, Walk
<1> HIDE DEF k, c
<1>4. \A i \in 1..(k - 1) : /\ c[i] \in rows /\ node[c[i]] = node[t] /\ dep[c[i]] # NoTask
                            /\ c[i + 1] = dep[c[i]]
  <2> SUFFICES ASSUME NEW i \in 1..(k - 1)
               PROVE  /\ c[i] \in rows /\ node[c[i]] = node[t] /\ dep[c[i]] # NoTask
                      /\ c[i + 1] = dep[c[i]]
    OBVIOUS
  <2>1. i \in 1..(MaxDepth + 1) /\ i <= MaxDepth /\ i \notin EndsOf(t) /\ i \in 0..MaxDepth
    BY <1>0, <1>2
  <2> QED BY <2>1, GoesOn, WalkAt DEF c
<1>5. c[1] = dep[t]
  BY <1>0, WalkAt DEF c
<1>6. \A i, j \in 1..k : j < i => c[j] # c[i]
  <2> SUFFICES ASSUME NEW i \in 1..k, NEW j \in 1..k, j < i PROVE c[j] # c[i]
    OBVIOUS
  <2>1. j \in 0..(i - 1)
    BY <1>2
  <2>2. CASE i = k
    BY <1>1, <1>3, <2>1, <2>2 DEF Repeated
  <2>3. CASE i # k
    <3>1. i \in 1..(k - 1)
      BY <1>2, <2>3
    <3>2. i \in 1..(MaxDepth + 1) /\ i <= MaxDepth /\ i \notin EndsOf(t)
      BY <1>0, <1>2, <3>1
    <3> QED BY <2>1, <3>2, GoesOn DEF c
  <2> QED BY <2>2, <2>3
<1>7. ASSUME NEW j \in 0..(k - 1) PROVE After(j) \in Closed
  <2>1. After(j) \in SUBSET TaskId
    <3>1. \A i \in (j + 1)..k : i = k \/ i \in 1..(k - 1)
      BY <1>2
    <3> QED BY <1>3, <1>4, <3>1 DEF GraphOK
  <2>2. ASSUME NEW u \in After(j), dep[u] # NoTask PROVE dep[u] \in After(j)
    <3>1. PICK i \in (j + 1)..k : u = c[i]
      OBVIOUS
    <3>2. i # k
      BY <1>3, <2>2, <3>1
    <3>3. i \in 1..(k - 1) /\ i + 1 \in (j + 1)..k
      BY <1>2, <3>2
    <3> QED BY <1>4, <3>1, <3>3
  <2> HIDE DEF After
  <2> QED BY <2>1, <2>2 DEF Closed
<1>8. Ancestors(t) \subseteq After(0)
  <2>1. 0 \in 0..(k - 1) /\ 1 \in (0 + 1)..k
    BY <1>2
  <2>2. dep[t] \in After(0)
    BY <1>5, <2>1
  <2> HIDE DEF After
  <2> QED BY <1>7, <2>1, <2>2 DEF Ancestors
<1>9. ASSUME NEW u \in Ancestors(t) PROVE \E i \in 1..k : u = c[i] /\ (i = k \/ i \in 1..(k - 1))
  <2>1. PICK i \in (0 + 1)..k : u = c[i]
    BY <1>8
  <2>2. i \in 1..k /\ (i = k \/ i \in 1..(k - 1))
    BY <1>2
  <2> QED BY <2>1, <2>2
<1>10. ~ Dangling(t) /\ ~ Crossing(t)
  BY <1>3, <1>4, <1>9 DEF Dangling, Crossing
<1>11. ASSUME NEW u \in Ancestors(t), dep[u] # NoTask, u \in Ancestors(u) PROVE FALSE
  <2>1. PICK j \in 1..k : u = c[j] /\ (j = k \/ j \in 1..(k - 1))
    BY <1>9
  <2>2. j \in 1..(k - 1) /\ dep[u] = c[j + 1]
    BY <1>3, <1>4, <1>11, <2>1
  <2>3. j \in 0..(k - 1) /\ j + 1 \in (j + 1)..k
    BY <1>2, <2>2
  <2>4. dep[u] \in After(j) /\ After(j) \in Closed
    BY <1>7, <2>2, <2>3
  <2>5. u \in After(j)
    <3> HIDE DEF After
    <3> QED BY <1>11, <2>4 DEF Ancestors
  <2>6. PICK i \in (j + 1)..k : u = c[i]
    BY <2>5
  <2>7. i \in 1..k /\ j < i
    BY <1>2, <2>1
  <2> QED BY <1>6, <2>1, <2>6, <2>7
<1>12. ~ Circular(t)
  BY <1>11 DEF Circular
<1>13. ~ Long(t)
  <2> DEFINE f == [i \in 1..k |-> c[i]]
  <2>1. f \in Surjection(1..k, After(0))
    <3>1. (0 + 1)..k = 1..k
      BY <1>2
    <3>2. f \in [1..k -> After(0)] /\ \A u \in After(0) : \E i \in 1..k : f[i] = u
      BY <3>1
    <3> QED BY <3>2, Fun_IsSurj
  <2>2. IsFiniteSet(1..k) /\ Cardinality(1..k) = k
    BY <1>2, FS_Interval
  <2> HIDE DEF f, After
  <2>3. IsFiniteSet(After(0)) /\ Cardinality(After(0)) <= k
    BY <2>1, <2>2, FS_Surjection
  <2>4. Cardinality(Ancestors(t)) <= Cardinality(After(0))
    BY <1>8, <2>3, FS_Subset
  <2>5. Cardinality(Ancestors(t)) \in Nat /\ Cardinality(After(0)) \in Nat
    BY <1>8, <2>3, FS_Subset, FS_CardinalityType
  <2> QED BY <1>0, <1>2, <1>3, <2>3, <2>4, <2>5 DEF Long
<1> QED BY <1>10, <1>12, <1>13

\* In every table the verdict is right.
LEMMA VerdictAlwaysRight == GraphOK => VerdictIsRight
<1> SUFFICES ASSUME GraphOK PROVE VerdictIsRight
  OBVIOUS
<1>1. FaultIsReal
  BY FaultsAreReal
<1>2. ASSUME NEW t \in rows, dep[t] # NoTask, Verdict(t) # "ok"
      PROVE  Dangling(t) \/ Crossing(t) \/ Circular(t) \/ Long(t)
  <2>1. Verdict(t) \in {"missing", "foreign", "cycle", "deep"}
    BY <1>2, VerdictOf
  <2> QED BY <1>1, <2>1 DEF FaultIsReal
<1>3. WaitsIffResolvable
  BY <1>2, OkIsResolvable DEF WaitsIffResolvable
<1> QED BY <1>1, <1>3 DEF VerdictIsRight

(***************************************************************************)
(* For tables of any size and any depth limit, is_task_ready_for_poll lets  *)
(* a task wait exactly when its chain can be settled by the node's agent,   *)
(* and the error it closes a task with names a fault the chain has: the     *)
(* walk stops in time on cycles, and the row it reads beyond the limit      *)
(* (position MaxDepth + 1, tested for its row and node but not against the  *)
(* rows seen before) does not make it wrong.                                *)
(***************************************************************************)
THEOREM VerdictsAreRight == Spec => []VerdictIsRight
<1>1. Init => GraphOK
  BY DEF Init, GraphOK
<1>2. GraphOK /\ [Next]_vars => GraphOK'
  BY DEF GraphOK, Next, Create, Rewrite, Drop, vars
<1> QED BY <1>1, <1>2, VerdictAlwaysRight, PTL DEF Spec
=============================================================================
