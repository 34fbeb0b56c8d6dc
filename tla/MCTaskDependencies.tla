------------------------- MODULE MCTaskDependencies -------------------------
(***************************************************************************)
(* Every dependency graph over a few task rows, reached by the writes that  *)
(* can touch one: creating a row that depends on an earlier row, and the    *)
(* repairs of an old database the source speaks of, which may leave a       *)
(* cycle, a dangling id or a dependency on another node's task.            *)
(***************************************************************************)
EXTENDS TaskDependencies, FiniteSets

CONSTANTS MaxTasks, Nodes, MaxDepth

ASSUME GraphAssumption == MaxTasks \in Nat /\ MaxDepth \in Nat

TaskId == 1..MaxTasks

VARIABLES rows, dep, node
vars == <<rows, dep, node>>

Init == /\ rows = {}
        /\ dep = [t \in TaskId |-> NoTask]
        /\ node \in [TaskId -> Nodes]

\* create_change_plan_agent_tasks and its like: the new row's dependency, if
\* it has one, is a row that already exists.
Create(t, d) ==
  /\ t \notin rows
  /\ d \in rows \cup {NoTask}
  /\ rows' = rows \cup {t}
  /\ dep' = [dep EXCEPT ![t] = d]
  /\ UNCHANGED node

\* A hand-made repair: any id may be written, a row may be dropped.
Rewrite(t, d) ==
  /\ t \in rows
  /\ dep' = [dep EXCEPT ![t] = d]
  /\ UNCHANGED <<rows, node>>

Drop(t) ==
  /\ t \in rows
  /\ rows' = rows \ {t}
  /\ dep' = [dep EXCEPT ![t] = NoTask]
  /\ UNCHANGED node

Next == \E t \in TaskId : \/ \E d \in TaskId \cup {NoTask} : Create(t, d) \/ Rewrite(t, d)
                          \/ Drop(t)

Spec == Init /\ [][Next]_vars

-----------------------------------------------------------------------------
(* The reference: the least set closed under dependencies, not a walk.   *)

\* The sets of tasks that hold, with each task, the one it depends on.
Closed == {S \in SUBSET TaskId :
             \A u \in S \cap rows : dep[u] # NoTask => dep[u] \in S}
Ancestors(t) == {u \in TaskId : \A S \in Closed : dep[t] \in S => u \in S}

\* What is wrong with the chain of t.
Dangling(t)  == \E u \in Ancestors(t) : u \notin rows
Crossing(t)  == \E u \in Ancestors(t) : node[u] # node[t]
Circular(t)  == \E u \in Ancestors(t) \cap rows : dep[u] # NoTask /\ u \in Ancestors(u)
Long(t)      == Cardinality(Ancestors(t)) > MaxDepth

Verdict(t) == ChainVerdict(t, dep, node, rows, MaxDepth)

(***************************************************************************)
(* is_task_ready_for_poll lets a dependent task wait for its dependency     *)
(* exactly when the whole chain can be settled by this node's agent: every  *)
(* ancestor has a row, all belong to the task's node, nothing is circular   *)
(* and the chain is not longer than the limit.  ("Fail at once on a cycle   *)
(* or an abnormally deep chain, so that the agent is not left unable to see *)
(* these tasks for ever", main.py:1967.)                                    *)
(***************************************************************************)
WaitsIffResolvable ==
  \A t \in rows : dep[t] # NoTask =>
    (Verdict(t) = "ok" <=>
       ~ (Dangling(t) \/ Crossing(t) \/ Circular(t) \/ Long(t)))

(***************************************************************************)
(* The error a rejected task is closed with names a fault its chain has.   *)
(***************************************************************************)
FaultIsReal ==
  \A t \in rows :
    /\ Verdict(t) = "missing" => Dangling(t)
    /\ Verdict(t) = "foreign" => Crossing(t)
    /\ Verdict(t) = "cycle"   => Circular(t)
    /\ Verdict(t) = "deep"    => Long(t) \/ Circular(t)

(***************************************************************************)
(* The verdict of is_task_ready_for_poll on a chain is right: it waits for *)
(* the chains that can be settled and for no other, and the error that it  *)
(* closes a task with names a fault of its chain.                          *)
(***************************************************************************)
VerdictIsRight == WaitsIffResolvable /\ FaultIsReal
=============================================================================
