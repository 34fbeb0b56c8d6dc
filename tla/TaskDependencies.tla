-------------------------- MODULE TaskDependencies --------------------------
(***************************************************************************)
(* The dependency check of the controller's task queue: the part of        *)
(* is_task_ready_for_poll (apps/api/link42_api/main.py) that follows       *)
(* payload["depends_on_task_id"] from a pending task before it looks at the *)
(* dependency's status.  The operators are functions of                    *)
(*   dep   [TaskId -> TaskId \cup {NoTask}]   what task_dependency_id reads *)
(*   node  [TaskId -> node]                   AgentTask.node_id            *)
(*   rows  the task ids that have a row, what db.get can find              *)
(*   depth MAX_AGENT_TASK_DEPENDENCY_DEPTH                                  *)
(* so that they serve the queue and a stand-alone check.                    *)
(***************************************************************************)
EXTENDS Naturals

\* task_dependency_id answers None for a missing, empty, malformed or
\* non-positive id; ids themselves are positive.
NoTask == 0

\* The cursor of the walk: position 0 is the task itself, position 1 its
\* dependency, position k+1 the dependency of the row at position k.  The walk
\* stays at NoTask once a position has no row to read.
Chain(t, dep, rows, depth) ==
  LET cursor[k \in 0..(depth + 1)] ==
        IF k = 0 THEN t
        ELSE IF cursor[k - 1] \in rows THEN dep[cursor[k - 1]] ELSE NoTask
  IN  cursor

\* Mutant: only the first dependency's node is compared.
MutantForeign(k, c, node, t) == k = 1 /\ node[c[k]] # node[t]

\* Position k ends the walk: the cursor found there has no row, belongs to
\* another node, was seen before (seen starts with the task itself), or
\* depends on nothing.  Rows are read one position further than the loop tests
\* them, so position depth + 1 can still be missing or foreign, but is never
\* tested against seen.
Missing(k, c, rows)         == c[k] \notin rows
Foreign(k, c, node, t)      == node[c[k]] # node[t]
Repeated(k, c, depth)       == k <= depth /\ \E j \in 0..(k - 1) : c[j] = c[k]
Root(k, c, dep, depth)      == k <= depth /\ dep[c[k]] = NoTask

Stops(k, t, c, dep, node, rows, depth) ==
  \/ Missing(k, c, rows)
  \/ Foreign(k, c, node, t)
  \/ Repeated(k, c, depth)
  \/ Root(k, c, dep, depth)

\* What the walk finds out about a task that has a dependency.
ChainVerdict(t, dep, node, rows, depth) ==
  LET c == Chain(t, dep, rows, depth)
      ends == {k \in 1..(depth + 1) : Stops(k, t, c, dep, node, rows, depth)}
      k == CHOOSE i \in ends : \A j \in ends : i <= j
  IN  IF dep[t] = NoTask             THEN "none"
      ELSE IF ends = {}              THEN "deep"
      ELSE IF Missing(k, c, rows)    THEN "missing"
      ELSE IF Foreign(k, c, node, t) THEN "foreign"
      ELSE IF Repeated(k, c, depth)  THEN "cycle"
      ELSE "ok"
=============================================================================
