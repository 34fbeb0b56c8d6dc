-------------------------- MODULE MCAgentTaskQueue --------------------------
(* Small instances of the task queue for TLC. *)
EXTENDS AgentTaskQueue, TLC

Plain(type) == [type |-> type, payload |-> "object", cont |-> FALSE]

\* Tasks that may depend on each other, a stop that goes on after a failure, and
\* a task no poll can deliver.
ChainInput == {Plain("control"), [Plain("wg_stop") EXCEPT !.cont = TRUE],
               [Plain("control") EXCEPT !.payload = "oversized"]}

\* Queries with a deadline, stops whose failure an old agent reports as success,
\* and a legacy row that is not an object.
QueryInput == {Plain("query"), Plain("wg_stop"), [Plain("control") EXCEPT !.payload = "malformed"]}

\* Control tasks, chained or not, and queries.
LiveInput == {Plain("control"), Plain("query")}

\* Every type is supported by every agent; or one type needs the capability.
NoRequirement    == [type \in TaskType |-> {}]
StopRequirement  == [type \in TaskType |-> IF type = "wg_stop" THEN Capability ELSE {}]
QueryRequirement == [type \in TaskType |-> IF type = "query" THEN Capability ELSE {}]

\* Bound: without a confirmed plan there are two tasks and two polls at once.  With one
\* the agent is able, polls follow one another, a task outside the plan is a plain one,
\* and a third task is only there as one of the chain of a rename.
Bounded ==
  /\ Rows = TaskId => \A t \in Rows : attr[t].plan # NoPlan
  /\ (\E p \in Plan : planStatus[p] # "draft") =>
       /\ caps = Capability
       /\ Cardinality({q \in Request : poll[q].phase # "free"}) <= 1
       /\ \A t \in Rows : attr[t].payload = "object" /\ (attr[t].type = "wg_stop" => attr[t].plan # NoPlan)

BoundedSpec == Init /\ [][Next /\ Bounded']_vars

RequestSymmetry == Permutations(Request)
=============================================================================
