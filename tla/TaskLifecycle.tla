---------------------------- MODULE TaskLifecycle ----------------------------
(***************************************************************************)
(* What the task queue promises to whoever creates a task, without polls,   *)
(* answers, reports, retries or processes: a task is either withdrawn       *)
(* before anyone works on it, or dispatched once, after the task it waits   *)
(* for has settled; a dispatched task is performed at most once; it is      *)
(* recorded as succeeded only after it was performed successfully, and as   *)
(* failed at any time (a report may never come); and what is recorded       *)
(* stays.  Several tasks may move in one step.                              *)
(***************************************************************************)
EXTENDS Naturals

CONSTANTS Task, NoWait

VARIABLES status, waitsFor, dispatched, performed, outcome
vars == <<status, waitsFor, dispatched, performed, outcome>>

Settled == {"succeeded", "failed", "cancelled"}

Init ==
  /\ status = [t \in Task |-> "absent"]
  /\ waitsFor = [t \in Task |-> NoWait]
  /\ dispatched = [t \in Task |-> FALSE]
  /\ performed = [t \in Task |-> FALSE]
  /\ outcome = [t \in Task |-> "none"]

\* The step leaves the named parts of task t alone.
SameStatus(t)  == status'[t] = status[t]
SameWait(t)    == waitsFor'[t] = waitsFor[t]
SameOffer(t)   == dispatched'[t] = dispatched[t]
SameWork(t)    == performed'[t] = performed[t] /\ outcome'[t] = outcome[t]

Create(t) ==
  /\ status[t] = "absent" /\ status'[t] = "pending"
  /\ waitsFor'[t] \in Task \cup {NoWait}
  /\ SameOffer(t) /\ SameWork(t)

\* Closed before it was dispatched; the reason of a cancelled task may be
\* recorded once more as a failure.
Withdraw(t) ==
  /\ \/ status[t] = "pending" /\ status'[t] \in {"cancelled", "failed"}
     \/ status[t] = "cancelled" /\ status'[t] = "failed" /\ ~ dispatched[t]
  /\ SameWait(t) /\ SameOffer(t) /\ SameWork(t)

Dispatch(t) ==
  /\ status[t] = "pending" /\ status'[t] = "running"
  /\ waitsFor[t] # NoWait => status'[waitsFor[t]] \in Settled
  /\ dispatched'[t] = TRUE
  /\ SameWait(t) /\ SameWork(t)

\* The node does the work, even when the controller no longer waits for it.
Perform(t) ==
  /\ dispatched[t] /\ ~ performed[t]
  /\ performed'[t] = TRUE
  /\ outcome'[t] \in {"succeeded", "failed"}
  /\ SameStatus(t) /\ SameWait(t) /\ SameOffer(t)

Record(t) ==
  /\ status[t] = "running"
  /\ \/ status'[t] = "succeeded" /\ performed[t] /\ outcome[t] = "succeeded"
     \/ status'[t] = "failed"
  /\ SameWait(t) /\ SameOffer(t) /\ SameWork(t)

Rest(t) == SameStatus(t) /\ SameWait(t) /\ SameOffer(t) /\ SameWork(t)

Next == \A t \in Task :
  Rest(t) \/ Create(t) \/ Withdraw(t) \/ Dispatch(t) \/ Perform(t) \/ Record(t)

Spec == Init /\ [][Next]_vars
=============================================================================
