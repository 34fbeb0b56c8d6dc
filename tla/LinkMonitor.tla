----------------------------- MODULE LinkMonitor -----------------------------
(***************************************************************************)
(* Latency monitors of one node (apps/api/link42_api/main.py; the probes    *)
(* are those of apps/agent/link42_agent/main.py and link_monitor.py).  The  *)
(* agent fetches what is due, probes and reports.  Requests that the agent  *)
(* has given up on are still handled, a report can arrive twice or after a  *)
(* later one, the agent's clock may be wrong and may be set.  A poll reads  *)
(* its candidates before its transaction begins with the first claim; every *)
(* other handler is one step.  Rows get the next free id of SQLite, so that *)
(* the id of the newest row is given again after it was deleted.  Latency   *)
(* and loss are left out: a sample is the time it was taken at.             *)
(***************************************************************************)
EXTENDS Integers, FiniteSets

CONSTANTS
  Owner,          \* interfaces and connection endpoints of the node
  PollRequest,    \* bound: polls inside the controller at a time
  Interval,       \* interval_seconds, in ticks
  RetentionTicks, \* retention_days, in ticks
  DueLimit,       \* the ten rows a poll takes
  Behind, Ahead,  \* bound: how far the agent's clock is behind or ahead
  MaxMonitorEdits, \* bound: rows created, edited or deleted
  MaxReports,     \* bound: reports on the way at a time
  LastTick        \* bound: time

ASSUME MonitorAssumption ==
  /\ Interval \in Nat \ {0} /\ RetentionTicks \in Nat /\ DueLimit \in Nat \ {0}
  /\ Behind \in Nat /\ Ahead \in Nat /\ MaxMonitorEdits \in Nat /\ MaxReports \in Nat
  /\ LastTick \in Nat
  /\ IsFiniteSet(Owner) /\ "none" \notin Owner

MonitorId == 1..Cardinality(Owner)
Tick      == 0..LastTick
Skew      == (-Behind)..Ahead
Taken     == (-Behind)..LastTick
Never     == (-Behind) - 1

VARIABLES
  clock,     \* the controller's time
  ahead,     \* the agent's clock minus the controller's
  monitor,   \* id -> row: owner, enabled, next_due_at, last_checked_at
  sample,    \* id -> how many samples were taken at a time (2: more than one)
  polling,   \* poll request -> when it began and the candidates it read
  probing,   \* what the agent was given and has not probed yet
  onTheWay,  \* reports sent: the time, the ids, and how often they will arrive
  monHist    \* edits so far; when each row was claimed and not edited
             \* since; were two such claims an interval apart

monVars == <<clock, ahead, monitor, sample, polling, probing, onTheWay, monHist>>

NoMonitor == [owner |-> "none", on |-> FALSE, due |-> Never, last |-> Never]
NoSamples == [t \in Taken |-> 0]
IdlePoll  == [busy |-> FALSE, at |-> 0, read |-> {}]
Ids       == {m \in MonitorId : monitor[m].owner # "none"}

MonTypeOK ==
  /\ clock \in Tick /\ ahead \in Skew
  /\ monitor \in [MonitorId -> [owner : Owner \cup {"none"}, on : BOOLEAN,
                                due : 0..(LastTick + Interval) \cup {Never}, last : Taken \cup {Never}]]
  /\ sample \in [MonitorId -> [Taken -> 0..2]]
  /\ polling \in [PollRequest -> [busy : BOOLEAN, at : Tick, read : SUBSET MonitorId]]
  /\ probing \subseteq MonitorId
  /\ onTheWay \subseteq [at : (-Behind)..(LastTick + Ahead), ids : SUBSET MonitorId, times : {1, 2}]
  /\ monHist \in [edits : 0..MaxMonitorEdits, claimed : [MonitorId -> Tick \cup {Never}], spaced : BOOLEAN]
  \* Only an enabled row is due at some time.
  /\ \A m \in Ids : monitor[m].due # Never <=> monitor[m].on

MonInit ==
  /\ clock = 0 /\ ahead \in Skew
  /\ monitor = [m \in MonitorId |-> NoMonitor]
  /\ sample = [m \in MonitorId |-> NoSamples]
  /\ polling = [p \in PollRequest |-> IdlePoll]
  /\ probing = {} /\ onTheWay = {}
  /\ monHist = [edits |-> 0, claimed |-> [m \in MonitorId |-> Never], spaced |-> TRUE]

-----------------------------------------------------------------------------
(* The administrator.                                                      *)

MonEdit(m) ==
  /\ monHist.edits < MaxMonitorEdits
  /\ monHist' = [monHist EXCEPT !.edits = @ + 1, !.claimed = [@ EXCEPT ![m] = Never]]
  /\ UNCHANGED <<clock, ahead, polling, probing, onTheWay>>

\* upsert_interface_link_monitor and its twin for endpoints, when there is no row
\* yet: one row per owner, with the next id.
CreateMonitor(o, on) ==
  LET m == Cardinality(Ids) + 1 IN
  /\ \A k \in Ids : monitor[k].owner # o
  /\ m \in MonitorId /\ Ids = 1..(m - 1)
  /\ MonEdit(m)
  /\ monitor' = [monitor EXCEPT ![m] = [owner |-> o, on |-> on, due |-> IF on THEN clock ELSE Never,
                                        last |-> Never]]
  /\ UNCHANGED sample

MutantEditMonitor(m, on) ==
  /\ m \in Ids /\ MonEdit(m)
  /\ monitor' = [monitor EXCEPT ![m].on = on, ![m].due = clock]
  /\ UNCHANGED sample
\* The same two when there is one, and update_link_monitor.
EditMonitor(m, on) ==
  /\ m \in Ids /\ MonEdit(m)
  /\ monitor' = [monitor EXCEPT ![m].on = on, ![m].due = IF on THEN clock ELSE Never]
  /\ UNCHANGED sample

\* delete_link_monitors_where: the row, or its owner, and the samples go.  Bound: only
\* the newest row, whose id will be given again.
DeleteMonitor(m) ==
  /\ m \in Ids /\ m + 1 \notin Ids /\ MonEdit(m)
  /\ monitor' = [monitor EXCEPT ![m] = NoMonitor]
  /\ sample' = [sample EXCEPT ![m] = NoSamples]

-----------------------------------------------------------------------------
(* agent_link_monitor_poll.                                                *)

Due(m, now) == m \in Ids /\ monitor[m].on /\ monitor[m].due <= now

\* A poll that finds nothing due changes nothing.
PollReads(p) ==
  /\ ~ polling[p].busy
  /\ LET due == {m \in MonitorId : Due(m, clock)}
     IN /\ due # {}
        /\ polling' = [polling EXCEPT ![p] = [busy |-> TRUE, at |-> clock,
             read |-> {m \in due : Cardinality({k \in due : k < m}) < DueLimit}]]
  /\ UNCHANGED <<clock, ahead, monitor, sample, probing, onTheWay, monHist>>

MutantClaimed(p) == {m \in polling[p].read \cap Ids : monitor[m].on}
\* The UPDATE repeats the conditions of the SELECT, at the time of the SELECT.
Claimed(p) == {m \in polling[p].read : Due(m, polling[p].at)}

\* The claims are committed together; the answer reaches an agent that still waits
\* for it, or nobody.
PollClaims(p) ==
  LET at == polling[p].at IN
  /\ polling[p].busy
  /\ polling' = [polling EXCEPT ![p] = IdlePoll]
  /\ monitor' = [m \in MonitorId |-> IF m \in Claimed(p) THEN [monitor[m] EXCEPT !.due = at + Interval]
                                     ELSE monitor[m]]
  /\ monHist' = [monHist EXCEPT
       !.claimed = [m \in MonitorId |-> IF m \in Claimed(p) THEN at ELSE @[m]],
       !.spaced = @ /\ \A m \in Claimed(p) : monHist.claimed[m] = Never
                                              \/ at - monHist.claimed[m] >= Interval]
  /\ \/ probing = {} /\ probing' = Claimed(p)
     \/ UNCHANGED probing
  /\ UNCHANGED <<clock, ahead, sample, onTheWay>>

-----------------------------------------------------------------------------
(* The agent, and agent_link_monitor_result.                               *)

\* probe_link_monitors and report_link_monitor_results, with the agent's time.
Probe(times) ==
  /\ probing # {} /\ probing' = {} /\ Cardinality(onTheWay) < MaxReports
  /\ onTheWay' = onTheWay \cup {[at |-> clock + ahead, ids |-> probing, times |-> times]}
  /\ UNCHANGED <<clock, ahead, monitor, sample, polling, monHist>>

MutantDuplicate(m, at) == FALSE
\* A sample of the same time is there already.
Duplicate(m, at) == sample[m][at] > 0

MutantLastChecked(m, at) == at
LastChecked(m, at) == IF at > monitor[m].last THEN at ELSE monitor[m].last

\* Unknown ids are ignored, times in the future are the present, duplicates are
\* dropped, and what is older than the retention time is deleted.
Record(r) ==
  LET at == IF r.at > clock THEN clock ELSE r.at
      new == {m \in r.ids \cap Ids : ~ Duplicate(m, at)}
  IN /\ r \in onTheWay
     /\ onTheWay' = (onTheWay \ {r}) \cup (IF r.times = 2 THEN {[r EXCEPT !.times = 1]} ELSE {})
     /\ sample' = [m \in MonitorId |-> IF m \notin new THEN sample[m]
                     ELSE [t \in Taken |-> IF t < clock - RetentionTicks THEN 0
                                            ELSE IF t # at THEN sample[m][t]
                                            ELSE IF sample[m][t] = 0 THEN 1 ELSE 2]]
     /\ monitor' = [m \in MonitorId |-> IF m \notin new THEN monitor[m]
                      ELSE [monitor[m] EXCEPT !.last = LastChecked(m, at)]]
     /\ UNCHANGED <<clock, ahead, polling, probing, monHist>>

TimePasses ==
  /\ clock < LastTick /\ clock' = clock + 1
  /\ ahead' \in Skew
  /\ UNCHANGED <<monitor, sample, polling, probing, onTheWay, monHist>>

MonNext ==
  \/ \E o \in Owner, on \in BOOLEAN : CreateMonitor(o, on)
  \/ \E m \in MonitorId : DeleteMonitor(m) \/ \E on \in BOOLEAN : EditMonitor(m, on)
  \/ \E p \in PollRequest : PollReads(p) \/ PollClaims(p)
  \/ \E times \in {1, 2} : Probe(times)
  \/ \E r \in onTheWay : Record(r)
  \/ TimePasses

MonSpec == MonInit /\ [][MonNext]_monVars

-----------------------------------------------------------------------------
(* Properties.                                                             *)

\* A monitor that nobody edits is given out at most once per interval, although
\* two polls can be inside the controller with the same candidates.
ClaimsAreSpaced == monHist.spaced

\* The time of the last check is that of the newest sample, and neither is in the
\* future, whatever the agent's clock says and in whatever order reports arrive.
LastCheckIsNewest ==
  \A m \in Ids : /\ monitor[m].last <= clock
                 /\ \A t \in Taken : sample[m][t] > 0 => t <= monitor[m].last

\* A monitor never has two samples of one time, whatever arrives twice, and a report
\* that arrives after its monitor was deleted leaves nothing behind.  So a replayed
\* report is recorded once if the agent's clock is not ahead; one from the future is
\* given the time of each arrival and can be recorded at each (see the README).
OneSamplePerTime ==
  /\ \A m \in MonitorId, t \in Taken : sample[m][t] <= 1
  /\ \A m \in MonitorId \ Ids : sample[m] = NoSamples
=============================================================================
