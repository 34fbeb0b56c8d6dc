------------------------- MODULE LookingGlassProofs -------------------------
(***************************************************************************)
(* Proofs about LookingGlass, for every value of its constants.             *)
(***************************************************************************)
EXTENDS LookingGlass, FiniteSetTheorems, TLAPS

\* A query has a task, and so has every query that is being read.
Linked ==
  /\ \A q \in Query : status[q] # "absent" => tstatus[q] # "absent"
  /\ \A c \in Client : handler[c].op \in {"query", "task"} => tstatus[handler[c].q] # "absent"
  /\ \A c \in Client : handler[c].op = "task" => handler[c].task # "absent"

\* What is stored, and what a read has loaded, as an answer was one.
Honest ==
  /\ SuccessIsReal
  /\ \A q \in Query : tstatus[q] = "data" => q \in answered
  /\ \A c \in Client : handler[c].op = "task" /\ handler[c].task = "data" =>
       handler[c].q \in answered

-----------------------------------------------------------------------------
(* What the operators return.                                              *)

\* Closing an overdue task keeps it a task and invents no answer.
LEMMA TaskAfterType ==
  ASSUME NEW q, NEW ts \in TaskStatus, NEW at
  PROVE  /\ TaskAfter(q, ts, at) \in TaskStatus
         /\ ts # "absent" => TaskAfter(q, ts, at) # "absent"
         /\ TaskAfter(q, ts, at) \in {ts, "failed"}
BY DEF TaskAfter, TaskStatus

\* A refreshed query has a status, and it has succeeded only on an answer
\* (refresh_looking_glass_query_from_task).
LEMMA RefreshedType ==
  ASSUME NEW q, NEW ts \in TaskStatus \ {"absent"}, NEW at
  PROVE  /\ Refreshed(q, ts, at) \in QueryStatus \ {"absent"}
         /\ Refreshed(q, ts, at) = "succeeded" => ts = "data"
<1> DEFINE ta == TaskAfter(q, ts, at)
<1>1. ta \in TaskStatus \ {"absent"} /\ ta \in {ts, "failed"}
  BY TaskAfterType
<1>2. /\ Follows(ta) \in QueryStatus \ {"absent"}
      /\ Follows(ta) = "succeeded" => ta = "data"
  <2> HIDE DEF ta
  <2> QED BY <1>1 DEF Follows, TaskStatus, QueryStatus, Active
<1>3. Refreshed(q, ts, at) \in {Follows(ta), "failed"}
  BY DEF Refreshed
<1> QED BY <1>1, <1>2, <1>3 DEF QueryStatus

\* The expiries keep tasks tasks and invent no answer.
LEMMA ExpiredType ==
  ASSUME NEW ts \in [Query -> TaskStatus], NEW at, NEW stale
  PROVE  /\ Expired(ts, at, stale) \in [Query -> TaskStatus]
         /\ \A q \in Query : /\ Expired(ts, at, stale)[q] \in {ts[q], "failed"}
                             /\ ts[q] # "absent" => Expired(ts, at, stale)[q] # "absent"
BY TaskAfterType DEF Expired, TaskStatus

-----------------------------------------------------------------------------
(* Types.                                                                  *)

\* The three parts of the invariant hold at the start.
LEMMA InitTyped == Init => TypeOK /\ Linked /\ Honest
BY QueryTimeAssumption, QueryBoundAssumption, FingerprintAssumption
   DEF Init, TypeOK, Linked, Honest, SuccessIsReal, Query, Time, Idle, QueryStatus, TaskStatus,
       Active, Client

\* What a handler may have read.
Reading == [op : {"none", "submit", "query", "task"}, at : Time, q : Query,
            status : QueryStatus, task : TaskStatus]

\* A handler that has read nothing is one, and stays one when it reads.
LEMMA IdleType ==
  /\ Idle \in Reading
  /\ TypeOK => /\ [Idle EXCEPT !.op = "submit", !.at = now] \in Reading
               /\ \A q \in Query :
                    [Idle EXCEPT !.op = "query", !.at = now, !.q = q, !.status = status[q]]
                      \in Reading
<1>1. 0 \in Time /\ 1 \in Query /\ "absent" \in QueryStatus /\ "absent" \in TaskStatus
  BY QueryTimeAssumption, QueryBoundAssumption DEF Time, Query, QueryStatus, TaskStatus
<1>2. TypeOK => now \in Time /\ \A q \in Query : status[q] \in QueryStatus
  BY DEF TypeOK
<1> QED BY <1>1, <1>2 DEF Idle, Reading

\* A request that ends, whatever it has written, leaves a typed table.
LEMMA ReleaseType ==
  ASSUME TypeOK, NEW c \in Client, Release(c)
  PROVE  /\ handler' \in [Client -> Reading]
         /\ \A d \in Client : handler'[d] = handler[d] \/ handler'[d] = Idle
BY IdleType DEF TypeOK, Release, Reading

\* The queries as a submission has flushed them.
Flushed(f, at) == [q \in Query |-> IF Newest(q, f, at, status) THEN Refreshed(q, tstatus[q], at)
                                   ELSE status[q]]

\* An insert, or what the handler of the IntegrityError does instead.
LEMMA InsertEffect ==
  ASSUME NEW c, NEW f, NEW stale, SubmitInserts(c, f, stale),
         NEW at, at = handler[c].at, NEW ex, ex = Expired(tstatus, at, stale),
         NEW fl, fl = Flushed(f, at)
  PROVE  /\ NextQuery \in Query /\ Release(c) /\ UNCHANGED <<now, held, answered>>
         /\ ~ (Cardinality(Unfinished(ex)) >= QueueLimit)
         /\ NotReused(c, f)
         /\ \/ /\ status' = [q \in Query |-> IF Newest(q, f, at, fl) THEN Refreshed(q, ex[q], at)
                                              ELSE fl[q]]
               /\ tstatus' = ex
               /\ UNCHANGED <<fp, asked, created>>
            \/ /\ ~ Conflict(NextQuery, f, "queued", fl)
               /\ status' = [fl EXCEPT ![NextQuery] = "queued"]
               /\ tstatus' = [ex EXCEPT ![NextQuery] = "pending"]
               /\ fp' = [fp EXCEPT ![NextQuery] = f] /\ asked' = [asked EXCEPT ![NextQuery] = at]
               /\ created' = [created EXCEPT ![NextQuery] = now]
BY Zenon DEF SubmitInserts, Flushed, Full

\* Flushing keeps queries queries and shows no success that is not one.
LEMMA FlushedType ==
  ASSUME TypeOK, Linked, NEW f, NEW at
  PROVE  /\ Flushed(f, at) \in [Query -> QueryStatus]
         /\ \A q \in Query :
              /\ Flushed(f, at)[q] # "absent" <=> status[q] # "absent"
              /\ Flushed(f, at)[q] = "succeeded" => status[q] = "succeeded" \/ tstatus[q] = "data"
<1> SUFFICES ASSUME NEW q \in Query, NEW fl, fl = Flushed(f, at)[q]
             PROVE  /\ fl \in QueryStatus
                    /\ fl # "absent" <=> status[q] # "absent"
                    /\ fl = "succeeded" => status[q] = "succeeded" \/ tstatus[q] = "data"
  BY DEF Flushed
<1>1. CASE Newest(q, f, at, status)
  <2>1. status[q] # "absent" /\ tstatus[q] \in TaskStatus \ {"absent"}
    BY <1>1 DEF Newest, Matches, Usable, Active, Linked, TypeOK
  <2>2. fl = Refreshed(q, tstatus[q], at)
    BY <1>1 DEF Flushed
  <2> QED BY <2>1, <2>2, RefreshedType
<1>2. CASE ~ Newest(q, f, at, status)
  BY <1>2 DEF Flushed, TypeOK
<1> QED BY <1>1, <1>2

\* Submissions keep the three parts.
LEMMA SubmitStep ==
  ASSUME TypeOK, Linked, Honest, NEW c \in Submitter, SubmitBegin(c) \/ SubmitEnds(c)
  PROVE  (TypeOK /\ Linked /\ Honest)'
<1> USE DEF Client
<1> c \in Client
  OBVIOUS
<1>1. CASE SubmitBegin(c)
  <2>1. [Idle EXCEPT !.op = "submit", !.at = now] \in Reading
    BY IdleType
  <2>2. TypeOK'
    BY <1>1, <2>1 DEF TypeOK, Reading, SubmitBegin, Begin, queryVars
  <2>3. \A d \in Client : handler'[d] = handler[d] \/ handler'[d].op = "submit"
    BY <1>1 DEF TypeOK, SubmitBegin, Begin, Idle
  <2>4. Linked' /\ Honest'
    BY <1>1, <2>3 DEF Linked, Honest, SuccessIsReal, SubmitBegin, Begin, queryVars
  <2> QED BY <2>2, <2>4
<1>2. CASE \/ SubmitFails(c)
           \/ \E f \in Fingerprint, stale \in SUBSET Query : SubmitRejected(c, f, stale)
  <2>1. Release(c) /\ UNCHANGED <<now, queryVars, tstatus, held, answered>>
    BY <1>2 DEF SubmitFails, SubmitRejected
  <2>2. TypeOK'
    BY <2>1, ReleaseType DEF TypeOK, Reading, queryVars
  <2>3. Linked' /\ Honest'
    BY <2>1, ReleaseType DEF Linked, Honest, SuccessIsReal, queryVars, Idle
  <2> QED BY <2>2, <2>3
<1>3. ASSUME NEW f \in Fingerprint, NEW q \in Query, SubmitReuses(c, f, q)
      PROVE  (TypeOK /\ Linked /\ Honest)'
  <2> DEFINE at == handler[c].at
             s  == Refreshed(q, tstatus[q], at)
             ts == TaskAfter(q, tstatus[q], at)
  <2>1. /\ status' = [status EXCEPT ![q] = s] /\ tstatus' = [tstatus EXCEPT ![q] = ts]
        /\ Release(c) /\ UNCHANGED <<now, fp, asked, created, held, answered>>
    BY <1>3 DEF SubmitReuses
  <2>2. tstatus[q] \in TaskStatus \ {"absent"}
    BY <1>3 DEF SubmitReuses, Newest, Matches, Usable, Active, Linked, TypeOK
  <2>3. /\ s \in QueryStatus \ {"absent"} /\ (s = "succeeded" => tstatus[q] = "data")
        /\ ts \in TaskStatus \ {"absent"} /\ ts \in {tstatus[q], "failed"}
    BY <2>2, RefreshedType, TaskAfterType
  <2> HIDE DEF s, ts
  <2>4. TypeOK'
    BY <2>1, <2>3, ReleaseType DEF TypeOK, Reading
  <2>5. Linked' /\ Honest'
    BY <2>1, <2>3, ReleaseType DEF TypeOK, Linked, Honest, SuccessIsReal, Idle
  <2> QED BY <2>4, <2>5
<1>4. ASSUME NEW f \in Fingerprint, NEW stale \in SUBSET Query, SubmitInserts(c, f, stale)
      PROVE  (TypeOK /\ Linked /\ Honest)'
  <2> DEFINE at == handler[c].at
             n  == NextQuery
             ex == Expired(tstatus, at, stale)
             fl == Flushed(f, at)
  <2>1. n \in Query /\ Release(c) /\ UNCHANGED <<now, held, answered>>
    BY <1>4, InsertEffect
  <2>2. /\ ex \in [Query -> TaskStatus]
        /\ \A q \in Query : /\ ex[q] \in {tstatus[q], "failed"}
                            /\ tstatus[q] # "absent" => ex[q] # "absent"
    BY ExpiredType DEF TypeOK
  <2>3. /\ fl \in [Query -> QueryStatus]
        /\ \A q \in Query : /\ fl[q] # "absent" <=> status[q] # "absent"
                            /\ fl[q] = "succeeded" => status[q] = "succeeded" \/ tstatus[q] = "data"
    BY FlushedType
  <2>4. at \in Time
    BY DEF TypeOK
  <2>5. CASE /\ status' = [q \in Query |-> IF Newest(q, f, at, fl) THEN Refreshed(q, ex[q], at) ELSE fl[q]]
             /\ tstatus' = ex /\ UNCHANGED <<fp, asked, created>>
    <3>1. \A q \in Query : Newest(q, f, at, fl) =>
            /\ tstatus[q] # "absent" /\ Refreshed(q, ex[q], at) \in QueryStatus \ {"absent"}
            /\ Refreshed(q, ex[q], at) = "succeeded" => tstatus[q] = "data"
      <4> SUFFICES ASSUME NEW q \in Query, Newest(q, f, at, fl)
                   PROVE  /\ tstatus[q] # "absent" /\ Refreshed(q, ex[q], at) \in QueryStatus \ {"absent"}
                          /\ Refreshed(q, ex[q], at) = "succeeded" => tstatus[q] = "data"
        OBVIOUS
      <4> HIDE DEF fl, ex, at
      <4>1. fl[q] # "absent"
        BY DEF Newest, Matches, Usable, Active
      <4>2. tstatus[q] # "absent" /\ ex[q] \in TaskStatus \ {"absent"}
        BY <4>1, <2>2, <2>3 DEF Linked
      <4> QED BY <4>2, <2>2, RefreshedType
    <3> HIDE DEF fl, ex, at, n
    <3>2. TypeOK'
      BY <2>1, <2>2, <2>3, <2>5, <3>1, ReleaseType DEF TypeOK, Reading
    <3>3. Linked'
      BY <2>1, <2>2, <2>3, <2>5, <3>1, ReleaseType DEF TypeOK, Linked, Idle
    <3>4. Honest'
      BY <2>1, <2>2, <2>3, <2>5, <3>1, ReleaseType DEF TypeOK, Honest, SuccessIsReal, Idle
    <3> QED BY <3>2, <3>3, <3>4
  <2>6. CASE /\ status' = [fl EXCEPT ![n] = "queued"] /\ tstatus' = [ex EXCEPT ![n] = "pending"]
             /\ fp' = [fp EXCEPT ![n] = f] /\ asked' = [asked EXCEPT ![n] = at]
             /\ created' = [created EXCEPT ![n] = now]
    <3> HIDE DEF fl, ex, at, n
    <3>1. TypeOK'
      BY <2>1, <2>2, <2>3, <2>4, <2>6, ReleaseType DEF TypeOK, Reading, QueryStatus, Active, TaskStatus
    <3>2. Linked'
      BY <2>1, <2>2, <2>3, <2>6, ReleaseType DEF TypeOK, Linked, Idle
    <3>3. Honest'
      BY <2>1, <2>2, <2>3, <2>6, ReleaseType DEF TypeOK, Honest, SuccessIsReal, Idle
    <3> QED BY <3>1, <3>2, <3>3
  <2> QED BY <1>4, <2>5, <2>6, InsertEffect
<1> QED BY <1>1, <1>2, <1>3, <1>4 DEF SubmitEnds

\* Reads keep them, although what they write was derived from an older state.
LEMMA GetStep ==
  ASSUME TypeOK, Linked, Honest, NEW c \in Reader,
         GetEnds(c) \/ \E q \in Query : GetBegin(c, q)
  PROVE  (TypeOK /\ Linked /\ Honest)'
<1> USE DEF Client
<1> c \in Client
  OBVIOUS
<1> DEFINE h == handler[c]
<1>t. h \in Reading
  BY DEF TypeOK, Reading
<1>1. ASSUME NEW q \in Query, GetBegin(c, q)
      PROVE  (TypeOK /\ Linked /\ Honest)'
  <2> DEFINE read == [Idle EXCEPT !.op = "query", !.at = now, !.q = q, !.status = status[q]]
  <2>1. read \in Reading /\ read.op = "query" /\ read.q = q
    BY IdleType DEF Idle
  <2>2. /\ status[q] # "absent" /\ handler' = [handler EXCEPT ![c] = read]
        /\ UNCHANGED <<now, queryVars, tstatus, held, answered>>
    BY <1>1 DEF GetBegin, Begin
  <2> HIDE DEF read
  <2>3. TypeOK'
    BY <2>1, <2>2 DEF TypeOK, Reading, queryVars
  <2>4. Linked' /\ Honest'
    BY <2>1, <2>2 DEF TypeOK, Linked, Honest, SuccessIsReal, queryVars
  <2> QED BY <2>3, <2>4
<1>2. CASE GetExpired(c)
  <2>1. /\ h.q \in Query /\ h.op = "query"
        /\ status' = status \/ status' = [status EXCEPT ![h.q] = "expired"]
        /\ Release(c) /\ UNCHANGED <<now, fp, asked, created, tstatus, held, answered>>
    BY <1>2, <1>t DEF GetExpired, Reading
  <2>2. TypeOK'
    BY <2>1, ReleaseType DEF TypeOK, Reading, QueryStatus
  <2>3. Linked' /\ Honest'
    BY <2>1, ReleaseType DEF TypeOK, Linked, Honest, SuccessIsReal, Idle
  <2> QED BY <2>2, <2>3
<1>3. CASE GetTask(c)
  <2>1. /\ h.q \in Query /\ h.op = "query"
        /\ handler' = [handler EXCEPT ![c] = [h EXCEPT !.op = "task", !.task = tstatus[h.q]]]
        /\ UNCHANGED <<now, queryVars, tstatus, held, answered>>
    BY <1>3, <1>t DEF GetTask, Reading, TypeOK
  <2>2. [h EXCEPT !.op = "task", !.task = tstatus[h.q]] \in Reading
    BY <2>1, <1>t DEF Reading, TypeOK
  <2>3. TypeOK'
    BY <2>1, <2>2 DEF TypeOK, Reading, queryVars
  <2>4. Linked' /\ Honest'
    BY <2>1, <1>t DEF TypeOK, Reading, Linked, Honest, SuccessIsReal, queryVars
  <2> QED BY <2>3, <2>4
<1>4. CASE GetCommit(c)
  <2> DEFINE s  == Refreshed(h.q, h.task, h.at)
             ts == TaskAfter(h.q, h.task, h.at)
  <2>1. /\ h.q \in Query /\ h.op = "task" /\ h.task \in TaskStatus \ {"absent"}
        /\ status' = status \/ status' = [status EXCEPT ![h.q] = s]
        /\ tstatus' = tstatus \/ tstatus' = [tstatus EXCEPT ![h.q] = ts]
        /\ Release(c) /\ UNCHANGED <<now, fp, asked, created, held, answered>>
    BY <1>4, <1>t DEF GetCommit, Reading, Linked
  <2>2. /\ s \in QueryStatus \ {"absent"} /\ (s = "succeeded" => h.task = "data")
        /\ ts \in TaskStatus \ {"absent"} /\ ts \in {h.task, "failed"}
    BY <2>1, RefreshedType, TaskAfterType
  <2>3. h.task = "data" => h.q \in answered
    BY <2>1 DEF Honest
  <2> HIDE DEF s, ts
  <2>4. TypeOK'
    BY <2>1, <2>2, ReleaseType DEF TypeOK, Reading
  <2>5. Linked'
    BY <2>1, <2>2, ReleaseType DEF TypeOK, Linked, Idle
  <2>6. Honest'
    BY <2>1, <2>2, <2>3, ReleaseType DEF TypeOK, Honest, SuccessIsReal, Idle
  <2> QED BY <2>4, <2>5, <2>6
<1>5. CASE GetConflicts(c)
  <2>1. Release(c) /\ UNCHANGED <<now, queryVars, tstatus, held, answered>>
    BY <1>5 DEF GetConflicts
  <2>2. TypeOK'
    BY <2>1, ReleaseType DEF TypeOK, Reading, queryVars
  <2>3. Linked' /\ Honest'
    BY <2>1, ReleaseType DEF Linked, Honest, SuccessIsReal, queryVars, Idle
  <2> QED BY <2>2, <2>3
<1> QED BY <1>1, <1>2, <1>3, <1>4, <1>5 DEF GetEnds

\* So do the agent and the clock.
LEMMA AgentStep ==
  ASSUME TypeOK, Linked, Honest,
         \/ \E delivered \in BOOLEAN, at \in 0..now, stale \in SUBSET Query : Poll(delivered, at, stale)
         \/ \E q \in Query : ReportInvalid(q) \/ \E how \in Outcome : Report(q, how)
         \/ AgentRestart
         \/ Tick
  PROVE  (TypeOK /\ Linked /\ Honest)'
<1>1. ASSUME NEW delivered \in BOOLEAN, NEW at \in 0..now, NEW stale \in SUBSET Query,
             Poll(delivered, at, stale)
      PROVE  (TypeOK /\ Linked /\ Honest)'
  <2> DEFINE ex == Expired(tstatus, at, stale)
  <2>1. /\ ex \in [Query -> TaskStatus]
        /\ \A q \in Query : /\ ex[q] \in {tstatus[q], "failed"}
                            /\ tstatus[q] # "absent" => ex[q] # "absent"
    BY ExpiredType DEF TypeOK
  <2>2. PICK claimed \in SUBSET Query :
          /\ tstatus' = [q \in Query |-> IF q \in claimed THEN "running" ELSE ex[q]]
          /\ held' \in {claimed, {}}
          /\ UNCHANGED <<now, queryVars, handler, answered>>
    BY <1>1 DEF Poll
  <2> HIDE DEF ex
  <2>3. TypeOK'
    BY <2>1, <2>2 DEF TypeOK, queryVars, TaskStatus
  <2>4. Linked' /\ Honest'
    BY <2>1, <2>2 DEF TypeOK, Linked, Honest, SuccessIsReal, queryVars
  <2> QED BY <2>3, <2>4
<1>2. ASSUME NEW q \in Query, NEW how \in Outcome, Report(q, how)
      PROVE  (TypeOK /\ Linked /\ Honest)'
  <2> DEFINE s == Refreshed(q, how, now)
  <2>1. how \in TaskStatus \ {"absent"}
    BY DEF Outcome, TaskStatus
  <2>2. s \in QueryStatus \ {"absent"} /\ (s = "succeeded" => how = "data")
    BY <2>1, RefreshedType
  <2>3. /\ \/ tstatus' = [tstatus EXCEPT ![q] = how] /\ status' = [status EXCEPT ![q] = s]
           \/ UNCHANGED <<tstatus, status>>
        /\ held' \subseteq held
        /\ answered' = IF how = "data" THEN answered \cup {q} ELSE answered
        /\ UNCHANGED <<now, fp, asked, created, handler>>
    BY <1>2 DEF Report
  <2> HIDE DEF s
  <2>4. TypeOK'
    BY <2>1, <2>2, <2>3 DEF TypeOK
  <2>5. Linked'
    BY <2>1, <2>2, <2>3 DEF TypeOK, Linked
  <2>6. Honest'
    BY <2>1, <2>2, <2>3 DEF TypeOK, Honest, SuccessIsReal
  <2> QED BY <2>4, <2>5, <2>6
<1>3. ASSUME NEW q \in Query, ReportInvalid(q)
      PROVE  (TypeOK /\ Linked /\ Honest)'
  <2>1. TypeOK'
    BY <1>3 DEF ReportInvalid, TypeOK, queryVars, TaskStatus
  <2>2. Linked' /\ Honest'
    BY <1>3 DEF ReportInvalid, TypeOK, Linked, Honest, SuccessIsReal, queryVars
  <2> QED BY <2>1, <2>2
<1>4. CASE AgentRestart \/ Tick
  <2>1. TypeOK'
    BY <1>4, QueryTimeAssumption DEF AgentRestart, Tick, TypeOK, queryVars, Time
  <2>2. Linked' /\ Honest'
    BY <1>4 DEF AgentRestart, Tick, Linked, Honest, SuccessIsReal, queryVars
  <2> QED BY <2>1, <2>2
<1> QED BY <1>1, <1>2, <1>3, <1>4

\* Every step keeps the three parts.
LEMMA QueryInvariant == Spec => [](TypeOK /\ Linked /\ Honest)
<1>1. TypeOK /\ Linked /\ Honest /\ [Next]_vars => (TypeOK /\ Linked /\ Honest)'
  <2> SUFFICES ASSUME TypeOK, Linked, Honest, [Next]_vars
               PROVE  (TypeOK /\ Linked /\ Honest)'
    OBVIOUS
  <2>1. CASE Next
    BY <2>1, SubmitStep, GetStep, AgentStep DEF Next
  <2>2. CASE UNCHANGED vars
    BY <2>2 DEF vars, queryVars, TypeOK, Linked, Honest, SuccessIsReal
  <2> QED BY <2>1, <2>2
<1> QED BY InitTyped, <1>1, PTL DEF Spec

-----------------------------------------------------------------------------
\* The table and the requests keep their types: in particular a query always
\* has one of the documented statuses, whichever of its writers comes last.
THEOREM QueryTypeCorrect == Spec => []TypeOK
BY QueryInvariant, PTL

\* A query shown as succeeded was answered on the node, for any number of
\* overlapping reads, submissions and reports
\* (refresh_looking_glass_query_from_task).
THEOREM SuccessIsAlwaysReal == Spec => []SuccessIsReal
<1>1. Honest => SuccessIsReal
  BY DEF Honest
<1> QED BY QueryInvariant, <1>1, PTL

-----------------------------------------------------------------------------
(* The queue limit.                                                        *)

\* Any set of queries is finite.
LEMMA QueriesFinite ==
  ASSUME NEW S \in SUBSET Query
  PROVE  IsFiniteSet(S) /\ Cardinality(S) \in Nat
<1>1. IsFiniteSet(Query)
  BY QueryBoundAssumption, FS_Interval DEF Query
<1> QED BY <1>1, FS_Subset, FS_CardinalityType

\* A step that makes no task unfinished keeps the limit.
LEMMA LimitKept ==
  ASSUME TypeOK, QueueLimitHolds, Unfinished(tstatus') \subseteq Unfinished(tstatus)
  PROVE  QueueLimitHolds'
<1>1. Unfinished(tstatus) \in SUBSET Query /\ Unfinished(tstatus') \in SUBSET Query
  BY DEF Unfinished
<1>2. Cardinality(Unfinished(tstatus')) <= Cardinality(Unfinished(tstatus))
  BY <1>1, QueriesFinite, FS_Subset
<1>3. Cardinality(Unfinished(tstatus)) <= QueueLimit
  BY DEF QueueLimitHolds, Unfinished
<1>4. Cardinality(Unfinished(tstatus')) <= QueueLimit
  BY <1>1, <1>2, <1>3, QueriesFinite, QueryBoundAssumption
<1> QED BY <1>4 DEF QueueLimitHolds, Unfinished

\* Only an admission makes a task unfinished, and it has counted the others.
LEMMA LimitStep ==
  ASSUME TypeOK, Linked, QueueLimitHolds, Next
  PROVE  QueueLimitHolds'
<1>1. ASSUME NEW c \in Submitter, NEW f \in Fingerprint, NEW stale \in SUBSET Query,
             SubmitInserts(c, f, stale)
      PROVE  QueueLimitHolds'
  <2> DEFINE ex == Expired(tstatus, handler[c].at, stale)
             n  == NextQuery
  <2>1. /\ n \in Query /\ (tstatus' = ex \/ tstatus' = [ex EXCEPT ![n] = "pending"])
        /\ ~ (Cardinality(Unfinished(ex)) >= QueueLimit)
    BY <1>1, InsertEffect
  <2>2. ex \in [Query -> TaskStatus]
    BY ExpiredType DEF TypeOK
  <2> HIDE DEF ex, n
  <2>3. Unfinished(tstatus') \in SUBSET (Unfinished(ex) \cup {n})
    BY <2>1, <2>2 DEF Unfinished
  <2>4. Unfinished(ex) \in SUBSET Query /\ Unfinished(tstatus') \in SUBSET Query
    BY DEF Unfinished
  <2>5. /\ IsFiniteSet(Unfinished(ex) \cup {n})
        /\ Cardinality(Unfinished(ex) \cup {n}) <= Cardinality(Unfinished(ex)) + 1
    <3> DEFINE U == Unfinished(ex)
    <3>1. IsFiniteSet(U) /\ Cardinality(U) \in Nat
      BY <2>4, QueriesFinite
    <3> HIDE DEF U
    <3>2. /\ IsFiniteSet(U \cup {n})
          /\ Cardinality(U \cup {n}) = IF n \in U THEN Cardinality(U) ELSE Cardinality(U) + 1
      BY <3>1, FS_AddElement
    <3>3. Cardinality(U \cup {n}) <= Cardinality(U) + 1
      BY <3>1, <3>2
    <3> QED BY <3>2, <3>3 DEF U
  <2>6. Cardinality(Unfinished(tstatus')) <= Cardinality(Unfinished(ex) \cup {n})
    BY <2>3, <2>5, FS_Subset
  <2>7. /\ Cardinality(Unfinished(ex)) \in Nat /\ Cardinality(Unfinished(tstatus')) \in Nat
        /\ Cardinality(Unfinished(ex) \cup {n}) \in Nat
    BY <2>4, <2>5, QueriesFinite, FS_CardinalityType
  <2>8. Cardinality(Unfinished(tstatus')) <= QueueLimit
    BY <2>1, <2>5, <2>6, <2>7, QueryBoundAssumption
  <2> QED BY <2>8 DEF QueueLimitHolds, Unfinished
<1>2. ASSUME NEW c \in Submitter, NEW f \in Fingerprint, NEW q \in Query, SubmitReuses(c, f, q)
      PROVE  Unfinished(tstatus') \subseteq Unfinished(tstatus)
  BY <1>2, TaskAfterType DEF SubmitReuses, Unfinished, TypeOK
<1>3. ASSUME NEW c \in Reader, GetCommit(c)
      PROVE  Unfinished(tstatus') \subseteq Unfinished(tstatus)
  <2> DEFINE h  == handler[c]
             ts == TaskAfter(h.q, h.task, h.at)
  <2>1. h.q \in Query /\ h.task \in TaskStatus
    BY DEF TypeOK, Client
  <2>2. tstatus' = tstatus \/ (tstatus' = [tstatus EXCEPT ![h.q] = ts] /\ ts # h.task)
    BY <1>3 DEF GetCommit
  <2>3. ts \in {h.task, "failed"}
    BY <2>1, TaskAfterType
  <2> HIDE DEF ts
  <2> QED BY <2>1, <2>2, <2>3 DEF Unfinished, TypeOK
<1>4. ASSUME NEW delivered \in BOOLEAN, NEW at \in 0..now, NEW stale \in SUBSET Query,
             Poll(delivered, at, stale)
      PROVE  Unfinished(tstatus') \subseteq Unfinished(tstatus)
  <2> DEFINE ex == Expired(tstatus, at, stale)
  <2>1. ex \in [Query -> TaskStatus] /\ \A q \in Query : ex[q] \in {tstatus[q], "failed"}
    BY ExpiredType DEF TypeOK
  <2>2. PICK claimed \in SUBSET {q \in Query : ex[q] = "pending"} :
          tstatus' = [q \in Query |-> IF q \in claimed THEN "running" ELSE ex[q]]
    BY <1>4 DEF Poll
  <2> HIDE DEF ex
  <2> QED BY <2>1, <2>2 DEF Unfinished, TypeOK
<1>5. ASSUME NEW q \in Query, ReportInvalid(q) \/ \E how \in Outcome : Report(q, how)
      PROVE  Unfinished(tstatus') \subseteq Unfinished(tstatus)
  BY <1>5 DEF ReportInvalid, Report, Outcome, Unfinished, TypeOK
<1>6. ASSUME NEW c,
             \/ SubmitBegin(c) \/ SubmitFails(c)
             \/ \E f \in Fingerprint, stale \in SUBSET Query : SubmitRejected(c, f, stale)
             \/ \E q \in Query : GetBegin(c, q)
             \/ GetExpired(c) \/ GetTask(c) \/ GetConflicts(c)
      PROVE  Unfinished(tstatus') \subseteq Unfinished(tstatus)
  <2>1. tstatus' = tstatus
    BY <1>6 DEF SubmitBegin, SubmitFails, SubmitRejected, GetBegin, Begin, GetExpired, GetTask,
                GetConflicts
  <2> QED BY <2>1
<1>7. CASE AgentRestart \/ Tick
  <2>1. tstatus' = tstatus
    BY <1>7 DEF AgentRestart, Tick
  <2>2. Unfinished(tstatus') \subseteq Unfinished(tstatus)
    BY <2>1
  <2> QED BY <2>2, LimitKept
<1> QED BY <1>1, <1>2, <1>3, <1>4, <1>5, <1>6, <1>7, LimitKept DEF Next, SubmitEnds, GetEnds

\* The query queue of a node never exceeds its limit, for any number of
\* overlapping submissions (create_looking_glass_query_task).
THEOREM QueueLimitAlwaysHolds == Spec => []QueueLimitHolds
<1>1. Init => QueueLimitHolds
  <2> SUFFICES ASSUME Init PROVE QueueLimitHolds
    OBVIOUS
  <2>1. {q \in Query : tstatus[q] \in {"pending", "running"}} = {}
    BY DEF Init
  <2>2. Cardinality({}) = 0
    BY FS_EmptySet
  <2> QED BY <2>1, <2>2, QueryBoundAssumption DEF QueueLimitHolds
<1>2. TypeOK /\ Linked /\ QueueLimitHolds /\ [Next]_vars => QueueLimitHolds'
  BY LimitStep DEF vars, QueueLimitHolds
<1> QED BY QueryInvariant, <1>1, <1>2, PTL DEF Spec

-----------------------------------------------------------------------------
(* One open query for a request.                                           *)

\* A task that ends stays ended.
Closed == {"data", "error_code", "failed"}

\* Queries and tasks are inserted together, in the order of their numbers.
Numbered ==
  /\ \E k \in Nat : {q \in Query : status[q] # "absent"} = 1..k
  /\ \A q \in Query : tstatus[q] # "absent" => status[q] # "absent"

\* A success, stored or about to be written by a read, is that of a closed task, so
\* that refreshing it cannot open it.
Settled ==
  /\ \A q \in Query : status[q] = "succeeded" => tstatus[q] \in Closed
  /\ \A c \in Client : handler[c].op = "task" /\ handler[c].task = "data" =>
       tstatus[handler[c].q] \in Closed

\* Closed tasks are left alone by the deadlines, and their queries end.
LEMMA ClosedEnds ==
  ASSUME NEW q, NEW ts \in Closed, NEW at
  PROVE  TaskAfter(q, ts, at) = ts /\ Refreshed(q, ts, at) \in {"succeeded", "failed"}
<1>1. TaskAfter(q, ts, at) = ts
  BY DEF TaskAfter, Closed
<1>2. Follows(ts) \in {"succeeded", "failed"}
  BY DEF Follows, Closed
<1> QED BY <1>1, <1>2 DEF Refreshed, Active

\* The expiries leave closed tasks alone, and what is no task.
LEMMA ClosedStays ==
  ASSUME NEW ts \in [Query -> TaskStatus], NEW at, NEW stale, NEW q \in Query,
         ts[q] \in Closed \cup {"absent"}
  PROVE  Expired(ts, at, stale)[q] = ts[q]
BY DEF Expired, Closed, TaskAfter

\* The number that an insert takes is free, of the task as well.
LEMMA NextIsFree ==
  ASSUME Numbered, NextQuery \in Query
  PROVE  /\ status[NextQuery] = "absent" /\ tstatus[NextQuery] = "absent"
         /\ \E k \in Nat : {q \in Query : status[q] # "absent"} \cup {NextQuery} = 1..k
<1> DEFINE S == {q \in Query : status[q] # "absent"}
<1>1. PICK k \in Nat : S = 1..k
  BY DEF Numbered
<1>2. Cardinality(S) = k
  <2>1. Cardinality(1..k) = IF 1 > k THEN 0 ELSE k - 1 + 1
    BY FS_Interval
  <2> HIDE DEF S
  <2> QED BY <1>1, <2>1
<1>3. NextQuery = k + 1
  BY <1>2 DEF NextQuery
<1>4. NextQuery \notin S
  BY <1>1, <1>3
<1>5. S \cup {NextQuery} = 1..(k + 1)
  BY <1>1, <1>3
<1> QED BY <1>4, <1>5 DEF Numbered

\* A step after which the queries and the tasks that there were are still there, and
\* no others, keeps the numbering.
LEMMA NumberedKept ==
  ASSUME Numbered, TypeOK, TypeOK',
         \A q \in Query : status'[q] # "absent" <=> status[q] # "absent",
         \A q \in Query : tstatus'[q] # "absent" => tstatus[q] # "absent"
  PROVE  Numbered'
<1>1. {q \in Query : status'[q] # "absent"} = {q \in Query : status[q] # "absent"}
  OBVIOUS
<1> QED BY <1>1 DEF Numbered

\* A step that opens no query keeps the property.
LEMMA NoneOpened ==
  ASSUME OneActiveQuery, UNCHANGED fp, \A q \in Query : status'[q] \in Active => status[q] \in Active
  PROVE  OneActiveQuery'
BY DEF OneActiveQuery

ActiveInv == TypeOK /\ Linked /\ Honest /\ Numbered /\ Settled /\ OneActiveQuery

\* A step that only moves tasks forward and changes neither queries nor requests.
LEMMA TasksMove ==
  ASSUME ActiveInv, TypeOK', UNCHANGED <<fp, status, handler>>,
         \A q \in Query : /\ tstatus[q] \in Closed => tstatus'[q] \in Closed
                          /\ tstatus'[q] # "absent" => tstatus[q] # "absent"
  PROVE  (Numbered /\ Settled /\ OneActiveQuery)'
<1>1. Numbered'
  BY NumberedKept DEF ActiveInv
<1>2. Settled'
  BY DEF ActiveInv, Settled, TypeOK
<1>3. OneActiveQuery'
  BY DEF ActiveInv, OneActiveQuery
<1> QED BY <1>1, <1>2, <1>3

\* A step of a request that changes no task and no query.
LEMMA RequestMoves ==
  ASSUME ActiveInv, TypeOK', UNCHANGED <<fp, status, tstatus>>,
         \A c \in Client : \/ handler'[c] = handler[c] \/ handler'[c].op # "task"
                           \/ handler'[c].task = tstatus[handler'[c].q] /\ handler'[c].q \in Query
  PROVE  (Numbered /\ Settled /\ OneActiveQuery)'
<1>1. Numbered'
  BY NumberedKept DEF ActiveInv
<1>2. Settled'
  BY DEF ActiveInv, Settled, Closed
<1>3. OneActiveQuery'
  BY DEF ActiveInv, OneActiveQuery
<1> QED BY <1>1, <1>2, <1>3

\* The end of a submission that returns a query it found: what it refreshes is open
\* already, or its task is closed.
LEMMA ReuseActive ==
  ASSUME ActiveInv, TypeOK', NEW c \in Submitter, NEW f \in Fingerprint, NEW q \in Query,
         SubmitReuses(c, f, q)
  PROVE  (Numbered /\ Settled /\ OneActiveQuery)'
<1> USE DEF Client
<1> DEFINE at == handler[c].at
           s  == Refreshed(q, tstatus[q], at)
           ts == TaskAfter(q, tstatus[q], at)
<1>1. /\ status' = [status EXCEPT ![q] = s] /\ tstatus' = [tstatus EXCEPT ![q] = ts]
      /\ Release(c) /\ UNCHANGED fp /\ status[q] \in Active \cup {"succeeded"}
  BY DEF SubmitReuses, Newest, Matches, Usable
<1>2. status[q] # "absent" /\ tstatus[q] \in TaskStatus \ {"absent"}
  BY <1>1 DEF ActiveInv, Linked, TypeOK, Active
<1>3. /\ s \in QueryStatus \ {"absent"} /\ (s = "succeeded" => tstatus[q] = "data")
      /\ ts \in TaskStatus \ {"absent"}
      /\ tstatus[q] \in Closed => ts = tstatus[q] /\ s \notin Active
  BY <1>2, RefreshedType, TaskAfterType, ClosedEnds DEF Active
<1>4. status[q] = "succeeded" => tstatus[q] \in Closed
  BY DEF ActiveInv, Settled
<1>5. \A d \in Client : handler'[d] = handler[d] \/ handler'[d].op = "none"
  BY <1>1, ReleaseType DEF ActiveInv, Idle
<1> HIDE DEF s, ts
<1>6. Numbered'
  BY <1>1, <1>2, <1>3, NumberedKept DEF ActiveInv, TypeOK
<1>7. Settled'
  BY <1>1, <1>3, <1>5 DEF ActiveInv, Settled, TypeOK, Closed
<1>8. OneActiveQuery'
  BY <1>1, <1>3, <1>4, NoneOpened DEF ActiveInv, TypeOK
<1> QED BY <1>6, <1>7, <1>8

\* An insert: the index has been asked, or the query that it found is refreshed.
LEMMA InsertActive ==
  ASSUME ActiveInv, TypeOK', NEW c \in Submitter, NEW f \in Fingerprint, NEW stale \in SUBSET Query,
         SubmitInserts(c, f, stale)
  PROVE  (Numbered /\ Settled /\ OneActiveQuery)'
<1> USE DEF Client
<1> DEFINE at == handler[c].at
           n  == NextQuery
           ex == Expired(tstatus, at, stale)
           fl == Flushed(f, at)
<1>0. TypeOK /\ Linked /\ Numbered /\ Settled /\ OneActiveQuery
  BY DEF ActiveInv
<1>1. n \in Query /\ Release(c) /\ NotReused(c, f)
  BY InsertEffect
<1>2. /\ ex \in [Query -> TaskStatus]
      /\ \A q \in Query : /\ tstatus[q] \in Closed => ex[q] = tstatus[q]
                          /\ ex[q] # "absent" <=> tstatus[q] # "absent"
  BY <1>0, ExpiredType, ClosedStays DEF TypeOK
<1>3. /\ fl \in [Query -> QueryStatus]
      /\ \A q \in Query : /\ fl[q] # "absent" <=> status[q] # "absent"
                          /\ fl[q] = "succeeded" => tstatus[q] \in Closed
  BY <1>0, FlushedType DEF Settled, Closed
<1>4. \A q \in Query : fl[q] \in Active => status[q] \in Active
  BY <1>1 DEF Flushed, NotReused, Usable
<1>5. \A d \in Client : handler'[d] = handler[d] \/ handler'[d].op = "none"
  BY <1>0, <1>1, ReleaseType DEF Idle
<1>6. CASE /\ status' = [q \in Query |-> IF Newest(q, f, at, fl) THEN Refreshed(q, ex[q], at) ELSE fl[q]]
           /\ tstatus' = ex /\ UNCHANGED <<fp, asked, created>>
  <2>1. \A q \in Query : Newest(q, f, at, fl) =>
          /\ fl[q] \in Active \cup {"succeeded"}
          /\ Refreshed(q, ex[q], at) \in QueryStatus \ {"absent"}
          /\ Refreshed(q, ex[q], at) = "succeeded" => ex[q] = "data"
          /\ fl[q] = "succeeded" => Refreshed(q, ex[q], at) \notin Active
    <3> SUFFICES ASSUME NEW q \in Query, Newest(q, f, at, fl)
                 PROVE  /\ fl[q] \in Active \cup {"succeeded"}
                        /\ Refreshed(q, ex[q], at) \in QueryStatus \ {"absent"}
                        /\ Refreshed(q, ex[q], at) = "succeeded" => ex[q] = "data"
                        /\ fl[q] = "succeeded" => Refreshed(q, ex[q], at) \notin Active
      OBVIOUS
    <3> HIDE DEF fl, ex, at
    <3>1. fl[q] \in Active \cup {"succeeded"}
      BY DEF Newest, Matches, Usable
    <3>2. ex[q] \in TaskStatus \ {"absent"}
      BY <1>0, <1>2, <1>3, <3>1 DEF Linked, Active
    <3>3. fl[q] = "succeeded" => ex[q] \in Closed
      BY <1>2, <1>3
    <3> QED BY <3>1, <3>2, <3>3, RefreshedType, ClosedEnds DEF Active
  <2> HIDE DEF fl, ex, at, n
  <2>2. Numbered'
    BY <1>0, <1>2, <1>3, <1>6, <2>1, NumberedKept DEF Active
  <2>3. Settled'
    BY <1>0, <1>2, <1>3, <1>5, <1>6, <2>1 DEF Settled, TypeOK, Closed
  <2>4. OneActiveQuery'
    <3>1. \A q \in Query : status'[q] \in Active => status[q] \in Active
      BY <1>4, <1>6, <2>1
    <3> QED BY <1>0, <1>6, <3>1, NoneOpened
  <2> QED BY <2>2, <2>3, <2>4
<1>7. CASE /\ ~ Conflict(n, f, "queued", fl)
           /\ status' = [fl EXCEPT ![n] = "queued"] /\ tstatus' = [ex EXCEPT ![n] = "pending"]
           /\ fp' = [fp EXCEPT ![n] = f]
  <2>0. /\ status[n] = "absent" /\ tstatus[n] = "absent"
        /\ \E k \in Nat : {q \in Query : status[q] # "absent"} \cup {n} = 1..k
    BY <1>0, <1>1, NextIsFree
  <2>1. \A p \in Query \ {n} : ~ (fp[p] = f /\ fl[p] \in Active)
    BY <1>7 DEF Conflict, Active
  <2> HIDE DEF fl, ex, at, n
  <2>2. Numbered'
    <3>1. {q \in Query : status'[q] # "absent"} = {q \in Query : status[q] # "absent"} \cup {n}
      BY <1>1, <1>3, <1>7
    <3>2. \A q \in Query : tstatus'[q] # "absent" => status'[q] # "absent"
      BY <1>0, <1>1, <1>2, <1>3, <1>7 DEF Numbered
    <3> QED BY <2>0, <3>1, <3>2 DEF Numbered
  <2>3. Settled'
    <3>1. \A q \in Query : status'[q] = "succeeded" => tstatus'[q] \in Closed
      BY <1>1, <1>2, <1>3, <1>7
    <3>2. \A d \in Client : handler'[d].op = "task" /\ handler'[d].task = "data" =>
                              tstatus'[handler'[d].q] \in Closed
      <4> SUFFICES ASSUME NEW d \in Client, handler'[d].op = "task", handler'[d].task = "data"
                   PROVE  tstatus'[handler'[d].q] \in Closed
        OBVIOUS
      <4>1. handler'[d] = handler[d] /\ handler[d].q \in Query /\ tstatus[handler[d].q] \in Closed
        BY <1>0, <1>5 DEF Settled, TypeOK
      <4>2. handler[d].q # n
        BY <2>0, <4>1 DEF Closed
      <4> QED BY <1>1, <1>2, <1>7, <4>1, <4>2
    <3> QED BY <3>1, <3>2 DEF Settled
  <2>4. OneActiveQuery'
    <3> SUFFICES ASSUME NEW p \in Query, NEW q \in Query, p # q, fp'[p] = fp'[q],
                        status'[p] \in Active, status'[q] \in Active
                 PROVE  FALSE
      BY DEF OneActiveQuery
    <3>1. \A r \in Query \ {n} : fp'[r] = fp[r] /\ status'[r] = fl[r]
      BY <1>1, <1>3, <1>7
    <3>2. fp'[n] = f
      BY <1>0, <1>1, <1>7 DEF TypeOK
    <3>3. p # n /\ q # n
      BY <2>1, <3>1, <3>2
    <3> QED BY <1>0, <1>4, <3>1, <3>3 DEF OneActiveQuery
  <2> QED BY <2>2, <2>3, <2>4
<1> QED BY <1>6, <1>7, InsertEffect

\* The commit of a read: the index has been asked, and what it writes of the task
\* closes it.
LEMMA CommitActive ==
  ASSUME ActiveInv, TypeOK', NEW c \in Reader, GetCommit(c)
  PROVE  (Numbered /\ Settled /\ OneActiveQuery)'
<1> USE DEF Client
<1> DEFINE h  == handler[c]
           s  == Refreshed(h.q, h.task, h.at)
           ts == TaskAfter(h.q, h.task, h.at)
<1>0. TypeOK /\ Linked /\ Numbered /\ Settled /\ OneActiveQuery
  BY DEF ActiveInv
<1>1. /\ h.q \in Query /\ h.op = "task" /\ h.task \in TaskStatus \ {"absent"} /\ tstatus[h.q] # "absent"
      /\ Release(c) /\ UNCHANGED fp
  BY <1>0 DEF GetCommit, Linked, TypeOK
<1>2. /\ status' = status \/ (status' = [status EXCEPT ![h.q] = s] /\ ~ Conflict(h.q, fp[h.q], s, status))
      /\ tstatus' = tstatus \/ (tstatus' = [tstatus EXCEPT ![h.q] = ts] /\ ts # h.task)
  BY DEF GetCommit
<1>3. /\ s \in QueryStatus \ {"absent"} /\ (s = "succeeded" => h.task = "data")
      /\ ts \in {h.task, "failed"}
  BY <1>1, RefreshedType, TaskAfterType
<1>4. status[h.q] # "absent"
  BY <1>0, <1>1 DEF Numbered
<1>5. h.task = "data" => tstatus[h.q] \in Closed
  BY <1>0, <1>1 DEF Settled
<1>6. \A d \in Client : handler'[d] = handler[d] \/ handler'[d].op = "none"
  BY <1>0, <1>1, ReleaseType DEF Idle
<1>7. \A q \in Query : tstatus[q] \in Closed => tstatus'[q] \in Closed
  BY <1>0, <1>1, <1>2, <1>3 DEF TypeOK, Closed
<1> HIDE DEF s, ts
<1>8. Numbered'
  <2>1. \A q \in Query : status'[q] # "absent" <=> status[q] # "absent"
    BY <1>0, <1>1, <1>2, <1>3, <1>4 DEF TypeOK
  <2>2. \A q \in Query : tstatus'[q] # "absent" => tstatus[q] # "absent"
    BY <1>0, <1>1, <1>2, <1>3 DEF TypeOK
  <2> QED BY <1>0, <2>1, <2>2, NumberedKept
<1>9. Settled'
  <2>1. \A q \in Query : status'[q] = "succeeded" => tstatus'[q] \in Closed
    BY <1>0, <1>1, <1>2, <1>3, <1>5, <1>7 DEF TypeOK, Settled
  <2>2. \A d \in Client : handler'[d].op = "task" /\ handler'[d].task = "data" =>
                            tstatus'[handler'[d].q] \in Closed
    BY <1>0, <1>6, <1>7 DEF Settled, TypeOK
  <2> QED BY <2>1, <2>2 DEF Settled
<1>10. OneActiveQuery'
  <2>1. CASE s \notin Active \/ status' = status
    BY <1>0, <1>1, <1>2, <2>1, NoneOpened DEF TypeOK
  <2>2. CASE s \in Active /\ status' = [status EXCEPT ![h.q] = s] /\ ~ Conflict(h.q, fp[h.q], s, status)
    <3>1. \A p \in Query \ {h.q} : ~ (fp[p] = fp[h.q] /\ status[p] \in Active)
      BY <2>2 DEF Conflict
    <3> QED BY <1>0, <1>1, <2>2, <3>1 DEF OneActiveQuery, TypeOK
  <2> QED BY <1>2, <2>1, <2>2
<1> QED BY <1>8, <1>9, <1>10

\* The retention of a result is over.
LEMMA ExpiryActive ==
  ASSUME ActiveInv, TypeOK', NEW c \in Reader, GetExpired(c)
  PROVE  (Numbered /\ Settled /\ OneActiveQuery)'
<1> USE DEF Client
<1> DEFINE h == handler[c]
<1>0. TypeOK /\ Linked /\ Numbered /\ Settled /\ OneActiveQuery
  BY DEF ActiveInv
<1>1. /\ h.q \in Query /\ tstatus[h.q] # "absent" /\ Release(c) /\ UNCHANGED <<fp, tstatus>>
      /\ status' = status \/ status' = [status EXCEPT ![h.q] = "expired"]
  BY <1>0 DEF GetExpired, TypeOK, Linked
<1>2. \A d \in Client : handler'[d] = handler[d] \/ handler'[d].op = "none"
  BY <1>0, <1>1, ReleaseType DEF Idle
<1>3. status[h.q] # "absent"
  BY <1>0, <1>1 DEF Numbered
<1>4. Numbered'
  BY <1>0, <1>1, <1>3, NumberedKept DEF TypeOK
<1>5. Settled'
  BY <1>0, <1>1, <1>2 DEF Settled, TypeOK
<1>6. OneActiveQuery'
  BY <1>0, <1>1, NoneOpened DEF TypeOK, Active
<1> QED BY <1>4, <1>5, <1>6

\* A report closes its task, and with it ends the query.
LEMMA ReportActive ==
  ASSUME ActiveInv, TypeOK', NEW q \in Query, NEW how \in Outcome, Report(q, how)
  PROVE  (Numbered /\ Settled /\ OneActiveQuery)'
<1> DEFINE s == Refreshed(q, how, now)
<1>0. TypeOK /\ Linked /\ Numbered /\ Settled /\ OneActiveQuery
  BY DEF ActiveInv
<1>1. how \in Closed /\ s \in {"succeeded", "failed"}
  BY ClosedEnds DEF Outcome, Closed
<1>2. /\ \/ /\ tstatus[q] = "running"
            /\ tstatus' = [tstatus EXCEPT ![q] = how] /\ status' = [status EXCEPT ![q] = s]
         \/ UNCHANGED <<tstatus, status>>
      /\ UNCHANGED <<fp, handler>>
  BY DEF Report
<1> HIDE DEF s
<1>3. tstatus[q] = "running" => status[q] # "absent"
  BY <1>0 DEF Numbered
<1>4. Numbered'
  BY <1>0, <1>1, <1>2, <1>3, NumberedKept DEF TypeOK
<1>5. Settled'
  BY <1>0, <1>1, <1>2 DEF Settled, TypeOK
<1>6. OneActiveQuery'
  BY <1>0, <1>1, <1>2, NoneOpened DEF TypeOK, Active
<1> QED BY <1>4, <1>5, <1>6

\* Every step keeps the invariant.
LEMMA ActiveStep ==
  ASSUME ActiveInv, TypeOK', Next
  PROVE  (Numbered /\ Settled /\ OneActiveQuery)'
<1> USE DEF Client
<1>0. TypeOK
  BY DEF ActiveInv
<1>1. ASSUME NEW c \in Submitter,
             \/ SubmitBegin(c) \/ SubmitFails(c)
             \/ \E f \in Fingerprint, stale \in SUBSET Query : SubmitRejected(c, f, stale)
      PROVE  (Numbered /\ Settled /\ OneActiveQuery)'
  <2>1. UNCHANGED <<fp, status, tstatus>>
    BY <1>1 DEF SubmitBegin, Begin, SubmitFails, SubmitRejected, queryVars
  <2>2. \A d \in Client : handler'[d] = handler[d] \/ handler'[d].op # "task"
    <3>1. CASE SubmitBegin(c)
      <4> DEFINE read == [Idle EXCEPT !.op = "submit", !.at = now]
      <4>1. read.op = "submit" /\ handler' = [handler EXCEPT ![c] = read]
        BY <3>1 DEF SubmitBegin, Begin, Idle
      <4> QED BY <1>0, <4>1 DEF TypeOK
    <3>2. CASE Release(c)
      BY <1>0, <3>2 DEF Release, Idle, TypeOK
    <3> QED BY <1>1, <3>1, <3>2 DEF SubmitFails, SubmitRejected
  <2> QED BY <2>1, <2>2, RequestMoves
<1>2. ASSUME NEW c \in Reader, (\E q \in Query : GetBegin(c, q)) \/ GetTask(c) \/ GetConflicts(c)
      PROVE  (Numbered /\ Settled /\ OneActiveQuery)'
  <2>1. UNCHANGED <<fp, status, tstatus>>
    BY <1>2 DEF GetBegin, Begin, GetTask, GetConflicts, queryVars
  <2>2. \A d \in Client : \/ handler'[d] = handler[d] \/ handler'[d].op # "task"
                          \/ handler'[d].task = tstatus[handler'[d].q] /\ handler'[d].q \in Query
    <3>0. ASSUME NEW q \in Query, GetBegin(c, q)
          PROVE  \A d \in Client : handler'[d] = handler[d] \/ handler'[d].op # "task"
      <4> DEFINE read == [Idle EXCEPT !.op = "query", !.at = now, !.q = q, !.status = status[q]]
      <4>1. read.op = "query" /\ handler' = [handler EXCEPT ![c] = read]
        BY <3>0 DEF GetBegin, Begin, Idle
      <4> QED BY <1>0, <4>1 DEF TypeOK
    <3>1. CASE GetConflicts(c)
      BY <1>0, <3>1 DEF GetConflicts, Release, Idle, TypeOK
    <3>2. CASE GetTask(c)
      <4> DEFINE h == handler[c]
      <4>1. /\ h \in Reading
            /\ handler' = [handler EXCEPT ![c] = [h EXCEPT !.op = "task", !.task = tstatus[h.q]]]
        BY <1>0, <3>2 DEF GetTask, Reading, TypeOK
      <4>2. handler'[c].task = tstatus[handler'[c].q] /\ handler'[c].q \in Query
        BY <1>0, <4>1 DEF TypeOK, Reading
      <4> QED BY <1>0, <4>1, <4>2 DEF TypeOK
    <3> QED BY <1>2, <3>0, <3>1, <3>2
  <2> QED BY <2>1, <2>2, RequestMoves
<1>3. ASSUME NEW delivered \in BOOLEAN, NEW at \in 0..now, NEW stale \in SUBSET Query,
             Poll(delivered, at, stale)
      PROVE  (Numbered /\ Settled /\ OneActiveQuery)'
  <2> DEFINE ex == Expired(tstatus, at, stale)
  <2>1. ex \in [Query -> TaskStatus]
        /\ \A q \in Query : tstatus[q] \in Closed \cup {"absent"} => ex[q] = tstatus[q]
    BY <1>0, ExpiredType, ClosedStays DEF TypeOK
  <2>2. PICK claimed \in SUBSET {q \in Query : ex[q] = "pending"} :
          /\ tstatus' = [q \in Query |-> IF q \in claimed THEN "running" ELSE ex[q]]
          /\ UNCHANGED <<queryVars, handler>>
    BY <1>3 DEF Poll
  <2> HIDE DEF ex
  <2>3. \A q \in Query : /\ tstatus[q] \in Closed => tstatus'[q] \in Closed
                         /\ tstatus'[q] # "absent" => tstatus[q] # "absent"
    BY <2>1, <2>2 DEF Closed
  <2> QED BY <2>2, <2>3, TasksMove DEF queryVars
<1>4. ASSUME NEW q \in Query, ReportInvalid(q) \/ AgentRestart \/ Tick
      PROVE  (Numbered /\ Settled /\ OneActiveQuery)'
  <2>1. UNCHANGED <<fp, status, handler>>
    BY <1>4 DEF ReportInvalid, AgentRestart, Tick, queryVars
  <2>2. \A p \in Query : /\ tstatus[p] \in Closed => tstatus'[p] \in Closed
                         /\ tstatus'[p] # "absent" => tstatus[p] # "absent"
    BY <1>0, <1>4 DEF ReportInvalid, AgentRestart, Tick, Closed, TypeOK
  <2> QED BY <2>1, <2>2, TasksMove
<1>5. 1 \in Query
  BY QueryBoundAssumption DEF Query
<1> QED BY <1>1, <1>2, <1>3, <1>4, <1>5, ReuseActive, InsertActive, CommitActive, ExpiryActive,
           ReportActive DEF Next, SubmitEnds, GetEnds

\* A request has at most one open query, whatever submissions, reads, polls and
\* reports overlap: where the index is not asked, no query is opened
\* (create_looking_glass_query_task, get_looking_glass_query, agent_task_result).
THEOREM OneActiveQueryAlways == Spec => []OneActiveQuery
<1>1. Init => Numbered /\ Settled /\ OneActiveQuery
  <2> SUFFICES ASSUME Init PROVE Numbered /\ Settled /\ OneActiveQuery
    OBVIOUS
  <2>1. {q \in Query : status[q] # "absent"} = 1..0
    BY DEF Init
  <2>2. Numbered
    BY <2>1 DEF Init, Numbered
  <2> QED BY <2>2 DEF Init, Settled, OneActiveQuery, Active, Idle
<1>2. /\ TypeOK /\ Linked /\ Honest /\ Numbered /\ Settled /\ OneActiveQuery
      /\ TypeOK' /\ [Next]_vars
      => (Numbered /\ Settled /\ OneActiveQuery)'
  <2>1. CASE Next
    BY <2>1, ActiveStep DEF ActiveInv
  <2>2. CASE UNCHANGED vars
    BY <2>2 DEF vars, queryVars, Numbered, Settled, OneActiveQuery
  <2> QED BY <2>1, <2>2
<1> QED BY QueryInvariant, <1>1, <1>2, PTL DEF Spec
=============================================================================
