------------------------------ MODULE RunData ------------------------------
(***************************************************************************)
(* log_batch on one run (tracking/store.py, repositories/runs.py).         *)
(*                                                                         *)
(* A batch of parameters and metrics is written in two parts.  One         *)
(* conditional update of the run document checks the life-cycle stage and  *)
(* the parameters and merges the batch into the parameters and into the    *)
(* latest metrics.  Then an ordered bulk write upserts every metric into   *)
(* the history, one document at a time: a point of the run and, when the   *)
(* metric names a logged model, a point of the model.  A point already     *)
(* there is left alone; a different one with the same identity violates a  *)
(* unique index and ends the call.                                         *)
(*                                                                         *)
(* The run may be deleted and restored at any time.  A call is executed at *)
(* most once; a client that retries makes another call with the same       *)
(* batch.  Tags, and the dataset of a metric, are left out.                *)
(***************************************************************************)
EXTENDS Integers, Sequences

CONSTANTS Calls,
          ParamKeys, ParamValues,
          MetricKeys,
          MetricValues,  \* numbers and NaN
          NaN,
          Models,        \* logged models
          NoModel,       \* a metric that names none
          Workloads,     \* the batches the calls may be given, for all calls
          NoParam,       \* parameter not logged
          NoMetric,      \* metric not logged
          MaxFaults      \* bound on the failing database operations

Metric == [k         : MetricKeys,
           v         : MetricValues,
           timestamp : Nat,
           step      : Nat,
           model     : Models \union {NoModel}]

(* The parameters of a batch have distinct keys (the code refuses others). *)
Batch == [metrics : Seq(Metric),
          params  : [ParamKeys -> ParamValues \union {NoParam}]]

ASSUME WorkloadsAssumption == \A w \in Workloads : w \in [Calls -> Batch]

ASSUME ValuesAssumption ==
    /\ NoParam \notin ParamValues /\ NoModel \notin Models
    /\ NoMetric \notin Metric
    /\ \A v \in MetricValues : v = NaN \/ v \in Int

ASSUME FaultsAssumption == MaxFaults \in Nat

VARIABLES
    stage,    \* life-cycle stage of the run
    params,   \* params[k]: the value of parameter k, or NoParam
    latest,   \* latest[k]: the metric in the run's summary, or NoMetric
    points,   \* the metric documents of the run and of models
    pc,       \* pc[c]: the next operation of call c
    batch,    \* batch[c]: what c logs
    todo,     \* todo[c]: metric documents c has yet to upsert, in order
    error,    \* error[c]: what c raises to its client
    faults    \* number of database operations that have failed

vars == <<stage, params, latest, points, pc, batch, todo, error, faults>>

-----------------------------------------------------------------------------

Errors == {"none", "not_active", "param_conflict", "persistence"}

Phases == {"idle", "update", "find", "insert", "reply", "done", "failed"}

Running(c) == pc[c] \notin {"idle", "done", "failed"}

(* The history consists of metrics: NoModel in those of the run.           *)
RunPoint(m) == [m EXCEPT !.model = NoModel]

(* The unique indexes: a model has one value for a key, time and step.     *)
Identity(p) == IF p.model = NoModel THEN p ELSE [p EXCEPT !.v = NoModel]

(* The metrics that name a model, in the order of the batch.               *)
ModelPoints(ms) ==
    LET first[i \in 0..Len(ms)] ==
           IF i = 0 THEN <<>>
           ELSE IF ms[i].model = NoModel THEN first[i - 1]
           ELSE Append(first[i - 1], ms[i])
    IN  first[Len(ms)]

(* All run points come before the model points.                            *)
MetricDocuments(ms) ==
    [i \in DOMAIN ms |-> RunPoint(ms[i])] \o ModelPoints(ms)

Rank(v) == IF v = NaN THEN 0 ELSE v

Newer_ByTime(m, current) ==
    \/ m.timestamp > current.timestamp
    \/ m.timestamp = current.timestamp /\ m.step > current.step
    \/ /\ m.timestamp = current.timestamp /\ m.step = current.step
       /\ Rank(m.v) > Rank(current.v)

(* $gt on the arrays [step, timestamp, value].                             *)
Newer(m, current) ==
    \/ m.step > current.step
    \/ m.step = current.step /\ m.timestamp > current.timestamp
    \/ /\ m.step = current.step /\ m.timestamp = current.timestamp
       /\ Rank(m.v) > Rank(current.v)

MergeMetric(summary, m) ==
    IF summary[m.k] = NoMetric \/ Newer(m, summary[m.k])
    THEN [summary EXCEPT ![m.k] = RunPoint(m)]
    ELSE summary

MergeMetrics(summary, ms) ==
    LET merged[i \in 0..Len(ms)] ==
           IF i = 0 THEN summary ELSE MergeMetric(merged[i - 1], ms[i])
    IN  merged[Len(ms)]

MergeParams(old, new) ==
    [k \in ParamKeys |-> IF new[k] = NoParam THEN old[k] ELSE new[k]]

Conflicts(old, new) ==
    {k \in ParamKeys : /\ old[k] # NoParam /\ new[k] # NoParam
                       /\ old[k] # new[k]}

RunDataTypeOK ==
    /\ stage \in {"active", "deleted"}
    /\ params \in [ParamKeys -> ParamValues \union {NoParam}]
    /\ latest \in [MetricKeys -> Metric \union {NoMetric}]
    /\ \A k \in MetricKeys : latest[k] # NoMetric => latest[k].k = k
    /\ points \subseteq Metric
    /\ \A p, q \in points : Identity(p) = Identity(q) => p = q
    /\ pc \in [Calls -> Phases]
    /\ batch \in [Calls -> Batch]
    /\ todo \in [Calls -> Seq(Metric)]
    /\ \A c \in Calls : pc[c] \in {"find", "insert"} => todo[c] # <<>>
    /\ error \in [Calls -> Errors]
    /\ faults \in 0..MaxFaults

Init ==
    /\ stage = "active"
    /\ params = [k \in ParamKeys |-> NoParam]
    /\ latest = [k \in MetricKeys |-> NoMetric]
    /\ points = {}
    /\ pc = [c \in Calls |-> "idle"]
    /\ batch \in Workloads
    /\ todo = [c \in Calls |-> <<>>]
    /\ error = [c \in Calls |-> "none"]
    /\ faults = 0

-----------------------------------------------------------------------------
(* An operator whose name has a suffix is a mistake the one without could   *)
(* contain, not part of the model.                                         *)

Goto(c, phase) == pc' = [pc EXCEPT ![c] = phase]

Fail(c, e) ==
    /\ Goto(c, "failed")
    /\ error' = [error EXCEPT ![c] = e]

(* The documents q remain to be upserted by c.                             *)
Continue(c, q) ==
    /\ todo' = [todo EXCEPT ![c] = q]
    /\ Goto(c, IF q = <<>> THEN "reply" ELSE "find")
    /\ UNCHANGED error

(* delete_run, restore_run, or the deletion or restoration of the          *)
(* experiment.                                                             *)
MoveRun ==
    /\ stage' = IF stage = "active" THEN "deleted" ELSE "active"
    /\ UNCHANGED <<params, latest, points, pc, batch, todo, error, faults>>

Arrive(c) ==
    /\ pc[c] = "idle"
    /\ Goto(c, "update")
    /\ UNCHANGED <<stage, params, latest, points, batch, todo, error, faults>>

UpdateRun_ChecksParamsAfterwards(c) ==
    LET b == batch[c] IN
    /\ pc[c] = "update"
    /\ stage = "active"
    /\ params' = MergeParams(params, b.params)
    /\ latest' = MergeMetrics(latest, b.metrics)
    /\ IF Conflicts(params, b.params) = {}
       THEN Continue(c, MetricDocuments(b.metrics))
       ELSE Fail(c, "param_conflict") /\ UNCHANGED todo
    /\ UNCHANGED <<stage, points, batch, faults>>

(* One find_one_and_update; the document it returns, as it was before,     *)
(* tells the call which condition did not hold.                            *)
UpdateRun(c) ==
    LET b == batch[c] IN
    /\ pc[c] = "update"
    /\ \/ /\ stage = "active" /\ Conflicts(params, b.params) = {}
          /\ params' = MergeParams(params, b.params)
          /\ latest' = MergeMetrics(latest, b.metrics)
          /\ Continue(c, MetricDocuments(b.metrics))
       \/ /\ stage = "deleted"
          /\ Fail(c, "not_active")
          /\ UNCHANGED <<params, latest, todo>>
       \/ /\ stage = "active" /\ Conflicts(params, b.params) # {}
          /\ Fail(c, "param_conflict")
          /\ UNCHANGED <<params, latest, todo>>
    /\ UNCHANGED <<stage, points, batch, faults>>

(* An upsert looks for exactly its document ...                            *)
FindPoint(c) ==
    /\ pc[c] = "find"
    /\ IF Head(todo[c]) \in points
       THEN Continue(c, Tail(todo[c]))
       ELSE Goto(c, "insert") /\ UNCHANGED <<todo, error>>
    /\ UNCHANGED <<stage, params, latest, points, batch, faults>>

InsertPoint_RetriesConflicts(c) ==
    LET p == Head(todo[c])
        same == {q \in points : Identity(q) = Identity(p)} IN
    /\ pc[c] = "insert"
    /\ IF same = {}
       THEN points' = points \union {p} /\ Continue(c, Tail(todo[c]))
       ELSE Goto(c, "find") /\ UNCHANGED <<points, todo, error>>
    /\ UNCHANGED <<stage, params, latest, batch, faults>>

InsertPoint_IgnoresIndexes(c) ==
    /\ pc[c] = "insert"
    /\ points' = points \union {Head(todo[c])}
    /\ Continue(c, Tail(todo[c]))
    /\ UNCHANGED <<stage, params, latest, batch, faults>>

InsertPoint_SkipsDuplicates(c) ==
    /\ pc[c] = "insert"
    /\ points' = IF \E q \in points : Identity(q) = Identity(Head(todo[c]))
                 THEN points ELSE points \union {Head(todo[c])}
    /\ Continue(c, Tail(todo[c]))
    /\ UNCHANGED <<stage, params, latest, batch, faults>>

(* ... and inserts it.  A unique index that has the identity already       *)
(* raises an error, which ends the ordered bulk write; when the other      *)
(* insert was concurrent the server may repeat the upsert instead.         *)
InsertPoint(c) ==
    LET p == Head(todo[c])
        same == {q \in points : Identity(q) = Identity(p)} IN
    /\ pc[c] = "insert"
    /\ \/ /\ same = {}
          /\ points' = points \union {p}
          /\ Continue(c, Tail(todo[c]))
       \/ /\ same # {}
          /\ Fail(c, "persistence")
          /\ UNCHANGED <<points, todo>>
       \/ /\ same # {} /\ p \in points
          /\ Goto(c, "find")
          /\ UNCHANGED <<points, todo, error>>
    /\ UNCHANGED <<stage, params, latest, batch, faults>>

Return(c) ==
    /\ pc[c] = "reply"
    /\ Goto(c, "done")
    /\ UNCHANGED <<stage, params, latest, points, batch, todo, error, faults>>

(* An operation fails, or it is applied and its reply is lost (the call is *)
(* one phase further then).  Nothing is undone.                            *)
Fault(c) ==
    /\ Running(c)
    /\ faults < MaxFaults
    /\ faults' = faults + 1
    /\ Fail(c, "persistence")
    /\ UNCHANGED <<stage, params, latest, points, batch, todo>>

CallStep(c) ==
    UpdateRun(c) \/ FindPoint(c) \/ InsertPoint(c) \/ Return(c)

Next ==
    \/ \E c \in Calls : Arrive(c) \/ CallStep(c) \/ Fault(c)
    \/ MoveRun

Spec == Init /\ [][Next]_vars

FairSpec == Spec /\ \A c \in Calls : WF_vars(CallStep(c))

-----------------------------------------------------------------------------
(***************************************************************************)
(* Properties.                                                             *)
(***************************************************************************)

(* The documents the history gets from c when c does not fail.             *)
Documents(c) ==
    LET q == MetricDocuments(batch[c].metrics) IN {q[i] : i \in DOMAIN q}

(* Calls whose summary update has been applied, with the history pending   *)
(* or given up.                                                            *)
Unfinished(c) == pc[c] \in {"find", "insert"} \/ error[c] = "persistence"

(* A parameter never changes once it is logged                             *)
(* (test_run_contract.py:209).                                             *)
ParamsAreImmutable ==
    [][\A k \in ParamKeys : params[k] # NoParam => params'[k] = params[k]]_vars

(* The latest metric is the one with the greatest step, then time, then    *)
(* value of the whole history, in whatever order the batches arrive; and   *)
(* it is in the history itself unless the call that logged it still has to *)
(* write it or failed with a database error (runs.py:576;                  *)
(* test_run_contract.py:102).                                              *)
LatestIsNewestOfHistory ==
    LET Logged(k) == {p \in points : p.k = k /\ p.model = NoModel}
        LastStep(S) == {p \in S : \A q \in S : q.step <= p.step}
        LastTime(S) == {p \in S : \A q \in S : q.timestamp <= p.timestamp}
        Greatest(S) == {p \in S : \A q \in S : Rank(q.v) <= Rank(p.v)} IN
    \A k \in MetricKeys :
       \/ latest[k] = NoMetric /\ Logged(k) = {}
       \/ /\ latest[k] \in
                Greatest(LastTime(LastStep(Logged(k) \union {latest[k]})))
          /\ \/ latest[k] \in points
             \/ \E c \in Calls : Unfinished(c) /\ latest[k] \in Documents(c)

(* A call that returned has all its points in the history, of the run and  *)
(* of the models, and its parameters in the run, for good (runs.py:502).   *)
AcknowledgedBatchesStored ==
    \A c \in Calls : pc[c] = "done" =>
       /\ Documents(c) \subseteq points
       /\ MergeParams(params, batch[c].params) = params

(* Every call that arrived returns: repeating an upsert finds the document *)
(* it collided with.                                                       *)
EveryBatchReturns == \A c \in Calls : pc[c] = "update" ~> ~Running(c)
=============================================================================
