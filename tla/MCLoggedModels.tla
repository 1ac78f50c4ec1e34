--------------------------- MODULE MCLoggedModels ---------------------------
(* Small instances of LoggedModels for TLC. *)
EXTENDS LoggedModels, TLC

CONSTANTS c1, c2, c3, c4,
          A, B,  \* datasets
          k1     \* a parameter and a tag

All == {None, A, B}

Point(m, k, v, time, step, run, d, id) ==
    [model |-> m, k |-> k, v |-> v, timestamp |-> time, step |-> step,
     run |-> run, dataset |-> d, oid |-> id]

(* Metric "a" of model 2 improves, in other datasets; model 3 has points   *)
(* that only the run or the document tells apart, and NaN; the newest      *)
(* points are of metric "b".                                               *)
Logged == {Point(2, "a", 1, 1, 1, 1, A, 1), Point(2, "a", 2, 2, 1, 1, B, 2),
           Point(2, "b", 1, 3, 0, 1, B, 3), Point(3, "a", 2, 1, 1, 2, A, 4),
           Point(3, "a", 0, 1, 1, 1, A, 5), Point(3, "a", 1, 1, 0, 1, None, 6)}
Later  == {Point(3, "a", NaN, 2, 1, 1, B, 7), Point(4, "a", NaN, 1, 1, 1, A, 8),
           Point(4, "b", 2, 2, 0, 1, A, 9), Point(2, "a", 0, 1, 2, 1, A, 10)}
MCMetrics == Logged \union Later

Doc(type, time, v) ==
    [experiment |-> 1, status |-> "PENDING", stage |-> "active",
     model_type |-> type, params |-> [k \in Keys |-> v],
     tags |-> [k \in Keys |-> v], created |-> time]

MCDatabases ==
    {[models |-> 2 :> Doc(None, 1, 0) @@ 3 :> Doc(1, 1, None) @@ 4 :> Doc(0, 2, 1)
                 @@ 5 :> [Doc(1, 2, 1) EXCEPT !.experiment = 2],
      points |-> Logged]}

(* Queries. *)
MetricFilter(k, comparator, v) ==
    [type |-> "metric", key |-> k, comparator |-> comparator, value |-> v]
Filter(type, comparator, values) ==
    [type |-> type, key |-> k1, comparator |-> comparator, values |-> values]
MetricOrder(k, ascending, scope) ==
    [type |-> "metric", key |-> k, ascending |-> ascending, scope |-> scope]

Query(filters, datasets, orders) ==
    [experiments |-> {1}, filters |-> filters, datasets |-> datasets,
     orders |-> orders]

FilterSets == {{},
               {MetricFilter("a", "<", 2)},
               {MetricFilter("a", ">=", 2), MetricFilter("a", "<=", 0)},
               {MetricFilter("a", "!=", 1), MetricFilter("b", ">", 0)},
               {MetricFilter("a", "!=", 2), MetricFilter("a", "<=", 0)},
               {Filter("attribute", "NOT IN", {1})},
               {Filter("attribute", "NOT IN", {})},
               {Filter("param", "NOT IN", {}), Filter("tag", "IN", {0, 1})},
               {Filter("param", "IN", {0, 1}), MetricFilter("a", "=", 2)},
               {Filter("tag", "NOT IN", {0}), Filter("attribute", "IN", {0, 1})}}

OrderLists == {<<>>,
               <<AttributeOrder("model_type", TRUE)>>,
               <<AttributeOrder("model_type", FALSE),
                 AttributeOrder("model_id", FALSE)>>,
               <<MetricOrder("a", TRUE, All)>>,
               <<MetricOrder("a", FALSE, {A}), MetricOrder("a", TRUE, {A}),
                 MetricOrder("b", TRUE, All)>>}

Default == Query({}, {}, <<>>)

Request0(op) ==
    [op |-> op, model |-> 3, experiment |-> 1, model_type |-> None,
     status |-> "READY", entries |-> [k \in Keys |-> None], key |-> k1,
     metric |-> Point(2, "a", 0, 1, 2, 1, A, 10)]
Entry(op, v) == [Request0(op) EXCEPT !.entries = [k \in Keys |-> v]]
Log(p) == [Request0("log_metric") EXCEPT !.metric = p]
Of(m, r) == [r EXCEPT !.model = m]

Requests(r1, r2, r3, r4) == c1 :> r1 @@ c2 :> r2 @@ c3 :> r3 @@ c4 :> r4
Work(requests, q, size) == [requests |-> requests, query |-> q, limit |-> size]

(* Every query while metrics are logged; records that overlap; the updates *)
(* of one model; pages of one and two models while some are created,       *)
(* deleted, or overtake each other.                                        *)
MCWorkloads ==
    {Work(Requests(Request0("search"), Log(Point(3, "a", NaN, 2, 1, 1, B, 7)),
                   Log(Point(4, "a", NaN, 1, 1, 1, A, 8)),
                   Log(Point(4, "b", 2, 2, 0, 1, A, 9))),
          Query(filters, datasets, orders), 3) :
       filters \in FilterSets, datasets \in {{}, {A}}, orders \in OrderLists}
    \union
    {Work(Requests(Request0("record"), Request0("record"), Request0("record"),
                   Request0("finalize")), Default, 1),
     Work(Requests(Entry("log_params", 1), Entry("log_params", 1),
                   Entry("set_tags", 2), Request0("delete_tag")), Default, 1),
     Work(Requests(Of(1, Request0("delete")), Entry("create", 2),
                   Of(1, Entry("log_params", 2)), Of(1, Request0("delete_tag"))),
          Default, 1)}
    \union
    {Work(Requests(Request0("search"), Entry("create", 1), Request0("delete"),
                   Log(Point(2, "a", 0, 1, 2, 1, A, 10))),
          Query({}, {}, orders), size) : size \in 1..2,
       orders \in {<<>>, <<MetricOrder("a", FALSE, {A})>>}}
=============================================================================
