------------------------- MODULE LoggedModelSearch -------------------------
(***************************************************************************)
(* What search_logged_models returns, as operators on the logged models    *)
(* and the metric documents (repositories/logged_models.py).               *)
(*                                                                         *)
(* SearchResults is the pipeline of the repository: the metric documents   *)
(* that some filter or order needs are fetched per model and grouped into  *)
(* one flag per filter and one value per order; then the models are sorted *)
(* with missing values last.  ExpectedResult says what a search is for.    *)
(*                                                                         *)
(* A dataset is a name with a digest; a scope is the set of datasets it    *)
(* matches.  Names and strings are numbers, whose order is theirs.         *)
(***************************************************************************)
EXTENDS Integers, Sequences, FiniteSets

Ext == INSTANCE SequencesExt

CONSTANTS None,  \* missing value
          NaN

ASSUME NaNAssumption == None \notin Int /\ NaN \notin Int

Attributes == {"model_id", "creation_timestamp", "model_type"}

AttributeOrder(key, ascending) ==
    [type |-> "attribute", key |-> key, ascending |-> ascending, scope |-> {}]

-----------------------------------------------------------------------------
(* Conditions.                                                             *)

(* An aggregation expression orders NaN below all numbers ...              *)
Below(v) == IF v = NaN THEN -1 ELSE v

Compare(comparator, v, value) ==
    CASE comparator = "="  -> Below(v) = value
      [] comparator = "!=" -> Below(v) # value
      [] comparator = "<"  -> Below(v) < value
      [] comparator = "<=" -> Below(v) <= value
      [] comparator = ">"  -> Below(v) > value
      [] comparator = ">=" -> Below(v) >= value

(* ... and a $match finds NaN neither above nor below a number.            *)
Matches(comparator, v, value) ==
    IF v = NaN THEN comparator = "!=" ELSE Compare(comparator, v, value)

(* = and != are the cases with one value.  A missing value matches only an *)
(* empty NOT IN, which asks for the existence of the field and nothing     *)
(* else: an attribute is stored as a null, a parameter or tag is not.      *)
ValueMatches(f, v) ==
    \/ f.comparator = "IN" /\ v \in f.values
    \/ /\ f.comparator = "NOT IN"
       /\ v \notin f.values
       /\ v = None => f.type = "attribute" /\ f.values = {}

(* Field of a model that a filter is about; an array has an entry for the  *)
(* key or not.                                                             *)
FieldOf(doc, f) == CASE f.type = "attribute" -> doc.model_type
                     [] f.type = "param"     -> doc.params[f.key]
                     [] f.type = "tag"       -> doc.tags[f.key]

MetricFilters(q) == {f \in q.filters : f.type = "metric"}

Clauses(q, doc) ==
    /\ doc.experiment \in q.experiments
    /\ doc.stage # "deleted"
    /\ \A f \in q.filters \ MetricFilters(q) :
          ValueMatches(f, FieldOf(doc, f))

-----------------------------------------------------------------------------
(* The metrics of a model.                                                 *)

(* Orders, without repetitions and with the two that break ties.           *)
Orders(q) ==
    LET Has(key) == \E i \in DOMAIN q.orders : /\ q.orders[i].type = "attribute"
                                               /\ q.orders[i].key = key
        Missing(key, ascending) ==
            IF Has(key) THEN <<>> ELSE <<AttributeOrder(key, ascending)>>
        Identity(i) == [q.orders[i] EXCEPT !.ascending = TRUE]
        first == {i \in DOMAIN q.orders :
                     \A j \in 1..(i - 1) : Identity(i) # Identity(j)}
        kept == Ext!SetToSortSeq(first, <) IN
    [n \in DOMAIN kept |-> q.orders[kept[n]]]
       \o Missing("creation_timestamp", FALSE) \o Missing("model_id", TRUE)

MetricOrders(q) ==
    {o \in {Orders(q)[i] : i \in DOMAIN Orders(q)} : o.type = "metric"}

InDatasets(q, p) == q.datasets = {} \/ p.dataset \in q.datasets

InScope(o, p) == p.k = o.key /\ p.dataset \in o.scope

(* Rows that a filter or an order needs.                                   *)
Fetched(q, p) ==
    \/ \E f \in MetricFilters(q) : /\ p.k = f.key /\ InDatasets(q, p)
                                   /\ Matches(f.comparator, p.v, f.value)
    \/ MetricFilters(q) = {} /\ q.datasets # {} /\ InDatasets(q, p)
    \/ \E o \in MetricOrders(q) : InScope(o, p)

Rows(q, points, m) == {p \in points : p.model = m /\ Fetched(q, p)}

(* Sorted by time and step, newest first, then by run and document.        *)
Newest(p, r) ==
    \/ p.timestamp > r.timestamp
    \/ p.timestamp = r.timestamp /\ p.step > r.step
    \/ p.timestamp = r.timestamp /\ p.step = r.step /\ p.run < r.run
    \/ /\ p.timestamp = r.timestamp /\ p.step = r.step /\ p.run = r.run
       /\ p.oid < r.oid

Top_OfAllRows(o, rows) ==
    LET first == CHOOSE p \in rows : \A r \in rows \ {p} : Newest(p, r) IN
    IF rows = {} THEN None
    ELSE IF InScope(o, first) THEN first.v ELSE None

(* The rows in the order's scope come first.                               *)
Top(o, rows) ==
    LET Above(p, r) == \/ InScope(o, p) /\ ~InScope(o, r)
                       \/ (InScope(o, p) <=> InScope(o, r)) /\ Newest(p, r)
        first == CHOOSE p \in rows : \A r \in rows \ {p} : Above(p, r) IN
    IF rows = {} THEN None
    ELSE IF InScope(o, first) THEN first.v ELSE None

(* Flags and values; one flag per filter, each from any row.               *)
RequiredMatches(q, rows) ==
    /\ \A f \in MetricFilters(q) :
          \E p \in rows : /\ p.k = f.key /\ InDatasets(q, p)
                          /\ Compare(f.comparator, p.v, f.value)
    /\ (MetricFilters(q) = {} /\ q.datasets # {}) =>
          \E p \in rows : InDatasets(q, p)

-----------------------------------------------------------------------------
(* The order.                                                              *)

(* What a model is sorted by: missing values sort below all others.        *)
SortValue(q, o, models, points, m) ==
    LET v == IF o.type = "metric" THEN Top(o, Rows(q, points, m))
             ELSE CASE o.key = "model_id"           -> m
                    [] o.key = "creation_timestamp" -> models[m].created
                    [] o.key = "model_type"         -> models[m].model_type IN
    IF v = None THEN -2 ELSE Below(v)

(* Two numbers per order: the rank that moves missing values of an         *)
(* ascending order to the end, and the value, negated to descend.          *)
SortKey(q, models, points, m) ==
    LET orders == Orders(q) IN
    [i \in 1..(2 * Len(orders)) |->
        LET o == orders[(i + 1) \div 2]
            v == SortValue(q, o, models, points, m) IN
        IF i % 2 = 1 THEN IF o.ascending /\ v = -2 THEN 1 ELSE 0
        ELSE IF o.ascending THEN v ELSE -v]

LexLess(s, t) ==
    \E i \in DOMAIN s : s[i] < t[i] /\ \A j \in 1..(i - 1) : s[j] = t[j]

(* What a search finds, before skip and limit: the matching models, each   *)
(* once, sorted by their keys.  (The last order is the id, so there is one *)
(* such sequence; that is not used here.)                                  *)
SearchResults(q, models, points) ==
    LET matching == {m \in DOMAIN models :
                        /\ Clauses(q, models[m])
                        /\ RequiredMatches(q, Rows(q, points, m))}
        key == [m \in matching |-> SortKey(q, models, points, m)]
        places == 1..Cardinality(matching) IN
    {s \in [places -> matching] :
        \A i, j \in places : i < j => /\ s[i] # s[j]
                                     /\ ~LexLess(key[s[j]], key[s[i]])}

-----------------------------------------------------------------------------
(* What a search is for.                                                   *)

(* A filter on a metric is about any point of the model's history, in the  *)
(* datasets if some are given.                                             *)
InHistory(q, f, points, m) ==
    \E p \in points : /\ p.model = m /\ p.k = f.key /\ InDatasets(q, p)
                      /\ Matches(f.comparator, p.v, f.value)

(* Any other filter is about a row: that of the model, with its attributes *)
(* and their nulls, or those of its parameters or tags, which have no      *)
(* nulls.  A row is accepted if it equals one of the values, or compares   *)
(* unequal to each of them; a null does neither.                           *)
Accepted(f, doc) ==
    \E row \in CASE f.type = "attribute" -> {doc.model_type}
                 [] f.type = "param"     -> {doc.params[f.key]} \ {None}
                 [] f.type = "tag"       -> {doc.tags[f.key]} \ {None} :
       IF f.comparator = "IN" THEN \E x \in f.values : row = x
       ELSE \A x \in f.values : row # None /\ row # x

Wanted(q, models, points, m) ==
    /\ models[m].experiment \in q.experiments /\ models[m].stage = "active"
    /\ \A f \in q.filters : IF f.type = "metric" THEN InHistory(q, f, points, m)
                            ELSE Accepted(f, models[m])
    /\ (MetricFilters(q) = {} /\ q.datasets # {}) =>
          \E p \in points : p.model = m /\ p.dataset \in q.datasets

(* The latest value of a metric: by time, step, run, document.             *)
LatestValue(o, points, m) ==
    LET scope == {p \in points : p.model = m /\ InScope(o, p)} IN
    IF scope = {} THEN None
    ELSE LET T == {p \in scope : \A r \in scope : r.timestamp <= p.timestamp}
             S == {p \in T : \A r \in T : r.step <= p.step}
             R == {p \in S : \A r \in S : p.run <= r.run} IN
         (CHOOSE p \in R : \A r \in R : p.oid <= r.oid).v

(* m comes before n by order o; a missing value last in either direction,  *)
(* NaN below all numbers.                                                  *)
ComesBefore(o, models, points, m, n) ==
    LET V(x) == IF o.type = "metric" THEN LatestValue(o, points, x)
                ELSE CASE o.key = "model_id"           -> x
                       [] o.key = "creation_timestamp" -> models[x].created
                       [] o.key = "model_type"         -> models[x].model_type IN
    /\ V(m) # None
    /\ \/ V(n) = None
       \/ o.ascending /\ Below(V(m)) < Below(V(n))
       \/ ~o.ascending /\ Below(V(m)) > Below(V(n))

(* A sequence of exactly the wanted models, in the order of the first of   *)
(* the orders that tells two of them apart.                                *)
ExpectedResult(q, models, points, s) ==
    /\ {s[i] : i \in DOMAIN s} = {m \in DOMAIN models : Wanted(q, models, points, m)}
    /\ \A i, j \in DOMAIN s : i < j =>
          \E n \in DOMAIN Orders(q) :
             /\ ComesBefore(Orders(q)[n], models, points, s[i], s[j])
             /\ \A k \in 1..(n - 1) :
                   ~ComesBefore(Orders(q)[k], models, points, s[j], s[i])

(* A point with value NaN that a filter with < or <= rejects, but that is  *)
(* fetched for an order or another filter: the flag is set by an           *)
(* expression that takes NaN for a small number.                           *)
NaNInScope(q, points) ==
    \E f \in MetricFilters(q), p \in points :
       /\ p.v = NaN /\ p.k = f.key /\ InDatasets(q, p)
       /\ f.comparator \in {"<", "<="}
       /\ Fetched(q, p)
=============================================================================
