---------------------------- MODULE LoggedModels ----------------------------
(***************************************************************************)
(* Logged models (tracking/store.py, repositories/logged_models.py).       *)
(*                                                                         *)
(* A logged model is one document, and every change of it one update.      *)
(* What takes several steps is create_logged_model, which checks the       *)
(* experiment before it inserts; record_logged_model, which reads a tag of *)
(* the run, appends an entry and writes the tag back; and a search whose   *)
(* client asks for one page after another while models are created,        *)
(* changed and deleted.                                                    *)
(*                                                                         *)
(* The experiment may be active or not when it is read (ExperimentRuns     *)
(* says when).  The metrics of models are written by log_batch (RunData).  *)
(* One aggregation reads everything at once.  Reading the metric histories *)
(* of a page, names, locations and times of change are left out.           *)
(***************************************************************************)
EXTENDS LoggedModelSearch

CONSTANTS Calls,
          ModelIds,     \* ids the uuids are drawn from
          Experiments,
          Keys,         \* of parameters and tags
          Values,       \* of parameters, tags and model types
          Times,        \* creation timestamps the servers' clocks may give
          Metrics,      \* metric documents that may be logged
          Databases,    \* models and metric documents there are at first
          Workloads,    \* what the calls may be asked to do, for all of them
          MaxFaults     \* bound on the failing database operations

Entries == [Keys -> Values \union {None}]

Model == [experiment : Experiments,
          status     : {"PENDING", "READY", "FAILED"},
          stage      : {"active", "deleted"},
          model_type : Values \union {None},
          params     : Entries,
          tags       : Entries,
          created    : Times]

Ops == {"create", "finalize", "delete", "log_params", "set_tags",
        "delete_tag", "log_metric", "record", "search"}

Request == [op          : Ops,
            model       : ModelIds,            \* all but create, search, record
            experiment  : Experiments,         \* create
            model_type  : Values \union {None},  \* create
            status      : {"READY", "FAILED"}, \* finalize
            entries     : Entries,             \* params and tags
            key         : Keys,                \* delete_tag
            metric      : Metrics]             \* log_metric

ASSUME ValuesAssumption ==
    /\ ModelIds \subseteq Nat /\ Values \subseteq Nat /\ Times \subseteq Nat
    /\ \A p \in Metrics : p.v = NaN \/ p.v \in Nat

ASSUME DatabasesAssumption ==
    \A d \in Databases : /\ IsFiniteSet(DOMAIN d.models)
                         /\ DOMAIN d.models \subseteq ModelIds
                         /\ \A m \in DOMAIN d.models : d.models[m] \in Model
                         /\ d.points \subseteq Metrics

(* A search has a query and a limit, too.                                  *)
ASSUME WorkloadsAssumption ==
    \A w \in Workloads : /\ w.requests \in [Calls -> Request]
                         /\ w.limit \in Nat \ {0}

ASSUME FaultsAssumption == MaxFaults \in Nat

VARIABLES
    models,    \* logged-model documents, by id
    points,    \* metric documents of models
    runStage,  \* life-cycle stage of the run the models are recorded in
    entries,   \* the run's tag: the record calls whose entries are in it
    pc,        \* pc[c]: the next operation of call c
    work,      \* the requests of the calls, the query and the page size
    seen,      \* seen[c]: the tag that c read
    pages,     \* pages[c]: the pages the client c got so far
    error,     \* error[c]: what c raises to its client
    faults,    \* number of database operations that have failed
    wrote,     \* history: calls that wrote the tag, in order
    before,    \* history: before[c]: wrote when c read the tag
    results    \* history: results[c]: what each page of c was cut from

documents == <<models, points, runStage, entries>>
history == <<wrote, before, results>>
vars == <<models, points, runStage, entries, pc, work, seen, pages, error,
          faults, wrote, before, results>>

-----------------------------------------------------------------------------

Errors == {"none", "not_found", "tag_not_found", "not_active", "exists",
           "persistence"}

Phases == {"idle", "find_experiment", "insert", "update", "read_run",
           "write_tag", "page", "reply", "done", "failed"}

request == work.requests
query == work.query

Running(c) == pc[c] \notin {"idle", "done", "failed"}

Elements(s) == {s[i] : i \in DOMAIN s}

Offset(c) == Len(pages[c]) * work.limit

FirstOperation(op) == CASE op = "create" -> "find_experiment"
                        [] op = "record" -> "read_run"
                        [] op = "search" -> "page"
                        [] OTHER         -> "update"

TypeOK ==
    /\ DOMAIN models \subseteq ModelIds
    /\ \A m \in DOMAIN models : models[m] \in Model
    /\ points \subseteq Metrics
    /\ runStage \in {"active", "deleted"}
    /\ pc \in [Calls -> Phases]
    /\ work \in Workloads
    /\ {entries} \union {seen[c] : c \in Calls} \subseteq Seq(Calls)
    /\ \A c \in Calls : \A i \in DOMAIN pages[c] :
          /\ Elements(pages[c][i]) \subseteq DOMAIN models
          /\ Len(pages[c][i]) <= work.limit
          /\ (i < Len(pages[c]) \/ pc[c] = "page") =>
                Len(pages[c][i]) = work.limit
    /\ error \in [Calls -> Errors]
    /\ faults \in 0..MaxFaults
    /\ \A c \in Calls : before[c] \in Seq(Calls)
    /\ wrote \in Seq(Calls)
    /\ \A c \in Calls : Len(results[c]) = Len(pages[c])

Init ==
    /\ \E d \in Databases : models = d.models /\ points = d.points
    /\ runStage = "active"
    /\ entries = <<>>
    /\ pc = [c \in Calls |-> "idle"]
    /\ work \in Workloads
    /\ seen = [c \in Calls |-> <<>>]
    /\ pages = [c \in Calls |-> <<>>]
    /\ error = [c \in Calls |-> "none"]
    /\ faults = 0
    /\ wrote = <<>>
    /\ before = [c \in Calls |-> <<>>]
    /\ results = [c \in Calls |-> <<>>]

-----------------------------------------------------------------------------
(* Steps of a call that its actions share.  An operator whose name has a   *)
(* suffix is a mistake the one without could contain, not part of the      *)
(* model.                                                                  *)

Goto(c, phase) == pc' = [pc EXCEPT ![c] = phase]

Proceed(c, phase) == Goto(c, phase) /\ UNCHANGED error

Fail(c, e) ==
    /\ Goto(c, "failed")
    /\ error' = [error EXCEPT ![c] = e]

Merge(old, new) ==
    [k \in Keys |-> IF new[k] = None THEN old[k] ELSE new[k]]

Arrive(c) ==
    /\ pc[c] = "idle"
    /\ Proceed(c, FirstOperation(request[c].op))
    /\ UNCHANGED <<documents, work, seen, pages, faults, history>>

(* delete_run or restore_run.                                              *)
MoveRun ==
    /\ \E c \in Calls : request[c].op = "record"
    /\ runStage' = IF runStage = "active" THEN "deleted" ELSE "active"
    /\ UNCHANGED <<models, points, entries, pc, work, seen, pages, error, faults,
                   history>>

-----------------------------------------------------------------------------
(* create_logged_model *)

FindExperiment(c) ==
    /\ pc[c] = "find_experiment"
    /\ Proceed(c, "insert") \/ Fail(c, "not_active")
    /\ UNCHANGED <<documents, work, seen, pages, faults, history>>

(* The timestamp was taken by the server, before the insert.               *)
InsertModel(c) ==
    LET r == request[c] IN
    /\ pc[c] = "insert"
    /\ \E m \in ModelIds \ DOMAIN models, t \in Times :
          models' = [x \in DOMAIN models \union {m} |->
                       IF x = m
                       THEN [experiment |-> r.experiment, status |-> "PENDING",
                             stage |-> "active", model_type |-> r.model_type,
                             params |-> r.entries, tags |-> r.entries,
                             created |-> t]
                       ELSE models[x]]
    /\ Proceed(c, "reply")
    /\ UNCHANGED <<points, runStage, entries, work, seen, pages, faults, history>>

-----------------------------------------------------------------------------
(* One update of the model document, whether or not it is deleted.         *)

(* The update of c changes model m to doc ...                              *)
UpdateModel(c, m, doc) ==
    /\ pc[c] = "update"
    /\ models' = [models EXCEPT ![m] = doc]
    /\ Proceed(c, "reply")
    /\ UNCHANGED <<points, runStage, entries, work, seen, pages, faults, history>>

(* ... or finds a reason not to.                                           *)
Refuse(c, e) ==
    /\ pc[c] = "update"
    /\ Fail(c, e)
    /\ UNCHANGED <<documents, work, seen, pages, faults, history>>

ModelMissing(c) ==
    /\ request[c].op \in Ops \ {"log_metric"}
    /\ request[c].model \notin DOMAIN models
    /\ Refuse(c, "not_found")

Finalize(c) ==
    LET m == request[c].model IN
    /\ request[c].op = "finalize" /\ m \in DOMAIN models
    /\ UpdateModel(c, m, [models[m] EXCEPT !.status = request[c].status])

MarkDeleted(c) ==
    LET m == request[c].model IN
    /\ request[c].op = "delete" /\ m \in DOMAIN models
    /\ UpdateModel(c, m, [models[m] EXCEPT !.stage = "deleted"])

(* No key may be there, even with the same value.                          *)
LogParams(c) ==
    LET m == request[c].model
        new == request[c].entries
        taken == \E k \in Keys : new[k] # None /\ models[m].params[k] # None IN
    /\ request[c].op = "log_params" /\ m \in DOMAIN models
    /\ IF taken THEN Refuse(c, "exists")
       ELSE UpdateModel(c, m, [models[m] EXCEPT !.params = Merge(@, new)])

SetTags(c) ==
    LET m == request[c].model IN
    /\ request[c].op = "set_tags" /\ m \in DOMAIN models
    /\ UpdateModel(c, m,
                   [models[m] EXCEPT !.tags = Merge(@, request[c].entries)])

DeleteTag(c) ==
    LET m == request[c].model
        k == request[c].key IN
    /\ request[c].op = "delete_tag" /\ m \in DOMAIN models
    /\ IF models[m].tags[k] = None THEN Refuse(c, "tag_not_found")
       ELSE UpdateModel(c, m, [models[m] EXCEPT !.tags[k] = None])

(* The part of log_batch that concerns a model, which need not exist.      *)
LogMetric(c) ==
    /\ request[c].op = "log_metric"
    /\ pc[c] = "update"
    /\ points' = points \union {request[c].metric}
    /\ Proceed(c, "reply")
    /\ UNCHANGED <<models, runStage, entries, work, seen, pages, faults, history>>

-----------------------------------------------------------------------------
(* record_logged_model *)

ReadRun(c) ==
    /\ pc[c] = "read_run"
    /\ IF runStage = "active"
       THEN /\ seen' = [seen EXCEPT ![c] = entries]
            /\ before' = [before EXCEPT ![c] = wrote]
            /\ Proceed(c, "write_tag")
       ELSE Fail(c, "not_active") /\ UNCHANGED <<seen, before>>
    /\ UNCHANGED <<documents, work, pages, faults, wrote, results>>

WriteTag_OwnEntry(c) ==
    /\ pc[c] = "write_tag"
    /\ IF runStage = "active"
       THEN /\ entries' = <<c>>
            /\ wrote' = Append(wrote, c)
            /\ Proceed(c, "reply")
       ELSE Fail(c, "not_active") /\ UNCHANGED <<entries, wrote>>
    /\ UNCHANGED <<models, points, runStage, work, seen, pages, faults, before,
                   results>>

(* log_batch with the tag alone; it checks the stage again, but not what   *)
(* the tag holds by now.                                                   *)
WriteTag(c) ==
    /\ pc[c] = "write_tag"
    /\ IF runStage = "active"
       THEN /\ entries' = Append(seen[c], c)
            /\ wrote' = Append(wrote, c)
            /\ Proceed(c, "reply")
       ELSE Fail(c, "not_active") /\ UNCHANGED <<entries, wrote>>
    /\ UNCHANGED <<models, points, runStage, work, seen, pages, faults, before,
                   results>>

-----------------------------------------------------------------------------
(* search_logged_models, until there is no next page.  The page token is an *)
(* offset; one model more than the page is read to know whether there is   *)
(* another page.                                                           *)

PageOf(s, first, size) ==
    SubSeq(s, first + 1, IF first + size < Len(s) THEN first + size ELSE Len(s))

HasMore_UntilEmpty(s, first, size) == first < Len(s)

HasMore(s, first, size) == Len(PageOf(s, first, size + 1)) > size

NextPage_OffsetFromPages(c) ==
    LET start == IF pages[c] = <<>> THEN 0 ELSE Offset(c) + 1 IN
    /\ pc[c] = "page"
    /\ \E found \in SearchResults(query, models, points) :
          /\ pages' = [pages EXCEPT
                         ![c] = Append(@, PageOf(found, start, work.limit))]
          /\ results' = [results EXCEPT ![c] = Append(@, found)]
          /\ Proceed(c, IF HasMore(found, start, work.limit) THEN "page"
                        ELSE "reply")
    /\ UNCHANGED <<documents, work, seen, faults, wrote, before>>

NextPage(c) ==
    /\ pc[c] = "page"
    /\ \E found \in SearchResults(query, models, points) :
          /\ pages' = [pages EXCEPT
                         ![c] = Append(@, PageOf(found, Offset(c), work.limit))]
          /\ results' = [results EXCEPT ![c] = Append(@, found)]
          /\ Proceed(c, IF HasMore(found, Offset(c), work.limit) THEN "page"
                        ELSE "reply")
    /\ UNCHANGED <<documents, work, seen, faults, wrote, before>>

-----------------------------------------------------------------------------

Return(c) ==
    /\ pc[c] = "reply"
    /\ Proceed(c, "done")
    /\ UNCHANGED <<documents, work, seen, pages, faults, history>>

(* An operation fails, or it is applied and its reply is lost (the call is *)
(* one phase further then).  Nothing is undone.                            *)
Fault(c) ==
    /\ Running(c)
    /\ faults < MaxFaults
    /\ faults' = faults + 1
    /\ Fail(c, "persistence")
    /\ UNCHANGED <<documents, work, seen, pages, history>>

AllReturned ==
    /\ \A c \in Calls : pc[c] \in {"done", "failed"}
    /\ UNCHANGED vars

CallStep(c) ==
    \/ FindExperiment(c) \/ InsertModel(c)
    \/ ModelMissing(c) \/ Finalize(c) \/ MarkDeleted(c) \/ LogParams(c)
    \/ SetTags(c) \/ DeleteTag(c) \/ LogMetric(c)
    \/ ReadRun(c) \/ WriteTag(c)
    \/ NextPage(c)
    \/ Return(c)

Next ==
    \/ \E c \in Calls : Arrive(c) \/ CallStep(c) \/ Fault(c)
    \/ MoveRun
    \/ AllReturned

Spec == Init /\ [][Next]_vars

-----------------------------------------------------------------------------
(***************************************************************************)
(* Properties.                                                             *)
(***************************************************************************)

(* The place of x in s; a place behind the end when x is not there.        *)
Place(s, x) == IF x \in Elements(s) THEN CHOOSE i \in DOMAIN s : s[i] = x
               ELSE Len(s) + 1

(* An entry that was written is missing from the run's tag only if another *)
(* call had read the tag before it was written and wrote its own list      *)
(* afterwards; what is there is in the order it was written, once each     *)
(* (store.py:2569; test_logged_model_contract.py:281).                     *)
RecordsLostOnlyByOverlap ==
    /\ \A i \in DOMAIN wrote :
          wrote[i] \notin Elements(entries) =>
             \E j \in DOMAIN wrote :
                j > i /\ wrote[i] \notin Elements(before[wrote[j]])
    /\ \A i, j \in DOMAIN entries :
          i < j => Place(wrote, entries[i]) < Place(wrote, entries[j])
    /\ \A c \in Calls :
          request[c].op = "record" /\ pc[c] = "done" => c \in Elements(wrote)

(* A client that follows the page tokens to the end gets every model that  *)
(* was found by all its requests, unless between two of them a model in    *)
(* front of it went away or fell behind it; and gets none twice, unless    *)
(* between two of them one came to stand in front of it (store.py:2402;    *)
(* test_logged_model_search.py:209).                                       *)
PagesFollowTheResult ==
    \A c \in Calls : (request[c].op = "search" /\ pc[c] = "done") =>
       LET s == results[c]
           Front(i, m) == {s[i][j] : j \in 1..(Place(s[i], m) - 1)}
           stable == {m \in DOMAIN models :
                         \A i \in DOMAIN s : m \in Elements(s[i])}
           Pages(m) == {i \in DOMAIN s : m \in Elements(pages[c][i])}
           steps == {i \in DOMAIN s : i > 1} IN
       \A m \in stable :
          /\ Pages(m) = {} =>
                \E i \in steps : ~(Front(i - 1, m) \subseteq Front(i, m))
          /\ (\E i, j \in Pages(m) : i # j) =>
                \E i \in steps : ~(Front(i, m) \subseteq Front(i - 1, m))

(* Every page is cut from exactly the models the query asks for, in its    *)
(* order: filters on metrics are satisfied by any points of the history,   *)
(* each in the datasets of the search, and orders use the latest value in  *)
(* their own scope, whatever else is fetched (logged_models.py:386).  The  *)
(* exception are values NaN that a filter with < rejects but that are      *)
(* fetched for something else: models may be found for them, too.          *)
SearchFindsExactly ==
    [][\A c \in Calls : results'[c] # results[c] =>
          LET found == results'[c][Len(results'[c])]
              page == pages'[c][Len(pages'[c])] IN
          /\ \/ ExpectedResult(query, models, points, found)
             \/ /\ NaNInScope(query, points)
                /\ \A m \in DOMAIN models : Wanted(query, models, points, m) =>
                      m \in Elements(found)
          /\ page = PageOf(found, Offset(c), work.limit)]_vars
=============================================================================
