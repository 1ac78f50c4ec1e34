# A TLA+ model of mlflow-mongodb

mlflow-mongodb is an MLflow backend that keeps everything MLflow tracks in
MongoDB: experiments, runs, traces, logged models and the model registry. The
server runs many threads (and usually several processes) against one database
and uses **no transactions**: an API call is a sequence of single-document
operations, and everything the store promises has to survive other calls
running between any two of them, operations that fail, and servers that stop.
That is what these modules are about.

Paths below are relative to `src/`; `store.py` alone is
`mlflow_mongodb/tracking/store.py`, the registry's is named in full.

## 1. Inventory

| Component | State it keeps | Operations | What is hard |
|---|---|---|---|
| Trace ingestion: `tracking/store.py` 1071-1136, 1310-1389, 1516-1608; `tracking/repositories/traces.py` | collections `traces`, `trace_spans`, `trace_assessments`; a `span_revision` per trace | `log_spans`, `start_trace` | several deliveries and reports of one trace in any order; an optimistic revision protocol with three attempts; bulk writes applied in part; one trace of a batch failing |
| Trace deletion: `traces.py` 944-992 | the same | `delete_traces` | three `delete_many` in a row against calls that are writing; a revision counter that is deleted with its document |
| Assessments, tags, links: `traces.py` 289-443, 611-940 | the same | create/update/delete assessment, set/delete tag, link prompts and runs | override chains over two documents; a kind checked before the update that may change it; assessments a client supplies again |
| Trace reads and search: `traces.py` 605-, `infrastructure/search_filters.py` | none | `get_trace`, `search_traces`, metrics | metadata and spans are read separately |
| Model registry: `model_registry/store.py`, `repositories/registered_models.py`, `repositories/model_versions.py` | collections `registered_models` (with `version_counter` and `aliases`) and `model_versions` | create, rename, delete model; create, transition, delete version; set, delete alias; reads and searches | a name is resolved once and the `_id` used afterwards; versions and aliases are in different documents; archiving is an `update_many` after the promotion |
| Experiments: `repositories/experiments.py` | `experiments`, `counters` | create, rename, delete, restore | default experiment created by every store; id counter; cascade over the runs |
| Runs: `repositories/runs.py` | `runs`, `metric_history`, inputs, outputs | create, update, delete, restore, `log_batch` | existence checked before the insert; immutable params; history written after the summary |
| Logged models: `repositories/logged_models.py`, `store.py` 2130-2655 | `logged_models`, metric documents, a run tag | create, finalize, delete, params, tags, `record_logged_model`, `search_logged_models` | `record_logged_model` reads, appends and writes back; filters and orders on metrics that share one pipeline; paging by offset over data that changes |
| Infrastructure: `infrastructure/` | none | `retry_on_exception`, `repository_operation`, `handle_persistence_error`, filters, settings | which errors are retried, translated and raised |
| Conversions: `tracking/types.py`, `model_registry/types.py`, `_compat.py` | none | records from and to documents | – |

The components meet in the database only. The stores call their repositories;
repositories turn a driver error into `RepositoryPersistenceError` and a missing
document into `RepositoryNotFoundError`; `handle_persistence_error` turns the
first into an `MlflowException` for the client, the calling method is
responsible for the second. `create_experiment`, `start_trace`, `log_spans` and
`create_run` read the experiment they belong to; `delete_experiment` and
`restore_experiment` write runs; `log_spans` and `start_trace` write the same
trace document.

What makes each component correct:

* **ingestion** – no stored span is forgotten by the summary in its trace
  document without a client having been told; a summary computed from fewer
  spans never replaces one computed from more; a call never writes a trace of
  another experiment; what a client reported is not overridden by what is
  derived from spans; every call ends.
* **deletion** – what it leaves behind is the work of calls that overlapped it;
  an interrupted deletion can be repeated; nobody waits for it.
* **registry** – version numbers are never reused; a deleted version stays
  deleted; an alias names a live version, a version has a model and an archived
  version was archived by somebody, except after the races the code admits.
* **experiments and runs** – one default experiment; ids unique; an active run
  is in an active experiment except after an admitted race.
* **log_batch** – params immutable, the latest metric is the latest of the
  history.
* **assessments** – what a stored assessment overrides is invalid, and an
  assessment is invalid for a reason that can be named.
* **logged models** – a recorded entry is lost only to an overlapping call; a
  search finds exactly what its query says, in its order, and a client that
  follows the pages to the end has seen it.

`PROJECT.json` lists the hazards of all of them, the ones no property covers yet
with the reason.

## 2. Modules

| Module | Models | Built on |
|---|---|---|
| `TraceCollections` | the three collections, the trace document, and the pure parts: `Finalize` (the `start_trace` pipeline), `SummaryState` (`_summarize_spans`), `ApplySpans` (the `update_span_summary` pipeline) | – |
| `SpanIngestion` | `log_spans` and `start_trace`, one action per database operation | `TraceCollections` |
| `TraceSummary` | abstract specification of a trace's summary | – |
| `TraceDeletion` | `delete_traces` running beside the calls of `SpanIngestion` | `SpanIngestion` |
| `ModelRegistry` | the calls of the model registry that change state | – |
| `ModelLifecycle` | abstract specification of version numbers and stages | – |
| `ExperimentRuns` | experiments, their default, ids and names; runs that are created, deleted and restored by themselves or with their experiment | – |
| `RunData` | `log_batch` on one run: parameters, latest metrics, history | – |
| `Assessments` | create, update and delete of assessments beside `start_trace` and `delete_traces` | – |
| `LoggedModelSearch` | `search_logged_models` as operators: the repository's pipeline, and what a search is for | – |
| `LoggedModels` | the calls on logged models, `record_logged_model`, a client that pages through a search | `LoggedModelSearch` |
| `SpanIngestionProofs`, `ModelRegistryProofs`, `ExperimentRunsProofs`, `RunDataProofs`, `AssessmentsProofs`, `LoggedModelsProofs` | theorems about the module of that name (section 4) | that module, TLAPS |
| `TraceDeletionProofs` | theorems about `TraceDeletion`; takes over what `log_spans` and `start_trace` keep also while documents are removed | `TraceDeletion`, `SpanIngestionProofs` |
| `MCSpanIngestion`, `MCTraceDeletion`, `MCModelRegistry`, `MCExperimentRuns`, `MCRunData`, `MCAssessments`, `MCLoggedModels` | the instances TLC checks | the above |

Operators whose name has a suffix after an underscore (`ApplySummary_Unguarded`)
are mistakes that definition could contain. They are not part of the model: each
property of a run is known to fail when one of them takes the place of the real
definition, and `PROJECT.json` ("mutants") says which.

### 2.1 Traces

A trace document is a record: `experiment` (the value `NoExperiment` stands for
"no document", see `Absent`), `revision` (`span_revision`), `state`, whether the
client reported (`finalized`), whether it reported `usage`, and `summary`: the
*set of spans its derived values were computed from*. The code stores times,
duration, token usage, cost, span counts and state; all of them are functions of
that set, and "stale" means "of a smaller set", so the set is what the
properties need. `spans` and `assessments` are the other two collections.

A log call `c` has a `batch` of spans and moves through `pc[c]`:

| Action | Code |
|---|---|
| `LogSpans` | arguments, the active-experiment check (`store.py` 1310-1334) |
| `EnsureLookup`, `EnsureInsert`, `EnsureBulkReturns` | `ensure_traces`: each upsert of the unordered bulk write looks for its trace, then inserts it; the unique `_id` rejects a second insert or a trace of another experiment; only the failed upserts are retried (`traces.py` 251-288) |
| `PersistSpan` | one upsert of the unordered bulk write of spans; a span already there is kept (`$setOnInsert`, 445-460) |
| `Refreshes`, `TakeRevision`, `ReadSpans`, `ReadArrivingSpan` | the refresh loop; `$inc span_revision`; the `find` over the spans of the trace, which may or may not return spans that are written while it runs |
| `ApplySummary`, `RejectSummary` | `update_span_summary` whose pipeline compares the revision with the one the snapshot was taken at; when they differ the call retries, up to `MaxAttempts` times (`store.py` 1582-1608) |
| `RefreshEnds`, `LogSpansReturns` | the loop goes on after a failed trace and raises at the end |
| `StartTrace`, `StartLookup`, `StartInsert`, `ReplaceAssessments`, `StartTraceReturns` | `start_trace`: pipeline upsert (find, then insert on a unique `_id`), assessments, final read |
| `CallFaults`, `RefreshFaults` | any operation fails, applied or not: an error before a write, and the *same* error after it (a lost reply), because every write is followed by a phase in which the call can still fail |

A call that never moves again is a server that has stopped: safety properties
hold for it because `Spec` requires no step.

`TraceDeletion` adds calls that select the traces of an experiment (958-978) and
then empty the three collections one document at a time (979-992). A
`delete_many` must visit every document that matched when it started and may or
may not remove one that begins to match while it runs. The deletion of spans is
*not* scoped by experiment, in the model as in the code.

### 2.2 Model registry

`registered` maps the `_id` of a model to its name, `version_counter` and
aliases; `versions` maps `<<_id, number>>` to a stage (`Deleted_Internal` after a
soft delete). The `_id` of a model is the call that inserts it, because the
driver draws a fresh one for every `insert_one`. Every call has one request,
resolves the model's name once (`Lookup`, or the write itself for rename and
delete) and then works on the `_id` in `target[c]`:

| Call | Actions |
|---|---|
| `create_registered_model` | `RegisterModel`, after a duplicate key `DiagnoseDuplicate` |
| `rename_registered_model` | `RenameModel`, `TouchVersions` |
| `delete_registered_model` | `RemoveModel`, `PurgeStarts`, `PurgeVersion`, `PurgeEnds` |
| `create_model_version` | `Lookup`, `AllocateVersion`, `InsertVersion` |
| `transition_model_version_stage` | `Lookup`, `TransitionStage`, `ArchiveStarts`, `ArchiveVersion`, `ArchiveEnds`, `TouchModel` |
| `delete_model_version` | `Lookup`, `SoftDelete`, `DeleteAliasesForVersion` |
| `set_registered_model_alias` | `Lookup`, `CheckVersion`, `WriteAlias` |
| `delete_registered_model_alias` | `WriteAlias` |
| `get_model_version_by_alias` | `ResolveAlias`, `ReadVersion` |

`update_many` and `delete_many` use `visiting[c]`: the documents that matched
when they started and still have to be visited. The error branch of
`create_model_version` for an existing number is in the model; that it is never
taken is `AllocatedVersionsAreFree`.

Three history variables (`issued`, `created`, `raced`) record the last number
issued per model, the versions ever inserted, and the calls whose model or
version changed between their check and their write. No action reads them.

### 2.3 Experiments and runs

`experiments` maps an integer id to a name and a stage, `runs` maps a run id (the
call that creates it, for its uuid) to an experiment and a stage, `counter` is
the document of `counters` ids are drawn from. `ready` holds the stores whose
experiment repository exists: a store builds it the first time one of its calls
needs it, in the middle of that call.

| Call | Actions |
|---|---|
| first use of the experiments by a store | `InitCounter`, `FindDefault`, `InsertDefault`, `VerifyDefault`: upserts of the counter and of experiment 0, a second look after a duplicate key |
| `create_experiment` | `AllocateId` (`$inc`, then the check against `MaxId`), `InsertExperiment` |
| `rename_experiment` | `RenameExperiment`, `DiagnoseRename` |
| `create_run` | `FindExperiment`, `InsertRun` |
| `delete_run`, `restore_run` | `MoveRun` |
| `delete_experiment`, `restore_experiment` | `StartMovingRuns`, `MoveRunOfExperiment`, `RunsMoved`, `MoveExperiment`: the runs first, whatever their stage and whether or not the experiment can be moved |

`visiting[c]` is the `update_many` of `c` again: a run inserted while it runs may
or may not be met. Two history variables, `writer` and `crossed`, record who last
wrote the stage of a run and whether an opposite move of its experiment was
under way then. No action reads them, `crossed` is only written from the rest of
the state.

At `MaxId` (2^63 - 1 in the code) the counter is not stuck in the error branch by
the check alone: the `$inc` would overflow a 64-bit integer and fails, so the
counter stays. The model lets both outcomes be the error the client sees.

### 2.4 Logging to a run

A batch has metrics in order and parameters with distinct keys. `UpdateRun` is
the single `find_one_and_update` whose filter holds the stage and the parameters
of the batch and whose pipeline merges both parts; the document it returns tells
why it did not match. Then `todo[c]` holds the metric documents of the ordered
bulk write, those of the run before those of logged models, and `FindPoint` and
`InsertPoint` are the two halves of each upsert. A duplicate key ends the call
with a database error, or the server repeats the upsert when the document it
collided with is the very same one. `MoveRun` deletes and restores the run at
any time. A metric's value is an integer or `NaN`, which is stored as it is and
ranks as 0 with a flag when points tie in step and time (593-601): `Rank`.
What the pipeline does to a batch (`MergeMetrics`) and which of its points are
also stored for a model (`ModelPoints`) are recursive functions over the
prefixes of the batch.

### 2.5 Assessments

`docs` maps the `_id` of an assessment, which is unique over all traces, to its
trace, its kinds, whether it is valid, what it overrides, and who gave its
metadata. An update writes `feedback` or `expectation` into the document and
removes neither, hence the *set* of kinds.

| Call | Actions |
|---|---|
| `create_assessment` | `FindTrace`, then if it overrides one `CheckOverridden`, `Invalidate`; `InsertAssessment` |
| `update_assessment` | `FindUpdated` (the kind is checked), `ApplyUpdate` |
| `delete_assessment` | `FindTrace`, `FindDeleted`, `RestoreOverridden`, `DeleteDocument` |
| `start_trace` | `UpsertTrace`, `ReplaceAssessment` once per supplied assessment, `ReadTrace` |
| `delete_traces` | `SelectTrace`, `PurgeAssessment`, `PurgeEnds`, `DeleteTrace` |
| an assessment was not found | `Diagnose`: is the trace missing, too? |

`start_trace` and `delete_traces` appear here with what they do to assessments
and to the existence of the trace; their other steps are in 2.1. History
variables: `author` (who wrote the whole document), `validBy` (who last wrote its
validity), `base` (whose document a call read). They are what lets a property say
*why* an assessment is invalid. No action reads them but to write them.

### 2.6 Logged models and their search

Every change of a logged model is one update of one document, so a call is
mostly one action (`Finalize`, `MarkDeleted`, `LogParams`, `SetTags`,
`DeleteTag`), or `ModelMissing`. More steps have `create_logged_model`
(`FindExperiment`, `InsertModel`), `record_logged_model` (`ReadRun`, `WriteTag`:
the tag is written back from what was read) and the client of a search, which
asks for one page after another (`NextPage`). `LogMetric` is the part of
`log_batch` a search sees.

`LoggedModelSearch!SearchResults` follows the pipeline: one `$lookup` fetches the
metric documents that *any* filter or order needs (`Fetched`), one `$group`
makes a flag per filter and a value per order out of them (`RequiredMatches`,
`Top`), and the models are sorted by two numbers per order, the first of which
moves missing values to the end (`SortKey`): the results are the sequences of
the matching models in which none stands behind one it should precede. As the
last order is the id there is one such sequence. `ExpectedResult` does not mention
any of that: a model is wanted if each metric filter is met by some point of its
history, and the first order that tells two models apart decides. A dataset is a
name with a digest; a scope is the set of datasets it matches, all of them and
`None` when the order names no dataset.

## 3. What is checked

| Run | States | Question and answer |
|---|---|---|
| `ingest` | 1,979,763 | two `log_spans` and one `start_trace` over two experiments with one failing operation. Invariants below; `ImplementsPromise`: the summaries behave as `TraceSummary` says |
| `ingest_live` | 99,545 | every call returns; every stored span is eventually in its trace's summary |
| `trace_deletion` | 1,209,015 | a `log_spans`, a `start_trace` and two `delete_traces` on one trace and two experiments with one failing operation: what a deletion leaves behind, whose documents it takes, and that it blocks nobody |
| `registry` | 1,561,037 | seven workloads of six calls with one failing operation; `ImplementsLifecycle`: numbers and stages behave as `ModelLifecycle` says |
| `experiments` | 1,012,417 | four workloads of five calls on two stores, one failing operation: ids, the default experiment, and runs that follow their experiment |
| `run_data` | 56,750 | two workloads of four batches on one run that may be deleted and restored, one failing operation: the two parts of a batch agree; every batch returns |
| `assessments` | 345,863 | six workloads of five calls on two traces and three ids, one failing operation: which assessments are valid and why |
| `logged_models` | 148,333 | 100 queries while metrics are logged, and workloads of four calls, one failing operation: what a search finds, what its pages show, what a run's record keeps |
| `stale_summary` | counterexample | finding 1 |
| `untranslated_error` | counterexample | finding 2 |
| `registry_orphan` | counterexample | finding 3 |
| `registry_archive` | counterexample | finding 4 |

The invariants of `ingest`:

* `EverySpanAccountedFor` – a stored span that is not in the summary of its
  trace is owed by a call that still runs, or a call that failed with a database
  error was responsible for it. This is the point of the protocol: a call that
  runs out of attempts *because others keep invalidating its snapshots* loses
  nothing.
* `AcknowledgedSpansSummarised` – a `log_spans` call that returned without error
  has its spans in the *current* summary, not just in some earlier one.
* `LaterWriterInvalidatesSnapshots` – once another call has taken a revision of
  the trace (the `$inc` of `span_summary_snapshot`), the revision of a snapshot
  taken before is not the trace's any more, so that the guard of
  `update_span_summary` rejects it.
* `OwnershipRespected` – no call writes a trace of another experiment, every
  span has a trace, and the identity error is raised only for such traces.
* `ReportedMetadataKept`, `DerivedStateExplained` – reported times, usage and
  final state survive every order of summaries; a state nobody reported is
  `IN_PROGRESS` or the outcome of a root that was summarised.

The properties of `trace_deletion`:

* `OrphansComeFromOverlappingWriters` – a span without a trace, which no later
  deletion can find, was delivered by a call that overlapped a deletion; a
  deletion that stops half-way leaves none.
* `CompletedDeletionLeavesNothing` – the same for all collections when a deletion
  returns.
* `DeletionsStayInTheirExperiment` – spans and assessments are taken by deletions
  that have selected their trace, and each of these takes them from a trace that
  another experiment owns only after a second deletion of its own experiment
  removed the trace, so that its id could be used again: ownership is
  resolved at the start and not written into the filter of the spans. That this
  exception is needed is the hazard at `traces.py` 982.
* `EveryCallAndDeletionReturns` – from some time on nothing runs; as each call
  runs at most once this says that every call that arrived returns.

The invariants of `registry`: `AllocatedVersionsAreFree`,
`AliasesDangleOnlyByRaces`, `OrphansComeOnlyByRaces`, `StagesHaveACause`. The
last three say that a state the API should not show has no cause *other* than
the race the code's comments admit; their negative counterparts are findings.
`AliasesDangleOnlyByRaces` is also about a reader of an alias, which resolves it
and then reads the version: it may be told that there is none although the alias
named a live version at every moment, but only if the version it had resolved
was deleted. `StagesHaveACause` takes a stage as asked for only by a transition
that has moved its version or may have: one that was told that there is no such
version in a model that still exists is no cause, one that failed after its write
because the model was gone or could not be touched is
(`model_registry/store.py` 1052).

The invariants of `experiments`:

* `ExperimentsTypeOK` – besides the types: a run has an experiment, and the
  ids drawn from the counter stay below `MaxId`, although the code checks the
  bound after the increment, and the counter does not pass it.
* `AllocatedIdsAreFree` – the duplicate-key branch for an id is never taken, also
  when one store initialises the counter while another draws from it.
* `StoresShareOneDefault` – stores that start together agree on experiment 0 and
  none of them is refused.
* `RunsFollowTheirExperiment` – a run whose stage differs from its experiment's
  was moved by itself, was written while an opposite move was under way, or was
  written by a move that has not ended well.
* `AcknowledgedMovesAlternate` – of two concurrent deletions one fails: the
  guarded write of the experiment counts, although both move all the runs. Moves
  that ended in a database error may or may not have moved the experiment after
  they moved its runs (`tracking/store.py` 491); each of them, in its own
  direction, is as much as acknowledged moves and the stage may differ by.

Of `run_data`: `RunDataTypeOK` (besides the types: no two points of the history
have the same identity, also when a batch is logged again),
`LatestIsNewestOfHistory` (the summary in the run document is the
maximum of the history plus what unfinished batches still owe it),
`AcknowledgedBatchesStored`, the action property `ParamsAreImmutable`, and `EveryBatchReturns`.

Of `assessments`:

* `OverriddenAssessmentsInvalid` – while an overriding assessment is there, what
  it overrides is invalid, unless somebody wrote it anew or a deletion of an
  overriding assessment made it valid. The second exception is the code's
  behaviour when two assessments override the same one and one is deleted.
* `InvalidAssessmentsExplained` – an invalid assessment is overridden by one that
  is there or about to be, or whose creation failed after `Invalidate`, or that
  was replaced or removed by a call which did not know it.
* `AcknowledgedUpdatesKept` – updates of one assessment merge, none is lost.
* `KindsMixOnlyByRaces` – an assessment is feedback *and* expectation only if it
  was replaced between an update's check and its write.

Of `logged_models`:

* `RecordsLostOnlyByOverlap` – an entry of the run's tag is lost only to a call
  that had read the tag before it was written.
* `PagesFollowTheResult` – a model that every request of a client found is on
  one of its pages unless something in front of it went away, and on one only
  unless something came in front of it. Each exception is needed: the token is
  an offset.
* `SearchFindsExactly` – whenever a page is read, the pipeline's result is the
  expected one. Both sides say on their own what a filter means: the code's
  conditions on one, comparisons in which a null is never equal or unequal to
  anything on the other. They agree also where there is no value to compare
  with: `NOT IN ()` finds a model whose attribute is null but not one without
  the parameter or tag. **One case is excepted**, `NaNInScope`: a point whose value is
  `NaN` is rejected by the `$match` of a `<` or `<=` filter, but when the same
  point is fetched for an `order_by` or for another filter, the filter's flag is
  computed by an expression that orders `NaN` below all numbers
  (`logged_models.py` 370-386). Whether the model is found then depends on the
  order asked for. The property says that such a search finds *more* models than
  it should, never fewer; without the exception TLC finds the case. No doc or
  test says which of the two was meant, so it is an observation and not a finding.

### Bounds

* **traces** – two traces of which one has a child and a root and the other a
  failed root, three spans, batches of one or two traces; two symmetric log
  calls, so each can invalidate the other's snapshot up to three times
  (`MaxAttempts = 3`, the code's value) and exhaustion of the attempts is
  reached. Placeholders are upserted by two log calls and a start call of two
  experiments, so the duplicate-key retries and the identity error occur. A
  third log call adds only more revisions: the guard compares for equality, so
  one interfering revision is already enough to reject. That argument is made
  precise by the proofs, which bound nothing.
* **deletion** – one trace and two spans: traces do not interact in a deletion
  except by being in the same `delete_many`. One log call for the passing run,
  two for finding 1 (which needs a second delivery). Two deletions and two
  experiments, because a trace changes hands only when a deletion removes it
  under another one.
* **registry** – two names, one alias, six calls in seven workloads: creation and
  deletion of models around versions, promotions that archive each other,
  renames and aliases, replacement of a model under the same name, readers of an
  alias beside all of that, failures.
* **experiments** – two stores, so that initialisation races with itself and
  with allocation; `MaxId = 3`, so that ids run out after two; two runs and three
  moves of one experiment, so that a move can be overtaken twice.
* **log_batch** – one metric key (keys do not interact in the pipeline), two
  parameters, points that tie in step, in time and in value with `NaN`, a retry
  of the same batch, and a model point that contradicts another one.
* **assessments** – two assessments that override a third, a chain deleted and
  created again under the same id, updates of both kinds, assessments supplied
  with a trace twice, and the same beside a deletion of the trace; a second trace
  takes an id. Five calls are enough for a create, two that override it and
  their deletions, the longest case a property names.
* **logged models** – four models in two experiments, ten metric documents that
  tie in time, in step and in run, with and without a dataset, some `NaN`; eight
  sets of filters, two dataset scopes and five lists of orders with repetitions,
  each while three more points are logged; three overlapping records; pages of
  one and of two models while one is created, one deleted and one overtakes.
* **faults** – `MaxFaults` bounds the database operations that fail in one
  behaviour: 1. Every hazard of the list needs one failing operation at most.
* **symmetry** – only `ingest` uses it, over the two log calls and the two
  experiments, which no property tells apart; no liveness property is checked under it.

### Fairness

`FairSpec` (of `SpanIngestion` and `RunData`, and `FairDeletionSpec`) assume weak fairness of the steps of a call
that *has arrived*: a server thread that has a request is scheduled and a
database operation returns or fails. Arrival is not fair, clients need not call.
Faults are not fair, and neither is a late document showing up in a cursor
(`ReadArrivingSpan`), nor deleting and restoring a run (`MoveRun`). No strong fairness is needed: the operations of one call
are not disabled by others, only their outcomes change.

### Findings

1. **A stale summary can win after a deletion** (`traces.py` 463,
   `stale_summary`). `span_revision` lives in the trace document, so it starts
   again when the trace is deleted and created again. A snapshot taken before
   passes the equality guard of the new document and replaces a newer summary.
2. **`start_trace` lets a repository error through** (`traces.py` 229,
   `untranslated_error`). Its final read raises `RepositoryNotFoundError` when
   the trace was deleted meanwhile; the store translates only
   `RepositoryPersistenceError`.
3. **A deleted model can leave a version behind** (`model_registry/store.py`
   640, `registry_orphan`). A version whose number was allocated before the
   deletion is inserted after the versions were removed.
4. **Two promotions can empty a stage** (`model_versions.py` 267,
   `registry_archive`). Both set their stage, then each archives the other's.

## 4. What is proved

Every invariant and action property of the passing runs except
`SearchFindsExactly` is a theorem, as are both refinements: for *every* set of
calls, names, ids, traces, spans, stores and models (infinite ones included
where a code path does not need a finite one), every number of failing operations,
and requests and batches of any size. Each proofs module defines an inductive
invariant, proves `Init => Inv` and `Inv /\ [Next]_vars => Inv'`, concludes
`Invariance` (`DeletionInvariance`) from these and each property from that. The
assumptions are the named `ASSUME`s of the modules, which TLC evaluates on every
run.

| Module | Theorem | Statement |
|---|---|---|
| `SpanIngestionProofs` | `TypeCorrect` | `Spec => []TypeOK` |
|  | `NoSpanForgotten` | `Spec => []EverySpanAccountedFor` |
|  | `AcknowledgementsHold` | `Spec => []AcknowledgedSpansSummarised` |
|  | `StaleSnapshotsRejected` | `Spec => []LaterWriterInvalidatesSnapshots` |
|  | `OwnershipHolds` | `Spec => []OwnershipRespected` |
|  | `ReportsHold` | `Spec => []ReportedMetadataKept` |
|  | `DerivedStatesHold` | `Spec => []DerivedStateExplained` |
|  | `Refinement` | `Spec => ImplementsPromise` |
| `ModelRegistryProofs` | `TypeCorrect` | `Spec => []TypeOK` |
|  | `NumbersAreFree` | `Spec => []AllocatedVersionsAreFree` |
|  | `OrphansExplained` | `Spec => []OrphansComeOnlyByRaces` |
|  | `StagesExplained` | `Spec => []StagesHaveACause` |
|  | `AliasesExplained` | `Spec => []AliasesDangleOnlyByRaces` |
|  | `Refinement` | `Spec => ImplementsLifecycle` |
| `ExperimentRunsProofs` | `TypeCorrect` | `Spec => []ExperimentsTypeOK` |
|  | `IdsAreFree` | `Spec => []AllocatedIdsAreFree` |
|  | `DefaultIsShared` | `Spec => []StoresShareOneDefault` |
|  | `RunsFollow` | `Spec => []RunsFollowTheirExperiment` |
|  | `MovesAlternate` | `Spec => []AcknowledgedMovesAlternate` |
| `RunDataProofs` | `TypeCorrect` | `Spec => []RunDataTypeOK` |
|  | `ParamsNeverChange` | `Spec => ParamsAreImmutable` |
|  | `LatestIsNewest` | `Spec => []LatestIsNewestOfHistory` |
|  | `BatchesStored` | `Spec => []AcknowledgedBatchesStored` |
| `TraceDeletionProofs` | `DeletionTypeCorrect` | `DeletionSpec => []DeletionTypeOK` |
|  | `OrphansExplained` | `DeletionSpec => []OrphansComeFromOverlappingWriters` |
|  | `CompletedDeletionsLeaveNothing` | `DeletionSpec => CompletedDeletionLeavesNothing` |
|  | `DeletionsStay` | `DeletionSpec => DeletionsStayInTheirExperiment` |
| `AssessmentsProofs` | `TypeCorrect` | `Spec => []TypeOK` |
|  | `OverriddenStayInvalid` | `Spec => []OverriddenAssessmentsInvalid` |
|  | `InvalidExplained` | `Spec => []InvalidAssessmentsExplained` |
|  | `UpdatesKept` | `Spec => []AcknowledgedUpdatesKept` |
|  | `MixturesExplained` | `Spec => []KindsMixOnlyByRaces` |
| `LoggedModelsProofs` | `TypeCorrect` | `Spec => []TypeOK` |
|  | `RecordsKept` | `Spec => []RecordsLostOnlyByOverlap` |
|  | `PagesFollow` | `Spec => []PagesFollowTheResult` |

All of these modules follow one argument: *what does a step of one call do to
what another one has read and not yet used?* So the inductive invariants are
about the values in the local variables of calls between two operations.

**`SpanIngestionProofs`**. `IInv` is the conjunction of the properties with:

* `PhaseInv`, `AbsentInv` – what the local variables of a call hold in each
  phase; a trace without a document has the values of `Absent`.
* `OwnershipInv` – a call past `ensure_traces` owns every trace of its batch,
  since experiments of existing traces never change and nothing is deleted.
* `ProgressInv` – which spans of the batch are stored and which traces are still
  to be refreshed.
* `RevisionInv` – a snapshot never has a revision greater than the document's.
* `SummaryInv` – the core: a snapshot whose revision *equals* the document's
  contains the current summary and every stored span of the trace that no other
  running call owes. Taking a revision makes every older snapshot unequal, so
  the invariant only has to be kept for the newest one; a span written after it
  was taken is owed by its writer, which still has to take a revision.
* `DoneInv` – a trace a call finished without error has the call's spans in its
  summary; stable because summaries only grow, which is `SummaryInv` again.
* `DerivedInv`, `ConflictInv`, `ReportInv` – the counterparts for state,
  identity conflicts and reported metadata.

`MaxAttempts >= 2` is needed: with a single attempt an upsert that loses the
race to insert would report an identity conflict with a trace of its own
experiment.

**`TraceDeletionProofs`**. Most of `IInv` is false beside a deletion: it takes
documents away under a call that relies on them. `TypeOK`, `PhaseInv` and
`AbsentInv` survive (their step lemmas are cited, not repeated); in place of the
rest, `ClaimInv` – a document a log call relies on is there *unless* a deletion
that selected it overlapped the call – and, per phase of a deletion,
`RemainderInv` and `ClearedInv`: what it has passed is empty but for what
overlapping calls wrote. `ScopeInv` is why a deletion stays in its experiment
until a second one removes the trace it selected.

**`ModelRegistryProofs`**. `FreshInv` (nothing refers to an `_id` before its
insert), `NumberInv` (the number a call holds is at most the counter, not in
use, and no other call's), and for the races: whoever works on a model that was
removed (`RemovedInv`) or has checked a version that changed since
(`CheckedInv`) is in `raced`; what a deletion has not visited yet are all the
versions that are left, but for such calls (`PurgeInv`); what an alias names
was stored once, so it stays deleted when it is (`AliasInv`). A transition that
has moved its version stays a cause of the stage to its end, however it fails
(`MovesStay`). The refinement
shows that each step is a step of `ModelLifecycle` or a stutter.

**`ExperimentRunsProofs`**. Actions are first reduced to effects. `StoreInv`:
the counter comes before experiment 0 and that before any other; `NumberInv`: an
allocated id is free and belongs to one call, *because* ids are only allocated
once the counter exists; `RunsMarked`: a running move has yet to visit a run,
or the run is in its stage, or another writer explains it. `SuccessInv` says that
the sets of calls `AcknowledgedMovesAlternate` counts are finite; its bounds move
by one per guarded write and per failed move (`Counted`, `FailureCounts`).

**`RunDataProofs`**. `NewestInv` says of the points that are *still to be
written* what the property says of the history: none is newer than the summary.
What a batch of any length does to the summary is proved by induction on its
points. The induction theorems of the library cannot be instantiated here, so it
is done by the least index at which the claim fails (`LeastNatural`,
`IndexInduction`), and `PrefixRecursion` shows from the same fact that the
recursive function exists at all. `NoMetric \notin Metric` is assumed: "no
latest metric" is not a metric.

**`AssessmentsProofs`**. The state alone does not say why an assessment is
invalid, so the invariant is about the documents *calls remember*: `BaseInv` –
what a call has in `base` wrote the document of that id in its trace; `MarkInv`
– a creation that is about to insert, or whose document is there, has marked
what it overrides unless the property's exceptions apply; `RestoredInv`,
`UpdatedInv`, `KindInv` for deletions and updates. Steps are classified into
effects, and "origin" lemmas say where a document, a validity or an author in
the new state comes from.

**`LoggedModelsProofs`**. `LeftInv`: the list a call has seen is what the writes
before its read left, and its read is a prefix of all writes; then appending its
own entry loses exactly what was written since. `PageInv`: page *i* is cut from
a sequence without repetitions, and only the last has no successor. A model that
was found every time and shown never (or twice) crosses a page boundary between
two requests; at the first such request its place has changed by more than its
page, and a sequence without repetitions cannot have fewer elements in front of
it and all of the former ones (the pigeonhole principle).

Attempts to prove something also corrected the models: two `CASE` expressions had
guards that overlap, so that what they meant was left to TLC's order of
evaluation (`FindTrace` of `Assessments`, `SortValue` of `LoggedModelSearch`);
`SetInARace` of `ModelRegistry` did not say that the call is one that sets an
alias; the result of a search was an expression that always yields a value, also
where it cannot be sorted, and is now the set of sorted sequences.

**Only model-checked**:

* liveness (`EveryCallReturns`, `EventuallySummarised`,
  `EveryCallAndDeletionReturns`, `EveryBatchReturns`), which the proof system
  cannot handle under fairness;
* `SearchFindsExactly`, which compares a pipeline with its purpose: that the
  first row of a sorted group is the latest value of a scope, and that keys
  compared element by element agree with the orders, are inductions over the
  rows and over the list of orders, whose removal of repetitions uses a sorting
  operator of the community modules that the provers do not see into;
* the findings, which are counterexamples.

## 5. What the models leave out

* Tags, previews, request metadata, prompt and run links of traces, and the
  contents of spans: single-document merges that no property tells apart. Token
  usage and cost are one flag ("reported and parsable").
* The experiment of a trace is checked to be active on arrival; all experiments
  of the model are active.
* A scan over spans that is running while a deletion removes some of them is
  taken to return them.
* Descriptions, tags, timestamps, deployment job ids, sources and prompts of the
  registry, and its reads other than of an alias (not of "latest").
* Tags of experiments and runs, `update_run_info`, inputs and outputs of runs,
  datasets of metrics, and the searches over experiments, runs and histories.
* Names, values, rationales and times of assessments; that their trace's
  experiment is active.
* Of logged models: names, locations, source runs and times of change, the second
  read that fetches the metric histories of a page, limits on the length of tags,
  the parsing of filter strings and `LIKE` patterns. An aggregation is taken to
  read everything at once; on a server it may see writes that arrive meanwhile.
* The reads `get_trace`, `search_traces` and `query_trace_metrics`, which change
  nothing; what `get_trace` may combine from two moments is listed under
  "hazards".
* A database that was not written by this store: a legacy experiment named
  "Default" with another id makes every store refuse to start
  (`VerifyDefault` has the branch, the model starts from an empty database).
* Metric values are finite or `NaN`; the infinities are replaced by the largest
  doubles before they reach `log_batch`'s update.
* Replica-set failover that rolls back an acknowledged write: the repository
  leaves the write concern to the client's URI.

## 6. Plan

Done: trace ingestion with its abstract specification, trace deletion, the
registry with its abstract specification, experiments and runs, `log_batch`,
assessments, logged models and their search, and the proofs of section 4. Next:

1. Abstract specification of an experiment's life cycle, implemented by
   `ExperimentRuns`, and one of a run's history, implemented by `RunData`; both
   with proofs from the invariants that are there.
2. Proofs about the operators of `LoggedModelSearch`: that `Top` is
   `LatestValue` on a finite set of points of which no two have the same run and
   document, and from it the part of `SearchFindsExactly` that is about which
   models are found.
