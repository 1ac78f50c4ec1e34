------------------------- MODULE TraceCollections -------------------------
(***************************************************************************)
(* The MongoDB collections behind the trace store, and the documents the   *)
(* operations of tracking/repositories/traces.py write to them.            *)
(*                                                                         *)
(* Every operator below is the effect of ONE server-side operation on ONE  *)
(* document, the unit MongoDB executes atomically.  Handlers made of       *)
(* several such operations are actions of SpanIngestion and TraceDeletion. *)
(*                                                                         *)
(* Span-derived values are represented by the set of spans they were       *)
(* computed from: request_time, execution_duration, token_usage and cost   *)
(* are functions of that set alone, so two summaries differ exactly when   *)
(* their sets may differ.                                                  *)
(***************************************************************************)
EXTENDS Naturals, FiniteSets

CONSTANTS Experiments,   \* experiment ids, all of them active
          NoExperiment,  \* owner of a trace that has no document
          Traces,        \* trace ids
          Spans,         \* span identities (trace_id, span_id)
          TraceOf,       \* TraceOf[s]: the trace_id of span s
          RootStatus,    \* RootStatus[s]: "child" for a span with a parent,
                         \* else the trace state its status code stands for
          FirstOf        \* FirstOf[S]: the first of S in the order
                         \* (start_time_ns, span_id)

ASSUME ExperimentsAssumption == NoExperiment \notin Experiments

ASSUME SpansAssumption ==
    /\ TraceOf \in [Spans -> Traces]
    /\ RootStatus \in [Spans -> {"child", "OK", "ERROR"}]

ASSUME OrderAssumption ==
    /\ FirstOf \in [(SUBSET Spans) \ {{}} -> Spans]
    /\ \A S \in (SUBSET Spans) \ {{}} : FirstOf[S] \in S

VARIABLES
    trace,       \* trace[t]: the document of t in the traces collection
    spans,       \* the identities in the spans collection (unique index)
    assessments  \* the traces that have documents in the assessments collection

collections == <<trace, spans, assessments>>

-----------------------------------------------------------------------------

NonFinal == {"IN_PROGRESS", "STATE_UNSPECIFIED"}
States == NonFinal \union {"OK", "ERROR"}

TraceDoc == [experiment_id        : Experiments \union {NoExperiment},
             state                : States,
             span_revision        : Nat,
             trace_info_finalized : BOOLEAN,
             usage_authoritative  : BOOLEAN,      \* key in authoritative_metadata_keys
             times_from           : SUBSET Spans, \* request_time, execution_duration
             usage_from           : SUBSET Spans, \* token_usage, cost
             summarised           : SUBSET Spans] \* history: last summary applied

(* What a client reports in start_trace. *)
TraceInfo == [state : States, usage : BOOLEAN, assessed : BOOLEAN]

(* No document.  A missing span_revision counts as 0 for $inc. *)
Absent == [experiment_id        |-> NoExperiment,
           state                |-> "IN_PROGRESS",
           span_revision        |-> 0,
           trace_info_finalized |-> FALSE,
           usage_authoritative  |-> FALSE,
           times_from           |-> {},
           usage_from           |-> {},
           summarised           |-> {}]

(* The $setOnInsert document of ensure_traces. *)
Placeholder(e) == [Absent EXCEPT !.experiment_id = e]

(* The pipeline of start_trace, on an existing document or on Absent. *)
Finalize(doc, e, info) ==
    [doc EXCEPT !.experiment_id        = e,
                !.state                = info.state,
                !.trace_info_finalized = TRUE,
                !.usage_authoritative  = @ \/ info.usage,
                !.times_from           = {},
                !.usage_from           = IF info.usage THEN {} ELSE @]

Roots(S) == {s \in S : RootStatus[s] # "child"}

(* Mistakes the next two definitions could contain, not part of the model. *)
SummaryState_RootlessIsOK(S) ==
    IF Roots(S) = {} THEN "OK" ELSE RootStatus[FirstOf[Roots(S)]]

ApplySpans_IgnoresFinalized(doc, S) ==
    [doc EXCEPT !.state      = IF @ \in NonFinal THEN "OK" ELSE @,
                !.times_from = S,
                !.usage_from = IF doc.usage_authoritative THEN @ ELSE S,
                !.summarised = S]

(* The state _summarize_spans computes: that of the first parentless span. *)
SummaryState(S) ==
    IF Roots(S) = {} THEN "IN_PROGRESS" ELSE RootStatus[FirstOf[Roots(S)]]

(* The fields update_span_summary writes when its revision still matches. *)
ApplySpans(doc, S) ==
    [doc EXCEPT !.state      = IF @ \in NonFinal THEN SummaryState(S) ELSE @,
                !.times_from = IF doc.trace_info_finalized THEN @ ELSE S,
                !.usage_from = IF doc.usage_authoritative THEN @ ELSE S,
                !.summarised = S]

Present(t) == trace[t].experiment_id # NoExperiment
OwnedBy(t, e) == trace[t].experiment_id = e
SpansOf(t) == {s \in spans : TraceOf[s] = t}
TracesOf(B) == {TraceOf[s] : s \in B}

CollectionsTypeOK ==
    /\ trace \in [Traces -> TraceDoc]
    /\ spans \subseteq Spans
    /\ assessments \subseteq Traces

CollectionsInit ==
    /\ trace = [t \in Traces |-> Absent]
    /\ spans = {}
    /\ assessments = {}

=============================================================================
