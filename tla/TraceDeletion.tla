--------------------------- MODULE TraceDeletion ---------------------------
(***************************************************************************)
(* delete_traces (tracking/store.py, tracking/repositories/traces.py)      *)
(* running concurrently with the calls of SpanIngestion.                   *)
(*                                                                         *)
(* A deletion selects the traces an experiment owns and then issues three  *)
(* delete_many operations.  delete_many removes the documents that match   *)
(* when it starts one at a time; documents that appear while it runs may   *)
(* or may not be removed.                                                  *)
(***************************************************************************)
EXTENDS SpanIngestion

CONSTANT DeleteCalls  \* delete_traces calls

ASSUME DeleteCallsAssumption == DeleteCalls \intersect Calls = {}

VARIABLES
    dpc,       \* dpc[d]: the next operation of deletion d
    scope,     \* scope[d]: the experiment d deletes from
    selected,  \* selected[d]: the traces d resolved to that experiment
    pending,   \* pending[d]: trace documents delete_many still has to visit
    doomed,    \* doomed[d]: spans delete_many must still remove
    overlap    \* history: calls and deletions that ran while d did

deletionVars == <<dpc, scope, selected, pending, doomed>>
systemVars == <<vars, deletionVars, overlap>>

DeletePhases == {"spans", "children", "assessments", "traces"}
Deleting(d) == dpc[d] \in DeletePhases

DeletionTypeOK ==
    /\ TypeOK
    /\ dpc \in [DeleteCalls -> {"idle", "done", "failed"} \union DeletePhases]
    /\ scope \in [DeleteCalls -> Experiments \union {NoExperiment}]
    /\ selected \in [DeleteCalls -> SUBSET Traces]
    /\ pending \in [DeleteCalls -> SUBSET Traces]
    /\ doomed \in [DeleteCalls -> SUBSET spans]
    /\ \A d \in DeleteCalls :
          /\ pending[d] \union TracesOf(doomed[d]) \subseteq selected[d]
          /\ dpc[d] \in DeletePhases => selected[d] # {}
          /\ dpc[d] = "traces" => pending[d] # {}
    /\ overlap \in [DeleteCalls -> SUBSET (Calls \union DeleteCalls)]

DeletionInit ==
    /\ Init
    /\ dpc = [d \in DeleteCalls |-> "idle"]
    /\ scope = [d \in DeleteCalls |-> NoExperiment]
    /\ selected = [d \in DeleteCalls |-> {}]
    /\ pending = [d \in DeleteCalls |-> {}]
    /\ doomed = [d \in DeleteCalls |-> {}]
    /\ overlap = [d \in DeleteCalls |-> {}]

DeletionGoto(d, phase) == dpc' = [dpc EXCEPT ![d] = phase]

-----------------------------------------------------------------------------

SelectTraces_GoesOnWithNone(d, e, T) ==
    /\ dpc[d] = "idle"
    /\ DeletionGoto(d, "spans")
    /\ scope' = [scope EXCEPT ![d] = e]
    /\ selected' = [selected EXCEPT ![d] = {t \in T : OwnedBy(t, e)}]
    /\ UNCHANGED <<vars, pending, doomed>>

SelectTraces_OfAnyExperiment(d, e, T) ==
    LET found == {t \in T : Present(t)} IN
    /\ dpc[d] = "idle"
    /\ DeletionGoto(d, IF found = {} THEN "done" ELSE "spans")
    /\ scope' = [scope EXCEPT ![d] = e]
    /\ selected' = [selected EXCEPT ![d] = found]
    /\ UNCHANGED <<vars, pending, doomed>>

(* T are the traces the criteria of the request match: explicit ids, or    *)
(* the oldest max_traces up to a timestamp.  Ownership is resolved here.   *)
SelectTraces(d, e, T) ==
    LET owned == {t \in T : OwnedBy(t, e)} IN
    /\ dpc[d] = "idle"
    /\ DeletionGoto(d, IF owned = {} THEN "done" ELSE "spans")
    /\ scope' = [scope EXCEPT ![d] = e]
    /\ selected' = [selected EXCEPT ![d] = owned]
    /\ UNCHANGED <<vars, pending, doomed>>

StartDeletingSpans(d) ==
    /\ dpc[d] = "spans"
    /\ DeletionGoto(d, "children")
    /\ doomed' = [doomed EXCEPT ![d] = {s \in spans : TraceOf[s] \in selected[d]}]
    /\ UNCHANGED <<vars, scope, selected, pending>>

(* The filter of the spans' delete_many names no experiment. *)
DeleteSpan(d, s) ==
    /\ dpc[d] = "children"
    /\ s \in spans
    /\ TraceOf[s] \in selected[d]
    /\ spans' = spans \ {s}
    /\ doomed' = [x \in DeleteCalls |-> doomed[x] \ {s}]
    /\ lost' = lost \ {s}
    /\ UNCHANGED <<trace, assessments, callVars, faults, superseded, dpc,
                   scope, selected, pending>>

SpansDeleted_TooEarly(d) ==
    /\ dpc[d] = "children"
    /\ DeletionGoto(d, "assessments")
    /\ doomed' = [doomed EXCEPT ![d] = {}]
    /\ UNCHANGED <<vars, scope, selected, pending>>

SpansDeleted(d) ==
    /\ dpc[d] = "children"
    /\ doomed[d] = {}
    /\ DeletionGoto(d, "assessments")
    /\ UNCHANGED <<vars, scope, selected, pending, doomed>>

DeleteAssessments_Forgotten(d) ==
    /\ dpc[d] = "assessments"
    /\ DeletionGoto(d, "traces")
    /\ pending' = [pending EXCEPT ![d] = selected[d]]
    /\ UNCHANGED <<vars, scope, selected, doomed>>

DeleteAssessments(d) ==
    /\ dpc[d] = "assessments"
    /\ DeletionGoto(d, "traces")
    /\ assessments' = assessments \ selected[d]
    /\ pending' = [pending EXCEPT ![d] = selected[d]]
    /\ UNCHANGED <<trace, spans, callVars, faults, lost, superseded, scope,
                   selected, doomed>>

(* The last delete_many filters on the experiment again. *)
DeleteTrace(d, t) ==
    /\ dpc[d] = "traces"
    /\ t \in pending[d]
    /\ trace' = [trace EXCEPT ![t] = IF OwnedBy(t, scope[d]) THEN Absent ELSE @]
    /\ pending' = [pending EXCEPT ![d] = @ \ {t}]
    /\ DeletionGoto(d, IF pending[d] = {t} THEN "done" ELSE "traces")
    /\ UNCHANGED <<spans, assessments, callVars, faults, lost, superseded,
                   scope, selected, doomed>>

(* A failed operation ends the deletion; nothing is undone. *)
DeletionFaults(d) ==
    /\ Deleting(d)
    /\ faults < MaxFaults
    /\ faults' = faults + 1
    /\ DeletionGoto(d, "failed")
    /\ UNCHANGED <<collections, callVars, lost, superseded, scope, selected,
                   pending, doomed>>

-----------------------------------------------------------------------------

DeleteStep(d) ==
    \/ StartDeletingSpans(d)
    \/ \E s \in Spans : DeleteSpan(d, s)
    \/ SpansDeleted(d)
    \/ DeleteAssessments(d)
    \/ \E t \in Traces : DeleteTrace(d, t)

IngestionStep ==
    /\ \/ Arrive
       \/ \E c \in LogCalls : LogStep(c) \/ LateRead(c)
       \/ \E c \in StartCalls : StartStep(c)
       \/ Fault
    /\ UNCHANGED deletionVars

DeletionStep ==
    \/ \E d \in DeleteCalls, e \in Experiments, T \in SUBSET Traces :
          SelectTraces(d, e, T)
    \/ \E d \in DeleteCalls : DeleteStep(d) \/ DeletionFaults(d)

(* History: who ran while d ran. *)
RecordOverlap ==
    overlap' = [d \in DeleteCalls |->
                   IF Deleting(d) \/ Deleting(d)'
                   THEN overlap[d]
                          \union {c \in Calls : Active(c) \/ Active(c)'}
                          \union {x \in DeleteCalls :
                                     Deleting(x) \/ Deleting(x)'}
                   ELSE overlap[d]]

SystemReturned ==
    /\ \A c \in Calls : pc[c] \in {"done", "failed"}
    /\ \A d \in DeleteCalls : dpc[d] \in {"done", "failed"}
    /\ UNCHANGED systemVars

DeletionNext ==
    \/ (IngestionStep \/ DeletionStep) /\ RecordOverlap
    \/ SystemReturned

DeletionSpec == DeletionInit /\ [][DeletionNext]_systemVars

FairDeletionSpec ==
    /\ DeletionSpec
    /\ \A c \in LogCalls :
          WF_systemVars(LogStep(c) /\ UNCHANGED deletionVars /\ RecordOverlap)
    /\ \A c \in StartCalls :
          WF_systemVars(StartStep(c) /\ UNCHANGED deletionVars /\ RecordOverlap)
    /\ \A d \in DeleteCalls : WF_systemVars(DeleteStep(d) /\ RecordOverlap)

-----------------------------------------------------------------------------

(* Call c delivers span s, or writes trace t. *)
Touches(c, t) == \/ c \in LogCalls /\ t \in TracesOf(batch[c])
                 \/ c \in StartCalls /\ t = current[c]

(* A span without a trace can no longer be found by a deletion, so the     *)
(* metadata goes last: a deletion that fails half-way leaves no such span  *)
(* (comment, traces.py:984), and only a delivery that overlapped the       *)
(* deletion of its trace does (docstring, traces.py:951).                  *)
OrphansComeFromOverlappingWriters ==
    \A s \in spans :
       ~Present(TraceOf[s]) =>
          \E d \in DeleteCalls, c \in LogCalls :
             /\ TraceOf[s] \in selected[d]
             /\ c \in overlap[d] /\ s \in batch[c]

(* When delete_traces returns, nothing of a trace it selected is left in   *)
(* any collection, unless a call that overlapped it wrote the trace.       *)
CompletedDeletionLeavesNothing ==
    [][\A d \in DeleteCalls :
          Deleting(d) /\ dpc'[d] = "done" =>
             \A t \in selected[d] :
                \/ ~Present(t)' /\ SpansOf(t)' = {} /\ t \notin assessments'
                \/ \E c \in overlap'[d] : Touches(c, t)]_systemVars

(* "Resolve ownership through traces before touching spans" (comment,      *)
(* traces.py:980): spans and assessments of a trace are taken by deletions *)
(* that have selected the trace, and any of them may take those of a trace *)
(* that another experiment owns by then only if, while it ran, a second    *)
(* deletion of its own experiment took the trace away, so that the other   *)
(* experiment could create it again.                                       *)
DeletionsStayInTheirExperiment ==
    [][\A t \in Traces :
          LET taken == \/ SpansOf(t) \ SpansOf(t)' # {}
                       \/ t \in assessments \ assessments'
              Takers == {d \in DeleteCalls : /\ t \in selected[d]
                                             /\ dpc[d] \in {"children", "assessments"}}
          IN (Present(t) /\ taken) =>
                /\ Takers # {}
                /\ \A d \in Takers :
                      \/ OwnedBy(t, scope[d])
                      \/ \E x \in overlap[d] \intersect DeleteCalls :
                            /\ x # d /\ scope[x] = scope[d] /\ t \in selected[x]
                            /\ dpc[x] \in {"traces", "done", "failed"}]_systemVars

(* From some time on no call runs: deletions end, and a deletion never     *)
(* keeps an ingestion call from returning, since a refresh that meets a    *)
(* deleted trace or an empty snapshot gives up instead of retrying         *)
(* (store.py:1368, 1590).  A call runs at most once.                       *)
EveryCallAndDeletionReturns ==
    <>[](/\ \A c \in Calls : ~Active(c)
         /\ \A d \in DeleteCalls : ~Deleting(d))

(* "Shared infrastructure failures translated at the store boundary"       *)
(* (docstring, infrastructure/errors.py:1): no start_trace call lets the   *)
(* repository's RepositoryNotFoundError out.                               *)
StartTraceErrorsTranslated ==
    \A c \in StartCalls : error[c] # "notfound"

(* "A later writer invalidates earlier snapshots" (comment, traces.py:458; *)
(* test_stale_summary_revision_cannot_overwrite_newer_snapshot): while the *)
(* trace and its spans stay, a summarised span stays summarised.           *)
StaleSummariesRejected ==
    [][\A s \in spans :
          LET t == TraceOf[s] IN
          /\ s \in spans' /\ s \in trace[t].summarised
          /\ Present(t) /\ Present(t)'
          => s \in trace'[t].summarised]_systemVars
=============================================================================
