------------------------ MODULE SpanIngestionProofs ------------------------
(***************************************************************************)
(* Proofs about SpanIngestion for every set of calls, traces, spans and    *)
(* experiments and every bound.                                            *)
(***************************************************************************)
EXTENDS SpanIngestion, TLAPS

Refreshing == {"refresh", "read", "update", "retry"}

(* Calls go through the phases of their own kind, with arguments and an    *)
(* attempt counter that fit the phase.                                     *)
PhaseInv ==
    /\ \A c \in LogCalls :
          /\ pc[c] \in {"idle", "done", "failed"} \union LogPhases
          /\ pc[c] = "idle" => batch[c] = {}
          /\ pc[c] # "idle" => location[c] \in Experiments
          /\ pc[c] \in {"read", "update", "retry"} => current[c] \in Traces
          /\ pc[c] \in {"persist", "refresh"} => attempt[c] = 0
          /\ pc[c] = "retry" => attempt[c] < MaxAttempts
    /\ \A c \in StartCalls :
          /\ pc[c] \in {"idle", "done", "failed"} \union StartPhases
          /\ batch[c] = {} /\ todo[c] = {}
          /\ pc[c] # "idle" =>
                location[c] \in Experiments /\ current[c] \in Traces

(* There is no half-written document: a trace without an owner is Absent. *)
AbsentInv == \A t \in Traces : ~Present(t) => trace[t] = Absent

(* What a call of a batch owns stays owned. *)
OwnershipInv ==
    \A c \in LogCalls :
       /\ pc[c] = "ensure" =>
             \A t \in TracesOf(batch[c]) \ (todo[c] \union rejected[c]) :
                OwnedBy(t, location[c])
       /\ pc[c] \in LogPhases \ {"ensure"} =>
             \A t \in TracesOf(batch[c]) : OwnedBy(t, location[c])

(* How far a call has come in writing its batch. *)
ProgressInv ==
    \A c \in LogCalls :
       /\ pc[c] = "persist" =>
             unsent[c] \subseteq batch[c] /\ batch[c] \ unsent[c] \subseteq spans
       /\ pc[c] \in Refreshing =>
             batch[c] \subseteq spans /\ todo[c] \subseteq TracesOf(batch[c])
       /\ pc[c] \in {"read", "update", "retry"} => current[c] \in todo[c]

(* Revisions are tokens: no two snapshots of a trace carry the same one,   *)
(* and a superseded one is older than the document's.                      *)
RevisionInv ==
    /\ \A c \in LogCalls, t \in Traces :
          Snapshots(c, t) => revision[c] <= trace[t].span_revision
    /\ \A c, d \in LogCalls, t \in Traces :
          Snapshots(c, t) /\ Snapshots(d, t) /\ revision[c] = revision[d] => c = d
    /\ \A c \in superseded : c \in LogCalls /\ pc[c] \in {"read", "update"}
    /\ \A c \in superseded, t \in Traces :
          Snapshots(c, t) => revision[c] < trace[t].span_revision

(* Summaries and snapshots hold stored spans only; the one snapshot whose  *)
(* revision is current contains everything summarised so far.              *)
SummaryInv ==
    /\ \A t \in Traces : trace[t].summarised \subseteq SpansOf(t)
    /\ \A c \in LogCalls :
          pc[c] = "update" =>
             /\ snapshot[c] \subseteq SpansOf(current[c])
             /\ {s \in batch[c] : TraceOf[s] = current[c]} \subseteq snapshot[c]
    /\ \A c \in LogCalls, t \in Traces :
          Holds(c, t) /\ pc[c] = "update" => trace[t].summarised \subseteq snapshot[c]

(* A trace that a call has refreshed without an error stays summarised. *)
DoneInv ==
    \A c \in LogCalls : \A s \in batch[c] :
       \/ pc[c] = "done"
       \/ pc[c] \in Refreshing /\ error[c] = "none" /\ TraceOf[s] \notin todo[c]
       => s \in trace[TraceOf[s]].summarised

DerivedInv ==
    \A t \in Traces :
       /\ ~trace[t].trace_info_finalized => trace[t].times_from = trace[t].summarised
       /\ ~trace[t].usage_authoritative => trace[t].usage_from = trace[t].summarised

(* Upserts of a second attempt find their document present, so a call that *)
(* runs out of attempts has met a document of another experiment.          *)
ConflictInv ==
    /\ \A c \in Calls :
          /\ pc[c] = "idle" => missed[c] = {} /\ rejected[c] = {}
          /\ error[c] = "identity" => pc[c] = "failed"
    /\ \A c \in LogCalls :
          pc[c] = "ensure" =>
             /\ missed[c] \subseteq todo[c]
             /\ todo[c] \union rejected[c] \subseteq TracesOf(batch[c])
             /\ attempt[c] \in 1..MaxAttempts
             /\ \A t \in rejected[c] : Present(t)
             /\ attempt[c] > 1 =>
                   /\ \A t \in todo[c] : Present(t)
                   /\ \A t \in missed[c] \union rejected[c] : ~OwnedBy(t, location[c])
    /\ \A c \in StartCalls :
          pc[c] = "upsert" =>
             /\ missed[c] \subseteq {current[c]}
             /\ attempt[c] \in 1..MaxAttempts
             /\ attempt[c] > 1 =>
                   /\ Present(current[c])
                   /\ missed[c] # {} => ~OwnedBy(current[c], location[c])

ReportInv ==
    \A t \in Traces :
       (\E c \in Reported(t) : info[c].usage) => trace[t].usage_authoritative

IInv ==
    /\ TypeOK
    /\ PhaseInv
    /\ AbsentInv
    /\ OwnershipInv
    /\ ProgressInv
    /\ RevisionInv
    /\ SummaryInv
    /\ DoneInv
    /\ DerivedInv
    /\ ConflictInv
    /\ ReportInv
    /\ EverySpanAccountedFor
    /\ DerivedStateExplained
    /\ ReportedMetadataKept
    /\ OwnershipRespected

-----------------------------------------------------------------------------
(***************************************************************************)
(* The documents the operations write are documents.                       *)
(***************************************************************************)

LEMMA RootsSubset ==
    ASSUME NEW S \in SUBSET Spans
    PROVE  Roots(S) \in SUBSET Spans
BY DEF Roots

LEMMA SummaryStateOfRoot ==
    ASSUME NEW S \in SUBSET Spans
    PROVE  IF Roots(S) = {} THEN SummaryState(S) = "IN_PROGRESS"
           ELSE \E r \in Roots(S) : SummaryState(S) = RootStatus[r]
<1>1. CASE Roots(S) = {}
  BY <1>1 DEF SummaryState
<1>2. CASE Roots(S) # {}
  <2>1. Roots(S) \in (SUBSET Spans) \ {{}}
    BY <1>2, RootsSubset
  <2>2. FirstOf[Roots(S)] \in Roots(S)
    BY <2>1, OrderAssumption
  <2> QED
    BY <1>2, <2>2 DEF SummaryState
<1> QED
  BY <1>1, <1>2

LEMMA SummaryStateType ==
    ASSUME NEW S \in SUBSET Spans
    PROVE  SummaryState(S) \in States
<1>1. \A r \in Roots(S) : RootStatus[r] \in {"OK", "ERROR"}
  BY SpansAssumption DEF Roots
<1> QED
  BY <1>1, SummaryStateOfRoot DEF States, NonFinal

LEMMA ApplySpansType ==
    ASSUME NEW doc \in TraceDoc, NEW S \in SUBSET Spans
    PROVE  ApplySpans(doc, S) \in TraceDoc
BY SummaryStateType DEF ApplySpans, TraceDoc

LEMMA FinalizeType ==
    ASSUME NEW doc \in TraceDoc, NEW e \in Experiments, NEW i \in TraceInfo
    PROVE  Finalize(doc, e, i) \in TraceDoc
BY DEF Finalize, TraceDoc, TraceInfo

LEMMA PlaceholderType ==
    ASSUME NEW e \in Experiments
    PROVE  Placeholder(e) \in TraceDoc /\ Absent \in TraceDoc
BY DEF Placeholder, Absent, TraceDoc, States, NonFinal

LEMMA TracesOfType ==
    ASSUME NEW B \in SUBSET Spans
    PROVE  TracesOf(B) \in SUBSET Traces
BY SpansAssumption DEF TracesOf

-----------------------------------------------------------------------------
(***************************************************************************)
(* Type correctness.                                                       *)
(***************************************************************************)

LEMMA TypeInit == Init => TypeOK /\ PhaseInv
BY PlaceholderType, BoundsAssumption
   DEF Init, CollectionsInit, TypeOK, CollectionsTypeOK, PhaseInv, Phases, Errors,
       TraceInfo, States, NonFinal, LogPhases, StartPhases, Calls, Absent, TraceDoc

LEMMA TypeStep == TypeOK /\ PhaseInv /\ [Next]_vars => TypeOK' /\ PhaseInv'
<1> SUFFICES ASSUME TypeOK, PhaseInv, [Next]_vars
             PROVE  TypeOK' /\ PhaseInv'
  OBVIOUS
<1> USE CallsAssumption, BoundsAssumption
    DEF TypeOK, CollectionsTypeOK, PhaseInv, Calls, Phases, LogPhases, StartPhases,
        Errors, Goto, Fail, collections, requests, upserts, refreshes
<1>1. ASSUME NEW c \in LogCalls, NEW e \in Experiments, NEW B \in Batches,
             LogSpans(c, e, B)
      PROVE  TypeOK' /\ PhaseInv'
  BY <1>1, TracesOfType, RequestsAssumption DEF LogSpans
<1>2. ASSUME NEW c \in LogCalls, NEW t \in Traces, EnsureLookup(c, t)
      PROVE  TypeOK' /\ PhaseInv'
  BY <1>2 DEF EnsureLookup
<1>3. ASSUME NEW c \in LogCalls, NEW t \in Traces, EnsureInsert(c, t)
      PROVE  TypeOK' /\ PhaseInv'
  BY <1>3, PlaceholderType DEF EnsureInsert
<1>4. ASSUME NEW c \in LogCalls, EnsureBulkReturns(c)
      PROVE  TypeOK' /\ PhaseInv'
  BY <1>4 DEF EnsureBulkReturns
<1>5. ASSUME NEW c \in LogCalls, NEW s \in Spans, PersistSpan(c, s)
      PROVE  TypeOK' /\ PhaseInv'
  BY <1>5, TracesOfType DEF PersistSpan
<1>6. ASSUME NEW c \in LogCalls, NEW t \in Traces, TakeRevision(c, t)
      PROVE  TypeOK' /\ PhaseInv'
  <2>1. [trace[t] EXCEPT !.span_revision = @ + 1] \in TraceDoc
    BY DEF TraceDoc
  <2>2. trace[t].span_revision \in Nat
    BY DEF TraceDoc
  <2> QED
    BY <1>6, <2>1, <2>2 DEF TakeRevision, Refreshes, RefreshEnds
<1>7. ASSUME NEW c \in LogCalls, ReadSpans(c)
      PROVE  TypeOK' /\ PhaseInv'
  BY <1>7 DEF ReadSpans, RefreshEnds, SpansOf
<1>8. ASSUME NEW c \in LogCalls, NEW s \in Spans, ReadArrivingSpan(c, s)
      PROVE  TypeOK' /\ PhaseInv'
  BY <1>8 DEF ReadArrivingSpan
<1>9. ASSUME NEW c \in LogCalls, ApplySummary(c)
      PROVE  TypeOK' /\ PhaseInv'
  BY <1>9, ApplySpansType DEF ApplySummary, RefreshEnds
<1>10. ASSUME NEW c \in LogCalls, RejectSummary(c)
       PROVE  TypeOK' /\ PhaseInv'
  BY <1>10 DEF RejectSummary, Retries, RefreshEnds
<1>11. ASSUME NEW c \in LogCalls, LogSpansReturns(c)
       PROVE  TypeOK' /\ PhaseInv'
  BY <1>11 DEF LogSpansReturns
<1>12. ASSUME NEW c \in StartCalls, NEW e \in Experiments, NEW t \in Traces,
              NEW i \in TraceInfos, StartTrace(c, e, t, i)
       PROVE  TypeOK' /\ PhaseInv'
  BY <1>12, RequestsAssumption DEF StartTrace
<1>13. ASSUME NEW c \in StartCalls, StartLookup(c)
       PROVE  TypeOK' /\ PhaseInv'
  <2>1. current[c] \in Traces /\ location[c] \in Experiments
    BY <1>13 DEF StartLookup
  <2>2. Finalize(trace[current[c]], location[c], info[c]) \in TraceDoc
    BY <2>1, FinalizeType
  <2> QED
    BY <1>13, <2>1, <2>2 DEF StartLookup
<1>14. ASSUME NEW c \in StartCalls, StartInsert(c)
       PROVE  TypeOK' /\ PhaseInv'
  <2>1. current[c] \in Traces /\ location[c] \in Experiments
    BY <1>14 DEF StartInsert
  <2>2. Finalize(trace[current[c]], location[c], info[c]) \in TraceDoc
    BY <2>1, FinalizeType
  <2> QED
    BY <1>14, <2>1, <2>2 DEF StartInsert
<1>15. ASSUME NEW c \in StartCalls, ReplaceAssessments(c)
       PROVE  TypeOK' /\ PhaseInv'
  BY <1>15 DEF ReplaceAssessments
<1>16. ASSUME NEW c \in StartCalls, StartTraceReturns(c)
       PROVE  TypeOK' /\ PhaseInv'
  BY <1>16 DEF StartTraceReturns
<1>17. ASSUME NEW c \in Calls, CallFaults(c)
       PROVE  TypeOK' /\ PhaseInv'
  BY <1>17 DEF CallFaults
<1>18. ASSUME NEW c \in LogCalls, NEW t \in Traces, RefreshFaults(c, t)
       PROVE  TypeOK' /\ PhaseInv'
  BY <1>18 DEF RefreshFaults, RefreshEnds, Refreshes, Snapshots, SpansOf
<1>19. CASE UNCHANGED vars
  BY <1>19 DEF vars
<1> QED
  BY <1>1, <1>2, <1>3, <1>4, <1>5, <1>6, <1>7, <1>8, <1>9, <1>10, <1>11, <1>12,
     <1>13, <1>14, <1>15, <1>16, <1>17, <1>18, <1>19
     DEF Next, Arrive, LogStep, LateRead, StartStep, Fault, AllReturned

(* Every variable keeps its type, whatever the number of calls, spans,     *)
(* traces and experiments: in particular no retry loop makes more than     *)
(* MaxAttempts attempts (retry.py:13, traces.py:273).                      *)
THEOREM TypeCorrect == Spec => []TypeOK
<1>1. Init => TypeOK /\ PhaseInv
  BY TypeInit
<1>2. TypeOK /\ PhaseInv /\ [Next]_vars => TypeOK' /\ PhaseInv'
  BY TypeStep
<1> QED
  BY <1>1, <1>2, PTL DEF Spec

-----------------------------------------------------------------------------
(***************************************************************************)
(* Ownership of trace documents.                                           *)
(***************************************************************************)

LEMMA OwnerOfDocument ==
    ASSUME NEW doc \in TraceDoc, NEW e \in Experiments
    PROVE  /\ \A S : ApplySpans(doc, S).experiment_id = doc.experiment_id
           /\ \A i : Finalize(doc, e, i).experiment_id = e
           /\ Placeholder(e).experiment_id = e
           /\ [doc EXCEPT !.span_revision = @ + 1].experiment_id = doc.experiment_id
BY DEF ApplySpans, Finalize, Placeholder, Absent, TraceDoc

LEMMA RevisionOfDocument ==
    ASSUME NEW doc \in TraceDoc, NEW e \in Experiments
    PROVE  /\ \A S : ApplySpans(doc, S).span_revision = doc.span_revision
           /\ \A i : Finalize(doc, e, i).span_revision = doc.span_revision
           /\ Placeholder(e).span_revision = Absent.span_revision
           /\ [doc EXCEPT !.span_revision = @ + 1].span_revision = doc.span_revision + 1
BY DEF ApplySpans, Finalize, Placeholder, Absent, TraceDoc

LEMMA SummaryOfDocument ==
    ASSUME NEW doc \in TraceDoc, NEW e \in Experiments
    PROVE  /\ \A S : ApplySpans(doc, S).summarised = S
           /\ \A i : Finalize(doc, e, i).summarised = doc.summarised
           /\ Placeholder(e).summarised = Absent.summarised
           /\ [doc EXCEPT !.span_revision = @ + 1].summarised = doc.summarised
BY DEF ApplySpans, Finalize, Placeholder, Absent, TraceDoc

LEMMA AbsentStep ==
    TypeOK /\ PhaseInv /\ AbsentInv /\ [Next]_vars => AbsentInv'
<1> SUFFICES ASSUME TypeOK, PhaseInv, AbsentInv, [Next]_vars
             PROVE  AbsentInv'
  OBVIOUS
<1> USE ExperimentsAssumption
    DEF TypeOK, CollectionsTypeOK, PhaseInv, LogPhases, StartPhases, AbsentInv,
        Present, OwnedBy, collections
<1>1. ASSUME NEW c \in LogCalls, NEW t \in Traces, EnsureInsert(c, t)
      PROVE  AbsentInv'
  BY <1>1, OwnerOfDocument DEF EnsureInsert
<1>2. ASSUME NEW c \in LogCalls, NEW t \in Traces, TakeRevision(c, t)
      PROVE  AbsentInv'
  <2>1. location[c] \in Experiments
    BY <1>2 DEF TakeRevision, Refreshes
  <2>2. CASE ~OwnedBy(t, location[c])
    BY <1>2, <2>2 DEF TakeRevision
  <2>3. CASE OwnedBy(t, location[c])
    <3>1. trace' = [trace EXCEPT ![t] = [trace[t] EXCEPT !.span_revision = @ + 1]]
      BY <1>2, <2>3 DEF TakeRevision
    <3> QED
      BY OwnerOfDocument, <2>1, <2>3, <3>1
  <2> QED
    BY <2>2, <2>3
<1>3. ASSUME NEW c \in LogCalls, ApplySummary(c)
      PROVE  AbsentInv'
  BY <1>3, OwnerOfDocument DEF ApplySummary
<1>4. ASSUME NEW c \in StartCalls, StartLookup(c)
      PROVE  AbsentInv'
  BY <1>4, OwnerOfDocument DEF StartLookup
<1>5. ASSUME NEW c \in StartCalls, StartInsert(c)
      PROVE  AbsentInv'
  BY <1>5, OwnerOfDocument DEF StartInsert
<1>6. CASE UNCHANGED trace
  BY <1>6
<1> QED
  BY <1>1, <1>2, <1>3, <1>4, <1>5, <1>6
     DEF Next, Arrive, LogStep, LateRead, StartStep, Fault, AllReturned, LogSpans,
         EnsureLookup, EnsureBulkReturns, PersistSpan, ReadSpans, ReadArrivingSpan,
         RejectSummary, LogSpansReturns, StartTrace, ReplaceAssessments,
         StartTraceReturns, CallFaults, RefreshFaults, vars

(* No step changes the owner of a trace or lowers a revision, and a        *)
(* document keeps its summary unless ApplySummary replaces it.             *)
DocumentsKept ==
    \A t \in Traces :
       /\ Present(t) => trace'[t].experiment_id = trace[t].experiment_id
       /\ \/ trace'[t].summarised = trace[t].summarised
          \/ \E c \in LogCalls : ApplySummary(c) /\ t = current[c]
       /\ trace[t].span_revision <= trace'[t].span_revision
       /\ trace[t].span_revision \in Nat /\ trace'[t].span_revision \in Nat

LEMMA StepKeepsDocuments ==
    TypeOK /\ PhaseInv /\ AbsentInv /\ [Next]_vars => DocumentsKept
<1> SUFFICES ASSUME TypeOK, PhaseInv, AbsentInv, [Next]_vars
             PROVE  DocumentsKept
  OBVIOUS
<1>0. \A t \in Traces : trace[t].span_revision \in Nat
  BY DEF TypeOK, CollectionsTypeOK, TraceDoc
<1> USE <1>0, OwnerOfDocument, RevisionOfDocument, SummaryOfDocument
    DEF TypeOK, CollectionsTypeOK, PhaseInv, LogPhases, StartPhases, AbsentInv,
        Present, OwnedBy, DocumentsKept, collections
<1>1. ASSUME NEW c \in LogCalls, NEW t \in Traces, EnsureInsert(c, t)
      PROVE  DocumentsKept
  BY <1>1 DEF EnsureInsert
<1>2. ASSUME NEW c \in LogCalls, NEW t \in Traces, TakeRevision(c, t)
      PROVE  DocumentsKept
  <2>1. location[c] \in Experiments
    BY <1>2 DEF TakeRevision, Refreshes
  <2>2. CASE ~OwnedBy(t, location[c])
    BY <1>2, <2>2 DEF TakeRevision
  <2>3. CASE OwnedBy(t, location[c])
    <3>1. trace' = [trace EXCEPT ![t] = [trace[t] EXCEPT !.span_revision = @ + 1]]
      BY <1>2, <2>3 DEF TakeRevision
    <3> QED
      BY <1>2, <2>1, <2>3, <3>1
  <2> QED
    BY <2>2, <2>3
<1>3. ASSUME NEW c \in LogCalls, ApplySummary(c)
      PROVE  DocumentsKept
  <2>1. location[c] \in Experiments /\ current[c] \in Traces
    BY <1>3 DEF ApplySummary
  <2>2. trace' = [trace EXCEPT ![current[c]] = ApplySpans(trace[current[c]], snapshot[c])]
    BY <1>3, <2>1 DEF ApplySummary
  <2> QED
    BY <1>3, <2>1, <2>2
<1>4. ASSUME NEW c \in StartCalls, StartLookup(c)
      PROVE  DocumentsKept
  BY <1>4 DEF StartLookup
<1>5. ASSUME NEW c \in StartCalls, StartInsert(c)
      PROVE  DocumentsKept
  BY <1>5 DEF StartInsert
<1>6. CASE UNCHANGED trace
  BY <1>6
<1> QED
  BY <1>1, <1>2, <1>3, <1>4, <1>5, <1>6
     DEF Next, Arrive, LogStep, LateRead, StartStep, Fault, AllReturned, LogSpans,
         EnsureLookup, EnsureBulkReturns, PersistSpan, ReadSpans, ReadArrivingSpan,
         RejectSummary, LogSpansReturns, StartTrace, ReplaceAssessments,
         StartTraceReturns, CallFaults, RefreshFaults, vars

LEMMA OwnershipStep ==
    TypeOK /\ PhaseInv /\ AbsentInv /\ OwnershipInv /\ [Next]_vars => OwnershipInv'
<1> SUFFICES ASSUME TypeOK, PhaseInv, AbsentInv, OwnershipInv, [Next]_vars
             PROVE  OwnershipInv'
  OBVIOUS
<1>0. \A t \in Traces, e \in Experiments :
         OwnedBy(t, e) => trace'[t].experiment_id = e
  BY StepKeepsDocuments, ExperimentsAssumption DEF DocumentsKept, Present, OwnedBy
<1> USE <1>0, TracesOfType, CallsAssumption
    DEF TypeOK, CollectionsTypeOK, PhaseInv, LogPhases, StartPhases, OwnershipInv,
        OwnedBy, Calls, Goto, Fail, collections, requests, upserts, refreshes
<1>1. ASSUME NEW c \in LogCalls, NEW e \in Experiments, NEW B \in Batches,
             LogSpans(c, e, B)
      PROVE  OwnershipInv'
  BY <1>1 DEF LogSpans
<1>2. ASSUME NEW c \in LogCalls, NEW t \in Traces, EnsureLookup(c, t)
      PROVE  OwnershipInv'
  BY <1>2 DEF EnsureLookup
<1>3. ASSUME NEW c \in LogCalls, NEW t \in Traces, EnsureInsert(c, t)
      PROVE  OwnershipInv'
  <2>1. CASE Present(t)
    BY <1>3, <2>1 DEF EnsureInsert
  <2>2. CASE ~Present(t)
    <3>1. trace'[t].experiment_id = location[c]
      BY <1>3, <2>2, OwnerOfDocument DEF EnsureInsert
    <3> QED
      BY <1>3, <2>2, <3>1 DEF EnsureInsert
  <2> QED
    BY <2>1, <2>2
<1>4. ASSUME NEW c \in LogCalls, EnsureBulkReturns(c)
      PROVE  OwnershipInv'
  BY <1>4 DEF EnsureBulkReturns
<1>5. ASSUME NEW c \in LogCalls, NEW s \in Spans, PersistSpan(c, s)
      PROVE  OwnershipInv'
  BY <1>5 DEF PersistSpan
<1>6. ASSUME NEW c \in LogCalls, NEW t \in Traces, TakeRevision(c, t)
      PROVE  OwnershipInv'
  BY <1>6 DEF TakeRevision, Refreshes, RefreshEnds
<1>7. ASSUME NEW c \in LogCalls, ReadSpans(c)
      PROVE  OwnershipInv'
  BY <1>7 DEF ReadSpans, RefreshEnds
<1>8. ASSUME NEW c \in LogCalls, NEW s \in Spans, ReadArrivingSpan(c, s)
      PROVE  OwnershipInv'
  BY <1>8 DEF ReadArrivingSpan
<1>9. ASSUME NEW c \in LogCalls, ApplySummary(c)
      PROVE  OwnershipInv'
  BY <1>9 DEF ApplySummary, RefreshEnds
<1>10. ASSUME NEW c \in LogCalls, RejectSummary(c)
       PROVE  OwnershipInv'
  BY <1>10 DEF RejectSummary, Retries, RefreshEnds
<1>11. ASSUME NEW c \in LogCalls, LogSpansReturns(c)
       PROVE  OwnershipInv'
  BY <1>11 DEF LogSpansReturns
<1>12. ASSUME NEW c \in StartCalls, NEW e \in Experiments, NEW t \in Traces,
              NEW i \in TraceInfos, StartTrace(c, e, t, i)
       PROVE  OwnershipInv'
  BY <1>12 DEF StartTrace
<1>13. ASSUME NEW c \in StartCalls, StartLookup(c)
       PROVE  OwnershipInv'
  BY <1>13 DEF StartLookup
<1>14. ASSUME NEW c \in StartCalls, StartInsert(c)
       PROVE  OwnershipInv'
  BY <1>14 DEF StartInsert
<1>15. ASSUME NEW c \in StartCalls, ReplaceAssessments(c)
       PROVE  OwnershipInv'
  BY <1>15 DEF ReplaceAssessments
<1>16. ASSUME NEW c \in StartCalls, StartTraceReturns(c)
       PROVE  OwnershipInv'
  BY <1>16 DEF StartTraceReturns
<1>17. ASSUME NEW c \in Calls, CallFaults(c)
       PROVE  OwnershipInv'
  BY <1>17 DEF CallFaults
<1>18. ASSUME NEW c \in LogCalls, NEW t \in Traces, RefreshFaults(c, t)
       PROVE  OwnershipInv'
  BY <1>18 DEF RefreshFaults, RefreshEnds, Refreshes, Snapshots, SpansOf
<1>19. CASE UNCHANGED vars
  BY <1>19 DEF vars
<1> QED
  BY <1>1, <1>2, <1>3, <1>4, <1>5, <1>6, <1>7, <1>8, <1>9, <1>10, <1>11, <1>12,
     <1>13, <1>14, <1>15, <1>16, <1>17, <1>18, <1>19
     DEF Next, Arrive, LogStep, LateRead, StartStep, Fault, AllReturned

-----------------------------------------------------------------------------
(***************************************************************************)
(* Progress of a call through its batch.                                   *)
(***************************************************************************)

LEMMA ProgressStep ==
    TypeOK /\ PhaseInv /\ ProgressInv /\ [Next]_vars => ProgressInv'
<1> SUFFICES ASSUME TypeOK, PhaseInv, ProgressInv, [Next]_vars
             PROVE  ProgressInv'
  OBVIOUS
<1> USE CallsAssumption
    DEF TypeOK, CollectionsTypeOK, PhaseInv, LogPhases, StartPhases, Refreshing,
        ProgressInv, Calls, Goto, Fail, collections, requests, upserts, refreshes
<1>1. ASSUME NEW c \in LogCalls, NEW e \in Experiments, NEW B \in Batches,
             LogSpans(c, e, B)
      PROVE  ProgressInv'
  BY <1>1 DEF LogSpans
<1>2. ASSUME NEW c \in LogCalls, NEW t \in Traces, EnsureLookup(c, t)
      PROVE  ProgressInv'
  BY <1>2 DEF EnsureLookup
<1>3. ASSUME NEW c \in LogCalls, NEW t \in Traces, EnsureInsert(c, t)
      PROVE  ProgressInv'
  BY <1>3 DEF EnsureInsert
<1>4. ASSUME NEW c \in LogCalls, EnsureBulkReturns(c)
      PROVE  ProgressInv'
  BY <1>4 DEF EnsureBulkReturns
<1>5. ASSUME NEW c \in LogCalls, NEW s \in Spans, PersistSpan(c, s)
      PROVE  ProgressInv'
  BY <1>5 DEF PersistSpan
<1>6. ASSUME NEW c \in LogCalls, NEW t \in Traces, TakeRevision(c, t)
      PROVE  ProgressInv'
  BY <1>6 DEF TakeRevision, Refreshes, RefreshEnds
<1>7. ASSUME NEW c \in LogCalls, ReadSpans(c)
      PROVE  ProgressInv'
  BY <1>7 DEF ReadSpans, RefreshEnds
<1>8. ASSUME NEW c \in LogCalls, NEW s \in Spans, ReadArrivingSpan(c, s)
      PROVE  ProgressInv'
  BY <1>8 DEF ReadArrivingSpan
<1>9. ASSUME NEW c \in LogCalls, ApplySummary(c)
      PROVE  ProgressInv'
  BY <1>9 DEF ApplySummary, RefreshEnds
<1>10. ASSUME NEW c \in LogCalls, RejectSummary(c)
       PROVE  ProgressInv'
  BY <1>10 DEF RejectSummary, Retries, RefreshEnds
<1>11. ASSUME NEW c \in LogCalls, LogSpansReturns(c)
       PROVE  ProgressInv'
  BY <1>11 DEF LogSpansReturns
<1>12. ASSUME NEW c \in StartCalls, NEW e \in Experiments, NEW t \in Traces,
              NEW i \in TraceInfos, StartTrace(c, e, t, i)
       PROVE  ProgressInv'
  BY <1>12 DEF StartTrace
<1>13. ASSUME NEW c \in StartCalls, StartLookup(c)
       PROVE  ProgressInv'
  BY <1>13 DEF StartLookup
<1>14. ASSUME NEW c \in StartCalls, StartInsert(c)
       PROVE  ProgressInv'
  BY <1>14 DEF StartInsert
<1>15. ASSUME NEW c \in StartCalls, ReplaceAssessments(c)
       PROVE  ProgressInv'
  BY <1>15 DEF ReplaceAssessments
<1>16. ASSUME NEW c \in StartCalls, StartTraceReturns(c)
       PROVE  ProgressInv'
  BY <1>16 DEF StartTraceReturns
<1>17. ASSUME NEW c \in Calls, CallFaults(c)
       PROVE  ProgressInv'
  BY <1>17 DEF CallFaults
<1>18. ASSUME NEW c \in LogCalls, NEW t \in Traces, RefreshFaults(c, t)
       PROVE  ProgressInv'
  BY <1>18 DEF RefreshFaults, RefreshEnds, Refreshes, Snapshots, SpansOf
<1>19. CASE UNCHANGED vars
  BY <1>19 DEF vars
<1> QED
  BY <1>1, <1>2, <1>3, <1>4, <1>5, <1>6, <1>7, <1>8, <1>9, <1>10, <1>11, <1>12,
     <1>13, <1>14, <1>15, <1>16, <1>17, <1>18, <1>19
     DEF Next, Arrive, LogStep, LateRead, StartStep, Fault, AllReturned

-----------------------------------------------------------------------------
(***************************************************************************)
(* The two steps that change what a call may still write.                  *)
(***************************************************************************)

(* The effect of TakeRevision(c, t) that finds the document. *)
Took(c, t) ==
    /\ Refreshes(c, t)
    /\ pc' = [pc EXCEPT ![c] = "read"]
    /\ revision' = [revision EXCEPT ![c] = trace[t].span_revision + 1]
    /\ current' = [current EXCEPT ![c] = t]
    /\ superseded' = superseded \union {d \in Calls : Snapshots(d, t)}
    /\ trace'[t].span_revision = trace[t].span_revision + 1
    /\ trace'[t].summarised = trace[t].summarised
    /\ \A u \in Traces \ {t} : trace'[u] = trace[u]
    /\ UNCHANGED <<spans, lost, batch, todo, snapshot, error>>

LEMMA TakeRevisionTakes ==
    ASSUME TypeOK, PhaseInv, NEW c \in LogCalls, NEW t \in Traces,
           TakeRevision(c, t), OwnedBy(t, location[c])
    PROVE  Took(c, t)
<1>1. location[c] \in Experiments
  BY DEF TakeRevision, Refreshes, PhaseInv, LogPhases
<1>2. /\ trace' = [trace EXCEPT ![t] = [trace[t] EXCEPT !.span_revision = @ + 1]]
      /\ trace \in [Traces -> TraceDoc]
  BY DEF TakeRevision, TypeOK, CollectionsTypeOK
<1>3. /\ trace'[t].span_revision = trace[t].span_revision + 1
      /\ trace'[t].summarised = trace[t].summarised
      /\ \A u \in Traces \ {t} : trace'[u] = trace[u]
  BY <1>1, <1>2, RevisionOfDocument, SummaryOfDocument
<1> QED
  BY <1>3 DEF TakeRevision, Took, Goto, requests

(* The effect of ApplySummary(c) on trace t. *)
Applied(c, t) ==
    /\ t = current[c] /\ pc[c] = "update"
    /\ trace[t].span_revision = revision[c]
    /\ trace' = [trace EXCEPT ![t] = ApplySpans(trace[t], snapshot[c])]
    /\ trace'[t].span_revision = trace[t].span_revision
    /\ trace'[t].summarised = snapshot[c]
    /\ \A u \in Traces \ {t} : trace'[u] = trace[u]
    /\ lost' = lost \ snapshot[c]
    /\ pc' = [pc EXCEPT ![c] = "refresh"]
    /\ todo' = [todo EXCEPT ![c] = @ \ {t}]
    /\ error'[c] = "none" => error[c] = "none"
    /\ \A d \in Calls \ {c} :
          /\ current'[d] = current[d] /\ revision'[d] = revision[d]
          /\ snapshot'[d] = snapshot[d] /\ error'[d] = error[d]
    /\ UNCHANGED <<spans, batch, location, info>>

LEMMA ApplySummaryApplies ==
    ASSUME TypeOK, PhaseInv, NEW c \in LogCalls, ApplySummary(c)
    PROVE  \E t \in Traces : Applied(c, t)
<1>1. PICK t \in Traces : t = current[c] /\ location[c] \in Experiments
  BY DEF ApplySummary, PhaseInv, LogPhases
<1>2. /\ trace' = [trace EXCEPT ![t] = ApplySpans(trace[t], snapshot[c])]
      /\ trace \in [Traces -> TraceDoc]
  BY <1>1 DEF ApplySummary, TypeOK, CollectionsTypeOK
<1>3. /\ trace'[t].span_revision = trace[t].span_revision
      /\ trace'[t].summarised = snapshot[c]
      /\ \A u \in Traces \ {t} : trace'[u] = trace[u]
  BY <1>1, <1>2, RevisionOfDocument, SummaryOfDocument
<1>4. /\ error' = [error EXCEPT ![c] = IF @ = "none" THEN "none" ELSE @]
         \/ error' = [error EXCEPT ![c] = IF @ = "none" THEN "persistence" ELSE @]
      /\ error \in [Calls -> Errors] /\ c \in Calls
  BY DEF ApplySummary, RefreshEnds, TypeOK, Calls
<1>5. /\ error'[c] = "none" => error[c] = "none"
      /\ \A d \in Calls \ {c} : error'[d] = error[d]
  BY <1>4
<1>6. /\ pc[c] = "update" /\ trace[t].span_revision = revision[c]
      /\ lost' = lost \ snapshot[c]
      /\ pc' = [pc EXCEPT ![c] = "refresh"]
      /\ todo' = [todo EXCEPT ![c] = @ \ {t}]
      /\ UNCHANGED <<spans, batch, location, info>>
  BY <1>1 DEF ApplySummary, RefreshEnds, Goto, requests
<1>7. \A d \in Calls \ {c} :
         /\ current'[d] = current[d] /\ revision'[d] = revision[d]
         /\ snapshot'[d] = snapshot[d]
  BY DEF ApplySummary, RefreshEnds, TypeOK
<1> QED
  BY <1>1, <1>2, <1>3, <1>5, <1>6, <1>7 DEF Applied

-----------------------------------------------------------------------------
(***************************************************************************)
(* Revisions.                                                              *)
(***************************************************************************)

LEMMA RevisionStep ==
    TypeOK /\ PhaseInv /\ AbsentInv /\ RevisionInv /\ [Next]_vars => RevisionInv'
<1> SUFFICES ASSUME TypeOK, PhaseInv, AbsentInv, RevisionInv, [Next]_vars
             PROVE  RevisionInv'
  OBVIOUS
<1>0. \A t \in Traces :
         /\ trace[t].span_revision <= trace'[t].span_revision
         /\ trace[t].span_revision \in Nat /\ trace'[t].span_revision \in Nat
  BY StepKeepsDocuments DEF DocumentsKept
<1> USE CallsAssumption
    DEF TypeOK, CollectionsTypeOK, PhaseInv, LogPhases, StartPhases, Snapshots,
        RevisionInv, Calls, Goto, Fail, collections, requests, upserts, refreshes
<1>1. ASSUME NEW c \in LogCalls, NEW e \in Experiments, NEW B \in Batches,
             LogSpans(c, e, B)
      PROVE  RevisionInv'
  BY <1>1, <1>0 DEF LogSpans
<1>2. ASSUME NEW c \in LogCalls, NEW t \in Traces, EnsureLookup(c, t)
      PROVE  RevisionInv'
  BY <1>2, <1>0 DEF EnsureLookup
<1>3. ASSUME NEW c \in LogCalls, NEW t \in Traces, EnsureInsert(c, t)
      PROVE  RevisionInv'
  BY <1>3, <1>0 DEF EnsureInsert
<1>4. ASSUME NEW c \in LogCalls, EnsureBulkReturns(c)
      PROVE  RevisionInv'
  BY <1>4, <1>0 DEF EnsureBulkReturns
<1>5. ASSUME NEW c \in LogCalls, NEW s \in Spans, PersistSpan(c, s)
      PROVE  RevisionInv'
  BY <1>5, <1>0 DEF PersistSpan
<1>6. ASSUME NEW c \in LogCalls, NEW t \in Traces, TakeRevision(c, t)
      PROVE  RevisionInv'
  <2>1. CASE ~OwnedBy(t, location[c])
    BY <1>6, <1>0, <2>1 DEF TakeRevision, Refreshes, RefreshEnds
  <2>2. CASE OwnedBy(t, location[c])
    <3>1. Took(c, t)
      BY <1>6, <2>2, TakeRevisionTakes
    <3>2. pc[c] \in {"refresh", "retry"}
      BY <3>1 DEF Took, Refreshes
    <3> USE <3>1, <3>2 DEF Took
    <3>3. \A d \in LogCalls, u \in Traces :
             Snapshots(d, u)' => \/ Snapshots(d, u) /\ d # c
                                 \/ d = c /\ u = t
      OBVIOUS
    <3>4. \A d \in LogCalls, u \in Traces :
             Snapshots(d, u)' => revision'[d] <= trace'[u].span_revision
      BY <1>0, <3>3
    <3>5. \A d \in LogCalls :
             Snapshots(d, t) => revision[d] < trace'[t].span_revision
      BY <1>0
    <3>6. \A d1, d2 \in LogCalls, u \in Traces :
             Snapshots(d1, u)' /\ Snapshots(d2, u)' /\ revision'[d1] = revision'[d2]
             => d1 = d2
      BY <1>0, <3>3, <3>5
    <3>7. \A d \in superseded' : d \in LogCalls /\ pc'[d] \in {"read", "update"}
      OBVIOUS
    <3>8. \A d \in superseded', u \in Traces :
             Snapshots(d, u)' => revision'[d] < trace'[u].span_revision
      BY <1>0, <3>3, <3>5
    <3> QED
      BY <3>4, <3>6, <3>7, <3>8
  <2> QED
    BY <2>1, <2>2
<1>7. ASSUME NEW c \in LogCalls, ReadSpans(c)
      PROVE  RevisionInv'
  BY <1>7, <1>0 DEF ReadSpans, RefreshEnds
<1>8. ASSUME NEW c \in LogCalls, NEW s \in Spans, ReadArrivingSpan(c, s)
      PROVE  RevisionInv'
  BY <1>8, <1>0 DEF ReadArrivingSpan
<1>9. ASSUME NEW c \in LogCalls, ApplySummary(c)
      PROVE  RevisionInv'
  BY <1>9, <1>0 DEF ApplySummary, RefreshEnds
<1>10. ASSUME NEW c \in LogCalls, RejectSummary(c)
       PROVE  RevisionInv'
  BY <1>10, <1>0 DEF RejectSummary, Retries, RefreshEnds
<1>11. ASSUME NEW c \in LogCalls, LogSpansReturns(c)
       PROVE  RevisionInv'
  BY <1>11, <1>0 DEF LogSpansReturns
<1>12. ASSUME NEW c \in StartCalls, NEW e \in Experiments, NEW t \in Traces,
              NEW i \in TraceInfos, StartTrace(c, e, t, i)
       PROVE  RevisionInv'
  BY <1>12, <1>0 DEF StartTrace
<1>13. ASSUME NEW c \in StartCalls, StartLookup(c)
       PROVE  RevisionInv'
  BY <1>13, <1>0 DEF StartLookup
<1>14. ASSUME NEW c \in StartCalls, StartInsert(c)
       PROVE  RevisionInv'
  BY <1>14, <1>0 DEF StartInsert
<1>15. ASSUME NEW c \in StartCalls, ReplaceAssessments(c)
       PROVE  RevisionInv'
  BY <1>15, <1>0 DEF ReplaceAssessments
<1>16. ASSUME NEW c \in StartCalls, StartTraceReturns(c)
       PROVE  RevisionInv'
  BY <1>16, <1>0 DEF StartTraceReturns
<1>17. ASSUME NEW c \in Calls, CallFaults(c)
       PROVE  RevisionInv'
  BY <1>17, <1>0 DEF CallFaults
<1>18. ASSUME NEW c \in LogCalls, NEW t \in Traces, RefreshFaults(c, t)
       PROVE  RevisionInv'
  BY <1>18, <1>0 DEF RefreshFaults, RefreshEnds, Refreshes, Snapshots, SpansOf
<1>19. CASE UNCHANGED vars
  BY <1>19 DEF vars
<1> QED
  BY <1>1, <1>2, <1>3, <1>4, <1>5, <1>6, <1>7, <1>8, <1>9, <1>10, <1>11, <1>12,
     <1>13, <1>14, <1>15, <1>16, <1>17, <1>18, <1>19
     DEF Next, Arrive, LogStep, LateRead, StartStep, Fault, AllReturned

-----------------------------------------------------------------------------
(***************************************************************************)
(* Summaries.                                                              *)
(***************************************************************************)

LEMMA StepKeepsSpans == [Next]_vars => spans \subseteq spans'
BY DEF Next, Arrive, LogStep, LateRead, StartStep, Fault, AllReturned, LogSpans,
       EnsureLookup, EnsureInsert, EnsureBulkReturns, PersistSpan, TakeRevision,
       ReadSpans, ReadArrivingSpan, ApplySummary, RejectSummary, LogSpansReturns,
       StartTrace, StartLookup, StartInsert, ReplaceAssessments, StartTraceReturns,
       CallFaults, RefreshFaults, collections, vars

LEMMA SummaryStep ==
    /\ TypeOK /\ PhaseInv /\ AbsentInv /\ ProgressInv /\ RevisionInv
    /\ RevisionInv' /\ SummaryInv /\ [Next]_vars
    => SummaryInv'
<1> SUFFICES ASSUME TypeOK, PhaseInv, AbsentInv, ProgressInv, RevisionInv,
                    RevisionInv', SummaryInv, [Next]_vars
             PROVE  SummaryInv'
  OBVIOUS
<1>0. /\ spans \subseteq spans' /\ spans' \subseteq Spans
      /\ \A t \in Traces :
            /\ trace[t].span_revision <= trace'[t].span_revision
            /\ trace[t].span_revision \in Nat /\ trace'[t].span_revision \in Nat
  BY StepKeepsDocuments, StepKeepsSpans, TypeStep
     DEF DocumentsKept, TypeOK, CollectionsTypeOK
<1>b. ASSUME NEW d \in LogCalls, NEW u \in Traces,
             Snapshots(d, u), revision[d] = trace'[u].span_revision
      PROVE  revision[d] = trace[u].span_revision
  <2>1. revision[d] \in Nat /\ revision[d] <= trace[u].span_revision
    BY <1>b DEF RevisionInv, TypeOK, Calls
  <2> QED
    BY <1>0, <1>b, <2>1
<1> USE CallsAssumption
    DEF TypeOK, CollectionsTypeOK, PhaseInv, LogPhases, StartPhases, Snapshots, Holds,
        SummaryInv, Calls, Goto, Fail, collections, requests, upserts, refreshes
<1>a. ASSUME \A u \in Traces : trace'[u].summarised = trace[u].summarised,
             \A d \in LogCalls : pc'[d] = pc[d],
             UNCHANGED <<batch, current, revision, snapshot>>
      PROVE  SummaryInv'
  <2>1. \A u \in Traces : SpansOf(u) \subseteq SpansOf(u)'
    BY <1>0 DEF SpansOf
  <2>2. ASSUME NEW d \in LogCalls, NEW u \in Traces, Holds(d, u)'
        PROVE  Holds(d, u)
    <3>1. Snapshots(d, u) /\ revision[d] = trace'[u].span_revision
      BY <1>a, <2>2
    <3>2. revision[d] = trace[u].span_revision
      BY <1>b, <3>1
    <3> QED
      BY <3>1, <3>2
  <2>3. \A u \in Traces : trace'[u].summarised \subseteq SpansOf(u)'
    BY <1>a, <2>1
  <2>4. \A d \in LogCalls :
           pc'[d] = "update" =>
              /\ snapshot'[d] \subseteq SpansOf(current[d])'
              /\ {s \in batch'[d] : TraceOf[s] = current'[d]} \subseteq snapshot'[d]
    <3> SUFFICES ASSUME NEW d \in LogCalls, pc'[d] = "update"
                 PROVE  /\ snapshot'[d] \subseteq SpansOf(current[d])'
                        /\ {s \in batch'[d] : TraceOf[s] = current'[d]} \subseteq snapshot'[d]
      OBVIOUS
    <3>1. pc[d] = "update" /\ current[d] \in Traces /\ current'[d] = current[d]
      BY <1>a
    <3>2. SpansOf(current[d]) \subseteq SpansOf(current[d])'
      BY <3>1, <1>0 DEF SpansOf
    <3> QED
      BY <1>a, <3>1, <3>2
  <2> QED
    BY <1>a, <2>2, <2>3, <2>4
<1>1. ASSUME NEW c \in LogCalls, NEW e \in Experiments, NEW B \in Batches,
             LogSpans(c, e, B)
      PROVE  SummaryInv'
  BY <1>1, <1>0 DEF LogSpans, SpansOf
<1>2. ASSUME NEW c \in LogCalls, NEW t \in Traces, EnsureLookup(c, t)
      PROVE  SummaryInv'
  BY <1>2, <1>0 DEF EnsureLookup, SpansOf
<1>3. ASSUME NEW c \in LogCalls, NEW t \in Traces, EnsureInsert(c, t)
      PROVE  SummaryInv'
  <2>1. \A u \in Traces : trace'[u].summarised = trace[u].summarised
    BY <1>3, SummaryOfDocument DEF EnsureInsert, AbsentInv
  <2> QED
    BY <1>a, <1>3, <2>1 DEF EnsureInsert
<1>4. ASSUME NEW c \in LogCalls, EnsureBulkReturns(c)
      PROVE  SummaryInv'
  BY <1>4, <1>0 DEF EnsureBulkReturns, SpansOf
<1>5. ASSUME NEW c \in LogCalls, NEW s \in Spans, PersistSpan(c, s)
      PROVE  SummaryInv'
  BY <1>5, <1>0 DEF PersistSpan, SpansOf
<1>6. ASSUME NEW c \in LogCalls, NEW t \in Traces, TakeRevision(c, t)
      PROVE  SummaryInv'
  <2>1. CASE ~OwnedBy(t, location[c])
    BY <1>6, <1>0, <2>1 DEF TakeRevision, Refreshes, RefreshEnds, SpansOf
  <2>2. CASE OwnedBy(t, location[c])
    <3>1. Took(c, t)
      BY <1>6, <2>2, TakeRevisionTakes
    <3>2. \A u \in Traces : trace'[u].summarised = trace[u].summarised
      BY <3>1 DEF Took
    <3>3. \A d \in LogCalls, u \in Traces :
             pc'[d] = "update" /\ Holds(d, u)' => pc[d] = "update" /\ Holds(d, u)
      BY <1>0, <3>1 DEF RevisionInv, Took
    <3> QED
      BY <3>1, <3>2, <3>3 DEF SpansOf, Took
  <2> QED
    BY <2>1, <2>2
<1>7. ASSUME NEW c \in LogCalls, ReadSpans(c)
      PROVE  SummaryInv'
  <2>1. CASE SpansOf(current[c]) = {}
    BY <1>7, <2>1 DEF ReadSpans, RefreshEnds, SpansOf
  <2>2. CASE SpansOf(current[c]) # {}
    <3>1. /\ pc[c] = "read" /\ pc' = [pc EXCEPT ![c] = "update"]
          /\ snapshot' = [snapshot EXCEPT ![c] = SpansOf(current[c])]
          /\ UNCHANGED <<trace, spans, batch, current, revision>>
      BY <1>7, <2>2 DEF ReadSpans
    <3>2. /\ \A u \in Traces : SpansOf(u)' = SpansOf(u)
          /\ SpansOf(current[c])' = SpansOf(current[c])
      BY <3>1 DEF SpansOf
    <3>3. {s \in batch[c] : TraceOf[s] = current[c]} \subseteq SpansOf(current[c])
      BY <3>1 DEF ProgressInv, Refreshing, SpansOf
    <3>4. \A d \in LogCalls \ {c} :
             pc'[d] = pc[d] /\ snapshot'[d] = snapshot[d] /\ SpansOf(current[d])' = SpansOf(current[d])
      BY <3>1 DEF SpansOf
    <3> QED
      BY <3>1, <3>2, <3>3, <3>4
  <2> QED
    BY <2>1, <2>2
<1>8. ASSUME NEW c \in LogCalls, NEW s \in Spans, ReadArrivingSpan(c, s)
      PROVE  SummaryInv'
  BY <1>8, <1>0 DEF ReadArrivingSpan, SpansOf
<1>9. ASSUME NEW c \in LogCalls, ApplySummary(c)
      PROVE  SummaryInv'
  <2>1. PICK t \in Traces : Applied(c, t)
    BY <1>9, ApplySummaryApplies
  <2> USE <2>1 DEF Applied
  <2>2. snapshot[c] \subseteq SpansOf(t)
    OBVIOUS
  <2>3. \A d \in LogCalls : pc'[d] = "update" => ~Holds(d, t)'
    BY DEF RevisionInv
  <2>4. \A u \in Traces : SpansOf(u)' = SpansOf(u)
    BY DEF SpansOf
  <2>5. \A d \in LogCalls :
           pc'[d] = "update" => /\ d # c /\ pc[d] = "update"
                                /\ SpansOf(current[d])' = SpansOf(current[d])
    BY DEF SpansOf
  <2> QED
    BY <2>2, <2>3, <2>4, <2>5
<1>10. ASSUME NEW c \in LogCalls, RejectSummary(c)
       PROVE  SummaryInv'
  BY <1>10, <1>0 DEF RejectSummary, Retries, RefreshEnds, SpansOf
<1>11. ASSUME NEW c \in LogCalls, LogSpansReturns(c)
       PROVE  SummaryInv'
  BY <1>11, <1>0 DEF LogSpansReturns, SpansOf
<1>12. ASSUME NEW c \in StartCalls, NEW e \in Experiments, NEW t \in Traces,
              NEW i \in TraceInfos, StartTrace(c, e, t, i)
       PROVE  SummaryInv'
  BY <1>12, <1>0 DEF StartTrace, SpansOf
<1>13. ASSUME NEW c \in StartCalls, StartLookup(c)
       PROVE  SummaryInv'
  <2>1. \A u \in Traces : trace'[u].summarised = trace[u].summarised
    BY <1>13, SummaryOfDocument DEF StartLookup
  <2> QED
    BY <1>a, <1>13, <2>1 DEF StartLookup
<1>14. ASSUME NEW c \in StartCalls, StartInsert(c)
       PROVE  SummaryInv'
  <2>1. \A u \in Traces : trace'[u].summarised = trace[u].summarised
    BY <1>14, SummaryOfDocument DEF StartInsert
  <2> QED
    BY <1>a, <1>14, <2>1 DEF StartInsert
<1>15. ASSUME NEW c \in StartCalls, ReplaceAssessments(c)
       PROVE  SummaryInv'
  BY <1>15, <1>0 DEF ReplaceAssessments, SpansOf
<1>16. ASSUME NEW c \in StartCalls, StartTraceReturns(c)
       PROVE  SummaryInv'
  BY <1>16, <1>0 DEF StartTraceReturns, SpansOf
<1>17. ASSUME NEW c \in Calls, CallFaults(c)
       PROVE  SummaryInv'
  BY <1>17, <1>0 DEF CallFaults, SpansOf
<1>18. ASSUME NEW c \in LogCalls, NEW t \in Traces, RefreshFaults(c, t)
       PROVE  SummaryInv'
  BY <1>18, <1>0 DEF RefreshFaults, RefreshEnds, Refreshes, Snapshots, SpansOf
<1>19. CASE UNCHANGED vars
  BY <1>19 DEF vars, SpansOf
<1> QED
  BY <1>1, <1>2, <1>3, <1>4, <1>5, <1>6, <1>7, <1>8, <1>9, <1>10, <1>11, <1>12,
     <1>13, <1>14, <1>15, <1>16, <1>17, <1>18, <1>19
     DEF Next, Arrive, LogStep, LateRead, StartStep, Fault, AllReturned

(* A summary is only ever replaced by a larger one. *)
LEMMA SummariesGrow ==
    TypeOK /\ PhaseInv /\ AbsentInv /\ SummaryInv /\ [Next]_vars
    => \A t \in Traces : trace[t].summarised \subseteq trace'[t].summarised
<1> SUFFICES ASSUME TypeOK, PhaseInv, AbsentInv, SummaryInv, [Next]_vars,
                    NEW t \in Traces
             PROVE  trace[t].summarised \subseteq trace'[t].summarised
  OBVIOUS
<1>1. CASE trace'[t].summarised = trace[t].summarised
  BY <1>1
<1>2. ASSUME NEW c \in LogCalls, ApplySummary(c), t = current[c]
      PROVE  trace[t].summarised \subseteq trace'[t].summarised
  <2>1. Applied(c, t)
    BY <1>2, ApplySummaryApplies DEF Applied
  <2> QED
    BY <2>1 DEF Applied, SummaryInv, Holds, Snapshots
<1> QED
  BY <1>1, <1>2, StepKeepsDocuments DEF DocumentsKept

LEMMA DoneStep ==
    /\ TypeOK /\ PhaseInv /\ AbsentInv /\ ProgressInv /\ SummaryInv
    /\ DoneInv /\ [Next]_vars
    => DoneInv'
<1> SUFFICES ASSUME TypeOK, PhaseInv, AbsentInv, ProgressInv, SummaryInv, DoneInv,
                    [Next]_vars
             PROVE  DoneInv'
  OBVIOUS
<1>0. \A t \in Traces : trace[t].summarised \subseteq trace'[t].summarised
  BY SummariesGrow
<1> USE CallsAssumption, SpansAssumption
    DEF TypeOK, CollectionsTypeOK, PhaseInv, LogPhases, StartPhases, Refreshing,
        DoneInv, TracesOf, Calls, Goto, Fail, collections, requests, upserts, refreshes
<1>1. ASSUME NEW c \in LogCalls, NEW e \in Experiments, NEW B \in Batches,
             LogSpans(c, e, B)
      PROVE  DoneInv'
  BY <1>1, <1>0 DEF LogSpans
<1>2. ASSUME NEW c \in LogCalls, NEW t \in Traces, EnsureLookup(c, t)
      PROVE  DoneInv'
  BY <1>2, <1>0 DEF EnsureLookup
<1>3. ASSUME NEW c \in LogCalls, NEW t \in Traces, EnsureInsert(c, t)
      PROVE  DoneInv'
  BY <1>3, <1>0 DEF EnsureInsert
<1>4. ASSUME NEW c \in LogCalls, EnsureBulkReturns(c)
      PROVE  DoneInv'
  BY <1>4, <1>0 DEF EnsureBulkReturns
<1>5. ASSUME NEW c \in LogCalls, NEW s \in Spans, PersistSpan(c, s)
      PROVE  DoneInv'
  BY <1>5, <1>0 DEF PersistSpan
<1>6. ASSUME NEW c \in LogCalls, NEW t \in Traces, TakeRevision(c, t)
      PROVE  DoneInv'
  BY <1>6, <1>0 DEF TakeRevision, Refreshes, RefreshEnds
<1>7. ASSUME NEW c \in LogCalls, ReadSpans(c)
      PROVE  DoneInv'
  BY <1>7, <1>0 DEF ReadSpans, RefreshEnds
<1>8. ASSUME NEW c \in LogCalls, NEW s \in Spans, ReadArrivingSpan(c, s)
      PROVE  DoneInv'
  BY <1>8, <1>0 DEF ReadArrivingSpan
<1>9. ASSUME NEW c \in LogCalls, ApplySummary(c)
      PROVE  DoneInv'
  <2>1. PICK t \in Traces : Applied(c, t)
    BY <1>9, ApplySummaryApplies
  <2> USE <2>1 DEF Applied
  <2>2. \A s \in batch[c] : TraceOf[s] = t => s \in trace'[t].summarised
    BY DEF SummaryInv
  <2> QED
    BY <1>0, <2>2
<1>10. ASSUME NEW c \in LogCalls, RejectSummary(c)
       PROVE  DoneInv'
  BY <1>10, <1>0 DEF RejectSummary, Retries, RefreshEnds
<1>11. ASSUME NEW c \in LogCalls, LogSpansReturns(c)
       PROVE  DoneInv'
  BY <1>11, <1>0 DEF LogSpansReturns
<1>12. ASSUME NEW c \in StartCalls, NEW e \in Experiments, NEW t \in Traces,
              NEW i \in TraceInfos, StartTrace(c, e, t, i)
       PROVE  DoneInv'
  BY <1>12, <1>0 DEF StartTrace
<1>13. ASSUME NEW c \in StartCalls, StartLookup(c)
       PROVE  DoneInv'
  BY <1>13, <1>0 DEF StartLookup
<1>14. ASSUME NEW c \in StartCalls, StartInsert(c)
       PROVE  DoneInv'
  BY <1>14, <1>0 DEF StartInsert
<1>15. ASSUME NEW c \in StartCalls, ReplaceAssessments(c)
       PROVE  DoneInv'
  BY <1>15, <1>0 DEF ReplaceAssessments
<1>16. ASSUME NEW c \in StartCalls, StartTraceReturns(c)
       PROVE  DoneInv'
  BY <1>16, <1>0 DEF StartTraceReturns
<1>17. ASSUME NEW c \in Calls, CallFaults(c)
       PROVE  DoneInv'
  BY <1>17, <1>0 DEF CallFaults
<1>18. ASSUME NEW c \in LogCalls, NEW t \in Traces, RefreshFaults(c, t)
       PROVE  DoneInv'
  BY <1>18, <1>0 DEF RefreshFaults, RefreshEnds, Refreshes, Snapshots, SpansOf
<1>19. CASE UNCHANGED vars
  BY <1>19 DEF vars
<1> QED
  BY <1>1, <1>2, <1>3, <1>4, <1>5, <1>6, <1>7, <1>8, <1>9, <1>10, <1>11, <1>12,
     <1>13, <1>14, <1>15, <1>16, <1>17, <1>18, <1>19
     DEF Next, Arrive, LogStep, LateRead, StartStep, Fault, AllReturned

-----------------------------------------------------------------------------
(***************************************************************************)
(* No span is forgotten.                                                   *)
(***************************************************************************)

LEMMA AccountedStep ==
    /\ TypeOK /\ PhaseInv /\ AbsentInv /\ OwnershipInv /\ ProgressInv
    /\ RevisionInv /\ SummaryInv /\ EverySpanAccountedFor /\ [Next]_vars
    => EverySpanAccountedFor'
<1> SUFFICES ASSUME TypeOK, PhaseInv, AbsentInv, OwnershipInv, ProgressInv,
                    RevisionInv, SummaryInv, EverySpanAccountedFor, [Next]_vars
             PROVE  EverySpanAccountedFor'
  OBVIOUS
<1>0. \A t \in Traces : trace[t].summarised \subseteq trace'[t].summarised
  BY SummariesGrow
<1>a. ASSUME \A u \in Traces : trace'[u].span_revision = trace[u].span_revision,
             \A d \in LogCalls :
                pc'[d] = pc[d] /\ (pc[d] # "ensure" => todo'[d] = todo[d]),
             UNCHANGED <<spans, lost, batch, current, revision, snapshot>>
      PROVE  EverySpanAccountedFor'
  BY <1>0, <1>a, SpansAssumption
     DEF EverySpanAccountedFor, WillRefresh, WillApply, Holds, Snapshots, TypeOK,
         CollectionsTypeOK
<1> USE CallsAssumption, SpansAssumption
    DEF TypeOK, CollectionsTypeOK, PhaseInv, LogPhases, StartPhases, Snapshots, Holds,
        EverySpanAccountedFor, WillRefresh, WillApply, SpansOf, TracesOf,
        Calls, Goto, Fail, collections, requests, upserts, refreshes
<1>1. ASSUME NEW c \in LogCalls, NEW e \in Experiments, NEW B \in Batches,
             LogSpans(c, e, B)
      PROVE  EverySpanAccountedFor'
  BY <1>1, <1>0 DEF LogSpans
<1>2. ASSUME NEW c \in LogCalls, NEW t \in Traces, EnsureLookup(c, t)
      PROVE  EverySpanAccountedFor'
  BY <1>2, <1>0 DEF EnsureLookup
<1>3. ASSUME NEW c \in LogCalls, NEW t \in Traces, EnsureInsert(c, t)
      PROVE  EverySpanAccountedFor'
  <2>1. \A u \in Traces : trace'[u].span_revision = trace[u].span_revision
    BY <1>3, RevisionOfDocument DEF EnsureInsert, AbsentInv
  <2> QED
    BY <1>a, <1>3, <2>1 DEF EnsureInsert
<1>4. ASSUME NEW c \in LogCalls, EnsureBulkReturns(c)
      PROVE  EverySpanAccountedFor'
  BY <1>4, <1>0 DEF EnsureBulkReturns
<1>5. ASSUME NEW c \in LogCalls, NEW s \in Spans, PersistSpan(c, s)
      PROVE  EverySpanAccountedFor'
  BY <1>5, <1>0 DEF PersistSpan, ProgressInv
<1>6. ASSUME NEW c \in LogCalls, NEW t \in Traces, TakeRevision(c, t)
      PROVE  EverySpanAccountedFor'
  <2>1. OwnedBy(t, location[c])
    BY <1>6 DEF TakeRevision, Refreshes, ProgressInv, OwnershipInv, Refreshing
  <2>2. Took(c, t)
    BY <1>6, <2>1, TakeRevisionTakes
  <2> USE <2>2 DEF Took, Refreshes
  <2>4. \A s \in spans : TraceOf[s] = t => WillApply(c, s)'
    OBVIOUS
  <2>5. \A d \in LogCalls, s \in spans :
           TraceOf[s] # t /\ WillRefresh(d, s) => WillRefresh(d, s)'
    OBVIOUS
  <2>6. \A d \in LogCalls, s \in spans :
           TraceOf[s] # t /\ WillApply(d, s) => WillApply(d, s)'
    OBVIOUS
  <2> QED
    BY <1>0, <2>4, <2>5, <2>6
<1>7. ASSUME NEW c \in LogCalls, ReadSpans(c)
      PROVE  EverySpanAccountedFor'
  BY <1>7, <1>0 DEF ReadSpans, RefreshEnds, ProgressInv, Refreshing
<1>8. ASSUME NEW c \in LogCalls, NEW s \in Spans, ReadArrivingSpan(c, s)
      PROVE  EverySpanAccountedFor'
  BY <1>8, <1>0 DEF ReadArrivingSpan
<1>9. ASSUME NEW c \in LogCalls, ApplySummary(c)
      PROVE  EverySpanAccountedFor'
  <2>1. PICK t \in Traces : Applied(c, t)
    BY <1>9, ApplySummaryApplies
  <2> USE <2>1 DEF Applied
  <2>3. \A s \in snapshot[c] : s \in trace'[t].summarised /\ TraceOf[s] = t
    BY DEF SummaryInv
  <2>4. \A d \in LogCalls, s \in spans : WillRefresh(d, s) => WillRefresh(d, s)'
    OBVIOUS
  <2>5. \A d \in LogCalls, s \in spans :
           WillApply(d, s) => WillApply(d, s)' \/ s \in snapshot[c]
    BY DEF RevisionInv
  <2> QED
    BY <1>0, <2>3, <2>4, <2>5
<1>10. ASSUME NEW c \in LogCalls, RejectSummary(c)
       PROVE  EverySpanAccountedFor'
  BY <1>10, <1>0 DEF RejectSummary, Retries, RefreshEnds, OwnershipInv, ProgressInv, Refreshing
<1>11. ASSUME NEW c \in LogCalls, LogSpansReturns(c)
       PROVE  EverySpanAccountedFor'
  BY <1>11, <1>0 DEF LogSpansReturns
<1>12. ASSUME NEW c \in StartCalls, NEW e \in Experiments, NEW t \in Traces,
              NEW i \in TraceInfos, StartTrace(c, e, t, i)
       PROVE  EverySpanAccountedFor'
  BY <1>12, <1>0 DEF StartTrace
<1>13. ASSUME NEW c \in StartCalls, StartLookup(c)
       PROVE  EverySpanAccountedFor'
  <2>1. \A u \in Traces : trace'[u].span_revision = trace[u].span_revision
    BY <1>13, RevisionOfDocument DEF StartLookup
  <2> QED
    BY <1>a, <1>13, <2>1 DEF StartLookup
<1>14. ASSUME NEW c \in StartCalls, StartInsert(c)
       PROVE  EverySpanAccountedFor'
  <2>1. \A u \in Traces : trace'[u].span_revision = trace[u].span_revision
    BY <1>14, RevisionOfDocument DEF StartInsert
  <2> QED
    BY <1>a, <1>14, <2>1 DEF StartInsert
<1>15. ASSUME NEW c \in StartCalls, ReplaceAssessments(c)
       PROVE  EverySpanAccountedFor'
  BY <1>15, <1>0 DEF ReplaceAssessments
<1>16. ASSUME NEW c \in StartCalls, StartTraceReturns(c)
       PROVE  EverySpanAccountedFor'
  BY <1>16, <1>0 DEF StartTraceReturns
<1>17. ASSUME NEW c \in Calls, CallFaults(c)
       PROVE  EverySpanAccountedFor'
  BY <1>17, <1>0 DEF CallFaults
<1>18. ASSUME NEW c \in LogCalls, NEW t \in Traces, RefreshFaults(c, t)
       PROVE  EverySpanAccountedFor'
  BY <1>18, <1>0 DEF RefreshFaults, RefreshEnds, Refreshes, Snapshots, SpansOf
<1>19. CASE UNCHANGED vars
  BY <1>19 DEF vars
<1> QED
  BY <1>1, <1>2, <1>3, <1>4, <1>5, <1>6, <1>7, <1>8, <1>9, <1>10, <1>11, <1>12,
     <1>13, <1>14, <1>15, <1>16, <1>17, <1>18, <1>19
     DEF Next, Arrive, LogStep, LateRead, StartStep, Fault, AllReturned

-----------------------------------------------------------------------------
(***************************************************************************)
(* Trace documents: everything a step can do to one of them.               *)
(***************************************************************************)

Created(t) ==
    trace[t] = Absent /\ \E e \in Experiments : trace'[t] = Placeholder(e)

Finalized(c, t) ==
    /\ pc[c] = "upsert" /\ t = current[c] /\ pc' = [pc EXCEPT ![c] = "assess"]
    /\ location[c] \in Experiments
    /\ trace'[t] = Finalize(trace[t], location[c], info[c])
    /\ UNCHANGED <<current, info>>

DocumentStep(t) ==
    \/ trace'[t] = trace[t]
    \/ Created(t)
    \/ trace'[t] = [trace[t] EXCEPT !.span_revision = @ + 1]
    \/ \E c \in LogCalls : Applied(c, t) /\ trace[t].summarised \subseteq snapshot[c]
    \/ \E c \in StartCalls : Finalized(c, t)

LEMMA StepOfDocument ==
    TypeOK /\ PhaseInv /\ AbsentInv /\ SummaryInv /\ [Next]_vars
    => \A t \in Traces : DocumentStep(t)
<1> SUFFICES ASSUME TypeOK, PhaseInv, AbsentInv, SummaryInv, [Next]_vars
             PROVE  \A t \in Traces : DocumentStep(t)
  OBVIOUS
<1>0. trace \in [Traces -> TraceDoc]
  BY DEF TypeOK, CollectionsTypeOK
<1>1. ASSUME NEW c \in LogCalls, NEW t \in Traces, EnsureInsert(c, t)
      PROVE  \A u \in Traces : DocumentStep(u)
  <2>1. location[c] \in Experiments
    BY <1>1 DEF EnsureInsert, PhaseInv, LogPhases
  <2>2. CASE Present(t)
    BY <1>1, <2>2 DEF EnsureInsert, DocumentStep
  <2>3. CASE ~Present(t)
    <3>1. trace' = [trace EXCEPT ![t] = Placeholder(location[c])]
      BY <1>1, <2>3 DEF EnsureInsert
    <3> QED
      BY <1>0, <2>1, <2>3, <3>1 DEF DocumentStep, Created, AbsentInv
  <2> QED
    BY <2>2, <2>3
<1>2. ASSUME NEW c \in LogCalls, NEW t \in Traces, TakeRevision(c, t)
      PROVE  \A u \in Traces : DocumentStep(u)
  BY <1>0, <1>2 DEF TakeRevision, DocumentStep
<1>3. ASSUME NEW c \in LogCalls, ApplySummary(c)
      PROVE  \A u \in Traces : DocumentStep(u)
  <2>1. PICK t \in Traces : Applied(c, t)
    BY <1>3, ApplySummaryApplies
  <2>2. trace[t].summarised \subseteq snapshot[c]
    BY <2>1 DEF Applied, SummaryInv, Holds, Snapshots
  <2> QED
    BY <1>0, <2>1, <2>2 DEF DocumentStep, Applied
<1>4. ASSUME NEW c \in StartCalls, StartLookup(c) \/ StartInsert(c)
      PROVE  \A u \in Traces : DocumentStep(u)
  <2>1. PICK t \in Traces : t = current[c] /\ location[c] \in Experiments
    BY <1>4 DEF StartLookup, StartInsert, PhaseInv, StartPhases
  <2>2. CASE trace' = trace
    BY <2>2 DEF DocumentStep
  <2>3. CASE trace' # trace
    <3>1. trace' = [trace EXCEPT ![t] = Finalize(trace[t], location[c], info[c])]
      BY <1>4, <2>1, <2>3 DEF StartLookup, StartInsert
    <3>2. Finalized(c, t)
      BY <1>0, <1>4, <2>1, <2>3, <3>1
         DEF StartLookup, StartInsert, Finalized, Goto, requests
    <3> QED
      BY <1>0, <3>1, <3>2 DEF DocumentStep
  <2> QED
    BY <2>2, <2>3
<1>5. CASE UNCHANGED trace
  BY <1>5 DEF DocumentStep
<1> QED
  BY <1>1, <1>2, <1>3, <1>4, <1>5
     DEF Next, Arrive, LogStep, LateRead, StartStep, Fault, AllReturned, LogSpans,
         EnsureLookup, EnsureBulkReturns, PersistSpan, ReadSpans, ReadArrivingSpan,
         RejectSummary, LogSpansReturns, StartTrace, ReplaceAssessments,
         StartTraceReturns, CallFaults, RefreshFaults, collections, vars

LEMMA DerivedStep ==
    /\ TypeOK /\ PhaseInv /\ AbsentInv /\ SummaryInv /\ DerivedInv /\ [Next]_vars
    => DerivedInv'
<1> SUFFICES ASSUME TypeOK, PhaseInv, AbsentInv, SummaryInv, DerivedInv, [Next]_vars,
                    NEW t \in Traces
             PROVE  /\ ~trace'[t].trace_info_finalized =>
                          trace'[t].times_from = trace'[t].summarised
                    /\ ~trace'[t].usage_authoritative =>
                          trace'[t].usage_from = trace'[t].summarised
  BY DEF DerivedInv
<1>1. trace[t] \in TraceDoc
  BY DEF TypeOK, CollectionsTypeOK
<1>2. DocumentStep(t)
  BY StepOfDocument
<1>3. CASE trace'[t] = trace[t]
  BY <1>3 DEF DerivedInv
<1>4. CASE Created(t)
  BY <1>4 DEF Created, Placeholder, Absent
<1>5. CASE trace'[t] = [trace[t] EXCEPT !.span_revision = @ + 1]
  BY <1>1, <1>5 DEF DerivedInv, TraceDoc
<1>6. ASSUME NEW c \in LogCalls, Applied(c, t)
      PROVE  trace'[t] = ApplySpans(trace[t], snapshot[c])
  BY <1>6 DEF Applied, TypeOK, CollectionsTypeOK
<1>7. ASSUME NEW S, trace'[t] = ApplySpans(trace[t], S)
      PROVE  /\ ~trace'[t].trace_info_finalized =>
                    trace'[t].times_from = trace'[t].summarised
             /\ ~trace'[t].usage_authoritative =>
                    trace'[t].usage_from = trace'[t].summarised
  BY <1>1, <1>7 DEF ApplySpans, TraceDoc
<1>8. ASSUME NEW c \in StartCalls, Finalized(c, t)
      PROVE  /\ trace'[t].trace_info_finalized
             /\ ~trace'[t].usage_authoritative =>
                    trace'[t].usage_from = trace'[t].summarised
  BY <1>1, <1>8 DEF Finalized, Finalize, TraceDoc, DerivedInv
<1> QED
  BY <1>2, <1>3, <1>4, <1>5, <1>6, <1>7, <1>8 DEF DocumentStep

-----------------------------------------------------------------------------
(***************************************************************************)
(* What start_trace reported.                                              *)
(***************************************************************************)

(* A start_trace call keeps its arguments, and is past its upsert only     *)
(* once it has finalized the document.                                     *)
StartCallsKept ==
    \A d \in StartCalls :
       /\ pc[d] # "idle" =>
             /\ pc'[d] # "idle"
             /\ current'[d] = current[d] /\ info'[d] = info[d]
             /\ location'[d] = location[d]
       /\ pc'[d] \in {"assess", "reload", "done"} =>
             \/ pc[d] \in {"assess", "reload", "done"}
             \/ current[d] \in Traces /\ Finalized(d, current[d])

LEMMA StepKeepsStartCalls ==
    TypeOK /\ PhaseInv /\ [Next]_vars => StartCallsKept
<1> SUFFICES ASSUME TypeOK, PhaseInv, [Next]_vars
             PROVE  StartCallsKept
  OBVIOUS
<1> USE CallsAssumption
    DEF TypeOK, CollectionsTypeOK, PhaseInv, LogPhases, StartPhases, StartCallsKept,
        Finalized, Calls, Goto, Fail, collections, requests, upserts, refreshes
<1>1. ASSUME NEW c \in LogCalls, NEW e \in Experiments, NEW B \in Batches,
             LogSpans(c, e, B)
      PROVE  StartCallsKept
  BY <1>1 DEF LogSpans
<1>2. ASSUME NEW c \in LogCalls, NEW t \in Traces, EnsureLookup(c, t)
      PROVE  StartCallsKept
  BY <1>2 DEF EnsureLookup
<1>3. ASSUME NEW c \in LogCalls, NEW t \in Traces, EnsureInsert(c, t)
      PROVE  StartCallsKept
  BY <1>3 DEF EnsureInsert
<1>4. ASSUME NEW c \in LogCalls, EnsureBulkReturns(c)
      PROVE  StartCallsKept
  BY <1>4 DEF EnsureBulkReturns
<1>5. ASSUME NEW c \in LogCalls, NEW s \in Spans, PersistSpan(c, s)
      PROVE  StartCallsKept
  BY <1>5 DEF PersistSpan
<1>6. ASSUME NEW c \in LogCalls, NEW t \in Traces, TakeRevision(c, t)
      PROVE  StartCallsKept
  BY <1>6 DEF TakeRevision, Refreshes, RefreshEnds
<1>7. ASSUME NEW c \in LogCalls, ReadSpans(c)
      PROVE  StartCallsKept
  BY <1>7 DEF ReadSpans, RefreshEnds
<1>8. ASSUME NEW c \in LogCalls, NEW s \in Spans, ReadArrivingSpan(c, s)
      PROVE  StartCallsKept
  BY <1>8 DEF ReadArrivingSpan
<1>9. ASSUME NEW c \in LogCalls, ApplySummary(c)
      PROVE  StartCallsKept
  BY <1>9 DEF ApplySummary, RefreshEnds
<1>10. ASSUME NEW c \in LogCalls, RejectSummary(c)
       PROVE  StartCallsKept
  BY <1>10 DEF RejectSummary, Retries, RefreshEnds
<1>11. ASSUME NEW c \in LogCalls, LogSpansReturns(c)
       PROVE  StartCallsKept
  BY <1>11 DEF LogSpansReturns
<1>12. ASSUME NEW c \in StartCalls, NEW e \in Experiments, NEW t \in Traces,
              NEW i \in TraceInfos, StartTrace(c, e, t, i)
       PROVE  StartCallsKept
  BY <1>12 DEF StartTrace
<1>13. ASSUME NEW c \in StartCalls, StartLookup(c)
       PROVE  StartCallsKept
  BY <1>13 DEF StartLookup
<1>14. ASSUME NEW c \in StartCalls, StartInsert(c)
       PROVE  StartCallsKept
  BY <1>14 DEF StartInsert
<1>15. ASSUME NEW c \in StartCalls, ReplaceAssessments(c)
       PROVE  StartCallsKept
  BY <1>15 DEF ReplaceAssessments
<1>16. ASSUME NEW c \in StartCalls, StartTraceReturns(c)
       PROVE  StartCallsKept
  BY <1>16 DEF StartTraceReturns
<1>17. ASSUME NEW c \in Calls, CallFaults(c)
       PROVE  StartCallsKept
  BY <1>17 DEF CallFaults
<1>18. ASSUME NEW c \in LogCalls, NEW t \in Traces, RefreshFaults(c, t)
       PROVE  StartCallsKept
  BY <1>18 DEF RefreshFaults, RefreshEnds, Refreshes, Snapshots, SpansOf
<1>19. CASE UNCHANGED vars
  BY <1>19 DEF vars
<1> QED
  BY <1>1, <1>2, <1>3, <1>4, <1>5, <1>6, <1>7, <1>8, <1>9, <1>10, <1>11, <1>12,
     <1>13, <1>14, <1>15, <1>16, <1>17, <1>18, <1>19
     DEF Next, Arrive, LogStep, LateRead, StartStep, Fault, AllReturned

LEMMA ReportStep ==
    /\ TypeOK /\ PhaseInv /\ AbsentInv /\ SummaryInv /\ ReportInv
    /\ ReportedMetadataKept /\ [Next]_vars
    => ReportInv' /\ ReportedMetadataKept'
<1> SUFFICES ASSUME TypeOK, PhaseInv, AbsentInv, SummaryInv, ReportInv,
                    ReportedMetadataKept, [Next]_vars, NEW t \in Traces,
                    Reported(t)' # {}
             PROVE  /\ trace'[t].trace_info_finalized /\ trace'[t].times_from = {}
                    /\ (\E c \in Reported(t)' : info'[c].usage) =>
                          trace'[t].usage_authoritative /\ trace'[t].usage_from = {}
                    /\ \E c \in Attempted(t)' :
                          info'[c].state \in NonFinal \union {trace'[t].state}
  BY DEF ReportInv, ReportedMetadataKept
<1>1. trace[t] \in TraceDoc /\ DocumentStep(t) /\ StartCallsKept
  BY StepOfDocument, StepKeepsStartCalls DEF TypeOK, CollectionsTypeOK
<1>2. \A c \in Reported(t)' :
         \/ c \in Reported(t) /\ info'[c] = info[c]
         \/ c \in StartCalls /\ Finalized(c, t)
  BY <1>1 DEF Reported, Attempted, StartCallsKept, Finalized
<1>3. \A c \in Attempted(t) : c \in Attempted(t)' /\ info'[c] = info[c]
  BY <1>1 DEF Attempted, StartCallsKept
<1>4. ASSUME NEW c \in StartCalls, Finalized(c, t)
      PROVE  /\ trace'[t].trace_info_finalized /\ trace'[t].times_from = {}
             /\ (\E d \in Reported(t)' : info'[d].usage) =>
                    trace'[t].usage_authoritative /\ trace'[t].usage_from = {}
             /\ \E d \in Attempted(t)' :
                    info'[d].state \in NonFinal \union {trace'[t].state}
  <2>1. /\ trace'[t] = Finalize(trace[t], location[c], info[c])
        /\ c \in Attempted(t)' /\ info'[c] = info[c]
        /\ info[c] \in TraceInfo
    BY <1>4, CallsAssumption DEF Finalized, Attempted, TypeOK, Calls
  <2>2. /\ trace'[t].trace_info_finalized /\ trace'[t].times_from = {}
        /\ trace'[t].state = info[c].state
    BY <1>1, <2>1 DEF Finalize, TraceDoc
  <2>3. ASSUME NEW d \in Reported(t)', info'[d].usage
        PROVE  trace'[t].usage_authoritative /\ trace'[t].usage_from = {}
    <3>1. CASE d \in Reported(t) /\ info'[d] = info[d]
      <4>1. trace[t].usage_authoritative /\ trace[t].usage_from = {}
        BY <2>3, <3>1 DEF ReportInv, ReportedMetadataKept
      <4> QED
        BY <1>1, <2>1, <4>1 DEF Finalize, TraceDoc
    <3>2. CASE d \in StartCalls /\ Finalized(d, t)
      <4>1. /\ trace'[t] = Finalize(trace[t], location[d], info[d])
            /\ info[d].usage
        BY <2>3, <3>2 DEF Finalized
      <4> QED
        BY <1>1, <4>1 DEF Finalize, TraceDoc
    <3> QED
      BY <1>2, <3>1, <3>2
  <2> QED
    BY <2>1, <2>2, <2>3
<1>5. ASSUME Reported(t)' \subseteq Reported(t),
             \A c \in Reported(t)' : info'[c] = info[c],
             trace'[t] = trace[t] \/ Created(t)
             \/ trace'[t] = [trace[t] EXCEPT !.span_revision = @ + 1]
             \/ \E S : trace'[t] = ApplySpans(trace[t], S)
      PROVE  /\ trace'[t].trace_info_finalized /\ trace'[t].times_from = {}
             /\ (\E d \in Reported(t)' : info'[d].usage) =>
                    trace'[t].usage_authoritative /\ trace'[t].usage_from = {}
             /\ \E d \in Attempted(t)' :
                    info'[d].state \in NonFinal \union {trace'[t].state}
  <2>1. /\ trace[t].trace_info_finalized /\ trace[t].times_from = {}
        /\ (\E d \in Reported(t)' : info'[d].usage) =>
              trace[t].usage_authoritative /\ trace[t].usage_from = {}
    BY <1>5 DEF ReportInv, ReportedMetadataKept
  <2>2. PICK c \in Attempted(t) : info[c].state \in NonFinal \union {trace[t].state}
    BY <1>5 DEF ReportedMetadataKept
  <2>3. ~Created(t)
    BY <2>1 DEF Created, Absent
  <2>4. /\ trace'[t].trace_info_finalized = trace[t].trace_info_finalized
        /\ trace'[t].times_from = trace[t].times_from
        /\ trace'[t].usage_authoritative = trace[t].usage_authoritative
        /\ trace[t].usage_authoritative => trace'[t].usage_from = trace[t].usage_from
        /\ trace'[t].state = trace[t].state \/ trace[t].state \in NonFinal
    BY <1>1, <1>5, <2>1, <2>3 DEF ApplySpans, TraceDoc
  <2>5. c \in Attempted(t)' /\ info'[c].state \in NonFinal \union {trace'[t].state}
    BY <1>3, <2>2, <2>4
  <2> QED
    BY <2>1, <2>4, <2>5
<1>6. ASSUME NEW c \in LogCalls, Applied(c, t)
      PROVE  trace'[t] = ApplySpans(trace[t], snapshot[c])
  BY <1>6 DEF Applied, TypeOK, CollectionsTypeOK
<1> QED
  BY <1>1, <1>2, <1>4, <1>5, <1>6 DEF DocumentStep

LEMMA DerivedStateStep ==
    /\ TypeOK /\ PhaseInv /\ AbsentInv /\ SummaryInv /\ DerivedStateExplained
    /\ [Next]_vars
    => DerivedStateExplained'
<1> DEFINE Explained(doc) ==
       LET roots == Roots(doc.summarised) IN
       IF roots = {} THEN doc.state = "IN_PROGRESS"
       ELSE \E r \in roots : doc.state = RootStatus[r]
<1> SUFFICES ASSUME TypeOK, PhaseInv, AbsentInv, SummaryInv, DerivedStateExplained,
                    [Next]_vars, NEW t \in Traces, ~trace'[t].trace_info_finalized
             PROVE  Explained(trace'[t])
  BY DEF DerivedStateExplained
<1>1. trace[t] \in TraceDoc /\ DocumentStep(t)
  BY StepOfDocument DEF TypeOK, CollectionsTypeOK
<1>2. Explained(Absent) /\ \A e \in Experiments : Explained(Placeholder(e))
  BY DEF Absent, Placeholder, Roots
<1>3. ~trace[t].trace_info_finalized => Explained(trace[t])
  BY <1>2 DEF DerivedStateExplained, AbsentInv
<1> HIDE DEF Explained
<1>4. CASE trace'[t] = trace[t]
  BY <1>3, <1>4
<1>5. CASE Created(t)
  BY <1>2, <1>5 DEF Created
<1>6. CASE trace'[t] = [trace[t] EXCEPT !.span_revision = @ + 1]
  BY <1>1, <1>3, <1>6 DEF Explained, TraceDoc
<1>7. ASSUME NEW c \in LogCalls, Applied(c, t), trace[t].summarised \subseteq snapshot[c]
      PROVE  Explained(trace'[t])
  <2> DEFINE S == snapshot[c]
  <2>1. trace'[t] = ApplySpans(trace[t], S) /\ S \in SUBSET Spans
    BY <1>7 DEF Applied, TypeOK, CollectionsTypeOK, Calls
  <2>2. /\ trace'[t].state = IF trace[t].state \in NonFinal THEN SummaryState(S)
                             ELSE trace[t].state
        /\ trace'[t].summarised = S
        /\ ~trace[t].trace_info_finalized
    BY <1>1, <2>1 DEF ApplySpans, TraceDoc
  <2>3. CASE trace[t].state \in NonFinal
    BY <2>1, <2>2, <2>3, SummaryStateOfRoot DEF Explained
  <2>4. CASE trace[t].state \notin NonFinal
    <3>1. PICK r \in Roots(trace[t].summarised) : trace[t].state = RootStatus[r]
      BY <1>3, <2>2, <2>4 DEF Explained, NonFinal
    <3>2. r \in Roots(S)
      BY <1>7, <3>1 DEF Roots
    <3> QED
      BY <2>2, <2>4, <3>1, <3>2 DEF Explained
  <2> QED
    BY <2>3, <2>4
<1>8. ASSUME NEW c \in StartCalls, Finalized(c, t)
      PROVE  FALSE
  BY <1>1, <1>8 DEF Finalized, Finalize, TraceDoc
<1> QED
  BY <1>1, <1>4, <1>5, <1>6, <1>7, <1>8 DEF DocumentStep

-----------------------------------------------------------------------------
(***************************************************************************)
(* Identity conflicts.                                                     *)
(***************************************************************************)

LEMMA ConflictStep ==
    TypeOK /\ PhaseInv /\ AbsentInv /\ ConflictInv /\ [Next]_vars => ConflictInv'
<1> SUFFICES ASSUME TypeOK, PhaseInv, AbsentInv, ConflictInv, [Next]_vars
             PROVE  ConflictInv'
  OBVIOUS
<1>0. \A u \in Traces :
         Present(u) => Present(u)' /\ \A e : OwnedBy(u, e)' <=> OwnedBy(u, e)
  BY StepKeepsDocuments DEF DocumentsKept, Present, OwnedBy
<1> USE CallsAssumption, BoundsAssumption, TracesOfType
    DEF TypeOK, CollectionsTypeOK, PhaseInv, LogPhases, StartPhases, ConflictInv,
        Calls, Goto, Fail, collections, requests, upserts, refreshes
<1>1. ASSUME NEW c \in LogCalls, NEW e \in Experiments, NEW B \in Batches,
             LogSpans(c, e, B)
      PROVE  ConflictInv'
  BY <1>1, <1>0 DEF LogSpans
<1>2. ASSUME NEW c \in LogCalls, NEW t \in Traces, EnsureLookup(c, t)
      PROVE  ConflictInv'
  BY <1>2, <1>0 DEF EnsureLookup
<1>3. ASSUME NEW c \in LogCalls, NEW t \in Traces, EnsureInsert(c, t)
      PROVE  ConflictInv'
  BY <1>3, <1>0 DEF EnsureInsert
<1>4. ASSUME NEW c \in LogCalls, EnsureBulkReturns(c)
      PROVE  ConflictInv'
  BY <1>4, <1>0 DEF EnsureBulkReturns
<1>5. ASSUME NEW c \in LogCalls, NEW s \in Spans, PersistSpan(c, s)
      PROVE  ConflictInv'
  BY <1>5, <1>0 DEF PersistSpan
<1>6. ASSUME NEW c \in LogCalls, NEW t \in Traces, TakeRevision(c, t)
      PROVE  ConflictInv'
  BY <1>6, <1>0 DEF TakeRevision, Refreshes, RefreshEnds
<1>7. ASSUME NEW c \in LogCalls, ReadSpans(c)
      PROVE  ConflictInv'
  BY <1>7, <1>0 DEF ReadSpans, RefreshEnds
<1>8. ASSUME NEW c \in LogCalls, NEW s \in Spans, ReadArrivingSpan(c, s)
      PROVE  ConflictInv'
  BY <1>8, <1>0 DEF ReadArrivingSpan
<1>9. ASSUME NEW c \in LogCalls, ApplySummary(c)
      PROVE  ConflictInv'
  BY <1>9, <1>0 DEF ApplySummary, RefreshEnds
<1>10. ASSUME NEW c \in LogCalls, RejectSummary(c)
       PROVE  ConflictInv'
  BY <1>10, <1>0 DEF RejectSummary, Retries, RefreshEnds
<1>11. ASSUME NEW c \in LogCalls, LogSpansReturns(c)
       PROVE  ConflictInv'
  BY <1>11, <1>0 DEF LogSpansReturns
<1>12. ASSUME NEW c \in StartCalls, NEW e \in Experiments, NEW t \in Traces,
              NEW i \in TraceInfos, StartTrace(c, e, t, i)
       PROVE  ConflictInv'
  BY <1>12, <1>0 DEF StartTrace
<1>13. ASSUME NEW c \in StartCalls, StartLookup(c)
       PROVE  ConflictInv'
  BY <1>13, <1>0 DEF StartLookup
<1>14. ASSUME NEW c \in StartCalls, StartInsert(c)
       PROVE  ConflictInv'
  BY <1>14, <1>0 DEF StartInsert
<1>15. ASSUME NEW c \in StartCalls, ReplaceAssessments(c)
       PROVE  ConflictInv'
  BY <1>15, <1>0 DEF ReplaceAssessments
<1>16. ASSUME NEW c \in StartCalls, StartTraceReturns(c)
       PROVE  ConflictInv'
  BY <1>16, <1>0 DEF StartTraceReturns
<1>17. ASSUME NEW c \in Calls, CallFaults(c)
       PROVE  ConflictInv'
  BY <1>17, <1>0 DEF CallFaults
<1>18. ASSUME NEW c \in LogCalls, NEW t \in Traces, RefreshFaults(c, t)
       PROVE  ConflictInv'
  BY <1>18, <1>0 DEF RefreshFaults, RefreshEnds, Refreshes, Snapshots, SpansOf
<1>19. CASE UNCHANGED vars
  BY <1>19 DEF vars, Present, OwnedBy, TracesOf
<1> QED
  BY <1>1, <1>2, <1>3, <1>4, <1>5, <1>6, <1>7, <1>8, <1>9, <1>10, <1>11, <1>12,
     <1>13, <1>14, <1>15, <1>16, <1>17, <1>18, <1>19
     DEF Next, Arrive, LogStep, LateRead, StartStep, Fault, AllReturned

(* A call keeps its request, and a span or an identity error is new only   *)
(* by the action that stores or raises it.                                 *)
RequestsKept ==
    /\ \A d \in LogCalls :
          pc[d] # "idle" => batch'[d] = batch[d] /\ location'[d] = location[d]
    /\ \A s \in spans' :
          s \in spans \/ \E c \in LogCalls : PersistSpan(c, s)
    /\ \A d \in Calls :
          error'[d] = "identity" =>
             \/ error[d] = "identity"
             \/ /\ d \in LogCalls /\ pc[d] = "ensure"
                /\ rejected[d] # {} /\ attempt[d] = MaxAttempts
             \/ /\ d \in StartCalls /\ pc[d] = "upsert" /\ current[d] \in missed[d]
                /\ attempt[d] = MaxAttempts

LEMMA StepKeepsRequests ==
    TypeOK /\ PhaseInv /\ [Next]_vars => RequestsKept
<1> SUFFICES ASSUME TypeOK, PhaseInv, [Next]_vars
             PROVE  RequestsKept
  OBVIOUS
<1> USE CallsAssumption
    DEF TypeOK, CollectionsTypeOK, PhaseInv, LogPhases, StartPhases, RequestsKept,
        Calls, Goto, Fail, collections, requests, upserts, refreshes
<1>1. ASSUME NEW c \in LogCalls, NEW e \in Experiments, NEW B \in Batches,
             LogSpans(c, e, B)
      PROVE  RequestsKept
  BY <1>1 DEF LogSpans
<1>2. ASSUME NEW c \in LogCalls, NEW t \in Traces, EnsureLookup(c, t)
      PROVE  RequestsKept
  BY <1>2 DEF EnsureLookup
<1>3. ASSUME NEW c \in LogCalls, NEW t \in Traces, EnsureInsert(c, t)
      PROVE  RequestsKept
  BY <1>3 DEF EnsureInsert
<1>4. ASSUME NEW c \in LogCalls, EnsureBulkReturns(c)
      PROVE  RequestsKept
  BY <1>4 DEF EnsureBulkReturns
<1>5. ASSUME NEW c \in LogCalls, NEW s \in Spans, PersistSpan(c, s)
      PROVE  RequestsKept
  BY <1>5 DEF PersistSpan
<1>6. ASSUME NEW c \in LogCalls, NEW t \in Traces, TakeRevision(c, t)
      PROVE  RequestsKept
  BY <1>6 DEF TakeRevision, Refreshes, RefreshEnds
<1>7. ASSUME NEW c \in LogCalls, ReadSpans(c)
      PROVE  RequestsKept
  BY <1>7 DEF ReadSpans, RefreshEnds
<1>8. ASSUME NEW c \in LogCalls, NEW s \in Spans, ReadArrivingSpan(c, s)
      PROVE  RequestsKept
  BY <1>8 DEF ReadArrivingSpan
<1>9. ASSUME NEW c \in LogCalls, ApplySummary(c)
      PROVE  RequestsKept
  BY <1>9 DEF ApplySummary, RefreshEnds
<1>10. ASSUME NEW c \in LogCalls, RejectSummary(c)
       PROVE  RequestsKept
  BY <1>10 DEF RejectSummary, Retries, RefreshEnds
<1>11. ASSUME NEW c \in LogCalls, LogSpansReturns(c)
       PROVE  RequestsKept
  BY <1>11 DEF LogSpansReturns
<1>12. ASSUME NEW c \in StartCalls, NEW e \in Experiments, NEW t \in Traces,
              NEW i \in TraceInfos, StartTrace(c, e, t, i)
       PROVE  RequestsKept
  BY <1>12 DEF StartTrace
<1>13. ASSUME NEW c \in StartCalls, StartLookup(c)
       PROVE  RequestsKept
  BY <1>13 DEF StartLookup
<1>14. ASSUME NEW c \in StartCalls, StartInsert(c)
       PROVE  RequestsKept
  BY <1>14 DEF StartInsert
<1>15. ASSUME NEW c \in StartCalls, ReplaceAssessments(c)
       PROVE  RequestsKept
  BY <1>15 DEF ReplaceAssessments
<1>16. ASSUME NEW c \in StartCalls, StartTraceReturns(c)
       PROVE  RequestsKept
  BY <1>16 DEF StartTraceReturns
<1>17. ASSUME NEW c \in Calls, CallFaults(c)
       PROVE  RequestsKept
  BY <1>17 DEF CallFaults
<1>18. ASSUME NEW c \in LogCalls, NEW t \in Traces, RefreshFaults(c, t)
       PROVE  RequestsKept
  BY <1>18 DEF RefreshFaults, RefreshEnds, Refreshes, Snapshots, SpansOf
<1>19. CASE UNCHANGED vars
  BY <1>19 DEF vars
<1> QED
  BY <1>1, <1>2, <1>3, <1>4, <1>5, <1>6, <1>7, <1>8, <1>9, <1>10, <1>11, <1>12,
     <1>13, <1>14, <1>15, <1>16, <1>17, <1>18, <1>19
     DEF Next, Arrive, LogStep, LateRead, StartStep, Fault, AllReturned

LEMMA OwnershipRespectedStep ==
    /\ TypeOK /\ PhaseInv /\ AbsentInv /\ OwnershipInv /\ OwnershipInv' /\ ProgressInv
    /\ ConflictInv /\ OwnershipRespected /\ [Next]_vars
    => OwnershipRespected'
<1> SUFFICES ASSUME TypeOK, PhaseInv, AbsentInv, OwnershipInv, OwnershipInv',
                    ProgressInv, ConflictInv, OwnershipRespected, [Next]_vars
             PROVE  OwnershipRespected'
  OBVIOUS
<1>0. \A u \in Traces :
         Present(u) => Present(u)' /\ \A e : OwnedBy(u, e)' <=> OwnedBy(u, e)
  BY StepKeepsDocuments DEF DocumentsKept, Present, OwnedBy
<1>1. RequestsKept /\ StartCallsKept
  BY StepKeepsRequests, StepKeepsStartCalls
<1>2. \A c \in LogCalls :
         pc'[c] \in LogPhases \ {"ensure"} =>
            \A t \in TracesOf(batch[c])' : OwnedBy(t, location[c])'
  BY DEF OwnershipInv
<1>3. ASSUME NEW s \in spans'
      PROVE  \E c \in LogCalls : s \in batch'[c] /\ OwnedBy(TraceOf[s], location[c])'
  <2>1. PICK c \in LogCalls :
           /\ s \in batch[c] /\ pc[c] # "idle"
           /\ OwnedBy(TraceOf[s], location[c]) /\ location[c] \in Experiments
    <3>1. CASE s \in spans
      BY <3>1 DEF OwnershipRespected, PhaseInv
    <3>2. ASSUME NEW c \in LogCalls, PersistSpan(c, s)
          PROVE  /\ s \in batch[c] /\ pc[c] # "idle"
                 /\ OwnedBy(TraceOf[s], location[c]) /\ location[c] \in Experiments
      BY <3>2 DEF PersistSpan, ProgressInv, OwnershipInv, PhaseInv, LogPhases, TracesOf
    <3> QED
      BY <1>1, <3>1, <3>2 DEF RequestsKept
  <2>2. Present(TraceOf[s]) /\ TraceOf[s] \in Traces
    BY <2>1, ExperimentsAssumption, SpansAssumption
       DEF Present, OwnedBy, TypeOK, Calls
  <2> QED
    BY <1>0, <1>1, <2>1, <2>2 DEF RequestsKept, OwnedBy
<1>4. ASSUME NEW c \in LogCalls, error'[c] = "identity"
      PROVE  \E t \in TracesOf(batch[c])' : Present(t)' /\ ~OwnedBy(t, location[c])'
  <2>1. PICK t \in TracesOf(batch[c]) :
           Present(t) /\ ~OwnedBy(t, location[c]) /\ pc[c] # "idle"
    <3>1. CASE error[c] = "identity"
      BY <3>1 DEF OwnershipRespected, ConflictInv, Calls
    <3>2. CASE error[c] # "identity"
      BY <1>1, <1>4, <3>2, BoundsAssumption, CallsAssumption
         DEF RequestsKept, ConflictInv, Calls
    <3> QED
      BY <3>1, <3>2
  <2>2. t \in Traces
    BY <2>1, TracesOfType DEF TypeOK, Calls
  <2> QED
    BY <1>0, <1>1, <2>1, <2>2 DEF RequestsKept, OwnedBy, TracesOf
<1>5. ASSUME NEW c \in StartCalls, error'[c] = "identity"
      PROVE  Present(current[c])' /\ ~OwnedBy(current[c], location[c])'
  <2>1. Present(current[c]) /\ ~OwnedBy(current[c], location[c]) /\ pc[c] # "idle"
    <3>1. CASE error[c] = "identity"
      BY <3>1 DEF OwnershipRespected, ConflictInv, Calls
    <3>2. CASE error[c] # "identity"
      BY <1>1, <1>5, <3>2, BoundsAssumption, CallsAssumption
         DEF RequestsKept, ConflictInv, Calls
    <3> QED
      BY <3>1, <3>2
  <2>2. current[c] \in Traces
    BY <2>1 DEF PhaseInv
  <2> QED
    BY <1>0, <1>1, <2>1, <2>2 DEF StartCallsKept, OwnedBy, Present
<1> QED
  BY <1>2, <1>3, <1>4, <1>5 DEF OwnershipRespected

-----------------------------------------------------------------------------
(***************************************************************************)
(* The inductive invariant and what follows from it.                       *)
(***************************************************************************)

LEMMA InvariantInit == Init => IInv
<1> SUFFICES ASSUME Init PROVE IInv
  OBVIOUS
<1>1. TypeOK /\ PhaseInv
  BY TypeInit
<1>2. \A t \in Traces : trace[t] = Absent
  BY DEF Init, CollectionsInit
<1>3. AbsentInv /\ DerivedInv
  <2>1. Absent.times_from = {} /\ Absent.usage_from = {} /\ Absent.summarised = {}
    BY DEF Absent
  <2> QED
    BY <1>2, <2>1 DEF AbsentInv, DerivedInv
<1>4. \A c \in Calls : /\ pc[c] = "idle" /\ batch[c] = {} /\ error[c] = "none"
                       /\ missed[c] = {} /\ rejected[c] = {}
  BY DEF Init
<1>5. spans = {} /\ superseded = {}
  BY DEF Init, CollectionsInit
<1>6. OwnershipInv /\ ProgressInv /\ RevisionInv /\ DoneInv /\ ConflictInv
  BY <1>4, <1>5 DEF OwnershipInv, ProgressInv, RevisionInv, DoneInv, ConflictInv,
       Snapshots, Refreshing, LogPhases, Calls
<1>7. SummaryInv
  BY <1>2, <1>4 DEF SummaryInv, Holds, Snapshots, Absent, Calls
<1>8. ReportInv /\ ReportedMetadataKept
  BY <1>4 DEF ReportInv, ReportedMetadataKept, Reported, Attempted, Calls
<1>9. EverySpanAccountedFor /\ OwnershipRespected
  BY <1>4, <1>5 DEF EverySpanAccountedFor, OwnershipRespected, LogPhases, Calls
<1>10. DerivedStateExplained
  BY <1>2 DEF DerivedStateExplained, Present, Absent
<1> QED
  BY <1>1, <1>3, <1>6, <1>7, <1>8, <1>9, <1>10 DEF IInv

LEMMA InvariantStep == IInv /\ [Next]_vars => IInv'
<1> SUFFICES ASSUME IInv, [Next]_vars PROVE IInv'
  OBVIOUS
<1> USE DEF IInv
<1>1. TypeOK' /\ PhaseInv'
  BY TypeStep
<1>2. AbsentInv' /\ OwnershipInv' /\ ProgressInv' /\ RevisionInv'
  BY AbsentStep, OwnershipStep, ProgressStep, RevisionStep
<1>3. SummaryInv' /\ DoneInv' /\ DerivedInv' /\ ConflictInv'
  BY <1>2, SummaryStep, DoneStep, DerivedStep, ConflictStep
<1>4. ReportInv' /\ ReportedMetadataKept'
  BY ReportStep
<1>5. EverySpanAccountedFor' /\ DerivedStateExplained' /\ OwnershipRespected'
  BY <1>2, AccountedStep, DerivedStateStep, OwnershipRespectedStep
<1> QED
  BY <1>1, <1>2, <1>3, <1>4, <1>5

(* The inductive invariant holds in every reachable state. *)
THEOREM Invariance == Spec => []IInv
<1> QED
  BY InvariantInit, InvariantStep, PTL DEF Spec

(* No persisted span is forgotten: at any moment it is summarised, or some *)
(* running call still owes it to the summary, or a database error hit the  *)
(* call that owed it (store.py:1359, traces.py:455).                       *)
THEOREM NoSpanForgotten == Spec => []EverySpanAccountedFor
<1>1. IInv => EverySpanAccountedFor
  BY DEF IInv
<1> QED
  BY <1>1, Invariance, PTL

(* A log_spans call that returned without an error has every span of its   *)
(* batch in the values the trace document holds, then and ever after.      *)
THEOREM AcknowledgementsHold == Spec => []AcknowledgedSpansSummarised
<1>1. IInv => AcknowledgedSpansSummarised
  <2> SUFFICES ASSUME IInv, NEW c \in LogCalls, NEW s \in Spans,
                      pc[c] = "done", s \in batch[c]
               PROVE  LET doc == trace[TraceOf[s]] IN
                      /\ s \in spans
                      /\ doc.trace_info_finalized \/ s \in doc.times_from
                      /\ doc.usage_authoritative \/ s \in doc.usage_from
    BY DEF AcknowledgedSpansSummarised
  <2>1. s \in trace[TraceOf[s]].summarised
    BY DEF IInv, DoneInv
  <2>2. TraceOf[s] \in Traces
    BY SpansAssumption
  <2> QED
    BY <2>1, <2>2 DEF IInv, SummaryInv, SpansOf, DerivedInv
<1> QED
  BY <1>1, Invariance, PTL

(* "A later writer invalidates earlier snapshots" (comment, traces.py:458).*)
THEOREM StaleSnapshotsRejected == Spec => []LaterWriterInvalidatesSnapshots
<1>1. IInv => LaterWriterInvalidatesSnapshots
  <2> SUFFICES ASSUME IInv, NEW c \in superseded, NEW t \in Traces, Snapshots(c, t)
               PROVE  revision[c] # trace[t].span_revision
    BY DEF LaterWriterInvalidatesSnapshots
  <2>1. revision[c] < trace[t].span_revision
    BY DEF IInv, RevisionInv
  <2>2. revision[c] \in Nat /\ trace[t].span_revision \in Nat
    BY DEF IInv, RevisionInv, TypeOK, CollectionsTypeOK, TraceDoc, Calls
  <2> QED
    BY <2>1, <2>2
<1> QED
  BY <1>1, Invariance, PTL

(* A call writes only to traces of its own experiment, every stored span   *)
(* has a trace document, and an identity conflict that outlives the        *)
(* retries is one with another experiment (traces.py:231, 251).            *)
THEOREM OwnershipHolds == Spec => []OwnershipRespected
<1>1. IInv => OwnershipRespected
  BY DEF IInv
<1> QED
  BY <1>1, Invariance, PTL

(* Metadata a client reported is never replaced by a summary (traces.py:   *)
(* 181, 489).                                                              *)
THEOREM ReportsHold == Spec => []ReportedMetadataKept
<1>1. IInv => ReportedMetadataKept
  BY DEF IInv
<1> QED
  BY <1>1, Invariance, PTL

(* The state of a trace nobody reported is that of a summarised root, and  *)
(* IN_PROGRESS while there is none (store.py:1516, traces.py:492).         *)
THEOREM DerivedStatesHold == Spec => []DerivedStateExplained
<1>1. IInv => DerivedStateExplained
  BY DEF IInv
<1> QED
  BY <1>1, Invariance, PTL

-----------------------------------------------------------------------------
(***************************************************************************)
(* SpanIngestion implements TraceSummary.                                  *)
(***************************************************************************)

Summaries == [t \in Traces |-> trace[t].summarised]

(* No call is acknowledged or loses its acknowledgement. *)
AcknowledgementsKept ==
    \A d \in LogCalls :
       /\ pc'[d] = "done" <=> pc[d] = "done"
       /\ pc[d] = "done" => batch'[d] = batch[d]

LEMMA AcknowledgedKept == AcknowledgementsKept => Acknowledged' = Acknowledged
BY DEF AcknowledgementsKept, Acknowledged

LEMMA StepKeepsAcknowledgements ==
    TypeOK /\ PhaseInv /\ [Next]_vars =>
       AcknowledgementsKept \/ \E c \in LogCalls : LogSpansReturns(c)
<1> SUFFICES ASSUME TypeOK, PhaseInv, [Next]_vars,
                    ~ \E c \in LogCalls : LogSpansReturns(c)
             PROVE  AcknowledgementsKept
  OBVIOUS
<1> USE CallsAssumption
    DEF TypeOK, CollectionsTypeOK, PhaseInv, LogPhases, StartPhases,
        AcknowledgementsKept, Calls, Goto, Fail, collections, requests, upserts,
        refreshes
<1>1. ASSUME NEW c \in LogCalls, NEW e \in Experiments, NEW B \in Batches,
             LogSpans(c, e, B)
      PROVE  AcknowledgementsKept
  BY <1>1 DEF LogSpans
<1>2. ASSUME NEW c \in LogCalls, NEW t \in Traces, EnsureLookup(c, t)
      PROVE  AcknowledgementsKept
  BY <1>2 DEF EnsureLookup
<1>3. ASSUME NEW c \in LogCalls, NEW t \in Traces, EnsureInsert(c, t)
      PROVE  AcknowledgementsKept
  BY <1>3 DEF EnsureInsert
<1>4. ASSUME NEW c \in LogCalls, EnsureBulkReturns(c)
      PROVE  AcknowledgementsKept
  BY <1>4 DEF EnsureBulkReturns
<1>5. ASSUME NEW c \in LogCalls, NEW s \in Spans, PersistSpan(c, s)
      PROVE  AcknowledgementsKept
  BY <1>5 DEF PersistSpan
<1>6. ASSUME NEW c \in LogCalls, NEW t \in Traces, TakeRevision(c, t)
      PROVE  AcknowledgementsKept
  BY <1>6 DEF TakeRevision, Refreshes, RefreshEnds
<1>7. ASSUME NEW c \in LogCalls, ReadSpans(c)
      PROVE  AcknowledgementsKept
  BY <1>7 DEF ReadSpans, RefreshEnds
<1>8. ASSUME NEW c \in LogCalls, NEW s \in Spans, ReadArrivingSpan(c, s)
      PROVE  AcknowledgementsKept
  BY <1>8 DEF ReadArrivingSpan
<1>9. ASSUME NEW c \in LogCalls, ApplySummary(c)
      PROVE  AcknowledgementsKept
  BY <1>9 DEF ApplySummary, RefreshEnds
<1>10. ASSUME NEW c \in LogCalls, RejectSummary(c)
       PROVE  AcknowledgementsKept
  BY <1>10 DEF RejectSummary, Retries, RefreshEnds
<1>11. ASSUME NEW c \in LogCalls, LogSpansReturns(c)
       PROVE  AcknowledgementsKept
  BY <1>11
<1>12. ASSUME NEW c \in StartCalls, NEW e \in Experiments, NEW t \in Traces,
              NEW i \in TraceInfos, StartTrace(c, e, t, i)
       PROVE  AcknowledgementsKept
  BY <1>12 DEF StartTrace
<1>13. ASSUME NEW c \in StartCalls, StartLookup(c)
       PROVE  AcknowledgementsKept
  BY <1>13 DEF StartLookup
<1>14. ASSUME NEW c \in StartCalls, StartInsert(c)
       PROVE  AcknowledgementsKept
  BY <1>14 DEF StartInsert
<1>15. ASSUME NEW c \in StartCalls, ReplaceAssessments(c)
       PROVE  AcknowledgementsKept
  BY <1>15 DEF ReplaceAssessments
<1>16. ASSUME NEW c \in StartCalls, StartTraceReturns(c)
       PROVE  AcknowledgementsKept
  BY <1>16 DEF StartTraceReturns
<1>17. ASSUME NEW c \in Calls, CallFaults(c)
       PROVE  AcknowledgementsKept
  BY <1>17 DEF CallFaults
<1>18. ASSUME NEW c \in LogCalls, NEW t \in Traces, RefreshFaults(c, t)
       PROVE  AcknowledgementsKept
  BY <1>18 DEF RefreshFaults, RefreshEnds, Refreshes, Snapshots, SpansOf
<1>19. CASE UNCHANGED vars
  BY <1>19 DEF vars
<1> QED
  BY <1>1, <1>2, <1>3, <1>4, <1>5, <1>6, <1>7, <1>8, <1>9, <1>10, <1>11, <1>12,
     <1>13, <1>14, <1>15, <1>16, <1>17, <1>18, <1>19
     DEF Next, Arrive, LogStep, LateRead, StartStep, Fault, AllReturned

LEMMA SummariesKept ==
    ASSUME \A t \in Traces : trace'[t].summarised = trace[t].summarised
    PROVE  Summaries' = Summaries
BY DEF Summaries

LEMMA RefinementInit == Init => Promise!Init
BY DEF Init, CollectionsInit, Promise!Init, Acknowledged, Absent, Calls

LEMMA RefinementStep == IInv /\ [Next]_vars => [Promise!Next]_(Promise!summaryVars)
<1> SUFFICES ASSUME IInv, [Next]_vars
             PROVE  Promise!Next \/ UNCHANGED <<spans, Summaries, Acknowledged>>
  BY DEF Promise!summaryVars, Summaries
<1>0. TypeOK /\ PhaseInv /\ AbsentInv
  BY DEF IInv
<1>1. ASSUME NEW c \in LogCalls, NEW s \in Spans, PersistSpan(c, s)
      PROVE  Promise!Deliver \/ UNCHANGED <<spans, Summaries, Acknowledged>>
  <2>1. UNCHANGED trace /\ spans' = spans \union {s} /\ AcknowledgementsKept
    BY <1>0, <1>1, CallsAssumption
       DEF PersistSpan, AcknowledgementsKept, TypeOK, Calls, Goto, requests
  <2>2. UNCHANGED <<Summaries, Acknowledged>>
    BY <2>1, AcknowledgedKept DEF Summaries
  <2> QED
    BY <2>1, <2>2 DEF Promise!Deliver, Summaries
<1>2. ASSUME NEW c \in LogCalls, ApplySummary(c)
      PROVE  Promise!Summarise
  <2>1. PICK t \in Traces : Applied(c, t)
    BY <1>0, <1>2, ApplySummaryApplies
  <2>2. UNCHANGED Acknowledged
    BY <1>0, <2>1, AcknowledgedKept DEF Applied, AcknowledgementsKept, TypeOK, Calls
  <2>3. /\ snapshot[c] \in SUBSET spans
        /\ \A s \in snapshot[c] : TraceOf[s] = t
        /\ trace[t].summarised \subseteq snapshot[c]
    BY <2>1 DEF Applied, IInv, SummaryInv, Holds, Snapshots, SpansOf
  <2>4. Summaries' = [Summaries EXCEPT ![t] = snapshot[c]]
    <3>1. /\ trace'[t].summarised = snapshot[c]
          /\ \A u \in Traces \ {t} : trace'[u].summarised = trace[u].summarised
      BY <2>1 DEF Applied
    <3> QED
      BY <3>1 DEF Summaries
  <2>5. UNCHANGED spans
    BY <2>1 DEF Applied
  <2> QED
    BY <2>2, <2>3, <2>4, <2>5 DEF Promise!Summarise, Summaries
<1>3. ASSUME NEW c \in LogCalls, LogSpansReturns(c)
      PROVE  Promise!Acknowledge \/ UNCHANGED <<spans, Summaries, Acknowledged>>
  <2>1. UNCHANGED <<trace, spans, batch>> /\ UNCHANGED Summaries
    BY <1>3 DEF LogSpansReturns, collections, requests, Summaries
  <2>2. CASE error[c] = "none"
    <3>1. /\ pc' = [pc EXCEPT ![c] = "done"]
          /\ pc[c] = "refresh" /\ todo[c] = {}
      BY <1>3, <2>2 DEF LogSpansReturns, Goto
    <3>2. batch[c] \in SUBSET spans /\ \A s \in batch[c] : s \in trace[TraceOf[s]].summarised
      BY <2>2, <3>1 DEF IInv, DoneInv, ProgressInv, Refreshing
    <3>3. Acknowledged' = Acknowledged \union batch[c]
      BY <1>0, <2>1, <3>1 DEF Acknowledged, TypeOK, Calls
    <3>4. \A s \in batch[c] : TraceOf[s] \in Traces
      BY <1>0, SpansAssumption DEF TypeOK, Calls
    <3> QED
      BY <2>1, <3>2, <3>3, <3>4 DEF Promise!Acknowledge, Summaries
  <2>3. CASE error[c] # "none"
    <3>1. AcknowledgementsKept
      BY <1>0, <1>3, <2>1, <2>3 DEF LogSpansReturns, Goto, AcknowledgementsKept, TypeOK, Calls
    <3> QED
      BY <2>1, <3>1, AcknowledgedKept
  <2> QED
    BY <2>2, <2>3
<1>4. CASE /\ ~ \E c \in LogCalls, s \in Spans : PersistSpan(c, s)
           /\ ~ \E c \in LogCalls : ApplySummary(c)
           /\ ~ \E c \in LogCalls : LogSpansReturns(c)
  <2>1. \A t \in Traces : trace'[t].summarised = trace[t].summarised
    BY <1>0, <1>4, StepKeepsDocuments DEF DocumentsKept
  <2>2. UNCHANGED Summaries
    BY <2>1, SummariesKept
  <2>3. UNCHANGED Acknowledged
    BY <1>0, <1>4, StepKeepsAcknowledgements, AcknowledgedKept
  <2>4. UNCHANGED spans
    BY <1>4
       DEF Next, Arrive, LogStep, LateRead, StartStep, Fault, AllReturned, LogSpans,
           EnsureLookup, EnsureInsert, EnsureBulkReturns, TakeRevision, ReadSpans,
           ReadArrivingSpan, RejectSummary, StartTrace, StartLookup, StartInsert,
           ReplaceAssessments, StartTraceReturns, CallFaults, RefreshFaults,
           collections, vars
  <2> QED
    BY <2>2, <2>3, <2>4
<1> QED
  BY <1>1, <1>2, <1>3, <1>4 DEF Promise!Next

(* The interleaved calls implement TraceSummary: summaries only grow, hold *)
(* stored spans only, and cover every acknowledged batch.                  *)
THEOREM Refinement == Spec => ImplementsPromise
<1> QED
  BY Invariance, RefinementInit, RefinementStep, PTL
     DEF Spec, ImplementsPromise, Promise!Spec
=============================================================================
