------------------------ MODULE TraceDeletionProofs ------------------------
(***************************************************************************)
(* Proofs about TraceDeletion for every set of calls, deletions, traces,   *)
(* spans and experiments.                                                  *)
(*                                                                         *)
(* Most of IInv of SpanIngestionProofs is false here: a deletion takes     *)
(* documents away under a call that relies on them.  TypeOK, PhaseInv and  *)
(* AbsentInv survive; the rest of the invariant says what a deletion and   *)
(* the writers that overlap it leave behind.                               *)
(***************************************************************************)
EXTENDS TraceDeletion, SpanIngestionProofs

(* A call upserts the traces and stores the spans of its own request. *)
UpsertInv ==
    /\ \A c \in Calls : pc[c] = "idle" => missed[c] = {} /\ rejected[c] = {}
    /\ \A c \in LogCalls :
          /\ pc[c] = "ensure" =>
                /\ missed[c] \subseteq todo[c]
                /\ todo[c] \union rejected[c] \subseteq TracesOf(batch[c])
          /\ pc[c] = "persist" => unsent[c] \subseteq batch[c]
    /\ \A c \in StartCalls :
          pc[c] = "upsert" => missed[c] \subseteq {current[c]}

DeletionPhaseInv ==
    \A d \in DeleteCalls :
       /\ dpc[d] = "idle" =>
             selected[d] = {} /\ pending[d] = {} /\ doomed[d] = {} /\ overlap[d] = {}
       /\ dpc[d] # "idle" => scope[d] \in Experiments
       /\ dpc[d] \in {"assessments", "traces"} => doomed[d] = {}

(* A recorded call has arrived, so its request is settled; a recorded      *)
(* deletion has selected its traces.                                       *)
OverlapInv ==
    \A d \in DeleteCalls :
       /\ \A c \in overlap[d] \intersect Calls : pc[c] # "idle"
       /\ \A x \in overlap[d] \intersect DeleteCalls : dpc[x] # "idle"

(* Log call c has seen a document of t that it may rely on. *)
Claimed(c, t) ==
    /\ t \in TracesOf(batch[c])
    /\ \/ pc[c] \in LogPhases \ {"ensure"}
       \/ pc[c] = "ensure" /\ t \notin todo[c] \union rejected[c]

(* A document a call relies on is there, unless a deletion overlapped.     *)
ClaimInv ==
    \A c \in LogCalls, t \in Traces :
       Claimed(c, t) =>
          \/ Present(t)
          \/ \E d \in DeleteCalls : t \in selected[d] /\ c \in overlap[d]

(* What delete_many of the spans leaves was written while it ran.          *)
RemainderInv ==
    \A d \in DeleteCalls : \A s \in spans :
       dpc[d] \in {"children", "assessments", "traces"} /\ TraceOf[s] \in selected[d] =>
          \/ s \in doomed[d]
          \/ \E c \in LogCalls : c \in overlap[d] /\ s \in batch[c]

(* A call that overlapped deletion d writes trace t. *)
Touched(d, t) == \E c \in overlap[d] \intersect Calls : Touches(c, t)

(* A selected trace that is no longer the experiment's is gone, or a call  *)
(* that overlapped the deletion made it again; and so on, collection by    *)
(* collection.                                                             *)
ClearedInv ==
    \A d \in DeleteCalls : \A t \in selected[d] :
       /\ Deleting(d) => OwnedBy(t, scope[d]) \/ ~Present(t) \/ Touched(d, t)
       /\ dpc[d] = "traces" =>
             /\ t \notin pending[d] => ~Present(t) \/ Touched(d, t)
             /\ t \notin assessments \/ Touched(d, t)

(* Another deletion of the same experiment has taken t away. *)
TakenBy(d, x, t) ==
    /\ x # d /\ scope[x] = scope[d] /\ t \in selected[x]
    /\ dpc[x] \in {"traces", "done", "failed"}

ScopeInv ==
    \A d \in DeleteCalls : \A t \in selected[d] :
       dpc[d] \in {"spans", "children", "assessments"} =>
          \/ OwnedBy(t, scope[d])
          \/ \E x \in overlap[d] \intersect DeleteCalls : TakenBy(d, x, t)

DeletionInv ==
    /\ DeletionTypeOK
    /\ PhaseInv
    /\ AbsentInv
    /\ UpsertInv
    /\ DeletionPhaseInv
    /\ OverlapInv
    /\ ClaimInv
    /\ RemainderInv
    /\ ClearedInv
    /\ ScopeInv
    /\ OrphansComeFromOverlappingWriters

-----------------------------------------------------------------------------
(***************************************************************************)
(* What one step of the ingestion calls does to the collections.           *)
(***************************************************************************)

(* The requests of the calls that have arrived are settled, and documents  *)
(* appear only because a running call writes them.                         *)
WritersKept ==
    /\ \A d \in Calls :
          pc[d] # "idle" =>
             /\ pc'[d] # "idle"
             /\ batch'[d] = batch[d]
             /\ d \in StartCalls => current'[d] = current[d]
    /\ spans \subseteq spans'
    /\ \A s \in spans' \ spans :
          \E d \in LogCalls : pc[d] = "persist" /\ s \in batch[d]
    /\ assessments \subseteq assessments'
    /\ \A t \in assessments' \ assessments :
          \E d \in StartCalls : pc[d] = "assess" /\ t = current[d]

(* A document appears only where a running call writes its trace, and a    *)
(* log_spans call relies only on a document it has seen.                   *)
ClaimsKept ==
    /\ \A t \in Traces :
          trace'[t].experiment_id # NoExperiment =>
             Present(t) \/ \E d \in Calls : Active(d) /\ Touches(d, t)
    /\ \A d \in LogCalls, t \in Traces :
          Claimed(d, t)' => Claimed(d, t) \/ trace'[t].experiment_id # NoExperiment

LEMMA UpsertStep ==
    TypeOK /\ PhaseInv /\ UpsertInv /\ [Next]_vars => UpsertInv'
<1> SUFFICES ASSUME TypeOK, PhaseInv, UpsertInv, [Next]_vars
             PROVE  UpsertInv'
  OBVIOUS
<1> USE CallsAssumption, BoundsAssumption, TracesOfType
    DEF TypeOK, CollectionsTypeOK, PhaseInv, LogPhases, StartPhases, UpsertInv,
        Calls, Goto, Fail, collections, requests, upserts, refreshes
<1>1. ASSUME NEW c \in LogCalls, NEW e \in Experiments, NEW B \in Batches,
             LogSpans(c, e, B)
      PROVE  UpsertInv'
  BY <1>1 DEF LogSpans
<1>2. ASSUME NEW c \in LogCalls, NEW t \in Traces, EnsureLookup(c, t)
      PROVE  UpsertInv'
  BY <1>2 DEF EnsureLookup
<1>3. ASSUME NEW c \in LogCalls, NEW t \in Traces, EnsureInsert(c, t)
      PROVE  UpsertInv'
  BY <1>3 DEF EnsureInsert
<1>4. ASSUME NEW c \in LogCalls, EnsureBulkReturns(c)
      PROVE  UpsertInv'
  BY <1>4 DEF EnsureBulkReturns
<1>5. ASSUME NEW c \in LogCalls, NEW s \in Spans, PersistSpan(c, s)
      PROVE  UpsertInv'
  BY <1>5 DEF PersistSpan
<1>6. ASSUME NEW c \in LogCalls, NEW t \in Traces, TakeRevision(c, t)
      PROVE  UpsertInv'
  BY <1>6 DEF TakeRevision, Refreshes, RefreshEnds
<1>7. ASSUME NEW c \in LogCalls, ReadSpans(c)
      PROVE  UpsertInv'
  BY <1>7 DEF ReadSpans, RefreshEnds
<1>8. ASSUME NEW c \in LogCalls, NEW s \in Spans, ReadArrivingSpan(c, s)
      PROVE  UpsertInv'
  BY <1>8 DEF ReadArrivingSpan
<1>9. ASSUME NEW c \in LogCalls, ApplySummary(c)
      PROVE  UpsertInv'
  BY <1>9 DEF ApplySummary, RefreshEnds
<1>10. ASSUME NEW c \in LogCalls, RejectSummary(c)
       PROVE  UpsertInv'
  BY <1>10 DEF RejectSummary, Retries, RefreshEnds
<1>11. ASSUME NEW c \in LogCalls, LogSpansReturns(c)
       PROVE  UpsertInv'
  BY <1>11 DEF LogSpansReturns
<1>12. ASSUME NEW c \in StartCalls, NEW e \in Experiments, NEW t \in Traces,
              NEW i \in TraceInfos, StartTrace(c, e, t, i)
       PROVE  UpsertInv'
  BY <1>12 DEF StartTrace
<1>13. ASSUME NEW c \in StartCalls, StartLookup(c)
       PROVE  UpsertInv'
  BY <1>13 DEF StartLookup
<1>14. ASSUME NEW c \in StartCalls, StartInsert(c)
       PROVE  UpsertInv'
  BY <1>14 DEF StartInsert
<1>15. ASSUME NEW c \in StartCalls, ReplaceAssessments(c)
       PROVE  UpsertInv'
  BY <1>15 DEF ReplaceAssessments
<1>16. ASSUME NEW c \in StartCalls, StartTraceReturns(c)
       PROVE  UpsertInv'
  BY <1>16 DEF StartTraceReturns
<1>17. ASSUME NEW c \in Calls, CallFaults(c)
       PROVE  UpsertInv'
  BY <1>17 DEF CallFaults
<1>18. ASSUME NEW c \in LogCalls, NEW t \in Traces, RefreshFaults(c, t)
       PROVE  UpsertInv'
  BY <1>18 DEF RefreshFaults, RefreshEnds, Refreshes, Snapshots
<1>19. CASE UNCHANGED vars
  BY <1>19 DEF vars
<1> QED
  BY <1>1, <1>2, <1>3, <1>4, <1>5, <1>6, <1>7, <1>8, <1>9, <1>10, <1>11,
     <1>12, <1>13, <1>14, <1>15, <1>16, <1>17, <1>18, <1>19
     DEF Next, Arrive, LogStep, LateRead, StartStep, Fault, AllReturned

LEMMA StepKeepsWriters ==
    TypeOK /\ PhaseInv /\ UpsertInv /\ [Next]_vars => WritersKept
<1> SUFFICES ASSUME TypeOK, PhaseInv, UpsertInv, [Next]_vars
             PROVE  WritersKept
  OBVIOUS
<1> USE CallsAssumption, BoundsAssumption, TracesOfType
    DEF TypeOK, CollectionsTypeOK, PhaseInv, LogPhases, StartPhases, UpsertInv,
        Calls, Goto, Fail, collections, requests, upserts, refreshes,
        WritersKept
<1>1. ASSUME NEW c \in LogCalls, NEW e \in Experiments, NEW B \in Batches,
             LogSpans(c, e, B)
      PROVE  WritersKept
  BY <1>1 DEF LogSpans
<1>2. ASSUME NEW c \in LogCalls, NEW t \in Traces, EnsureLookup(c, t)
      PROVE  WritersKept
  BY <1>2 DEF EnsureLookup
<1>3. ASSUME NEW c \in LogCalls, NEW t \in Traces, EnsureInsert(c, t)
      PROVE  WritersKept
  BY <1>3 DEF EnsureInsert
<1>4. ASSUME NEW c \in LogCalls, EnsureBulkReturns(c)
      PROVE  WritersKept
  BY <1>4 DEF EnsureBulkReturns
<1>5. ASSUME NEW c \in LogCalls, NEW s \in Spans, PersistSpan(c, s)
      PROVE  WritersKept
  BY <1>5 DEF PersistSpan
<1>6. ASSUME NEW c \in LogCalls, NEW t \in Traces, TakeRevision(c, t)
      PROVE  WritersKept
  BY <1>6 DEF TakeRevision, Refreshes, RefreshEnds
<1>7. ASSUME NEW c \in LogCalls, ReadSpans(c)
      PROVE  WritersKept
  BY <1>7 DEF ReadSpans, RefreshEnds
<1>8. ASSUME NEW c \in LogCalls, NEW s \in Spans, ReadArrivingSpan(c, s)
      PROVE  WritersKept
  BY <1>8 DEF ReadArrivingSpan
<1>9. ASSUME NEW c \in LogCalls, ApplySummary(c)
      PROVE  WritersKept
  BY <1>9 DEF ApplySummary, RefreshEnds
<1>10. ASSUME NEW c \in LogCalls, RejectSummary(c)
       PROVE  WritersKept
  BY <1>10 DEF RejectSummary, Retries, RefreshEnds
<1>11. ASSUME NEW c \in LogCalls, LogSpansReturns(c)
       PROVE  WritersKept
  BY <1>11 DEF LogSpansReturns
<1>12. ASSUME NEW c \in StartCalls, NEW e \in Experiments, NEW t \in Traces,
              NEW i \in TraceInfos, StartTrace(c, e, t, i)
       PROVE  WritersKept
  BY <1>12 DEF StartTrace
<1>13. ASSUME NEW c \in StartCalls, StartLookup(c)
       PROVE  WritersKept
  BY <1>13 DEF StartLookup
<1>14. ASSUME NEW c \in StartCalls, StartInsert(c)
       PROVE  WritersKept
  BY <1>14 DEF StartInsert
<1>15. ASSUME NEW c \in StartCalls, ReplaceAssessments(c)
       PROVE  WritersKept
  BY <1>15 DEF ReplaceAssessments
<1>16. ASSUME NEW c \in StartCalls, StartTraceReturns(c)
       PROVE  WritersKept
  BY <1>16 DEF StartTraceReturns
<1>17. ASSUME NEW c \in Calls, CallFaults(c)
       PROVE  WritersKept
  BY <1>17 DEF CallFaults
<1>18. ASSUME NEW c \in LogCalls, NEW t \in Traces, RefreshFaults(c, t)
       PROVE  WritersKept
  BY <1>18 DEF RefreshFaults, RefreshEnds, Refreshes, Snapshots
<1>19. CASE UNCHANGED vars
  BY <1>19 DEF vars
<1> QED
  BY <1>1, <1>2, <1>3, <1>4, <1>5, <1>6, <1>7, <1>8, <1>9, <1>10, <1>11,
     <1>12, <1>13, <1>14, <1>15, <1>16, <1>17, <1>18, <1>19
     DEF Next, Arrive, LogStep, LateRead, StartStep, Fault, AllReturned

LEMMA StepKeepsClaims ==
    TypeOK /\ PhaseInv /\ AbsentInv /\ UpsertInv /\ [Next]_vars => ClaimsKept
<1> SUFFICES ASSUME TypeOK, PhaseInv, AbsentInv, UpsertInv, [Next]_vars
             PROVE  ClaimsKept
  OBVIOUS
<1>0. \A u \in Traces : Present(u) => Present(u)'
  BY StepKeepsDocuments DEF DocumentsKept, Present
<1> USE CallsAssumption, BoundsAssumption, TracesOfType, ExperimentsAssumption
    DEF TypeOK, CollectionsTypeOK, PhaseInv, LogPhases, StartPhases, UpsertInv,
        Calls, Goto, Fail, Claimed, Present, OwnedBy, Active, Touches, ClaimsKept,
        collections, requests, upserts, refreshes
<1>1. ASSUME NEW c \in LogCalls, NEW e \in Experiments, NEW B \in Batches,
             LogSpans(c, e, B)
      PROVE  ClaimsKept
  BY <1>1 DEF LogSpans
<1>2. ASSUME NEW c \in LogCalls, NEW t \in Traces, EnsureLookup(c, t)
      PROVE  ClaimsKept
  BY <1>2, <1>0 DEF EnsureLookup
<1>3. ASSUME NEW c \in LogCalls, NEW t \in Traces, EnsureInsert(c, t)
      PROVE  ClaimsKept
  BY <1>3, <1>0, OwnerOfDocument DEF EnsureInsert
<1>4. ASSUME NEW c \in LogCalls, EnsureBulkReturns(c)
      PROVE  ClaimsKept
  BY <1>4 DEF EnsureBulkReturns
<1>5. ASSUME NEW c \in LogCalls, NEW s \in Spans, PersistSpan(c, s)
      PROVE  ClaimsKept
  BY <1>5 DEF PersistSpan
<1>6. ASSUME NEW c \in LogCalls, NEW t \in Traces, TakeRevision(c, t)
      PROVE  ClaimsKept
  <2>1. location[c] \in Experiments
    BY <1>6 DEF TakeRevision, Refreshes
  <2>2. CASE ~OwnedBy(t, location[c])
    BY <1>6, <2>2 DEF TakeRevision, Refreshes, RefreshEnds
  <2>3. CASE OwnedBy(t, location[c])
    <3>1. trace' = [trace EXCEPT ![t] = [trace[t] EXCEPT !.span_revision = @ + 1]]
      BY <1>6, <2>3 DEF TakeRevision
    <3> QED
      BY <1>6, OwnerOfDocument, <2>1, <2>3, <3>1 DEF TakeRevision, Refreshes
  <2> QED
    BY <2>2, <2>3
<1>7. ASSUME NEW c \in LogCalls, ReadSpans(c)
      PROVE  ClaimsKept
  BY <1>7 DEF ReadSpans, RefreshEnds
<1>8. ASSUME NEW c \in LogCalls, NEW s \in Spans, ReadArrivingSpan(c, s)
      PROVE  ClaimsKept
  BY <1>8 DEF ReadArrivingSpan
<1>9. ASSUME NEW c \in LogCalls, ApplySummary(c)
      PROVE  ClaimsKept
  BY <1>9, OwnerOfDocument DEF ApplySummary, RefreshEnds
<1>10. ASSUME NEW c \in LogCalls, RejectSummary(c)
       PROVE  ClaimsKept
  BY <1>10 DEF RejectSummary, Retries, RefreshEnds
<1>11. ASSUME NEW c \in LogCalls, LogSpansReturns(c)
       PROVE  ClaimsKept
  BY <1>11 DEF LogSpansReturns
<1>12. ASSUME NEW c \in StartCalls, NEW e \in Experiments, NEW t \in Traces,
              NEW i \in TraceInfos, StartTrace(c, e, t, i)
       PROVE  ClaimsKept
  BY <1>12 DEF StartTrace
<1>13. ASSUME NEW c \in StartCalls, StartLookup(c)
       PROVE  ClaimsKept
  BY <1>13, OwnerOfDocument DEF StartLookup
<1>14. ASSUME NEW c \in StartCalls, StartInsert(c)
       PROVE  ClaimsKept
  BY <1>14, OwnerOfDocument DEF StartInsert
<1>15. ASSUME NEW c \in StartCalls, ReplaceAssessments(c)
       PROVE  ClaimsKept
  BY <1>15 DEF ReplaceAssessments
<1>16. ASSUME NEW c \in StartCalls, StartTraceReturns(c)
       PROVE  ClaimsKept
  BY <1>16 DEF StartTraceReturns
<1>17. ASSUME NEW c \in Calls, CallFaults(c)
       PROVE  ClaimsKept
  BY <1>17 DEF CallFaults
<1>18. ASSUME NEW c \in LogCalls, NEW t \in Traces, RefreshFaults(c, t)
       PROVE  ClaimsKept
  BY <1>18 DEF RefreshFaults, RefreshEnds, Refreshes, Snapshots
<1>19. CASE UNCHANGED vars
  BY <1>19 DEF vars
<1> QED
  BY <1>1, <1>2, <1>3, <1>4, <1>5, <1>6, <1>7, <1>8, <1>9, <1>10, <1>11,
     <1>12, <1>13, <1>14, <1>15, <1>16, <1>17, <1>18, <1>19
     DEF Next, Arrive, LogStep, LateRead, StartStep, Fault, AllReturned

-----------------------------------------------------------------------------
(***************************************************************************)
(* The steps of the system, and what a step adds to the history.           *)
(***************************************************************************)

Ingests == [Next]_vars /\ UNCHANGED deletionVars

LEMMA DeletionSteps ==
    ASSUME [DeletionNext]_systemVars
    PROVE  \/ Ingests /\ RecordOverlap
           \/ \E d \in DeleteCalls :
                 /\ RecordOverlap
                 /\ \/ \E e \in Experiments, T \in SUBSET Traces : SelectTraces(d, e, T)
                    \/ StartDeletingSpans(d)
                    \/ \E s \in Spans : DeleteSpan(d, s)
                    \/ SpansDeleted(d)
                    \/ DeleteAssessments(d)
                    \/ \E t \in Traces : DeleteTrace(d, t)
                    \/ DeletionFaults(d)
           \/ UNCHANGED systemVars
BY DEF DeletionNext, IngestionStep, DeletionStep, DeleteStep, Next, SystemReturned,
       Ingests

(* A deletion that runs records every other call that runs, and nothing    *)
(* else is recorded.                                                       *)
OverlapKept ==
    \A d \in DeleteCalls :
       /\ overlap[d] \subseteq overlap'[d]
       /\ Deleting(d) =>
             /\ {c \in Calls : Active(c)} \subseteq overlap'[d]
             /\ {x \in DeleteCalls : Deleting(x)} \subseteq overlap'[d]
       /\ \A c \in overlap'[d] :
             \/ c \in overlap[d]
             \/ /\ Deleting(d) \/ dpc'[d] \in DeletePhases
                /\ \/ c \in Calls /\ (pc[c] # "idle" \/ pc'[c] # "idle")
                   \/ c \in DeleteCalls /\ (Deleting(c) \/ dpc'[c] \in DeletePhases)

LEMMA StepRecordsOverlap == RecordOverlap => OverlapKept
BY DEF RecordOverlap, OverlapKept, Deleting, DeletePhases, Active, LogPhases, StartPhases

LEMMA DeletionsSettled ==
    ASSUME DeletionTypeOK, DeletionPhaseInv, [DeletionNext]_systemVars
    PROVE  /\ \A x \in DeleteCalls :
                 dpc[x] # "idle" =>
                    /\ dpc'[x] # "idle"
                    /\ scope'[x] = scope[x]
                    /\ selected'[x] = selected[x]
           /\ overlap' \in [DeleteCalls -> SUBSET (Calls \union DeleteCalls)]
<1>1. CASE UNCHANGED systemVars
  BY <1>1 DEF systemVars, deletionVars, DeletionTypeOK
<1>2. CASE RecordOverlap
  <2>1. overlap' \in [DeleteCalls -> SUBSET (Calls \union DeleteCalls)]
    BY <1>2 DEF RecordOverlap, DeletionTypeOK
  <2>2. CASE UNCHANGED deletionVars
    BY <2>1, <2>2 DEF deletionVars
  <2> QED
    BY <2>1, <2>2, DeletionSteps
       DEF Ingests, SelectTraces, StartDeletingSpans, DeleteSpan, SpansDeleted,
           DeleteAssessments, DeleteTrace, DeletionFaults, DeletionGoto,
           DeletionTypeOK, systemVars, DeletePhases, Deleting, deletionVars
<1> QED
  BY <1>1, <1>2, DeletionSteps

-----------------------------------------------------------------------------
(***************************************************************************)
(* Type correctness, and what the deletions leave of the invariant of the  *)
(* ingestion calls.                                                        *)
(***************************************************************************)

LEMMA WriterStep ==
    DeletionTypeOK /\ PhaseInv /\ AbsentInv /\ UpsertInv /\
    [DeletionNext]_systemVars =>
        TypeOK' /\ PhaseInv' /\ AbsentInv' /\
    UpsertInv'
<1> SUFFICES ASSUME DeletionTypeOK, PhaseInv, AbsentInv, UpsertInv,
                    [DeletionNext]_systemVars
             PROVE  TypeOK' /\ PhaseInv' /\ AbsentInv' /\ UpsertInv'
  OBVIOUS
<1> USE DEF DeletionTypeOK, TypeOK, CollectionsTypeOK, callVars, collections
<1>1. ASSUME Ingests, RecordOverlap
      PROVE  TypeOK' /\ PhaseInv' /\ AbsentInv' /\ UpsertInv'
  BY <1>1, TypeStep, AbsentStep, UpsertStep DEF Ingests
<1>2. ASSUME NEW d \in DeleteCalls, NEW e \in Experiments, NEW T \in SUBSET
             Traces, SelectTraces(d, e, T), RecordOverlap
      PROVE  TypeOK' /\ PhaseInv' /\ AbsentInv' /\ UpsertInv'
  BY <1>2 DEF SelectTraces, vars, PhaseInv, AbsentInv, UpsertInv, Present,
     OwnedBy
<1>3. ASSUME NEW d \in DeleteCalls, StartDeletingSpans(d), RecordOverlap
      PROVE  TypeOK' /\ PhaseInv' /\ AbsentInv' /\ UpsertInv'
  BY <1>3 DEF StartDeletingSpans, vars, PhaseInv, AbsentInv, UpsertInv,
     Present, OwnedBy
<1>4. ASSUME NEW d \in DeleteCalls, NEW s \in Spans, DeleteSpan(d, s),
             RecordOverlap
      PROVE  TypeOK' /\ PhaseInv' /\ AbsentInv' /\ UpsertInv'
  BY <1>4 DEF DeleteSpan, vars, PhaseInv, AbsentInv, UpsertInv, Present,
     OwnedBy
<1>5. ASSUME NEW d \in DeleteCalls, SpansDeleted(d), RecordOverlap
      PROVE  TypeOK' /\ PhaseInv' /\ AbsentInv' /\ UpsertInv'
  BY <1>5 DEF SpansDeleted, vars, PhaseInv, AbsentInv, UpsertInv, Present,
     OwnedBy
<1>6. ASSUME NEW d \in DeleteCalls, DeleteAssessments(d), RecordOverlap
      PROVE  TypeOK' /\ PhaseInv' /\ AbsentInv' /\ UpsertInv'
  BY <1>6 DEF DeleteAssessments, vars, PhaseInv, AbsentInv, UpsertInv,
     Present, OwnedBy
<1>7. ASSUME NEW d \in DeleteCalls, NEW t \in Traces, DeleteTrace(d, t),
             RecordOverlap
      PROVE  TypeOK' /\ PhaseInv' /\ AbsentInv' /\ UpsertInv'
  <2>1. Absent \in TraceDoc
    BY PlaceholderType, <1>7 DEF DeleteTrace, Absent, TraceDoc, States, NonFinal
  <2>2. TypeOK' /\ AbsentInv'
    BY <1>7, <2>1 DEF DeleteTrace, AbsentInv, Present
  <2>3. PhaseInv' /\ UpsertInv'
    BY <1>7 DEF DeleteTrace, PhaseInv, UpsertInv
  <2> QED
    BY <2>2, <2>3
<1>8. ASSUME NEW d \in DeleteCalls, DeletionFaults(d), RecordOverlap
      PROVE  TypeOK' /\ PhaseInv' /\ AbsentInv' /\ UpsertInv'
  BY <1>8, BoundsAssumption DEF DeletionFaults, PhaseInv, AbsentInv, UpsertInv, Present
<1>9. CASE UNCHANGED systemVars
  BY <1>9 DEF systemVars, vars, deletionVars, vars, PhaseInv, AbsentInv, UpsertInv, Present, OwnedBy
<1> QED
  BY <1>1, <1>2, <1>3, <1>4, <1>5, <1>6, <1>7, <1>8, <1>9, DeletionSteps

LEMMA DeletionTypeStep ==
    DeletionTypeOK /\ PhaseInv /\ AbsentInv /\ UpsertInv /\ DeletionPhaseInv
    /\ [DeletionNext]_systemVars => DeletionTypeOK' /\ DeletionPhaseInv'
<1> SUFFICES ASSUME DeletionTypeOK, PhaseInv, AbsentInv, UpsertInv,
                    DeletionPhaseInv, [DeletionNext]_systemVars
             PROVE  DeletionTypeOK' /\ DeletionPhaseInv'
  OBVIOUS
<1>0. /\ TypeOK'
      /\ overlap' \in [DeleteCalls -> SUBSET (Calls \union DeleteCalls)]
  BY WriterStep, DeletionsSettled
<1> USE <1>0 DEF DeletionTypeOK, DeletionPhaseInv, DeletionGoto, DeletePhases, Deleting
<1>1. ASSUME Ingests, RecordOverlap
      PROVE  DeletionTypeOK' /\ DeletionPhaseInv'
  <2>1. spans \subseteq spans'
    BY <1>1, StepKeepsSpans DEF Ingests
  <2> QED
    BY <1>1, <2>1, StepRecordsOverlap DEF Ingests, deletionVars, OverlapKept
<1>2. ASSUME NEW d \in DeleteCalls, NEW e \in Experiments, NEW T \in SUBSET
             Traces, SelectTraces(d, e, T), RecordOverlap
      PROVE  DeletionTypeOK' /\ DeletionPhaseInv'
  BY <1>2, StepRecordsOverlap DEF SelectTraces, vars, collections,
     OverlapKept, TracesOf
<1>3. ASSUME NEW d \in DeleteCalls, StartDeletingSpans(d), RecordOverlap
      PROVE  DeletionTypeOK' /\ DeletionPhaseInv'
  BY <1>3, StepRecordsOverlap DEF StartDeletingSpans, vars, collections,
     OverlapKept, TracesOf
<1>4. ASSUME NEW d \in DeleteCalls, NEW s \in Spans, DeleteSpan(d, s),
             RecordOverlap
      PROVE  DeletionTypeOK' /\ DeletionPhaseInv'
  BY <1>4, StepRecordsOverlap DEF DeleteSpan, vars, collections,
     OverlapKept, TracesOf
<1>5. ASSUME NEW d \in DeleteCalls, SpansDeleted(d), RecordOverlap
      PROVE  DeletionTypeOK' /\ DeletionPhaseInv'
  BY <1>5, StepRecordsOverlap DEF SpansDeleted, vars, collections,
     OverlapKept, TracesOf
<1>6. ASSUME NEW d \in DeleteCalls, DeleteAssessments(d), RecordOverlap
      PROVE  DeletionTypeOK' /\ DeletionPhaseInv'
  BY <1>6, StepRecordsOverlap DEF DeleteAssessments, vars, collections,
     OverlapKept, TracesOf
<1>7. ASSUME NEW d \in DeleteCalls, NEW t \in Traces, DeleteTrace(d, t),
             RecordOverlap
      PROVE  DeletionTypeOK' /\ DeletionPhaseInv'
  BY <1>7, StepRecordsOverlap DEF DeleteTrace, vars, collections,
     OverlapKept, TracesOf
<1>8. ASSUME NEW d \in DeleteCalls, DeletionFaults(d), RecordOverlap
      PROVE  DeletionTypeOK' /\ DeletionPhaseInv'
  BY <1>8, StepRecordsOverlap DEF DeletionFaults, vars, collections,
     OverlapKept, TracesOf
<1>9. CASE UNCHANGED systemVars
  BY <1>9 DEF systemVars, vars, deletionVars, vars, collections, OverlapKept, TracesOf
<1> QED
  BY <1>1, <1>2, <1>3, <1>4, <1>5, <1>6, <1>7, <1>8, <1>9, DeletionSteps

-----------------------------------------------------------------------------
(***************************************************************************)
(* What deletions and the writers that overlap them leave behind.          *)
(***************************************************************************)

LEMMA OverlapStep ==
    DeletionTypeOK /\ PhaseInv /\ AbsentInv /\ UpsertInv /\ DeletionPhaseInv
    /\ OverlapInv /\ [DeletionNext]_systemVars => OverlapInv'
<1> SUFFICES ASSUME DeletionTypeOK, PhaseInv, AbsentInv, UpsertInv,
                    DeletionPhaseInv, OverlapInv, [DeletionNext]_systemVars
             PROVE  OverlapInv'
  OBVIOUS
<1>0. /\ \A x \in DeleteCalls :
            dpc[x] # "idle" =>
               /\ dpc'[x] # "idle"
               /\ scope'[x] = scope[x]
               /\ selected'[x] = selected[x]
      /\ overlap' \in [DeleteCalls -> SUBSET (Calls \union DeleteCalls)]
  BY DeletionsSettled
<1> USE DeleteCallsAssumption, <1>0
    DEF DeletionTypeOK, OverlapInv, DeletionGoto, DeletePhases, Deleting
<1>1. ASSUME Ingests, RecordOverlap
      PROVE  OverlapInv'
  BY <1>1, StepKeepsWriters, StepRecordsOverlap DEF Ingests, deletionVars,
     WritersKept, OverlapKept, DeletionTypeOK
<1>2. ASSUME NEW d \in DeleteCalls, NEW e \in Experiments, NEW T \in SUBSET
             Traces, SelectTraces(d, e, T), RecordOverlap
      PROVE  OverlapInv'
  BY <1>2, StepRecordsOverlap DEF SelectTraces, vars, callVars, OverlapKept
<1>3. ASSUME NEW d \in DeleteCalls, StartDeletingSpans(d), RecordOverlap
      PROVE  OverlapInv'
  BY <1>3, StepRecordsOverlap DEF StartDeletingSpans, vars, callVars,
     OverlapKept
<1>4. ASSUME NEW d \in DeleteCalls, NEW s \in Spans, DeleteSpan(d, s),
             RecordOverlap
      PROVE  OverlapInv'
  BY <1>4, StepRecordsOverlap DEF DeleteSpan, vars, callVars, OverlapKept
<1>5. ASSUME NEW d \in DeleteCalls, SpansDeleted(d), RecordOverlap
      PROVE  OverlapInv'
  BY <1>5, StepRecordsOverlap DEF SpansDeleted, vars, callVars, OverlapKept
<1>6. ASSUME NEW d \in DeleteCalls, DeleteAssessments(d), RecordOverlap
      PROVE  OverlapInv'
  BY <1>6, StepRecordsOverlap DEF DeleteAssessments, vars, callVars,
     OverlapKept
<1>7. ASSUME NEW d \in DeleteCalls, NEW t \in Traces, DeleteTrace(d, t),
             RecordOverlap
      PROVE  OverlapInv'
  BY <1>7, StepRecordsOverlap DEF DeleteTrace, vars, callVars, OverlapKept
<1>8. ASSUME NEW d \in DeleteCalls, DeletionFaults(d), RecordOverlap
      PROVE  OverlapInv'
  BY <1>8, StepRecordsOverlap DEF DeletionFaults, vars, callVars,
     OverlapKept
<1>9. CASE UNCHANGED systemVars
  BY <1>9 DEF systemVars, vars, deletionVars, vars, callVars, OverlapKept
<1> QED
  BY <1>1, <1>2, <1>3, <1>4, <1>5, <1>6, <1>7, <1>8, <1>9, DeletionSteps

LEMMA ClaimStep ==
    DeletionTypeOK /\ PhaseInv /\ AbsentInv /\ UpsertInv /\ DeletionPhaseInv
    /\ OverlapInv /\ ClaimInv /\ [DeletionNext]_systemVars => ClaimInv'
<1> SUFFICES ASSUME DeletionTypeOK, PhaseInv, AbsentInv, UpsertInv,
                    DeletionPhaseInv, OverlapInv, ClaimInv,
                    [DeletionNext]_systemVars
             PROVE  ClaimInv'
  OBVIOUS
<1>0. \A x \in DeleteCalls :
         dpc[x] # "idle" =>
            /\ dpc'[x] # "idle"
            /\ scope'[x] = scope[x]
            /\ selected'[x] = selected[x]
  BY DeletionsSettled
<1> USE DeleteCallsAssumption, <1>0
    DEF DeletionTypeOK, TypeOK, CollectionsTypeOK, DeletionPhaseInv, ClaimInv, Claimed,
        OverlapKept, Calls
<1>1. ASSUME Ingests, RecordOverlap
      PROVE  ClaimInv'
  <2>1. ClaimsKept /\ OverlapKept /\ UNCHANGED deletionVars
    BY <1>1, StepKeepsClaims, StepRecordsOverlap DEF Ingests
  <2>2. \A t \in Traces : Present(t) => Present(t)'
    BY <1>1, StepKeepsDocuments DEF Ingests, DocumentsKept, Present
  <2> QED
    BY ONLY ClaimInv, <2>1, <2>2 DEF ClaimInv, ClaimsKept, OverlapKept, deletionVars, Present
<1>2. ASSUME NEW d \in DeleteCalls, NEW e \in Experiments, NEW T \in SUBSET
             Traces, SelectTraces(d, e, T), RecordOverlap
      PROVE  ClaimInv'
  BY <1>2, StepRecordsOverlap DEF SelectTraces, vars, callVars, collections,
     Present
<1>3. ASSUME NEW d \in DeleteCalls, StartDeletingSpans(d), RecordOverlap
      PROVE  ClaimInv'
  BY <1>3, StepRecordsOverlap DEF StartDeletingSpans, vars, callVars,
     collections, Present
<1>4. ASSUME NEW d \in DeleteCalls, NEW s \in Spans, DeleteSpan(d, s),
             RecordOverlap
      PROVE  ClaimInv'
  BY <1>4, StepRecordsOverlap DEF DeleteSpan, vars, callVars, collections,
     Present
<1>5. ASSUME NEW d \in DeleteCalls, SpansDeleted(d), RecordOverlap
      PROVE  ClaimInv'
  BY <1>5, StepRecordsOverlap DEF SpansDeleted, vars, callVars, collections,
     Present
<1>6. ASSUME NEW d \in DeleteCalls, DeleteAssessments(d), RecordOverlap
      PROVE  ClaimInv'
  BY <1>6, StepRecordsOverlap DEF DeleteAssessments, vars, callVars,
     collections, Present
<1>7. ASSUME NEW d \in DeleteCalls, NEW t \in Traces, DeleteTrace(d, t),
             RecordOverlap
      PROVE  ClaimInv'
  <2>1. /\ OverlapKept
        /\ Deleting(d) /\ t \in selected[d]
        /\ \A u \in Traces : u # t => (Present(u)' <=> Present(u))
    BY <1>7, StepRecordsOverlap DEF DeleteTrace, Deleting, DeletePhases, Present
  <2>2. \A c \in LogCalls, u \in Traces : Claimed(c, u)' => Claimed(c, u) /\ Active(c)
    BY <1>7 DEF DeleteTrace, callVars, Active, LogPhases
  <2>3. UNCHANGED selected
    BY <1>7 DEF DeleteTrace
  <2> QED
    BY ONLY ClaimInv, <2>1, <2>2, <2>3 DEF ClaimInv, OverlapKept, Calls
<1>8. ASSUME NEW d \in DeleteCalls, DeletionFaults(d), RecordOverlap
      PROVE  ClaimInv'
  BY <1>8, StepRecordsOverlap DEF DeletionFaults, vars, callVars,
     collections, Present
<1>9. CASE UNCHANGED systemVars
  BY <1>9 DEF systemVars, vars, deletionVars, vars, callVars, collections, Present
<1> QED
  BY <1>1, <1>2, <1>3, <1>4, <1>5, <1>6, <1>7, <1>8, <1>9, DeletionSteps

LEMMA RemainderStep ==
    DeletionTypeOK /\ PhaseInv /\ AbsentInv /\ UpsertInv /\ DeletionPhaseInv
    /\ OverlapInv /\ RemainderInv /\ [DeletionNext]_systemVars =>
    RemainderInv'
<1> SUFFICES ASSUME DeletionTypeOK, PhaseInv, AbsentInv, UpsertInv,
                    DeletionPhaseInv, OverlapInv, RemainderInv,
                    [DeletionNext]_systemVars
             PROVE  RemainderInv'
  OBVIOUS
<1>0. \A x \in DeleteCalls :
         dpc[x] # "idle" =>
            /\ dpc'[x] # "idle"
            /\ scope'[x] = scope[x]
            /\ selected'[x] = selected[x]
  BY DeletionsSettled
<1> USE DeleteCallsAssumption, <1>0
    DEF DeletionTypeOK, TypeOK, CollectionsTypeOK, DeletionPhaseInv, RemainderInv,
        DeletionGoto
<1>1. ASSUME Ingests, RecordOverlap
      PROVE  RemainderInv'
  <2>1. WritersKept /\ OverlapKept /\ UNCHANGED deletionVars
    BY <1>1, StepKeepsWriters, StepRecordsOverlap DEF Ingests
  <2>2. \A d \in DeleteCalls : \A c \in overlap[d] \intersect LogCalls : batch'[c] = batch[c]
    BY <2>1 DEF WritersKept, OverlapInv, Calls
  <2>3. \A d \in DeleteCalls : \A c \in LogCalls :
           Deleting(d) /\ pc[c] = "persist" => c \in overlap'[d] /\ batch'[c] = batch[c]
    BY <2>1 DEF WritersKept, OverlapKept, Calls, Active, LogPhases
  <2> QED
    BY ONLY RemainderInv, <2>1, <2>2, <2>3
       DEF RemainderInv, WritersKept, OverlapKept, deletionVars, Deleting, DeletePhases
<1>2. ASSUME NEW d \in DeleteCalls, NEW e \in Experiments, NEW T \in SUBSET
             Traces, SelectTraces(d, e, T), RecordOverlap
      PROVE  RemainderInv'
  BY <1>2, StepRecordsOverlap DEF SelectTraces, vars, callVars, collections,
     OverlapKept
<1>3. ASSUME NEW d \in DeleteCalls, StartDeletingSpans(d), RecordOverlap
      PROVE  RemainderInv'
  BY <1>3, StepRecordsOverlap DEF StartDeletingSpans, vars, callVars,
     collections, OverlapKept
<1>4. ASSUME NEW d \in DeleteCalls, NEW s \in Spans, DeleteSpan(d, s),
             RecordOverlap
      PROVE  RemainderInv'
  BY <1>4, StepRecordsOverlap DEF DeleteSpan, vars, callVars, collections,
     OverlapKept
<1>5. ASSUME NEW d \in DeleteCalls, SpansDeleted(d), RecordOverlap
      PROVE  RemainderInv'
  BY <1>5, StepRecordsOverlap DEF SpansDeleted, vars, callVars, collections,
     OverlapKept
<1>6. ASSUME NEW d \in DeleteCalls, DeleteAssessments(d), RecordOverlap
      PROVE  RemainderInv'
  BY <1>6, StepRecordsOverlap DEF DeleteAssessments, vars, callVars,
     collections, OverlapKept
<1>7. ASSUME NEW d \in DeleteCalls, NEW t \in Traces, DeleteTrace(d, t),
             RecordOverlap
      PROVE  RemainderInv'
  BY <1>7, StepRecordsOverlap DEF DeleteTrace, vars, callVars, collections,
     OverlapKept
<1>8. ASSUME NEW d \in DeleteCalls, DeletionFaults(d), RecordOverlap
      PROVE  RemainderInv'
  BY <1>8, StepRecordsOverlap DEF DeletionFaults, vars, callVars,
     collections, OverlapKept
<1>9. CASE UNCHANGED systemVars
  BY <1>9 DEF systemVars, vars, deletionVars, vars, callVars, collections, OverlapKept
<1> QED
  BY <1>1, <1>2, <1>3, <1>4, <1>5, <1>6, <1>7, <1>8, <1>9, DeletionSteps

LEMMA OrphanStep ==
    DeletionTypeOK /\ PhaseInv /\ AbsentInv /\ UpsertInv /\ DeletionPhaseInv
    /\ OverlapInv /\ ClaimInv /\ RemainderInv /\
    OrphansComeFromOverlappingWriters /\ [DeletionNext]_systemVars =>
    OrphansComeFromOverlappingWriters'
<1> SUFFICES ASSUME DeletionTypeOK, PhaseInv, AbsentInv, UpsertInv,
                    DeletionPhaseInv, OverlapInv, ClaimInv, RemainderInv,
                    OrphansComeFromOverlappingWriters,
                    [DeletionNext]_systemVars
             PROVE  OrphansComeFromOverlappingWriters'
  OBVIOUS
<1>0. \A x \in DeleteCalls :
         dpc[x] # "idle" =>
            /\ dpc'[x] # "idle"
            /\ scope'[x] = scope[x]
            /\ selected'[x] = selected[x]
  BY DeletionsSettled
<1> USE DeleteCallsAssumption, SpansAssumption, <1>0
    DEF DeletionTypeOK, TypeOK, CollectionsTypeOK, DeletionPhaseInv,
        OrphansComeFromOverlappingWriters, Present
<1>1. ASSUME Ingests, RecordOverlap
      PROVE  OrphansComeFromOverlappingWriters'
  <2>1. WritersKept /\ OverlapKept /\ UNCHANGED deletionVars
    BY <1>1, StepKeepsWriters, StepRecordsOverlap DEF Ingests
  <2>2. \A t \in Traces : Present(t) => Present(t)'
    BY <1>1, StepKeepsDocuments DEF Ingests, DocumentsKept
  <2>3. \A d \in DeleteCalls : \A c \in overlap[d] \intersect LogCalls : batch'[c] = batch[c]
    BY <2>1 DEF WritersKept, OverlapInv, Calls
  <2>4. ASSUME NEW s \in spans' \ spans, ~Present(TraceOf[s])'
        PROVE  \E d \in DeleteCalls, c \in LogCalls :
                  /\ TraceOf[s] \in selected'[d]
                  /\ c \in overlap'[d] /\ s \in batch'[c]
    <3>1. PICK c \in LogCalls : pc[c] = "persist" /\ s \in batch[c]
      BY <2>1 DEF WritersKept
    <3>2. TraceOf[s] \in Traces /\ Claimed(c, TraceOf[s])
      BY <3>1 DEF Claimed, LogPhases, TracesOf, Calls
    <3>3. PICK d \in DeleteCalls : TraceOf[s] \in selected[d] /\ c \in overlap[d]
      BY <3>2, <2>2, <2>4 DEF ClaimInv
    <3> QED
      BY <2>1, <2>3, <3>1, <3>3 DEF OverlapKept, deletionVars
  <2>5. \A s \in spans : TraceOf[s] \in Traces
    OBVIOUS
  <2> HIDE DEF Present
  <2> QED
    BY ONLY OrphansComeFromOverlappingWriters, <2>1, <2>2, <2>3, <2>4, <2>5
       DEF OrphansComeFromOverlappingWriters, OverlapKept, deletionVars
<1>2. ASSUME NEW d \in DeleteCalls, NEW e \in Experiments, NEW T \in SUBSET
             Traces, SelectTraces(d, e, T), RecordOverlap
      PROVE  OrphansComeFromOverlappingWriters'
  BY <1>2, StepRecordsOverlap DEF SelectTraces, vars, callVars, collections,
     OverlapKept
<1>3. ASSUME NEW d \in DeleteCalls, StartDeletingSpans(d), RecordOverlap
      PROVE  OrphansComeFromOverlappingWriters'
  BY <1>3, StepRecordsOverlap DEF StartDeletingSpans, vars, callVars,
     collections, OverlapKept
<1>4. ASSUME NEW d \in DeleteCalls, NEW s \in Spans, DeleteSpan(d, s),
             RecordOverlap
      PROVE  OrphansComeFromOverlappingWriters'
  BY <1>4, StepRecordsOverlap DEF DeleteSpan, vars, callVars, collections,
     OverlapKept
<1>5. ASSUME NEW d \in DeleteCalls, SpansDeleted(d), RecordOverlap
      PROVE  OrphansComeFromOverlappingWriters'
  BY <1>5, StepRecordsOverlap DEF SpansDeleted, vars, callVars, collections,
     OverlapKept
<1>6. ASSUME NEW d \in DeleteCalls, DeleteAssessments(d), RecordOverlap
      PROVE  OrphansComeFromOverlappingWriters'
  BY <1>6, StepRecordsOverlap DEF DeleteAssessments, vars, callVars,
     collections, OverlapKept
<1>7. ASSUME NEW d \in DeleteCalls, NEW t \in Traces, DeleteTrace(d, t),
             RecordOverlap
      PROVE  OrphansComeFromOverlappingWriters'
  <2>1. /\ OverlapKept
        /\ dpc[d] = "traces" /\ t \in selected[d] /\ doomed[d] = {}
        /\ \A u \in Traces : u # t => (Present(u)' <=> Present(u))
    BY <1>7, StepRecordsOverlap DEF DeleteTrace
  <2>2. UNCHANGED <<spans, batch, selected>>
    BY <1>7 DEF DeleteTrace, callVars
  <2>3. \A s \in spans : TraceOf[s] \in Traces
    OBVIOUS
  <2> HIDE DEF Present
  <2> QED
    BY ONLY OrphansComeFromOverlappingWriters, RemainderInv, <2>1, <2>2, <2>3
       DEF OrphansComeFromOverlappingWriters, RemainderInv, OverlapKept
<1>8. ASSUME NEW d \in DeleteCalls, DeletionFaults(d), RecordOverlap
      PROVE  OrphansComeFromOverlappingWriters'
  BY <1>8, StepRecordsOverlap DEF DeletionFaults, vars, callVars,
     collections, OverlapKept
<1>9. CASE UNCHANGED systemVars
  BY <1>9 DEF systemVars, vars, deletionVars, vars, callVars, collections, OverlapKept
<1> QED
  BY <1>1, <1>2, <1>3, <1>4, <1>5, <1>6, <1>7, <1>8, <1>9, DeletionSteps

(* A call that overlapped a deletion goes on having written what it wrote. *)
LEMMA TouchedStays ==
    ASSUME DeletionTypeOK, PhaseInv, UpsertInv, OverlapInv,
           [Next]_vars \/ UNCHANGED callVars, OverlapKept,
           NEW d \in DeleteCalls, NEW t, Touched(d, t)
    PROVE  Touched(d, t)'
<1>1. PICK c \in overlap[d] \intersect Calls : Touches(c, t)
  BY DEF Touched
<1>2. c \in overlap'[d]
  BY DEF OverlapKept
<1>3. batch'[c] = batch[c] /\ (c \in StartCalls => current'[c] = current[c])
  <2>1. CASE UNCHANGED callVars
    BY <2>1 DEF callVars
  <2>2. CASE [Next]_vars
    <3>1. pc[c] # "idle"
      BY <1>1 DEF OverlapInv
    <3> QED
      BY <2>2, <3>1, StepKeepsWriters DEF WritersKept, DeletionTypeOK
  <2> QED
    BY <2>1, <2>2
<1> QED
  BY <1>1, <1>2, <1>3 DEF Touched, Touches


LEMMA ClearedStep ==
    DeletionTypeOK /\ PhaseInv /\ AbsentInv /\ UpsertInv /\ DeletionPhaseInv
    /\ OverlapInv /\ ClearedInv /\ [DeletionNext]_systemVars => ClearedInv'
<1> SUFFICES ASSUME DeletionTypeOK, PhaseInv, AbsentInv, UpsertInv,
                    DeletionPhaseInv, OverlapInv, ClearedInv,
                    [DeletionNext]_systemVars
             PROVE  ClearedInv'
  OBVIOUS
<1>0. \A x \in DeleteCalls :
         dpc[x] # "idle" =>
            /\ dpc'[x] # "idle"
            /\ scope'[x] = scope[x]
            /\ selected'[x] = selected[x]
  BY DeletionsSettled
<1> USE DeleteCallsAssumption, <1>0, TouchedStays
    DEF DeletionTypeOK, TypeOK, CollectionsTypeOK, DeletionPhaseInv, ClearedInv,
        DeletionGoto, Deleting, DeletePhases
<1>1. ASSUME Ingests, RecordOverlap
      PROVE  ClearedInv'
  <2>1. WritersKept /\ ClaimsKept /\ OverlapKept /\ UNCHANGED deletionVars
    BY <1>1, StepKeepsWriters, StepKeepsClaims, StepRecordsOverlap DEF Ingests
  <2>2. \A t \in Traces : Present(t) => Present(t)' /\ \A e : OwnedBy(t, e) => OwnedBy(t, e)'
    BY <1>1, StepKeepsDocuments DEF Ingests, DocumentsKept, Present, OwnedBy
  <2>3. \A d \in DeleteCalls, t \in Traces : Touched(d, t) => Touched(d, t)'
    BY <1>1, <2>1 DEF Ingests
  <2>4. \A d \in DeleteCalls, c \in Calls, t \in Traces :
           Deleting(d) /\ Active(c) /\ Touches(c, t) => Touched(d, t)'
    <3>1. \A c \in Calls, t \in Traces : Active(c) /\ Touches(c, t) => Touches(c, t)'
      BY ONLY <2>1 DEF Touches, WritersKept, Active, LogPhases, StartPhases, TracesOf, Calls
    <3>2. \A d \in DeleteCalls, c \in Calls :
             Deleting(d) /\ Active(c) => c \in overlap'[d]
      BY ONLY <2>1 DEF OverlapKept
    <3> QED
      BY ONLY <3>1, <3>2 DEF Touched
  <2>5. \A d \in DeleteCalls, t \in Traces : Deleting(d) /\ Present(t)' => Present(t) \/ Touched(d, t)'
    BY <2>1, <2>4 DEF ClaimsKept, Present
  <2>6. \A d \in DeleteCalls, t \in Traces :
           Deleting(d) /\ t \in assessments' => t \in assessments \/ Touched(d, t)'
    <3>1. \A d \in DeleteCalls, c \in StartCalls, t \in Traces :
             Deleting(d) /\ pc[c] = "assess" /\ t = current[c] => Touched(d, t)'
      BY <2>1 DEF Touched, Touches, OverlapKept, WritersKept, Active, LogPhases, StartPhases, Calls
    <3> QED
      BY ONLY <2>1, <3>1 DEF WritersKept
  <2>7. /\ UNCHANGED <<dpc, scope, selected, pending>>
        /\ \A d \in DeleteCalls : selected[d] \subseteq Traces
        /\ \A d \in DeleteCalls : \A t \in selected[d] :
              Deleting(d) /\ OwnedBy(t, scope[d]) => OwnedBy(t, scope[d])'
    <3>1. UNCHANGED <<dpc, scope, selected, pending>>
      BY ONLY <2>1 DEF deletionVars
    <3>2. \A d \in DeleteCalls : selected[d] \subseteq Traces
      OBVIOUS
    <3>3. ASSUME NEW d \in DeleteCalls, NEW t \in selected[d],
                 Deleting(d), OwnedBy(t, scope[d])
          PROVE  OwnedBy(t, scope[d])'
      <4>1. PICK e \in Experiments : e = scope[d] /\ e = scope'[d]
        BY <3>1, <3>3
      <4>2. OwnedBy(t, e) /\ t \in Traces /\ Present(t)
        BY ONLY <3>2, <3>3, <4>1, d \in DeleteCalls, t \in selected[d], e \in Experiments,
                ExperimentsAssumption DEF OwnedBy, Present
      <4>3. OwnedBy(t, e)'
        BY ONLY <2>2, <4>2
      <4> QED
        BY ONLY <4>1, <4>3 DEF OwnedBy
    <3> QED
      BY ONLY <3>1, <3>2, <3>3
  <2>8. ASSUME NEW d \in DeleteCalls, NEW t \in selected[d]
        PROVE  /\ Deleting(d)' => OwnedBy(t, scope[d])' \/ ~Present(t)' \/ Touched(d, t)'
               /\ dpc'[d] = "traces" =>
                     /\ t \notin pending'[d] => ~Present(t)' \/ Touched(d, t)'
                     /\ t \notin assessments' \/ Touched(d, t)'
    <3> HIDE DEF DeletionTypeOK, TypeOK, CollectionsTypeOK, DeletionPhaseInv
    <3>1. t \in Traces /\ Deleting(d)' = Deleting(d) /\ dpc'[d] = dpc[d] /\ pending'[d] = pending[d]
      BY <2>7
    <3>2. CASE Touched(d, t)
      BY ONLY <3>1, <3>2, <2>3
    <3>3. CASE ~Touched(d, t)
      BY ONLY <3>1, <3>3, <2>5, <2>6, <2>7, ClearedInv DEF ClearedInv, Deleting, DeletePhases
    <3> QED
      BY <3>2, <3>3
  <2> QED
    BY ONLY <2>7, <2>8 DEF ClearedInv
<1>2. ASSUME NEW d \in DeleteCalls, NEW e \in Experiments, NEW T \in SUBSET
             Traces, SelectTraces(d, e, T), RecordOverlap
      PROVE  ClearedInv'
  BY <1>2, StepRecordsOverlap DEF SelectTraces, vars, callVars, collections,
     Present, OwnedBy
<1>3. ASSUME NEW d \in DeleteCalls, StartDeletingSpans(d), RecordOverlap
      PROVE  ClearedInv'
  BY <1>3, StepRecordsOverlap DEF StartDeletingSpans, vars, callVars,
     collections, Present, OwnedBy
<1>4. ASSUME NEW d \in DeleteCalls, NEW s \in Spans, DeleteSpan(d, s),
             RecordOverlap
      PROVE  ClearedInv'
  BY <1>4, StepRecordsOverlap DEF DeleteSpan, vars, callVars, collections,
     Present, OwnedBy
<1>5. ASSUME NEW d \in DeleteCalls, SpansDeleted(d), RecordOverlap
      PROVE  ClearedInv'
  BY <1>5, StepRecordsOverlap DEF SpansDeleted, vars, callVars, collections,
     Present, OwnedBy
<1>6. ASSUME NEW d \in DeleteCalls, DeleteAssessments(d), RecordOverlap
      PROVE  ClearedInv'
  BY <1>6, StepRecordsOverlap DEF DeleteAssessments, vars, callVars,
     collections, Present, OwnedBy
<1>7. ASSUME NEW d \in DeleteCalls, NEW t \in Traces, DeleteTrace(d, t),
             RecordOverlap
      PROVE  ClearedInv'
  <2>1. OverlapKept /\ UNCHANGED <<callVars, scope, selected, assessments>>
    BY <1>7, StepRecordsOverlap DEF DeleteTrace
  <2>2. \A x \in DeleteCalls, u \in Traces : Touched(x, u) => Touched(x, u)'
    BY <2>1
  <2>3. /\ dpc[d] = "traces" /\ t \in pending[d] /\ t \in selected[d]
        /\ trace' = [trace EXCEPT ![t] = IF OwnedBy(t, scope[d]) THEN Absent ELSE @]
        /\ pending' = [pending EXCEPT ![d] = @ \ {t}]
        /\ dpc'[d] \in {"traces", "done"} /\ \A x \in DeleteCalls : x # d => dpc'[x] = dpc[x]
    BY <1>7 DEF DeleteTrace
  <2>4. /\ \A u \in Traces : u # t => trace'[u] = trace[u]
        /\ OwnedBy(t, scope[d]) => ~Present(t)'
        /\ trace'[t] = trace[t] \/ ~Present(t)'
    BY <2>3, ExperimentsAssumption DEF Present, Absent
  <2>5. /\ \A x \in DeleteCalls : selected[x] \subseteq Traces
        /\ \A x \in DeleteCalls : x # d => pending'[x] = pending[x]
        /\ \A u \in Traces : u \notin pending'[d] => u = t \/ u \notin pending[d]
    BY <2>3
  <2> HIDE DEF DeletionTypeOK, TypeOK, CollectionsTypeOK, DeletionPhaseInv
  <2>6. \A x \in DeleteCalls : x # d => ~Deleting(x)' \/ Deleting(x)
    BY <2>3
  <2>7. ASSUME NEW x \in DeleteCalls, NEW u \in selected[x]
        PROVE  /\ Deleting(x)' => OwnedBy(u, scope[x])' \/ ~Present(u)' \/ Touched(x, u)'
               /\ dpc'[x] = "traces" =>
                     /\ u \notin pending'[x] => ~Present(u)' \/ Touched(x, u)'
                     /\ u \notin assessments' \/ Touched(x, u)'
    <3>1. CASE Touched(x, u)
      BY ONLY <3>1, <2>2, <2>5
    <3>2. CASE ~Touched(x, u) /\ x = d
      BY ONLY <3>2, <2>1, <2>3, <2>4, <2>5, ClearedInv DEF ClearedInv, Deleting, DeletePhases, Present, OwnedBy
    <3>3. CASE ~Touched(x, u) /\ x # d
      BY ONLY <3>3, <2>1, <2>3, <2>4, <2>5, ClearedInv DEF ClearedInv, Deleting, DeletePhases, Present, OwnedBy
    <3> QED
      BY <3>1, <3>2, <3>3
  <2> QED
    BY ONLY <2>1, <2>7 DEF ClearedInv
<1>8. ASSUME NEW d \in DeleteCalls, DeletionFaults(d), RecordOverlap
      PROVE  ClearedInv'
  BY <1>8, StepRecordsOverlap DEF DeletionFaults, vars, callVars,
     collections, Present, OwnedBy
<1>9. CASE UNCHANGED systemVars
  <2>1. \A x \in DeleteCalls, u \in Traces : Touched(x, u)' <=> Touched(x, u)
    BY <1>9 DEF systemVars, vars, deletionVars, Touched, Touches
  <2> QED
    BY <1>9, <2>1 DEF systemVars, vars, deletionVars, Present, OwnedBy
<1> QED
  BY <1>1, <1>2, <1>3, <1>4, <1>5, <1>6, <1>7, <1>8, <1>9, DeletionSteps

LEMMA ScopeStep ==
    DeletionTypeOK /\ PhaseInv /\ AbsentInv /\ UpsertInv /\ DeletionPhaseInv
    /\ OverlapInv /\ ScopeInv /\ [DeletionNext]_systemVars => ScopeInv'
<1> SUFFICES ASSUME DeletionTypeOK, PhaseInv, AbsentInv, UpsertInv,
                    DeletionPhaseInv, OverlapInv, ScopeInv,
                    [DeletionNext]_systemVars
             PROVE  ScopeInv'
  OBVIOUS
<1>0. \A x \in DeleteCalls :
         dpc[x] # "idle" =>
            /\ dpc'[x] # "idle"
            /\ scope'[x] = scope[x]
            /\ selected'[x] = selected[x]
  BY DeletionsSettled
<1> USE DeleteCallsAssumption, <1>0
    DEF DeletionTypeOK, TypeOK, CollectionsTypeOK, DeletionPhaseInv, ScopeInv, TakenBy,
        DeletionGoto, Deleting, DeletePhases
<1>1. ASSUME Ingests, RecordOverlap
      PROVE  ScopeInv'
  <2>1. OverlapKept /\ UNCHANGED <<dpc, scope, selected>>
    BY <1>1, StepRecordsOverlap DEF Ingests, deletionVars
  <2>2. \A d \in DeleteCalls : \A t \in selected[d] :
           OwnedBy(t, scope[d]) /\ scope[d] \in Experiments => OwnedBy(t, scope[d])'
    <3>1. \A t \in Traces, e \in Experiments : OwnedBy(t, e) => OwnedBy(t, e)'
      <4> HIDE DEF DeletionTypeOK, TypeOK, CollectionsTypeOK
      <4>1. DocumentsKept
        BY <1>1, StepKeepsDocuments DEF Ingests, DeletionTypeOK
      <4> QED
        BY ONLY <4>1, ExperimentsAssumption DEF DocumentsKept, Present, OwnedBy
    <3>2. ASSUME NEW d \in DeleteCalls, NEW t \in selected[d], OwnedBy(t, scope[d]),
                 scope[d] \in Experiments
          PROVE  OwnedBy(t, scope[d])'
      <4>1. PICK e \in Experiments : e = scope[d] /\ e = scope'[d]
        BY <2>1, <3>2
      <4>2. OwnedBy(t, e) /\ t \in Traces
        BY <3>2, <4>1 DEF OwnedBy
      <4>3. OwnedBy(t, e)'
        BY ONLY <3>1, <4>2, e \in Experiments
      <4> QED
        BY ONLY <4>1, <4>3 DEF OwnedBy
    <3> QED
      BY ONLY <3>2
  <2> QED
    BY <2>1, <2>2 DEF OverlapKept
<1>2. ASSUME NEW d \in DeleteCalls, NEW e \in Experiments, NEW T \in SUBSET
             Traces, SelectTraces(d, e, T), RecordOverlap
      PROVE  ScopeInv'
  BY <1>2, StepRecordsOverlap DEF SelectTraces, vars, callVars, collections,
     OwnedBy, OverlapKept, OverlapInv
<1>3. ASSUME NEW d \in DeleteCalls, StartDeletingSpans(d), RecordOverlap
      PROVE  ScopeInv'
  BY <1>3, StepRecordsOverlap DEF StartDeletingSpans, vars, callVars,
     collections, OwnedBy, OverlapKept, OverlapInv
<1>4. ASSUME NEW d \in DeleteCalls, NEW s \in Spans, DeleteSpan(d, s),
             RecordOverlap
      PROVE  ScopeInv'
  BY <1>4, StepRecordsOverlap DEF DeleteSpan, vars, callVars, collections,
     OwnedBy, OverlapKept, OverlapInv
<1>5. ASSUME NEW d \in DeleteCalls, SpansDeleted(d), RecordOverlap
      PROVE  ScopeInv'
  <2>1. /\ OverlapKept /\ UNCHANGED <<trace, scope, selected>>
        /\ dpc[d] = "children" /\ dpc' = [dpc EXCEPT ![d] = "assessments"]
    BY <1>5, StepRecordsOverlap DEF SpansDeleted, vars
  <2>2. /\ \A x \in DeleteCalls :
              dpc'[x] \in {"spans", "children", "assessments"} =>
                 dpc[x] \in {"spans", "children", "assessments"}
        /\ \A x \in DeleteCalls :
              dpc[x] \in {"traces", "done", "failed"} =>
                 dpc'[x] \in {"traces", "done", "failed"}
    BY <2>1
  <2> QED
    BY ONLY ScopeInv, <2>1, <2>2 DEF ScopeInv, TakenBy, OverlapKept, OwnedBy
<1>6. ASSUME NEW d \in DeleteCalls, DeleteAssessments(d), RecordOverlap
      PROVE  ScopeInv'
  BY <1>6, StepRecordsOverlap DEF DeleteAssessments, vars, callVars,
     collections, OwnedBy, OverlapKept, OverlapInv
<1>7. ASSUME NEW d \in DeleteCalls, NEW t \in Traces, DeleteTrace(d, t),
             RecordOverlap
      PROVE  ScopeInv'
  BY <1>7, StepRecordsOverlap DEF DeleteTrace, vars, callVars, collections,
     OwnedBy, OverlapKept, OverlapInv
<1>8. ASSUME NEW d \in DeleteCalls, DeletionFaults(d), RecordOverlap
      PROVE  ScopeInv'
  BY <1>8, StepRecordsOverlap DEF DeletionFaults, vars, callVars,
     collections, OwnedBy, OverlapKept, OverlapInv
<1>9. CASE UNCHANGED systemVars
  BY <1>9 DEF systemVars, vars, deletionVars, vars, callVars, collections, OwnedBy, OverlapKept, OverlapInv
<1> QED
  BY <1>1, <1>2, <1>3, <1>4, <1>5, <1>6, <1>7, <1>8, <1>9, DeletionSteps

-----------------------------------------------------------------------------
(***************************************************************************)
(* The invariant.                                                          *)
(***************************************************************************)

LEMMA DeletionInvInit == DeletionInit => DeletionInv
<1> SUFFICES ASSUME DeletionInit
             PROVE  DeletionInv
  OBVIOUS
<1>1. TypeOK /\ PhaseInv
  BY TypeInit DEF DeletionInit
<1>2. DeletionTypeOK /\ DeletionPhaseInv /\ OverlapInv
  BY <1>1 DEF DeletionInit, DeletionTypeOK, DeletionPhaseInv, OverlapInv, DeletePhases,
              TracesOf
<1>3. AbsentInv /\ UpsertInv
  BY CallsAssumption
     DEF DeletionInit, Init, CollectionsInit, AbsentInv, UpsertInv, Present, Calls
<1>4. ClaimInv /\ RemainderInv /\ OrphansComeFromOverlappingWriters
  BY DEF DeletionInit, Init, CollectionsInit, ClaimInv, Claimed, TracesOf, RemainderInv,
         OrphansComeFromOverlappingWriters, Calls
<1>5. ClearedInv /\ ScopeInv
  BY DEF DeletionInit, ClearedInv, ScopeInv
<1> QED
  BY <1>1, <1>2, <1>3, <1>4, <1>5 DEF DeletionInv

LEMMA DeletionInvStep == DeletionInv /\ [DeletionNext]_systemVars => DeletionInv'
BY WriterStep, DeletionTypeStep, OverlapStep, ClaimStep, RemainderStep, ClearedStep,
   ScopeStep, OrphanStep
   DEF DeletionInv

(* The invariant the theorems below rest on. *)
THEOREM DeletionInvariance == DeletionSpec => []DeletionInv
BY DeletionInvInit, DeletionInvStep, PTL DEF DeletionSpec

(* Every variable keeps its type while deletions take documents away from  *)
(* running calls: a deletion never works on a span or trace outside its    *)
(* selection (traces.py:979-1013).                                         *)
THEOREM DeletionTypeCorrect == DeletionSpec => []DeletionTypeOK
BY DeletionInvariance, PTL DEF DeletionInv

(* A span without a trace document was delivered by a call that overlapped *)
(* a deletion of its trace: neither a deletion that fails half-way nor any *)
(* other interleaving leaves one (docstring, traces.py:951).               *)
THEOREM OrphansExplained ==
    DeletionSpec => []OrphansComeFromOverlappingWriters
BY DeletionInvariance, PTL DEF DeletionInv

LEMMA CompletionStep ==
    ASSUME DeletionInv, [DeletionNext]_systemVars,
           NEW d \in DeleteCalls, Deleting(d), dpc'[d] = "done",
           NEW t \in selected[d]
    PROVE  \/ ~Present(t)' /\ SpansOf(t)' = {} /\ t \notin assessments'
           \/ \E c \in overlap'[d] : Touches(c, t)
<1> USE DEF DeletionInv
<1>1. PICK u \in Traces : DeleteTrace(d, u) /\ RecordOverlap
  <2>1. ~UNCHANGED dpc
    BY DEF Deleting, DeletePhases
  <2>2. PICK x \in DeleteCalls :
           /\ RecordOverlap
           /\ \/ \E e \in Experiments, T \in SUBSET Traces : SelectTraces(x, e, T)
              \/ StartDeletingSpans(x)
              \/ \E s \in Spans : DeleteSpan(x, s)
              \/ SpansDeleted(x)
              \/ DeleteAssessments(x)
              \/ \E v \in Traces : DeleteTrace(x, v)
              \/ DeletionFaults(x)
    BY <2>1, DeletionSteps DEF Ingests, systemVars, deletionVars
  <2>3. x = d
    BY <2>2 DEF SelectTraces, StartDeletingSpans, DeleteSpan, SpansDeleted,
                DeleteAssessments, DeleteTrace, DeletionFaults, DeletionGoto,
                DeletionTypeOK, Deleting, DeletePhases
  <2> QED
    BY <2>2, <2>3
       DEF SelectTraces, StartDeletingSpans, DeleteSpan, SpansDeleted,
           DeleteAssessments, DeletionFaults, DeletionGoto, DeletionTypeOK, Deleting,
           DeletePhases
<1>2. /\ dpc[d] = "traces" /\ pending[d] = {u} /\ doomed[d] = {}
      /\ trace' = [trace EXCEPT ![u] = IF OwnedBy(u, scope[d]) THEN Absent ELSE @]
      /\ UNCHANGED <<spans, assessments>>
      /\ t \in Traces
  BY <1>1 DEF DeleteTrace, DeletionGoto, DeletionTypeOK, DeletionPhaseInv
<1>3. OverlapKept
  BY <1>1, StepRecordsOverlap
<1>4. CASE Touched(d, t)
  BY <1>3, <1>4 DEF Touched, OverlapKept
<1>5. CASE \E s \in SpansOf(t) : \E c \in LogCalls : c \in overlap[d] /\ s \in batch[c]
  BY <1>3, <1>5 DEF OverlapKept, Touches, TracesOf, SpansOf
<1>6. CASE ~Touched(d, t) /\ ~\E s \in SpansOf(t) :
              \E c \in LogCalls : c \in overlap[d] /\ s \in batch[c]
  <2>1. SpansOf(t) = {}
    BY <1>2, <1>6 DEF RemainderInv, SpansOf
  <2>2. t \notin assessments
    BY <1>2, <1>6 DEF ClearedInv
  <2>3. ~Present(t)'
    <3>1. CASE t = u
      BY <1>2, <1>6, <3>1, ExperimentsAssumption
         DEF ClearedInv, Present, Absent, Deleting, OwnedBy, DeletionTypeOK, TypeOK,
             CollectionsTypeOK
    <3>2. CASE t # u
      BY <1>2, <1>6, <3>2 DEF ClearedInv, Present, DeletionTypeOK, TypeOK,
                              CollectionsTypeOK
    <3> QED
      BY <3>1, <3>2
  <2> QED
    BY <1>2, <2>1, <2>2, <2>3 DEF SpansOf
<1> QED
  BY <1>4, <1>5, <1>6

(* When delete_traces returns, nothing is left of a trace it selected,     *)
(* unless a call that overlapped it wrote the trace (traces.py:979-1013).  *)
THEOREM CompletedDeletionsLeaveNothing ==
    DeletionSpec => CompletedDeletionLeavesNothing
<1>1. DeletionInv /\ [DeletionNext]_systemVars =>
         [\A d \in DeleteCalls :
             Deleting(d) /\ dpc'[d] = "done" =>
                \A t \in selected[d] :
                   \/ ~Present(t)' /\ SpansOf(t)' = {} /\ t \notin assessments'
                   \/ \E c \in overlap'[d] : Touches(c, t)]_systemVars
  BY CompletionStep
<1> QED
  BY <1>1, DeletionInvariance, PTL DEF DeletionSpec, CompletedDeletionLeavesNothing

LEMMA TakingStep ==
    ASSUME DeletionInv, [DeletionNext]_systemVars,
           NEW t \in Traces,
           \/ SpansOf(t) \ SpansOf(t)' # {}
           \/ t \in assessments \ assessments'
    PROVE  LET Takers == {d \in DeleteCalls : /\ t \in selected[d]
                                              /\ dpc[d] \in {"children", "assessments"}}
           IN /\ Takers # {}
              /\ \A d \in Takers :
                    \/ OwnedBy(t, scope[d])
                    \/ \E x \in overlap[d] \intersect DeleteCalls :
                          /\ x # d /\ scope[x] = scope[d] /\ t \in selected[x]
                          /\ dpc[x] \in {"traces", "done", "failed"}
<1> USE DEF DeletionInv
<1>1. ~(spans \subseteq spans' /\ assessments \subseteq assessments')
  BY DEF SpansOf
<1>2. ~Ingests
  BY <1>1, StepKeepsWriters DEF Ingests, WritersKept, DeletionTypeOK
<1>3. PICK d \in DeleteCalls :
         (\E s \in Spans : DeleteSpan(d, s)) \/ DeleteAssessments(d)
  BY <1>1, <1>2, DeletionSteps
     DEF SelectTraces, StartDeletingSpans, SpansDeleted, DeleteTrace, DeletionFaults,
         systemVars, vars, collections
<1>4. dpc[d] \in {"children", "assessments"} /\ t \in selected[d]
  BY <1>3 DEF DeleteSpan, DeleteAssessments, SpansOf, DeletionTypeOK
<1> QED
  BY <1>4 DEF ScopeInv, TakenBy

(* Spans and assessments are taken by deletions that have selected their   *)
(* trace, and from a trace that another experiment owns only if another    *)
(* deletion of the taker's own experiment took the trace away while it ran *)
(* ("Resolve ownership through traces before touching spans",              *)
(* traces.py:980).                                                         *)
THEOREM DeletionsStay == DeletionSpec => DeletionsStayInTheirExperiment
<1>1. DeletionInv /\ [DeletionNext]_systemVars =>
         [\A t \in Traces :
             LET taken == \/ SpansOf(t) \ SpansOf(t)' # {}
                          \/ t \in assessments \ assessments'
                 Takers == {d \in DeleteCalls :
                              /\ t \in selected[d]
                              /\ dpc[d] \in {"children", "assessments"}}
             IN (Present(t) /\ taken) =>
                   /\ Takers # {}
                   /\ \A d \in Takers :
                         \/ OwnedBy(t, scope[d])
                         \/ \E x \in overlap[d] \intersect DeleteCalls :
                               /\ x # d /\ scope[x] = scope[d] /\ t \in selected[x]
                               /\ dpc[x] \in {"traces", "done", "failed"}]_systemVars
  BY TakingStep
<1> QED
  BY <1>1, DeletionInvariance, PTL DEF DeletionSpec, DeletionsStayInTheirExperiment
=============================================================================
