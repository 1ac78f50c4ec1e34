--------------------------- MODULE SpanIngestion ---------------------------
(***************************************************************************)
(* Concurrent log_spans and start_trace calls (tracking/store.py,          *)
(* tracking/repositories/traces.py).  There is no transaction: a call is a *)
(* sequence of one-document operations, and the operations of different    *)
(* calls, in threads of one server or in different servers, interleave.    *)
(*                                                                         *)
(* A call is executed at most once; the client's retry of a failed call is *)
(* another call with the same input.  A call that never moves again is a   *)
(* crashed server.                                                         *)
(***************************************************************************)
EXTENDS TraceCollections

CONSTANTS LogCalls,     \* log_spans calls
          StartCalls,   \* start_trace calls
          Batches,      \* the span batches clients send
          TraceInfos,   \* the TraceInfo values clients send
          NoTrace,      \* current[c] of a call that works on no trace
          MaxAttempts,  \* attempts of every retry loop; 3 in the code
          MaxFaults     \* bound on the failing database operations

ASSUME CallsAssumption ==
    /\ LogCalls \intersect StartCalls = {}
    /\ NoTrace \notin Traces

ASSUME RequestsAssumption ==
    /\ Batches \subseteq (SUBSET Spans) \ {{}}
    /\ TraceInfos \subseteq TraceInfo

ASSUME BoundsAssumption == MaxAttempts \in Nat \ {0, 1} /\ MaxFaults \in Nat

Calls == LogCalls \union StartCalls

VARIABLES
    pc,          \* pc[c]: the next operation of call c
    location,    \* location[c]: the experiment c writes to
    batch,       \* batch[c]: the spans of a log_spans call
    info,        \* info[c]: the TraceInfo of a start_trace call
    todo,        \* todo[c]: traces the current loop still has to handle
    missed,      \* missed[c]: upserts whose filter matched no document
    rejected,    \* rejected[c]: upserts of this attempt with a duplicate _id
    unsent,      \* unsent[c]: spans of the bulk write not written yet
    current,     \* current[c]: the trace start_trace or the refresh works on
    attempt,     \* attempt[c]: attempt of the retry loop c is in
    revision,    \* revision[c]: the span_revision of the snapshot c holds
    snapshot,    \* snapshot[c]: the spans c read after taking that revision
    error,       \* error[c]: the first error of c
    faults,      \* number of database operations that have failed
    lost,        \* history: persisted spans whose summariser failed
    superseded   \* history: calls with a snapshot older than the last $inc

requests == <<location, batch, info>>
upserts == <<missed, rejected>>
refreshes == <<revision, snapshot, superseded>>
callVars == <<pc, location, batch, info, todo, missed, rejected, unsent,
              current, attempt, revision, snapshot, error>>
vars == <<trace, spans, assessments, pc, location, batch, info, todo, missed,
          rejected, unsent, current, attempt, revision, snapshot, error,
          faults, lost, superseded>>

-----------------------------------------------------------------------------

Errors == {"none", "identity", "persistence", "notfound", "conflict"}

LogPhases == {"ensure", "persist", "refresh", "read", "update", "retry"}
StartPhases == {"upsert", "assess", "reload"}
Phases == {"idle", "done", "failed"} \union LogPhases \union StartPhases

Active(c) == pc[c] \in LogPhases \union StartPhases

(* c holds a snapshot of trace t that may still be written. *)
Snapshots(c, t) == pc[c] \in {"read", "update"} /\ current[c] = t

(* c took the last revision of t. *)
Holds(c, t) == Snapshots(c, t) /\ revision[c] = trace[t].span_revision

TypeOK ==
    /\ CollectionsTypeOK
    /\ pc \in [Calls -> Phases]
    /\ location \in [Calls -> Experiments \union {NoExperiment}]
    /\ batch \in [Calls -> SUBSET Spans]
    /\ info \in [Calls -> TraceInfo]
    /\ todo \in [Calls -> SUBSET Traces]
    /\ missed \in [Calls -> SUBSET Traces]
    /\ rejected \in [Calls -> SUBSET Traces]
    /\ unsent \in [Calls -> SUBSET Spans]
    /\ current \in [Calls -> Traces \union {NoTrace}]
    /\ attempt \in [Calls -> 0..MaxAttempts]
    /\ revision \in [Calls -> Nat]
    /\ snapshot \in [Calls -> SUBSET Spans]
    /\ error \in [Calls -> Errors]
    /\ faults \in 0..MaxFaults
    /\ lost \subseteq Spans
    /\ superseded \subseteq Calls

Init ==
    /\ CollectionsInit
    /\ pc = [c \in Calls |-> "idle"]
    /\ location = [c \in Calls |-> NoExperiment]
    /\ batch = [c \in Calls |-> {}]
    /\ info = [c \in Calls |-> [state |-> "STATE_UNSPECIFIED",
                                usage |-> FALSE, assessed |-> FALSE]]
    /\ todo = [c \in Calls |-> {}]
    /\ missed = [c \in Calls |-> {}]
    /\ rejected = [c \in Calls |-> {}]
    /\ unsent = [c \in Calls |-> {}]
    /\ current = [c \in Calls |-> NoTrace]
    /\ attempt = [c \in Calls |-> 0]
    /\ revision = [c \in Calls |-> 0]
    /\ snapshot = [c \in Calls |-> {}]
    /\ error = [c \in Calls |-> "none"]
    /\ faults = 0
    /\ lost = {}
    /\ superseded = {}

Goto(c, phase) == pc' = [pc EXCEPT ![c] = phase]

(* The call raises e to its client. *)
Fail(c, e) ==
    /\ Goto(c, "failed")
    /\ error' = [error EXCEPT ![c] = e]

-----------------------------------------------------------------------------
(***************************************************************************)
(* An action whose name has a suffix (EnsureInsert_IgnoresConflict) is not *)
(* part of the model: it is a mistake the action before the underscore     *)
(* could contain, kept to show that some property would notice it.         *)
(***************************************************************************)
-----------------------------------------------------------------------------
(***************************************************************************)
(* log_spans: placeholders.  An upsert whose filter (_id, experiment_id)   *)
(* matches nothing inserts, and the insert fails with a duplicate _id when *)
(* another call created the document in between or another experiment owns *)
(* it.  Only the failed upserts are submitted again, at most MaxAttempts   *)
(* bulk writes in all.                                                     *)
(***************************************************************************)

LogSpans(c, e, B) ==
    /\ pc[c] = "idle"
    /\ Goto(c, "ensure")
    /\ location' = [location EXCEPT ![c] = e]
    /\ batch' = [batch EXCEPT ![c] = B]
    /\ todo' = [todo EXCEPT ![c] = TracesOf(B)]
    /\ attempt' = [attempt EXCEPT ![c] = 1]
    /\ UNCHANGED <<collections, info, upserts, unsent, current, refreshes,
                   error, faults, lost>>

EnsureLookup(c, t) ==
    /\ pc[c] = "ensure"
    /\ t \in todo[c] \ missed[c]
    /\ IF OwnedBy(t, location[c])
       THEN todo' = [todo EXCEPT ![c] = @ \ {t}] /\ UNCHANGED missed
       ELSE missed' = [missed EXCEPT ![c] = @ \union {t}] /\ UNCHANGED todo
    /\ UNCHANGED <<collections, pc, requests, rejected, unsent, current,
                   attempt, refreshes, error, faults, lost>>

EnsureInsert_IgnoresConflict(c, t) ==
    /\ pc[c] = "ensure"
    /\ t \in missed[c]
    /\ trace' = IF Present(t) THEN trace
                ELSE [trace EXCEPT ![t] = Placeholder(location[c])]
    /\ missed' = [missed EXCEPT ![c] = @ \ {t}]
    /\ todo' = [todo EXCEPT ![c] = @ \ {t}]
    /\ UNCHANGED <<spans, assessments, pc, requests, rejected, unsent, current,
                   attempt, refreshes, error, faults, lost>>

EnsureInsert(c, t) ==
    /\ pc[c] = "ensure"
    /\ t \in missed[c]
    /\ IF Present(t)
       THEN /\ rejected' = [rejected EXCEPT ![c] = @ \union {t}]
            /\ UNCHANGED trace
       ELSE /\ trace' = [trace EXCEPT ![t] = Placeholder(location[c])]
            /\ UNCHANGED rejected
    /\ missed' = [missed EXCEPT ![c] = @ \ {t}]
    /\ todo' = [todo EXCEPT ![c] = @ \ {t}]
    /\ UNCHANGED <<spans, assessments, pc, requests, unsent, current, attempt,
                   refreshes, error, faults, lost>>

EnsureBulkReturns_RetriesForever(c) ==
    /\ pc[c] = "ensure"
    /\ todo[c] = {}
    /\ IF rejected[c] = {} THEN Goto(c, "persist") ELSE UNCHANGED pc
    /\ unsent' = [unsent EXCEPT ![c] = batch[c]]
    /\ todo' = [todo EXCEPT ![c] = rejected[c]]
    /\ rejected' = [rejected EXCEPT ![c] = {}]
    /\ UNCHANGED <<collections, requests, missed, current, attempt, refreshes,
                   error, faults, lost>>

EnsureBulkReturns(c) ==
    /\ pc[c] = "ensure"
    /\ todo[c] = {}
    /\ \/ /\ rejected[c] = {}
          /\ Goto(c, "persist")
          /\ unsent' = [unsent EXCEPT ![c] = batch[c]]
          /\ attempt' = [attempt EXCEPT ![c] = 0]
          /\ UNCHANGED <<todo, rejected, error>>
       \/ /\ rejected[c] # {}
          /\ attempt[c] < MaxAttempts
          /\ attempt' = [attempt EXCEPT ![c] = @ + 1]
          /\ todo' = [todo EXCEPT ![c] = rejected[c]]
          /\ rejected' = [rejected EXCEPT ![c] = {}]
          /\ UNCHANGED <<pc, unsent, error>>
       \/ /\ rejected[c] # {}
          /\ attempt[c] = MaxAttempts
          /\ Fail(c, "identity")
          /\ UNCHANGED <<todo, rejected, unsent, attempt>>
    /\ UNCHANGED <<collections, requests, missed, current, refreshes, faults,
                   lost>>

(* One upsert of the unordered bulk write of spans; $setOnInsert makes the *)
(* delivery of a stored identity a no-op.                                  *)
PersistSpan(c, s) ==
    /\ pc[c] = "persist"
    /\ s \in unsent[c]
    /\ spans' = spans \union {s}
    /\ unsent' = [unsent EXCEPT ![c] = @ \ {s}]
    /\ IF unsent[c] = {s}
       THEN /\ Goto(c, "refresh")
            /\ todo' = [todo EXCEPT ![c] = TracesOf(batch[c])]
       ELSE UNCHANGED <<pc, todo>>
    /\ UNCHANGED <<trace, assessments, requests, upserts, current, attempt,
                   refreshes, error, faults, lost>>

-----------------------------------------------------------------------------
(***************************************************************************)
(* log_spans: summaries.  Each trace of the batch is refreshed in turn:    *)
(* take a revision, read the spans, write the summary if the revision is   *)
(* still the last one.  The loop goes on after an error and the first      *)
(* error is raised at the end.                                             *)
(***************************************************************************)

(* The refresh of t ends with this outcome; its locals go out of scope. *)
RefreshEnds(c, t, outcome) ==
    /\ Goto(c, "refresh")
    /\ todo' = [todo EXCEPT ![c] = @ \ {t}]
    /\ error' = [error EXCEPT ![c] = IF @ = "none" THEN outcome ELSE @]
    /\ current' = [current EXCEPT ![c] = NoTrace]
    /\ attempt' = [attempt EXCEPT ![c] = 0]
    /\ revision' = [revision EXCEPT ![c] = 0]
    /\ snapshot' = [snapshot EXCEPT ![c] = {}]
    /\ superseded' = superseded \ {c}

(* The next trace of the loop, or the current one after a conflict. *)
Refreshes(c, t) ==
    \/ pc[c] = "refresh" /\ t \in todo[c]
    \/ pc[c] = "retry" /\ t = current[c]

TakeRevision_WithoutIncrement(c, t) ==
    /\ Refreshes(c, t)
    /\ OwnedBy(t, location[c])
    /\ revision' = [revision EXCEPT ![c] = trace[t].span_revision]
    /\ current' = [current EXCEPT ![c] = t]
    /\ attempt' = [attempt EXCEPT ![c] = @ + 1]
    /\ superseded' = superseded \union {d \in Calls : Snapshots(d, t)}
    /\ Goto(c, "read")
    /\ UNCHANGED <<collections, requests, todo, upserts, unsent, snapshot,
                   error, faults, lost>>

TakeRevision(c, t) ==
    /\ Refreshes(c, t)
    /\ \/ /\ OwnedBy(t, location[c])
          /\ trace' = [trace EXCEPT ![t].span_revision = @ + 1]
          /\ revision' = [revision EXCEPT ![c] = trace[t].span_revision + 1]
          /\ current' = [current EXCEPT ![c] = t]
          /\ attempt' = [attempt EXCEPT ![c] = @ + 1]
          /\ superseded' = superseded \union {d \in Calls : Snapshots(d, t)}
          /\ Goto(c, "read")
          /\ UNCHANGED <<todo, snapshot, error>>
       \/ /\ ~OwnedBy(t, location[c])
          /\ RefreshEnds(c, t, "notfound")
          /\ UNCHANGED trace
    /\ UNCHANGED <<spans, assessments, requests, upserts, unsent, faults, lost>>

ReadSpans_OwnBatchOnly(c) ==
    /\ pc[c] = "read"
    /\ snapshot' = [snapshot EXCEPT ![c] = SpansOf(current[c]) \intersect batch[c]]
    /\ Goto(c, "update")
    /\ UNCHANGED <<collections, requests, todo, upserts, unsent, current, attempt,
                   revision, error, faults, lost, superseded>>

ReadSpans_WaitsForSpans(c) ==
    /\ pc[c] = "read"
    /\ SpansOf(current[c]) # {}
    /\ snapshot' = [snapshot EXCEPT ![c] = SpansOf(current[c])]
    /\ Goto(c, "update")
    /\ UNCHANGED <<collections, requests, todo, upserts, unsent, current, attempt,
                   revision, error, faults, lost, superseded>>

(* An empty snapshot means the spans were deleted: nothing is summarised. *)
ReadSpans(c) ==
    /\ pc[c] = "read"
    /\ \/ /\ SpansOf(current[c]) # {}
          /\ snapshot' = [snapshot EXCEPT ![c] = SpansOf(current[c])]
          /\ Goto(c, "update")
          /\ UNCHANGED <<todo, current, attempt, revision, superseded, error>>
       \/ /\ SpansOf(current[c]) = {}
          /\ RefreshEnds(c, current[c], "notfound")
    /\ UNCHANGED <<collections, requests, upserts, unsent, faults, lost>>

(* The cursor over the spans of the trace is not a snapshot: a span stored *)
(* while it is drained may still be read.  Draining it is part of "update".*)
ReadArrivingSpan(c, s) ==
    /\ pc[c] = "update"
    /\ s \in SpansOf(current[c]) \ snapshot[c]
    /\ snapshot' = [snapshot EXCEPT ![c] = @ \union {s}]
    /\ UNCHANGED <<collections, pc, requests, todo, upserts, unsent, current,
                   attempt, revision, error, faults, lost, superseded>>

ApplySummary_Unguarded(c) ==
    LET t == current[c] IN
    /\ pc[c] = "update"
    /\ OwnedBy(t, location[c])
    /\ trace' = [trace EXCEPT ![t] = ApplySpans(@, snapshot[c])]
    /\ lost' = lost \ snapshot[c]
    /\ RefreshEnds(c, t, "none")
    /\ UNCHANGED <<spans, assessments, requests, upserts, unsent, faults>>

(* Guarded update.  The reply of an applied update may be lost. *)
ApplySummary(c) ==
    LET t == current[c] IN
    /\ pc[c] = "update"
    /\ OwnedBy(t, location[c])
    /\ trace[t].span_revision = revision[c]
    /\ trace' = [trace EXCEPT ![t] = ApplySpans(@, snapshot[c])]
    /\ lost' = lost \ snapshot[c]
    /\ \/ RefreshEnds(c, t, "none") /\ UNCHANGED faults
       \/ /\ faults < MaxFaults
          /\ faults' = faults + 1
          /\ RefreshEnds(c, t, "persistence")
    /\ UNCHANGED <<spans, assessments, requests, upserts, unsent>>

Retries(c) ==
    /\ Goto(c, "retry")
    /\ revision' = [revision EXCEPT ![c] = 0]
    /\ snapshot' = [snapshot EXCEPT ![c] = {}]
    /\ superseded' = superseded \ {c}
    /\ UNCHANGED <<todo, current, error>>

RejectSummary_OneAttemptTooMany(c) ==
    LET t == current[c] IN
    /\ pc[c] = "update"
    /\ OwnedBy(t, location[c])
    /\ trace[t].span_revision # revision[c]
    /\ IF attempt[c] <= MaxAttempts THEN Retries(c) /\ UNCHANGED attempt
                                    ELSE RefreshEnds(c, t, "conflict")
    /\ UNCHANGED <<collections, requests, upserts, unsent, faults, lost>>

(* A conflict starts the attempt over with a new revision and snapshot. *)
RejectSummary(c) ==
    LET t == current[c] IN
    /\ pc[c] = "update"
    /\ \/ /\ ~OwnedBy(t, location[c])
          /\ RefreshEnds(c, t, "notfound")
       \/ /\ OwnedBy(t, location[c])
          /\ trace[t].span_revision # revision[c]
          /\ attempt[c] = MaxAttempts
          /\ RefreshEnds(c, t, "conflict")
       \/ /\ OwnedBy(t, location[c])
          /\ trace[t].span_revision # revision[c]
          /\ attempt[c] < MaxAttempts
          /\ Retries(c)
          /\ UNCHANGED attempt
    /\ UNCHANGED <<collections, requests, upserts, unsent, faults, lost>>

LogSpansReturns_IgnoresErrors(c) ==
    /\ pc[c] = "refresh"
    /\ todo[c] = {}
    /\ Goto(c, "done")
    /\ UNCHANGED <<collections, requests, todo, upserts, unsent, current,
                   attempt, refreshes, error, faults, lost>>

LogSpansReturns(c) ==
    /\ pc[c] = "refresh"
    /\ todo[c] = {}
    /\ Goto(c, IF error[c] = "none" THEN "done" ELSE "failed")
    /\ UNCHANGED <<collections, requests, todo, upserts, unsent, current,
                   attempt, refreshes, error, faults, lost>>

-----------------------------------------------------------------------------
(***************************************************************************)
(* start_trace: upsert of the metadata, replacement of the supplied        *)
(* assessments, and a final read of the stored trace.                      *)
(***************************************************************************)

StartTrace(c, e, t, i) ==
    /\ pc[c] = "idle"
    /\ Goto(c, "upsert")
    /\ location' = [location EXCEPT ![c] = e]
    /\ info' = [info EXCEPT ![c] = i]
    /\ current' = [current EXCEPT ![c] = t]
    /\ attempt' = [attempt EXCEPT ![c] = 1]
    /\ UNCHANGED <<collections, batch, todo, upserts, unsent, refreshes, error,
                   faults, lost>>

StartLookup(c) ==
    LET t == current[c] IN
    /\ pc[c] = "upsert"
    /\ missed[c] = {}
    /\ IF OwnedBy(t, location[c])
       THEN /\ trace' = [trace EXCEPT ![t] = Finalize(@, location[c], info[c])]
            /\ Goto(c, "assess")
            /\ UNCHANGED missed
       ELSE /\ missed' = [missed EXCEPT ![c] = {t}]
            /\ UNCHANGED <<trace, pc>>
    /\ UNCHANGED <<spans, assessments, requests, todo, rejected, unsent,
                   current, attempt, refreshes, error, faults, lost>>

StartInsert(c) ==
    LET t == current[c] IN
    /\ pc[c] = "upsert"
    /\ t \in missed[c]
    /\ missed' = [missed EXCEPT ![c] = {}]
    /\ \/ /\ ~Present(t)
          /\ trace' = [trace EXCEPT ![t] = Finalize(@, location[c], info[c])]
          /\ Goto(c, "assess")
          /\ UNCHANGED <<attempt, error>>
       \/ /\ Present(t)
          /\ attempt[c] < MaxAttempts
          /\ attempt' = [attempt EXCEPT ![c] = @ + 1]
          /\ UNCHANGED <<trace, pc, error>>
       \/ /\ Present(t)
          /\ attempt[c] = MaxAttempts
          /\ Fail(c, "identity")
          /\ UNCHANGED <<trace, attempt>>
    /\ UNCHANGED <<spans, assessments, requests, todo, rejected, unsent,
                   current, refreshes, faults, lost>>

ReplaceAssessments(c) ==
    /\ pc[c] = "assess"
    /\ assessments' = IF info[c].assessed THEN assessments \union {current[c]}
                                          ELSE assessments
    /\ Goto(c, "reload")
    /\ UNCHANGED <<trace, spans, requests, todo, upserts, unsent, current,
                   attempt, refreshes, error, faults, lost>>

(* get_trace_info after the writes; it reads by _id alone. *)
StartTraceReturns(c) ==
    /\ pc[c] = "reload"
    /\ IF Present(current[c])
       THEN Goto(c, "done") /\ UNCHANGED error
       ELSE Fail(c, "notfound")
    /\ UNCHANGED <<collections, requests, todo, upserts, unsent, current,
                   attempt, refreshes, faults, lost>>

-----------------------------------------------------------------------------
(***************************************************************************)
(* Failing database operations (PyMongoError, BSONError).  An operation    *)
(* that is applied although its reply is lost is the operation's own       *)
(* action followed by a fault.                                             *)
(***************************************************************************)

(* Outside the refresh loop the call ends with the error.  That includes a *)
(* bulk write of spans that is applied completely but whose reply is lost. *)
CallFaults(c) ==
    /\ \/ pc[c] \in {"ensure", "persist"} \union StartPhases
       \/ pc[c] = "refresh" /\ todo[c] = TracesOf(batch[c])
    /\ faults < MaxFaults
    /\ faults' = faults + 1
    /\ Fail(c, "persistence")
    /\ lost' = lost \union {s \in batch[c] \intersect spans :
                                s \notin trace[TraceOf[s]].summarised}
    /\ UNCHANGED <<collections, requests, todo, upserts, unsent, current,
                   attempt, refreshes>>

(* In the refresh loop the error is recorded and the loop goes on. *)
RefreshFaults(c, t) ==
    /\ Refreshes(c, t) \/ Snapshots(c, t)
    /\ faults < MaxFaults
    /\ faults' = faults + 1
    /\ RefreshEnds(c, t, "persistence")
    /\ lost' = lost \union
                 {s \in SpansOf(t) \ trace[t].summarised :
                     Holds(c, t) \/ (pc[c] = "refresh" /\ s \in batch[c])}
    /\ UNCHANGED <<collections, requests, upserts, unsent>>

-----------------------------------------------------------------------------

LogStep(c) ==
    \/ \E t \in Traces : EnsureLookup(c, t) \/ EnsureInsert(c, t)
    \/ EnsureBulkReturns(c)
    \/ \E s \in Spans : PersistSpan(c, s)
    \/ \E t \in Traces : TakeRevision(c, t)
    \/ ReadSpans(c)
    \/ ApplySummary(c)
    \/ RejectSummary(c)
    \/ LogSpansReturns(c)

StartStep(c) ==
    \/ StartLookup(c)
    \/ StartInsert(c)
    \/ ReplaceAssessments(c)
    \/ StartTraceReturns(c)

LateRead(c) == \E s \in Spans : ReadArrivingSpan(c, s)

Arrive ==
    \/ \E c \in LogCalls, e \in Experiments, B \in Batches :
          LogSpans(c, e, B)
    \/ \E c \in StartCalls, e \in Experiments, t \in Traces, i \in TraceInfos :
          StartTrace(c, e, t, i)

Fault ==
    \/ \E c \in Calls : CallFaults(c)
    \/ \E c \in LogCalls, t \in Traces : RefreshFaults(c, t)

(* Every call has returned; keeps the deadlock check meaningful. *)
AllReturned ==
    /\ \A c \in Calls : pc[c] \in {"done", "failed"}
    /\ UNCHANGED vars

Next ==
    \/ Arrive
    \/ \E c \in LogCalls : LogStep(c) \/ LateRead(c)
    \/ \E c \in StartCalls : StartStep(c)
    \/ Fault
    \/ AllReturned

Spec == Init /\ [][Next]_vars

(* The threads of a running server are scheduled; clients need not call. *)
FairSpec ==
    /\ Spec
    /\ \A c \in LogCalls : WF_vars(LogStep(c))
    /\ \A c \in StartCalls : WF_vars(StartStep(c))

-----------------------------------------------------------------------------
(***************************************************************************)
(* Properties.                                                             *)
(***************************************************************************)

(* c has span s persisted or is about to persist it, and has not yet taken *)
(* the revision under which it will read the spans of s's trace.           *)
WillRefresh(c, s) ==
    /\ s \in batch[c]
    /\ \/ pc[c] = "persist"
       \/ pc[c] = "refresh" /\ TraceOf[s] \in todo[c]
       \/ /\ pc[c] \in {"read", "update", "retry"}
          /\ TraceOf[s] \in todo[c] \ {current[c]}

(* c took the last revision of s's trace and s is, or will be, in what it  *)
(* read: no other call will be told to refresh s.                          *)
WillApply(c, s) ==
    /\ Holds(c, TraceOf[s])
    /\ pc[c] = "read" \/ s \in snapshot[c]

(* No span is forgotten.  A persisted span is in the summary of its trace, *)
(* or a call that has not returned still owes it to the summary, or the    *)
(* call that owed it suffered a database error.  A call that gives up      *)
(* after its last revision conflict owes nothing: the call that took the   *)
(* later revision does (comment at traces.py:458, refresh loop at          *)
(* store.py:1584).                                                         *)
EverySpanAccountedFor ==
    \A s \in spans :
       \/ s \in trace[TraceOf[s]].summarised
       \/ s \in lost
       \/ \E c \in LogCalls : WillRefresh(c, s) \/ WillApply(c, s)

(* log_spans returns without an error only when every span of its batch is *)
(* in the values the trace document holds now: no summary computed from an *)
(* older read ever replaces them, and only metadata the client declared    *)
(* authoritative takes their place (store.py:1310, traces.py:489).         *)
AcknowledgedSpansSummarised ==
    \A c \in LogCalls, s \in Spans :
       pc[c] = "done" /\ s \in batch[c] =>
          LET doc == trace[TraceOf[s]] IN
          /\ s \in spans
          /\ doc.trace_info_finalized \/ s \in doc.times_from
          /\ doc.usage_authoritative \/ s \in doc.usage_from

(* "A later writer invalidates earlier snapshots" (comment, traces.py:458):*)
(* once another call has taken a revision of the trace, the guard of       *)
(* update_span_summary rejects a snapshot taken before.                    *)
LaterWriterInvalidatesSnapshots ==
    \A c \in superseded, t \in Traces :
       Snapshots(c, t) => revision[c] # trace[t].span_revision

(* A call past its placeholder writes owns every trace of its batch, so a  *)
(* stored span always has a trace document, and its trace belongs to an    *)
(* experiment that some delivery of the span named.  An upsert that runs   *)
(* out of attempts has met a trace of another experiment, never a race     *)
(* with a call of its own experiment (traces.py:231, 251).                 *)
OwnershipRespected ==
    /\ \A c \in LogCalls :
          pc[c] \in LogPhases \ {"ensure"} =>
             \A t \in TracesOf(batch[c]) : OwnedBy(t, location[c])
    /\ \A s \in spans :
          \E c \in LogCalls : s \in batch[c] /\ OwnedBy(TraceOf[s], location[c])
    /\ \A c \in LogCalls :
          error[c] = "identity" =>
             \E t \in TracesOf(batch[c]) : Present(t) /\ ~OwnedBy(t, location[c])
    /\ \A c \in StartCalls :
          error[c] = "identity" =>
             Present(current[c]) /\ ~OwnedBy(current[c], location[c])

(* The start_trace calls for t that have arrived, and those of them known  *)
(* to have written their report.                                           *)
Attempted(t) == {c \in StartCalls : current[c] = t /\ pc[c] # "idle"}
Reported(t) == {c \in Attempted(t) : pc[c] \in {"assess", "reload", "done"}}

(* What start_trace reported survives span summaries, in whatever order    *)
(* they interleave: reported times and usage are never replaced, and if    *)
(* no call for the trace carried a non-final state, the state is the one   *)
(* some call reported (traces.py:181, 489).                                *)
ReportedMetadataKept ==
    \A t \in Traces :
       Reported(t) # {} =>
          /\ trace[t].trace_info_finalized /\ trace[t].times_from = {}
          /\ (\E c \in Reported(t) : info[c].usage) => trace[t].usage_from = {}
          /\ \E c \in Attempted(t) :
                info[c].state \in NonFinal \union {trace[t].state}

(* Without a report the state is derived: IN_PROGRESS exactly until a root *)
(* has been summarised, then the outcome of a summarised root.  With two   *)
(* roots it is the outcome of the one that was first when the first        *)
(* summary with a root was applied: later summaries do not revise it.      *)
DerivedStateExplained ==
    \A t \in Traces :
       Present(t) /\ ~trace[t].trace_info_finalized =>
          LET roots == Roots(trace[t].summarised) IN
          IF roots = {} THEN trace[t].state = "IN_PROGRESS"
          ELSE \E r \in roots : trace[t].state = RootStatus[r]

(* Every call that arrived returns: the retry loops are bounded and no     *)
(* call waits for another one (retry.py:13, store.py:1584).                *)
EveryCallReturns ==
    \A c \in Calls : Active(c) ~> pc[c] \in {"done", "failed"}

(* Every persisted span reaches the summary unless its summariser suffered *)
(* a database error, even when the call that delivered it gave up after    *)
(* MaxAttempts revision conflicts (store.py:1368, 1584).                   *)
EventuallySummarised ==
    \A s \in Spans :
       s \in spans ~> s \in trace[TraceOf[s]].summarised \union lost

(* The batches of the calls that returned without an error. *)
Acknowledged ==
    UNION {batch[c] : c \in {d \in LogCalls : pc[d] = "done"}}

Promise == INSTANCE TraceSummary WITH
    delivered    <- spans,
    summary      <- [t \in Traces |-> trace[t].summarised],
    acknowledged <- Acknowledged

(* The interleaved calls implement the promise of TraceSummary: a summary  *)
(* never loses a span it contained, is never computed from spans that are  *)
(* not stored, and covers every batch that was accepted without an error   *)
(* (traces.py:455-487, store.py:1582-1608).                                *)
ImplementsPromise == Promise!Spec

=============================================================================
