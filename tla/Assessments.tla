---------------------------- MODULE Assessments ----------------------------
(***************************************************************************)
(* Assessments of traces (tracking/store.py, repositories/traces.py).      *)
(*                                                                         *)
(* An assessment may override another one of its trace, which is then      *)
(* marked invalid.  create_assessment marks the overridden one and inserts *)
(* its own; delete_assessment marks the overridden one valid again and     *)
(* removes its own; update_assessment reads an assessment to check its     *)
(* kind and updates it afterwards.  start_trace replaces the assessments a *)
(* client supplies with a trace, one by one, and delete_traces removes     *)
(* those of a trace.  There is no transaction.                             *)
(*                                                                         *)
(* An id identifies an assessment over all traces.  Names, values and      *)
(* times are left out, metadata is the set of the calls that gave some.    *)
(* The trace's experiment is active.                                       *)
(***************************************************************************)
EXTENDS Integers, Sequences, FiniteSets

CONSTANTS Calls,
          Traces,
          Ids,        \* assessment ids
          None,       \* no assessment
          Workloads,  \* what the calls may be asked to do, for all of them
          MaxFaults   \* bound on the failing database operations

Kinds == {"feedback", "expectation"}

Supplied == [id        : Ids,
             kinds     : SUBSET Kinds,
             valid     : BOOLEAN,
             overrides : Ids \union {None}]

Ops == {"create", "update", "delete", "start_trace", "delete_traces"}

Request == [op        : Ops,
            trace     : Traces,
            id        : Ids,                 \* create, update, delete
            kinds     : SUBSET Kinds,        \* create, update
            overrides : Ids \union {None},   \* create
            supplied  : Seq(Supplied)]       \* start_trace

(* One kind for a new assessment, at most one for an update; the supplied  *)
(* assessments have distinct ids (the code keeps the last of each).        *)
WellFormed(r) ==
    /\ Cardinality(r.kinds) <= 1
    /\ r.op = "create" => r.kinds # {}
    /\ \A i, j \in DOMAIN r.supplied :
          /\ Cardinality(r.supplied[i].kinds) = 1
          /\ r.supplied[i].id = r.supplied[j].id => i = j

ASSUME WorkloadsAssumption ==
    \A w \in Workloads : /\ w \in [Calls -> Request]
                         /\ \A c \in Calls : WellFormed(w[c])

ASSUME BoundsAssumption == None \notin Ids /\ MaxFaults \in Nat

VARIABLES
    traces,      \* traces that have a document
    docs,        \* assessment documents, by id
    pc,          \* pc[c]: the next operation of call c
    request,     \* request[c]: what c was asked to do
    todo,        \* todo[c]: supplied assessments c has yet to store, in order
    overridden,  \* overridden[c]: what c found that the assessment overrides
    visiting,    \* visiting[c]: documents the delete_many of c has to visit
    error,       \* error[c]: what c raises to its client
    faults,      \* number of database operations that have failed
    author,      \* history: author[a]: the call that wrote all of document a
    validBy,     \* history: validBy[a]: the call that last wrote its validity
    base         \* history: base[c]: author of the document c read or marked,
                 \*          c when there is none

local == <<todo, overridden, visiting>>
history == <<author, validBy, base>>
vars == <<traces, docs, pc, request, todo, overridden, visiting, error, faults,
          author, validBy, base>>

-----------------------------------------------------------------------------

Document == [trace     : Traces,
             kinds     : SUBSET Kinds,
             valid     : BOOLEAN,
             overrides : Ids \union {None},
             metadata  : SUBSET Calls]

Errors == {"none", "trace_not_found", "assessment_not_found", "wrong_kind",
           "exists", "repository_not_found", "persistence"}

Phases == {"idle", "find_trace", "check_overridden", "invalidate", "insert",
           "find", "apply", "find_deleted", "restore", "delete", "diagnose",
           "upsert", "replace", "read", "select", "purge", "delete_trace",
           "reply", "done", "failed"}

Running(c) == pc[c] \notin {"idle", "done", "failed"}

(* A filter on trace_id and _id.                                           *)
Stored(t, a) == a \in DOMAIN docs /\ docs[a].trace = t

Found(c) == Stored(request[c].trace, request[c].id)

FirstOperation(op) == CASE op \in {"create", "delete"} -> "find_trace"
                        [] op = "update"               -> "find"
                        [] op = "start_trace"          -> "upsert"
                        [] op = "delete_traces"        -> "select"

TypeOK ==
    /\ traces \subseteq Traces
    /\ DOMAIN docs \subseteq Ids
    /\ \A a \in DOMAIN docs : docs[a] \in Document /\ docs[a].kinds # {}
    /\ pc \in [Calls -> Phases]
    /\ request \in [Calls -> Request]
    /\ \A c \in Calls : /\ todo[c] \in Seq(Supplied)
                        /\ (pc[c] = "replace") => todo[c] # <<>>
    /\ overridden \in [Calls -> Ids \union {None}]
    /\ \A c \in Calls : visiting[c] \subseteq DOMAIN docs
    /\ error \in [Calls -> Errors]
    /\ faults \in 0..MaxFaults
    /\ author \in [DOMAIN docs -> Calls]
    /\ validBy \in [DOMAIN docs -> Calls]
    /\ base \in [Calls -> Calls]

Init ==
    /\ traces = Traces
    /\ docs = <<>>
    /\ pc = [c \in Calls |-> "idle"]
    /\ request \in Workloads
    /\ todo = [c \in Calls |-> request[c].supplied]
    /\ overridden = [c \in Calls |-> None]
    /\ visiting = [c \in Calls |-> {}]
    /\ error = [c \in Calls |-> "none"]
    /\ faults = 0
    /\ author = <<>>
    /\ validBy = <<>>
    /\ base = [c \in Calls |-> c]

-----------------------------------------------------------------------------
(* Steps of a call that its actions share.  An operator whose name has a   *)
(* suffix is a mistake the one without could contain, not part of the      *)
(* model.                                                                  *)

Goto(c, phase) == pc' = [pc EXCEPT ![c] = phase]

Proceed(c, phase) == Goto(c, phase) /\ UNCHANGED error

Fail(c, e) ==
    /\ Goto(c, "failed")
    /\ error' = [error EXCEPT ![c] = e]

(* Call c writes all of document a.                                        *)
Put(c, a, doc) ==
    LET Set(f, v) == [x \in DOMAIN f \union {a} |-> IF x = a THEN v ELSE f[x]]
    IN /\ docs' = Set(docs, doc)
       /\ author' = Set(author, c)
       /\ validBy' = Set(validBy, c)
       /\ UNCHANGED base

SetValid(c, a, v) ==
    /\ docs' = [docs EXCEPT ![a].valid = v]
    /\ validBy' = [validBy EXCEPT ![a] = c]

Remove(a) ==
    LET Without(f) == [x \in DOMAIN f \ {a} |-> f[x]] IN
    /\ docs' = Without(docs)
    /\ author' = Without(author)
    /\ validBy' = Without(validBy)
    /\ visiting' = [c \in Calls |-> visiting[c] \ {a}]
    /\ UNCHANGED base

Remembers(c, a) == base' = [base EXCEPT ![c] = author[a]]

Arrive(c) ==
    /\ pc[c] = "idle"
    /\ Proceed(c, FirstOperation(request[c].op))
    /\ UNCHANGED <<traces, docs, request, local, faults, history>>

(* The trace record that create_assessment and delete_assessment need.     *)
FindTrace(c) ==
    /\ pc[c] = "find_trace"
    /\ \/ /\ request[c].trace \notin traces
          /\ Fail(c, "trace_not_found")
       \/ /\ request[c].trace \in traces
          /\ Proceed(c, IF request[c].op = "delete" THEN "find_deleted"
                        ELSE IF request[c].overrides = None THEN "insert"
                        ELSE "check_overridden")
    /\ UNCHANGED <<traces, docs, request, local, faults, history>>

(* An assessment was not found: the trace is read to tell whether it is    *)
(* the trace that is missing.                                              *)
Diagnose(c) ==
    /\ pc[c] = "diagnose"
    /\ Fail(c, IF request[c].trace \in traces THEN "assessment_not_found"
               ELSE "trace_not_found")
    /\ UNCHANGED <<traces, docs, request, local, faults, history>>

-----------------------------------------------------------------------------
(* create_assessment *)

CheckOverridden_Only(c) ==
    /\ pc[c] = "check_overridden"
    /\ Proceed(c, IF Stored(request[c].trace, request[c].overrides)
                  THEN "insert" ELSE "diagnose")
    /\ UNCHANGED <<traces, docs, request, local, faults, history>>

CheckOverridden(c) ==
    /\ pc[c] = "check_overridden"
    /\ Proceed(c, IF Stored(request[c].trace, request[c].overrides)
                  THEN "invalidate" ELSE "diagnose")
    /\ UNCHANGED <<traces, docs, request, local, faults, history>>

Invalidate(c) ==
    LET x == request[c].overrides IN
    /\ pc[c] = "invalidate"
    /\ IF Stored(request[c].trace, x)
       THEN SetValid(c, x, FALSE) /\ Remembers(c, x) /\ Proceed(c, "insert")
       ELSE Proceed(c, "diagnose") /\ UNCHANGED <<docs, validBy, base>>
    /\ UNCHANGED <<traces, request, local, faults, author>>

(* What it overrides stays invalid when the id is taken.                   *)
InsertAssessment(c) ==
    LET r == request[c] IN
    /\ pc[c] = "insert"
    /\ \/ /\ r.id \in DOMAIN docs
          /\ Fail(c, "exists")
          /\ UNCHANGED <<docs, history>>
       \/ /\ r.id \notin DOMAIN docs
          /\ Put(c, r.id, [trace |-> r.trace, kinds |-> r.kinds, valid |-> TRUE,
                           overrides |-> r.overrides, metadata |-> {}])
          /\ Proceed(c, "reply")
    /\ UNCHANGED <<traces, request, local, faults>>

-----------------------------------------------------------------------------
(* update_assessment *)

FindUpdated_AnyKind(c) ==
    /\ pc[c] = "find"
    /\ IF Found(c)
       THEN Remembers(c, request[c].id) /\ Proceed(c, "apply")
       ELSE UNCHANGED base /\ Proceed(c, "diagnose")
    /\ UNCHANGED <<traces, docs, request, local, faults, author, validBy>>

(* A value must be of the kind the assessment has; one that has got both    *)
(* reads as either.                                                        *)
FindUpdated(c) ==
    LET r == request[c] IN
    /\ pc[c] = "find"
    /\ \/ /\ ~Found(c)
          /\ Proceed(c, "diagnose")
          /\ UNCHANGED base
       \/ /\ Found(c)
          /\ Remembers(c, r.id)
          /\ \E k \in docs[r.id].kinds :
                IF r.kinds \subseteq {k} THEN Proceed(c, "apply")
                ELSE Fail(c, "wrong_kind")
    /\ UNCHANGED <<traces, docs, request, local, faults, author, validBy>>

ApplyUpdate_ReplacesMetadata(c) ==
    LET r == request[c] IN
    /\ pc[c] = "apply"
    /\ IF Found(c)
       THEN /\ docs' = [docs EXCEPT ![r.id].kinds = @ \union r.kinds,
                                    ![r.id].metadata = {c}]
            /\ Proceed(c, "reply")
       ELSE /\ Proceed(c, "diagnose")
            /\ UNCHANGED docs
    /\ UNCHANGED <<traces, request, local, faults, history>>

(* The update sets the value and merges the metadata into what the         *)
(* document holds by now; the kind is not checked again.                   *)
ApplyUpdate(c) ==
    LET r == request[c] IN
    /\ pc[c] = "apply"
    /\ IF Found(c)
       THEN /\ docs' = [docs EXCEPT ![r.id].kinds = @ \union r.kinds,
                                    ![r.id].metadata = @ \union {c}]
            /\ Proceed(c, "reply")
       ELSE /\ Proceed(c, "diagnose")
            /\ UNCHANGED docs
    /\ UNCHANGED <<traces, request, local, faults, history>>

-----------------------------------------------------------------------------
(* delete_assessment *)

FindDeleted_Only(c) ==
    /\ pc[c] = "find_deleted"
    /\ IF Found(c)
       THEN Remembers(c, request[c].id) /\ Proceed(c, "delete")
       ELSE UNCHANGED base /\ Proceed(c, "reply")
    /\ UNCHANGED <<traces, docs, request, local, faults, author, validBy>>

FindDeleted(c) ==
    LET a == request[c].id IN
    /\ pc[c] = "find_deleted"
    /\ IF Found(c)
       THEN /\ overridden' = [overridden EXCEPT ![c] = docs[a].overrides]
            /\ Remembers(c, a)
            /\ Proceed(c, IF docs[a].overrides = None THEN "delete"
                          ELSE "restore")
       ELSE /\ Proceed(c, "reply")
            /\ UNCHANGED <<overridden, base>>
    /\ UNCHANGED <<traces, docs, request, todo, visiting, faults, author,
                   validBy>>

(* Whether or not something else overrides it, too.                        *)
RestoreOverridden(c) ==
    LET x == overridden[c] IN
    /\ pc[c] = "restore"
    /\ IF Stored(request[c].trace, x) THEN SetValid(c, x, TRUE)
       ELSE UNCHANGED <<docs, validBy>>
    /\ Proceed(c, "delete")
    /\ UNCHANGED <<traces, request, local, faults, author, base>>

DeleteDocument(c) ==
    /\ pc[c] = "delete"
    /\ IF Found(c) THEN Remove(request[c].id)
       ELSE UNCHANGED <<docs, visiting, history>>
    /\ Proceed(c, "reply")
    /\ UNCHANGED <<traces, request, todo, overridden, faults>>

-----------------------------------------------------------------------------
(* start_trace: the trace, then its assessments, then a look at the trace *)

UpsertTrace_StoresEmptyList(c) ==
    /\ pc[c] = "upsert"
    /\ traces' = traces \union {request[c].trace}
    /\ Proceed(c, "replace")
    /\ UNCHANGED <<docs, request, local, faults, history>>

UpsertTrace(c) ==
    /\ pc[c] = "upsert"
    /\ traces' = traces \union {request[c].trace}
    /\ Proceed(c, IF todo[c] = <<>> THEN "read" ELSE "replace")
    /\ UNCHANGED <<docs, request, local, faults, history>>

(* Replaces or inserts; the id of an assessment of another trace is taken. *)
ReplaceAssessment(c) ==
    LET s == Head(todo[c])
        t == request[c].trace IN
    /\ pc[c] = "replace"
    /\ \/ /\ s.id \in DOMAIN docs /\ ~Stored(t, s.id)
          /\ Fail(c, "persistence")
          /\ UNCHANGED <<docs, todo, history>>
       \/ /\ s.id \in DOMAIN docs => Stored(t, s.id)
          /\ Put(c, s.id, [trace |-> t, kinds |-> s.kinds, valid |-> s.valid,
                           overrides |-> s.overrides, metadata |-> {}])
          /\ todo' = [todo EXCEPT ![c] = Tail(@)]
          /\ Proceed(c, IF Len(todo[c]) = 1 THEN "read" ELSE "replace")
    /\ UNCHANGED <<traces, request, overridden, visiting, faults>>

ReadTrace(c) ==
    /\ pc[c] = "read"
    /\ IF request[c].trace \in traces THEN Proceed(c, "reply")
       ELSE Fail(c, "repository_not_found")
    /\ UNCHANGED <<traces, docs, request, local, faults, history>>

-----------------------------------------------------------------------------
(* delete_traces, of one trace *)

SelectTrace(c) ==
    LET t == request[c].trace IN
    /\ pc[c] = "select"
    /\ IF t \in traces
       THEN /\ visiting' = [visiting EXCEPT ![c] =
                               {a \in DOMAIN docs : Stored(t, a)}]
            /\ Proceed(c, "purge")
       ELSE Proceed(c, "reply") /\ UNCHANGED visiting
    /\ UNCHANGED <<traces, docs, request, todo, overridden, faults, history>>

(* The delete_many may also meet an assessment that was added meanwhile.   *)
PurgeAssessment(c, a) ==
    /\ pc[c] = "purge"
    /\ Stored(request[c].trace, a)
    /\ Remove(a)
    /\ UNCHANGED <<traces, pc, request, todo, overridden, error, faults>>

PurgeEnds(c) ==
    /\ pc[c] = "purge"
    /\ visiting[c] = {}
    /\ Proceed(c, "delete_trace")
    /\ UNCHANGED <<traces, docs, request, local, faults, history>>

DeleteTrace(c) ==
    /\ pc[c] = "delete_trace"
    /\ traces' = traces \ {request[c].trace}
    /\ Proceed(c, "reply")
    /\ UNCHANGED <<docs, request, local, faults, history>>

-----------------------------------------------------------------------------

Return(c) ==
    /\ pc[c] = "reply"
    /\ Proceed(c, "done")
    /\ UNCHANGED <<traces, docs, request, local, faults, history>>

(* An operation fails, or it is applied and its reply is lost (the call is *)
(* one phase further then).  Nothing is undone.                            *)
Fault(c) ==
    /\ Running(c)
    /\ faults < MaxFaults
    /\ faults' = faults + 1
    /\ Fail(c, "persistence")
    /\ UNCHANGED <<traces, docs, request, local, history>>

AllReturned ==
    /\ \A c \in Calls : pc[c] \in {"done", "failed"}
    /\ UNCHANGED vars

CallStep(c) ==
    \/ FindTrace(c) \/ Diagnose(c)
    \/ CheckOverridden(c) \/ Invalidate(c) \/ InsertAssessment(c)
    \/ FindUpdated(c) \/ ApplyUpdate(c)
    \/ FindDeleted(c) \/ RestoreOverridden(c) \/ DeleteDocument(c)
    \/ UpsertTrace(c) \/ ReplaceAssessment(c) \/ ReadTrace(c)
    \/ SelectTrace(c) \/ PurgeEnds(c) \/ DeleteTrace(c)
    \/ \E a \in Ids : PurgeAssessment(c, a)
    \/ Return(c)

Next ==
    \/ \E c \in Calls : Arrive(c) \/ CallStep(c) \/ Fault(c)
    \/ AllReturned

Spec == Init /\ [][Next]_vars

-----------------------------------------------------------------------------
(***************************************************************************)
(* Properties.                                                             *)
(***************************************************************************)

(* While an assessment that create_assessment stored is there, what it     *)
(* overrides is invalid, unless it was written anew since, by start_trace  *)
(* or after a deletion, or a deletion of an assessment that overrides it   *)
(* marked it valid: of another one, or of this one if it has not removed   *)
(* it yet (traces.py:383, 432; test_assessment_contract.py:268).           *)
OverriddenAssessmentsInvalid ==
    \A y \in DOMAIN docs :
       LET x == docs[y].overrides
           c == author[y]
           v == validBy[x] IN
       (/\ request[c].op = "create"
        /\ Stored(docs[y].trace, x) /\ docs[x].valid) =>
          \/ v = author[x] /\ base[c] \notin {c, v}
          \/ /\ request[v].op = "delete" /\ overridden[v] = x
             /\ (request[v].id = y /\ base[v] = c) =>
                   pc[v] \notin {"reply", "done"}

(* The assessment of create call c was removed by a call that had not read *)
(* it (a deletion that had found an earlier one of that id), or by         *)
(* delete_traces.                                                          *)
RemovedUnread(c) ==
    \E d \in Calls :
       \/ /\ request[d].op = "delete" /\ request[d].id = request[c].id
          /\ base[d] \notin {c, d} /\ pc[d] \in {"reply", "done", "failed"}
       \/ /\ request[d].op = "delete_traces"
          /\ request[d].trace = request[c].trace
          /\ pc[d] \notin {"idle", "select"}

(* An assessment is invalid because start_trace said so or because a call  *)
(* that overrides it, in its trace, marked it; and then the overriding     *)
(* assessment is there, or is about to be inserted, or its creation        *)
(* failed, or it has been replaced or removed by a call that did not know  *)
(* it.  A deletion without such a race always brings back what was         *)
(* overridden (traces.py:383, 432; test_assessment_contract.py:280).       *)
InvalidAssessmentsExplained ==
    \A x \in DOMAIN docs :
       LET c == validBy[x]
           y == request[c].id IN
       ~docs[x].valid =>
          \/ c = author[x] /\ request[c].op = "start_trace"
          \/ /\ request[c].op = "create"
             /\ request[c].overrides = x /\ request[c].trace = docs[x].trace
             /\ \/ pc[c] \in {"insert", "failed"}
                \/ y \in DOMAIN docs /\ author[y] = c
                \/ y \in DOMAIN docs /\ request[author[y]].op = "start_trace"
                \/ RemovedUnread(c)

(* An acknowledged update is in the assessment it was made to, whatever    *)
(* other updates arrive: each merges into what is stored, not into what it *)
(* read (traces.py:397; test_assessment_contract.py:122).                  *)
AcknowledgedUpdatesKept ==
    \A c \in Calls :
       (request[c].op = "update" /\ pc[c] = "done" /\ Found(c)) =>
          LET doc == docs[request[c].id] IN
          author[request[c].id] = base[c] =>
             c \in doc.metadata /\ request[c].kinds \subseteq doc.kinds

(* An assessment has two kinds only if an update checked the kind of an    *)
(* assessment that start_trace, or a deletion and a creation, replaced     *)
(* before the update was applied (store.py:1895).                          *)
KindsMixOnlyByRaces ==
    \A a \in DOMAIN docs :
       Cardinality(docs[a].kinds) > 1 =>
          \E c \in docs[a].metadata : /\ request[c].kinds # {}
                                      /\ base[c] # author[a]
=============================================================================
