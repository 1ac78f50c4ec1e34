-------------------------- MODULE AssessmentsProofs --------------------------
(***************************************************************************)
(* Proofs about Assessments for every set of calls, ids and traces, every  *)
(* workload and every number of failing operations.                        *)
(***************************************************************************)
EXTENDS Assessments, FiniteSetTheorems, TLAPS

OpOf(c) == request[c].op

Returned == {"reply", "done", "failed"}

PhasesOf(o) ==
    {"idle"} \union Returned \union
    CASE o = "create" -> {"find_trace", "check_overridden", "invalidate", "insert",
                          "diagnose"}
      [] o = "update" -> {"find", "apply", "diagnose"}
      [] o = "delete" -> {"find_trace", "find_deleted", "restore", "delete"}
      [] o = "start_trace" -> {"upsert", "replace", "read"}
      [] o = "delete_traces" -> {"select", "purge", "delete_trace"}

(* Calls keep to the phases of their operation.                            *)
PhaseInv ==
    /\ request \in Workloads
    /\ \A c \in Calls : pc[c] \in PhasesOf(OpOf(c))

(* Assessments to store, of one kind each and each of them once.           *)
Pending(s) ==
    /\ s \in Seq(Supplied)
    /\ \A i, j \in DOMAIN s : /\ \E k \in Kinds : s[i].kinds = {k}
                              /\ s[i].id = s[j].id => i = j

TodoInv ==
    /\ \A c \in Calls : Pending(todo[c])
    /\ DOMAIN todo = Calls
    /\ visiting \in [Calls -> SUBSET Ids]

(* Call c has not written document a yet.                                  *)
CouldWrite(c, a) ==
    \/ OpOf(c) = "create" /\ request[c].id = a /\ pc[c] \notin Returned
    \/ OpOf(c) = "start_trace" /\ \E i \in DOMAIN todo[c] : todo[c][i].id = a

(* Call b wrote all of a document a that is or was in trace t.             *)
Wrote(b, a, t) ==
    /\ OpOf(b) \in {"create", "start_trace"}
    /\ request[b].trace = t
    /\ OpOf(b) = "create" => request[b].id = a
    /\ ~CouldWrite(b, a)

AuthorInv ==
    \A a \in DOMAIN docs :
       /\ Wrote(author[a], a, docs[a].trace)
       /\ OpOf(author[a]) = "create" =>
             /\ docs[a].overrides = request[author[a]].overrides
             /\ docs[a].overrides # None => base[author[a]] # author[a]

(* The document whose author c remembers.                                  *)
BaseId(c) == IF OpOf(c) = "create" THEN request[c].overrides ELSE request[c].id

(* What call c remembers is the author of a document it found; a creation  *)
(* that overrides and a deletion that restores have found one.             *)
Remembered(c) ==
    /\ base[c] # c =>
          /\ OpOf(c) \in {"create", "update", "delete"}
          /\ Wrote(base[c], BaseId(c), request[c].trace)
    /\ OpOf(c) = "create" /\ pc[c] = "insert" /\ request[c].overrides # None =>
          base[c] # c
    /\ OpOf(c) = "delete" =>
          /\ pc[c] \in {"idle", "find_trace", "find_deleted"} =>
                base[c] = c /\ overridden[c] = None
          /\ pc[c] \in {"restore", "delete"} => base[c] # c
          /\ base[c] # c /\ OpOf(base[c]) = "create" =>
                overridden[c] = request[base[c]].overrides

BaseInv == \A c \in Calls : Remembered(c)

(* The document x that c marked invalid is valid again for a good reason.  *)
Excused(c, y, x) ==
    LET v == validBy[x] IN
    \/ v = author[x] /\ base[c] \notin {c, v}
    \/ /\ OpOf(v) = "delete" /\ overridden[v] = x
       /\ (request[v].id = y /\ base[v] = c) => pc[v] \notin {"reply", "done"}

(* A creation that is about to insert, or has inserted what is there.      *)
Overrider(c) ==
    /\ OpOf(c) = "create"
    /\ \/ pc[c] = "insert"
       \/ request[c].id \in DOMAIN docs /\ author[request[c].id] = c

(* Such a creation has marked what it overrides.                           *)
MarkInv ==
    \A c \in Calls :
       LET x == request[c].overrides IN
       Overrider(c) /\ Stored(request[c].trace, x) /\ docs[x].valid =>
          Excused(c, request[c].id, x)

(* A deletion that has found the assessment of create call c no longer     *)
(* leaves the mark of c once it goes on to remove the assessment.          *)
RestoredInv ==
    \A d \in Calls :
       LET c == base[d]
           x == request[c].overrides IN
       (/\ OpOf(d) = "delete" /\ pc[d] = "delete"
        /\ c # d /\ OpOf(c) = "create" /\ x \in DOMAIN docs) =>
          docs[x].valid \/ validBy[x] # c

(* InvalidAssessmentsExplained; what start_trace put in place of an        *)
(* overriding assessment is in the same trace.                             *)
ExplainedInv ==
    \A x \in DOMAIN docs :
       LET c == validBy[x]
           y == request[c].id IN
       ~docs[x].valid =>
          \/ c = author[x] /\ OpOf(c) = "start_trace"
          \/ /\ OpOf(c) = "create"
             /\ request[c].overrides = x /\ request[c].trace = docs[x].trace
             /\ \/ pc[c] \in {"insert", "failed"}
                \/ y \in DOMAIN docs /\ author[y] = c
                \/ /\ y \in DOMAIN docs /\ OpOf(author[y]) = "start_trace"
                   /\ docs[y].trace = request[c].trace
                \/ RemovedUnread(c)

(* An update is in the assessment it was made to.                          *)
UpdatedInv ==
    \A c \in Calls :
       LET a == request[c].id IN
       (/\ OpOf(c) = "update" /\ pc[c] \in {"reply", "done"} /\ Found(c)
        /\ author[a] = base[c]) =>
          c \in docs[a].metadata /\ request[c].kinds \subseteq docs[a].kinds

(* Document a got metadata, and maybe a kind, by an update that had        *)
(* checked another document.                                               *)
Mixed(a) == \E c \in docs[a].metadata : request[c].kinds # {} /\ base[c] # author[a]

(* A document has one kind until such an update, and an update that has    *)
(* checked it has no other one.                                            *)
KindInv ==
    /\ \A a \in DOMAIN docs :
          /\ \A c \in docs[a].metadata :
                OpOf(c) = "update" /\ pc[c] \in {"reply", "done", "failed"}
          /\ Mixed(a) \/ \E k \in Kinds : docs[a].kinds = {k}
    /\ \A c \in Calls :
          LET a == request[c].id IN
          (/\ OpOf(c) = "update" /\ pc[c] = "apply" /\ Found(c)
           /\ author[a] = base[c]) =>
             Mixed(a) \/ request[c].kinds \subseteq docs[a].kinds

IInv ==
    /\ TypeOK
    /\ PhaseInv
    /\ TodoInv
    /\ AuthorInv
    /\ BaseInv
    /\ MarkInv
    /\ RestoredInv
    /\ ExplainedInv
    /\ UpdatedInv
    /\ KindInv

-----------------------------------------------------------------------------
(***************************************************************************)
(* What the operations of a call do to the documents and the history.      *)
(***************************************************************************)

Goes(c, p) == pc' = [pc EXCEPT ![c] = p]

(* c goes on to phase p without touching a document.                       *)
Moves(c, p) ==
    /\ Goes(c, p)
    /\ p \in PhasesOf(OpOf(c)) \ {"idle", "apply", "restore", "delete"}
    /\ pc[c] \notin {"done", "failed"}
    /\ pc[c] = "reply" => p \in {"done", "failed"}
    /\ p = "done" => pc[c] = "reply"
    /\ p = "reply" =>
          \/ OpOf(c) \in {"start_trace", "delete_traces"}
          \/ OpOf(c) = "delete" /\ pc[c] = "find_deleted"
          \/ OpOf(c) = "delete" /\ pc[c] = "delete" /\ ~Found(c)
    /\ p = "insert" => request[c].overrides = None
    /\ pc[c] = "insert" => p = "failed"
    /\ p \in {"find_trace", "find_deleted", "find", "select"} =>
          pc[c] \in {"idle", "find_trace"}
    /\ UNCHANGED <<docs, request, todo, overridden, history>>

Marks(c) ==
    LET x == request[c].overrides IN
    /\ pc[c] = "invalidate" /\ Goes(c, "insert")
    /\ Stored(request[c].trace, x)
    /\ SetValid(c, x, FALSE)
    /\ Remembers(c, x)
    /\ UNCHANGED <<request, todo, overridden, author>>

NewDocument(r) == [trace |-> r.trace, kinds |-> r.kinds, valid |-> TRUE,
                   overrides |-> r.overrides, metadata |-> {}]

Inserts(c) ==
    LET r == request[c] IN
    /\ pc[c] = "insert" /\ Goes(c, "reply")
    /\ r.id \notin DOMAIN docs
    /\ Put(c, r.id, NewDocument(r))
    /\ UNCHANGED <<request, todo, overridden>>

Checks(c, p) ==
    LET r == request[c] IN
    /\ pc[c] = "find" /\ Goes(c, p)
    /\ Found(c)
    /\ \/ p = "failed"
       \/ p = "apply" /\ \E k \in docs[r.id].kinds : r.kinds \subseteq {k}
    /\ Remembers(c, r.id)
    /\ UNCHANGED <<docs, request, todo, overridden, author, validBy>>

Applies(c) ==
    LET r == request[c] IN
    /\ pc[c] = "apply" /\ Goes(c, "reply")
    /\ Found(c)
    /\ docs' = [docs EXCEPT ![r.id].kinds = @ \union r.kinds,
                            ![r.id].metadata = @ \union {c}]
    /\ UNCHANGED <<request, todo, overridden, history>>

Finds(c, p) ==
    LET a == request[c].id IN
    /\ pc[c] = "find_deleted" /\ Goes(c, p)
    /\ Found(c)
    /\ p \in {"restore", "delete"}
    /\ p = "delete" => docs[a].overrides = None
    /\ overridden' = [overridden EXCEPT ![c] = docs[a].overrides]
    /\ Remembers(c, a)
    /\ UNCHANGED <<docs, request, todo, author, validBy>>

Restores(c) ==
    /\ pc[c] = "restore" /\ Goes(c, "delete")
    /\ Stored(request[c].trace, overridden[c])
    /\ SetValid(c, overridden[c], TRUE)
    /\ UNCHANGED <<request, todo, overridden, author, base>>

Skips(c) ==
    /\ pc[c] = "restore" /\ Goes(c, "delete")
    /\ ~Stored(request[c].trace, overridden[c])
    /\ UNCHANGED <<docs, request, todo, overridden, history>>

Deletes(c) ==
    /\ pc[c] = "delete" /\ Goes(c, "reply")
    /\ Found(c)
    /\ Remove(request[c].id)
    /\ UNCHANGED <<request, todo, overridden>>

Purges(c, a) ==
    /\ pc[c] = "purge"
    /\ Stored(request[c].trace, a)
    /\ Remove(a)
    /\ UNCHANGED <<pc, request, todo, overridden>>

Reported(c, s) == [trace |-> request[c].trace, kinds |-> s.kinds, valid |-> s.valid,
                   overrides |-> s.overrides, metadata |-> {}]

Replaces(c, p) ==
    LET s == Head(todo[c]) IN
    /\ pc[c] = "replace" /\ todo[c] # <<>>
    /\ p \in {"read", "replace"} /\ Goes(c, p)
    /\ s.id \in DOMAIN docs => Stored(request[c].trace, s.id)
    /\ Put(c, s.id, Reported(c, s))
    /\ todo' = [todo EXCEPT ![c] = Tail(@)]
    /\ UNCHANGED <<request, overridden>>

CallEffect(c) ==
    \/ \E p \in Phases : Moves(c, p) \/ Checks(c, p) \/ Finds(c, p) \/ Replaces(c, p)
    \/ Marks(c) \/ Inserts(c) \/ Applies(c) \/ Restores(c) \/ Skips(c) \/ Deletes(c)
    \/ \E a \in Ids : Purges(c, a)

LEMMA RequestTypes ==
    ASSUME PhaseInv, NEW c \in Calls
    PROVE  request \in [Calls -> Request] /\ request[c] \in Request /\ WellFormed(request[c])
BY WorkloadsAssumption DEF PhaseInv

LEMMA CallEffects ==
    ASSUME TypeOK, PhaseInv, TodoInv, NEW c \in Calls,
           Arrive(c) \/ CallStep(c) \/ Fault(c)
    PROVE  CallEffect(c)
<1> DEFINE Moved == \E p \in Phases : Moves(c, p)
<1>0. /\ request[c].op \in Ops
      /\ pc[c] \in PhasesOf(request[c].op)
      /\ pc \in [Calls -> Phases]
  BY RequestTypes DEF Request, PhaseInv, OpOf, TypeOK
<1> USE <1>0 DEF Phases, PhasesOf, Ops, Returned, local, history, Proceed, Fail, Goto,
                 Goes, OpOf, FirstOperation
<1>1. Arrive(c) => Moved
  BY DEF Arrive, Moves
<1>2. FindTrace(c) => Moved
  <2> SUFFICES ASSUME FindTrace(c)
               PROVE  Moved
    OBVIOUS
  <2>1. OpOf(c) \in {"create", "delete"} /\ pc[c] = "find_trace"
    BY DEF FindTrace
  <2>2. PICK p \in {"failed", "find_deleted", "insert", "check_overridden"} :
           /\ pc' = [pc EXCEPT ![c] = p]
           /\ p = "find_deleted" => OpOf(c) = "delete"
           /\ p \in {"insert", "check_overridden"} => OpOf(c) = "create"
           /\ p = "insert" => request[c].overrides = None
    <3>1. CASE request[c].trace \notin traces
      BY <3>1 DEF FindTrace
    <3>2. CASE request[c].trace \in traces /\ request[c].op = "delete"
      BY <3>2 DEF FindTrace
    <3>3. CASE /\ request[c].trace \in traces /\ request[c].op = "create"
               /\ request[c].overrides = None
      BY <3>3 DEF FindTrace
    <3>4. CASE /\ request[c].trace \in traces /\ request[c].op = "create"
               /\ request[c].overrides # None
      BY <3>4 DEF FindTrace
    <3> QED
      BY <2>1, <3>1, <3>2, <3>3, <3>4
  <2>3. UNCHANGED <<docs, request, local, history>>
    BY DEF FindTrace
  <2>4. Moves(c, p)
    BY <2>1, <2>2, <2>3 DEF Moves
  <2> QED
    BY <2>4
<1>3. Diagnose(c) => Moved
  BY DEF Diagnose, Moves
<1>4. CheckOverridden(c) => Moved
  BY DEF CheckOverridden, Moves
<1>5. Invalidate(c) => Moved \/ Marks(c)
  BY DEF Invalidate, Moves, Marks
<1>6. InsertAssessment(c) => Moved \/ Inserts(c)
  BY DEF InsertAssessment, Moves, Inserts, NewDocument
<1>7. FindUpdated(c) => Moved \/ \E p \in Phases : Checks(c, p)
  BY DEF FindUpdated, Moves, Checks
<1>8. ApplyUpdate(c) => Moved \/ Applies(c)
  BY DEF ApplyUpdate, Moves, Applies
<1>9. FindDeleted(c) => Moved \/ \E p \in Phases : Finds(c, p)
  BY DEF FindDeleted, Moves, Finds
<1>10. RestoreOverridden(c) => Restores(c) \/ Skips(c)
  BY DEF RestoreOverridden, Restores, Skips
<1>11. DeleteDocument(c) => Moved \/ Deletes(c)
  BY DEF DeleteDocument, Moves, Deletes
<1>12. UpsertTrace(c) => Moved
  BY DEF UpsertTrace, Moves
<1>13. ReplaceAssessment(c) => Moved \/ \E p \in Phases : Replaces(c, p)
  BY DEF ReplaceAssessment, Moves, Replaces, Reported, TypeOK
<1>14. ReadTrace(c) => Moved
  BY DEF ReadTrace, Moves
<1>15. SelectTrace(c) => Moved
  BY DEF SelectTrace, Moves
<1>16. PurgeEnds(c) => Moved
  BY DEF PurgeEnds, Moves
<1>17. DeleteTrace(c) => Moved
  BY DEF DeleteTrace, Moves
<1>18. \A a \in Ids : PurgeAssessment(c, a) => Purges(c, a)
  BY DEF PurgeAssessment, Purges
<1>19. Return(c) => Moved
  BY DEF Return, Moves
<1>20. Fault(c) => Moved
  BY DEF Fault, Moves, Running
<1> QED
  BY <1>1, <1>2, <1>3, <1>4, <1>5, <1>6, <1>7, <1>8, <1>9, <1>10, <1>11, <1>12,
     <1>13, <1>14, <1>15, <1>16, <1>17, <1>18, <1>19, <1>20 DEF CallStep, CallEffect

-----------------------------------------------------------------------------
(***************************************************************************)
(* Type correctness, phases, and the assessments still to be stored.       *)
(***************************************************************************)

DocumentTypes ==
    /\ DOMAIN docs \subseteq Ids
    /\ \A a \in DOMAIN docs : docs[a] \in Document /\ docs[a].kinds # {}
    /\ author \in [DOMAIN docs -> Calls]
    /\ validBy \in [DOMAIN docs -> Calls]
    /\ base \in [Calls -> Calls]

CallTypes ==
    /\ traces \subseteq Traces
    /\ pc \in [Calls -> Phases]
    /\ request \in [Calls -> Request]
    /\ overridden \in [Calls -> Ids \union {None}]
    /\ error \in [Calls -> Errors]
    /\ faults \in 0..MaxFaults

VisitTypes ==
    /\ visiting \in [Calls -> SUBSET Ids]
    /\ \A c \in Calls : visiting[c] \subseteq DOMAIN docs

TodoTypes ==
    /\ \A c \in Calls : Pending(todo[c])
    /\ DOMAIN todo = Calls
    /\ \A c \in Calls : pc[c] = "replace" => todo[c] # <<>>

LEMMA TypeParts ==
    /\ TypeOK /\ TodoInv => DocumentTypes /\ CallTypes /\ VisitTypes /\ TodoTypes
    /\ DocumentTypes /\ CallTypes /\ VisitTypes /\ TodoTypes => TypeOK /\ TodoInv
<1> USE DEF DocumentTypes, CallTypes, VisitTypes, TodoTypes, TypeOK, TodoInv
<1>1. TypeOK /\ TodoInv => DocumentTypes /\ CallTypes /\ VisitTypes /\ TodoTypes
  OBVIOUS
<1>2. DocumentTypes /\ CallTypes /\ VisitTypes /\ TodoTypes => TypeOK /\ TodoInv
  BY DEF Pending
<1> QED
  BY <1>1, <1>2

(* Which operation a phase belongs to.                                     *)
LEMMA OperationOfPhase ==
    ASSUME TypeOK, PhaseInv, NEW c \in Calls
    PROVE  /\ OpOf(c) \in Ops
           /\ pc[c] \in {"check_overridden", "invalidate", "insert"} =>
                 OpOf(c) = "create"
           /\ pc[c] \in {"find", "apply"} => OpOf(c) = "update"
           /\ pc[c] \in {"find_deleted", "restore", "delete"} => OpOf(c) = "delete"
           /\ pc[c] \in {"upsert", "replace"} => OpOf(c) = "start_trace"
           /\ pc[c] \in {"select", "purge"} => OpOf(c) = "delete_traces"
<1>1. OpOf(c) \in Ops
  BY RequestTypes DEF Request, OpOf
<1> QED
  BY <1>1 DEF PhaseInv, PhasesOf, Returned, Ops

LEMMA PhasesOfOperations ==
    /\ \A o \in Ops : Returned \subseteq PhasesOf(o)
    /\ "insert" \in PhasesOf("create")
    /\ "apply" \in PhasesOf("update")
    /\ {"restore", "delete"} \subseteq PhasesOf("delete")
    /\ {"read", "replace"} \subseteq PhasesOf("start_trace")
BY DEF PhasesOf, Ops, Returned

LEMMA CallTypesStep ==
    ASSUME TypeOK, PhaseInv, TodoInv, NEW c \in Calls,
           Arrive(c) \/ CallStep(c) \/ Fault(c)
    PROVE  CallTypes'
<1>0. request[c] \in Request /\ request[c].op \in Ops /\ request[c].trace \in Traces
  BY RequestTypes DEF Request
<1>1. CallTypes
  BY TypeParts
<1>2. FirstOperation(request[c].op) \in Phases
  BY <1>0 DEF FirstOperation, Ops, Phases
<1>3. (\E p \in Phases : Goto(c, p)) \/ UNCHANGED pc
      => pc' \in [Calls -> Phases]
  BY <1>1 DEF Goto, CallTypes
<1> USE <1>0, <1>1, <1>2, BoundsAssumption
    DEF CallTypes, local, history, Proceed, Fail, Goto, Phases, Errors
<1>4. CASE Arrive(c)
  BY <1>4 DEF Arrive
<1>5. CASE FindTrace(c)
  BY <1>5 DEF FindTrace
<1>6. CASE Diagnose(c)
  BY <1>6 DEF Diagnose
<1>7. CASE CheckOverridden(c)
  BY <1>7 DEF CheckOverridden
<1>8. CASE Invalidate(c)
  BY <1>8 DEF Invalidate
<1>9. CASE InsertAssessment(c)
  BY <1>9 DEF InsertAssessment
<1>10. CASE FindUpdated(c)
  BY <1>10 DEF FindUpdated
<1>11. CASE ApplyUpdate(c)
  BY <1>11 DEF ApplyUpdate
<1>12. CASE RestoreOverridden(c)
  BY <1>12 DEF RestoreOverridden
<1>13. CASE DeleteDocument(c)
  BY <1>13 DEF DeleteDocument
<1>14. CASE UpsertTrace(c)
  BY <1>14 DEF UpsertTrace
<1>15. CASE ReplaceAssessment(c)
  BY <1>15 DEF ReplaceAssessment
<1>16. CASE ReadTrace(c)
  BY <1>16 DEF ReadTrace
<1>17. CASE SelectTrace(c)
  BY <1>17 DEF SelectTrace
<1>18. CASE PurgeEnds(c)
  BY <1>18 DEF PurgeEnds
<1>19. CASE DeleteTrace(c)
  BY <1>19 DEF DeleteTrace
<1>20. CASE Return(c)
  BY <1>20 DEF Return
<1>21. CASE Fault(c)
  BY <1>21 DEF Fault, Running
<1>22. CASE FindDeleted(c)
  <2>1. CASE Found(c)
    <3>1. docs[request[c].id].overrides \in Ids \union {None}
      BY <2>1 DEF Found, Stored, TypeOK, Document
    <3> QED
      BY <1>22, <2>1, <3>1 DEF FindDeleted
  <2>2. CASE ~Found(c)
    BY <1>22, <2>2 DEF FindDeleted
  <2> QED
    BY <2>1, <2>2
<1>23. ASSUME NEW a \in Ids, PurgeAssessment(c, a)
      PROVE  CallTypes'
  BY <1>23 DEF PurgeAssessment
<1> QED
  BY <1>4, <1>5, <1>6, <1>7, <1>8, <1>9, <1>10, <1>11, <1>12, <1>13, <1>14,
     <1>15, <1>16, <1>17, <1>18, <1>19, <1>20, <1>21, <1>22, <1>23 DEF
     CallStep

LEMMA PutTypes ==
    ASSUME DocumentTypes, NEW c \in Calls, NEW a \in Ids, NEW doc \in Document,
           doc.kinds # {}, Put(c, a, doc)
    PROVE  DocumentTypes'
<1>1. /\ docs' = [x \in DOMAIN docs \union {a} |-> IF x = a THEN doc ELSE docs[x]]
      /\ base' = base
  BY DEF Put
<1>2. author' = [x \in DOMAIN author \union {a} |-> IF x = a THEN c ELSE author[x]]
  BY DEF Put
<1>3. validBy' = [x \in DOMAIN validBy \union {a} |-> IF x = a THEN c ELSE validBy[x]]
  BY DEF Put
<1>4. DOMAIN author = DOMAIN docs /\ DOMAIN validBy = DOMAIN docs
  BY DEF DocumentTypes
<1>5. author' \in [DOMAIN docs' -> Calls]
  BY <1>1, <1>2, <1>4 DEF DocumentTypes
<1>6. validBy' \in [DOMAIN docs' -> Calls]
  BY <1>1, <1>3, <1>4 DEF DocumentTypes
<1>7. \A x \in DOMAIN docs' : docs'[x] \in Document /\ docs'[x].kinds # {}
  BY <1>1 DEF DocumentTypes
<1> QED
  BY <1>1, <1>5, <1>6, <1>7 DEF DocumentTypes

(* The first of the assessments to store.                                  *)
LEMMA FirstPending ==
    ASSUME TodoInv, NEW c \in Calls, todo[c] # <<>>
    PROVE  /\ Head(todo[c]) \in Supplied
           /\ \E k \in Kinds : Head(todo[c]).kinds = {k}
           /\ 1 \in DOMAIN todo[c] /\ Head(todo[c]) = todo[c][1]
<1>1. Pending(todo[c])
  BY DEF TodoInv
<1>2. todo[c] \in Seq(Supplied)
  BY <1>1 DEF Pending
<1>3. 1 \in DOMAIN todo[c] /\ Head(todo[c]) = todo[c][1] /\ todo[c][1] \in Supplied
  BY <1>2
<1> QED
  BY <1>1, <1>3 DEF Pending

LEMMA SetValidTypes ==
    ASSUME DocumentTypes, NEW c \in Calls, NEW a \in DOMAIN docs, NEW v \in BOOLEAN,
           SetValid(c, a, v), author' = author, base' \in [Calls -> Calls]
    PROVE  DocumentTypes'
<1>1. docs[a] \in Document /\ docs[a].kinds # {}
  BY DEF DocumentTypes
<1>2. PICK doc : doc = [docs[a] EXCEPT !.valid = v]
  OBVIOUS
<1>3. docs' = [docs EXCEPT ![a] = doc] /\ validBy' = [validBy EXCEPT ![a] = c]
  BY <1>2 DEF SetValid
<1>4. doc \in Document /\ doc.kinds # {}
  BY ONLY <1>1, <1>2, v \in BOOLEAN DEF Document
<1>5. DOMAIN docs' = DOMAIN docs /\ \A x \in DOMAIN docs : docs'[x] \in {docs[x], doc}
  BY <1>3
<1> QED
  BY <1>3, <1>4, <1>5 DEF DocumentTypes

LEMMA DocumentTypesStep ==
    ASSUME TypeOK, PhaseInv, TodoInv, NEW c \in Calls, CallEffect(c)
    PROVE  DocumentTypes'
<1>0. DocumentTypes /\ request[c] \in Request /\ WellFormed(request[c])
  BY TypeParts, RequestTypes
<1> USE <1>0 DEF DocumentTypes
<1>1. ASSUME NEW p \in Phases, Moves(c, p)
      PROVE  DocumentTypes'
  BY <1>1 DEF Moves, Goes, history
<1>2. CASE Marks(c)
  <2>1. PICK x, v : x = request[c].overrides /\ v = FALSE
    OBVIOUS
  <2>2. /\ x \in DOMAIN docs /\ SetValid(c, x, v) /\ author' = author
        /\ base' = [base EXCEPT ![c] = author[x]]
    BY <1>2, <2>1 DEF Marks, Stored, Remembers
  <2>3. base' \in [Calls -> Calls]
    BY <2>2
  <2> HIDE DEF DocumentTypes
  <2> QED
    BY <1>0, <2>1, <2>2, <2>3, SetValidTypes
<1>3. CASE Inserts(c)
  <2>1. /\ NewDocument(request[c]) \in Document
        /\ NewDocument(request[c]).kinds # {} /\ request[c].id \in Ids
    <3>1. OpOf(c) = "create"
      BY <1>3, OperationOfPhase DEF Inserts
    <3> QED
      BY <3>1 DEF NewDocument, Document, Request, WellFormed, OpOf
  <2> QED
    <3>1. Put(c, request[c].id, NewDocument(request[c]))
      BY <1>3 DEF Inserts
    <3> HIDE DEF DocumentTypes
    <3> QED
      BY <2>1, <3>1, PutTypes
<1>4. ASSUME NEW p \in Phases, Checks(c, p)
      PROVE  DocumentTypes'
  BY <1>4 DEF Checks, Goes, Found, Stored, Remembers
<1>5. CASE Applies(c)
  <2>1. request[c].kinds \in SUBSET Kinds /\ request[c].id \in DOMAIN docs
    BY <1>5 DEF Request, Applies, Found, Stored
  <2>2. PICK doc : doc = [docs[request[c].id] EXCEPT
                            !.kinds = @ \union request[c].kinds,
                            !.metadata = @ \union {c}]
    OBVIOUS
  <2>3. docs' = [docs EXCEPT ![request[c].id] = doc]
    BY <1>5, <2>1, <2>2 DEF Applies
  <2>4. doc \in Document /\ doc.kinds # {}
    BY <2>1, <2>2 DEF Document
  <2>5. UNCHANGED history
    BY <1>5 DEF Applies
  <2> QED
    BY <2>1, <2>3, <2>4, <2>5 DEF history
<1>6. ASSUME NEW p \in Phases, Finds(c, p)
      PROVE  DocumentTypes'
  BY <1>6 DEF Finds, Goes, Found, Stored, Remembers
<1>7. CASE Restores(c)
  <2>1. PICK x, v : x = overridden[c] /\ v = TRUE
    OBVIOUS
  <2>2. x \in DOMAIN docs /\ SetValid(c, x, v) /\ author' = author /\ base' = base
    BY <1>7, <2>1 DEF Restores, Stored
  <2> HIDE DEF DocumentTypes
  <2>3. base' \in [Calls -> Calls]
    BY <1>0, <2>2 DEF DocumentTypes
  <2> QED
    BY <1>0, <2>1, <2>2, <2>3, SetValidTypes
<1>8. CASE Skips(c)
  BY <1>8 DEF Skips, Goes, Stored, history
<1>9. CASE Deletes(c)
  BY <1>9 DEF Deletes, Goes, Found, Stored, Remove
<1>10. ASSUME NEW a \in Ids, Purges(c, a)
       PROVE  DocumentTypes'
  BY <1>10 DEF Purges, Stored, Remove
<1>11. ASSUME NEW p \in Phases, Replaces(c, p)
       PROVE  DocumentTypes'
  <2>1. Head(todo[c]) \in Supplied /\ Head(todo[c]).kinds # {}
    BY <1>11, FirstPending DEF Replaces
  <2>2. /\ Reported(c, Head(todo[c])) \in Document
        /\ Reported(c, Head(todo[c])).kinds # {}
        /\ Head(todo[c]).id \in Ids
    BY <2>1 DEF Reported, Document, Request, Supplied
  <2> QED
    BY <1>11, <2>2, PutTypes DEF Replaces
<1> QED
  BY <1>1, <1>2, <1>3, <1>4, <1>5, <1>6, <1>7, <1>8, <1>9, <1>10, <1>11 DEF
     CallEffect

LEMMA VisitTypesStep ==
    ASSUME TypeOK, PhaseInv, TodoInv, NEW c \in Calls,
           Arrive(c) \/ CallStep(c) \/ Fault(c)
    PROVE  VisitTypes'
<1>0. VisitTypes /\ DOMAIN docs \subseteq Ids
  BY TypeParts DEF DocumentTypes
<1>1. CASE UNCHANGED visiting /\ DOMAIN docs \subseteq DOMAIN docs'
  BY <1>0, <1>1 DEF VisitTypes
<1>2. ASSUME NEW a, Remove(a)
      PROVE  VisitTypes'
  BY <1>0, <1>2 DEF VisitTypes, Remove
<1>3. CASE SelectTrace(c)
  BY <1>0, <1>3 DEF VisitTypes, SelectTrace
<1> USE <1>1 DEF local
<1>4. CASE Arrive(c) \/ FindTrace(c) \/ Diagnose(c) \/ CheckOverridden(c) \/ Fault(c)
           \/ FindUpdated(c) \/ FindDeleted(c) \/ UpsertTrace(c) \/ ReadTrace(c)
           \/ PurgeEnds(c) \/ DeleteTrace(c) \/ Return(c)
  BY <1>4 DEF Arrive, FindTrace, Diagnose, CheckOverridden, Fault, FindUpdated,
              FindDeleted, UpsertTrace, ReadTrace, PurgeEnds, DeleteTrace, Return
<1>5. CASE Invalidate(c) \/ RestoreOverridden(c) \/ ApplyUpdate(c)
  BY <1>5 DEF Invalidate, RestoreOverridden, ApplyUpdate, SetValid
<1>6. CASE InsertAssessment(c) \/ ReplaceAssessment(c)
  BY <1>6 DEF InsertAssessment, ReplaceAssessment, Put
<1>7. CASE DeleteDocument(c)
  BY <1>2, <1>7 DEF DeleteDocument
<1>8. ASSUME NEW a \in Ids, PurgeAssessment(c, a)
      PROVE  VisitTypes'
  BY <1>2, <1>8 DEF PurgeAssessment
<1> QED
  BY <1>3, <1>4, <1>5, <1>6, <1>7, <1>8 DEF CallStep

LEMMA TodoTypesStep ==
    ASSUME TypeOK, PhaseInv, TodoInv, NEW c \in Calls,
           Arrive(c) \/ CallStep(c) \/ Fault(c)
    PROVE  TodoTypes'
<1>0. TodoTypes /\ pc \in [Calls -> Phases]
  BY TypeParts DEF TypeOK
<1>1. CASE UNCHANGED todo /\ (pc'[c] # "replace" \/ todo[c] # <<>>)
           /\ \A d \in Calls : d # c => pc'[d] = pc[d]
  BY <1>0, <1>1 DEF TodoTypes
<1>2. CASE ReplaceAssessment(c) /\ ~UNCHANGED todo
  <2>1. /\ todo[c] # <<>> /\ pc[c] = "replace" /\ todo' = [todo EXCEPT ![c] = Tail(@)]
        /\ pc' = [pc EXCEPT ![c] = IF Len(todo[c]) = 1 THEN "read" ELSE "replace"]
    BY <1>0, <1>2 DEF TodoTypes, ReplaceAssessment, Proceed, Goto
  <2>2. Pending(todo[c])
    BY <1>0 DEF TodoTypes
  <2>3. PICK s : s = Tail(todo[c])
    OBVIOUS
  <2>4. /\ s \in Seq(Supplied) /\ Len(s) = Len(todo[c]) - 1
        /\ DOMAIN s \subseteq Int
        /\ \A i \in DOMAIN s : i + 1 \in DOMAIN todo[c] /\ s[i] = todo[c][i + 1]
    BY <2>1, <2>2, <2>3 DEF Pending
  <2>5. Pending(s)
    <3>1. ASSUME NEW i \in DOMAIN s
          PROVE  \E k \in Kinds : s[i].kinds = {k}
      <4>1. i + 1 \in DOMAIN todo[c] /\ s[i] = todo[c][i + 1]
        BY ONLY <2>4, i \in DOMAIN s
      <4> QED
        BY ONLY <2>2, <4>1 DEF Pending
    <3>2. ASSUME NEW i \in DOMAIN s, NEW j \in DOMAIN s, s[i].id = s[j].id
          PROVE  i = j
      <4>0. /\ i \in Int /\ j \in Int
            /\ i + 1 \in DOMAIN todo[c] /\ s[i] = todo[c][i + 1]
            /\ j + 1 \in DOMAIN todo[c] /\ s[j] = todo[c][j + 1]
        BY ONLY <2>4, i \in DOMAIN s, j \in DOMAIN s
      <4>1. i \in Int /\ j \in Int /\ i + 1 = j + 1
        BY ONLY <2>2, <3>2, <4>0 DEF Pending
      <4> QED
        BY <4>1
    <3> QED
      BY <2>4, <3>1, <3>2 DEF Pending
  <2>6. Len(todo[c]) # 1 => s # <<>>
    <3>1. Len(todo[c]) \in Nat /\ Len(todo[c]) # 0
      BY <2>2, <2>1 DEF Pending
    <3>2. s = <<>> => Len(s) = 0
      OBVIOUS
    <3> QED
      BY <2>4, <3>1, <3>2
  <2> QED
    BY <1>0, <2>1, <2>3, <2>5, <2>6 DEF TodoTypes
<1> USE <1>0, <1>1 DEF local, Proceed, Fail, Goto
<1>3. CASE Arrive(c) \/ FindTrace(c) \/ Diagnose(c) \/ CheckOverridden(c) \/ Fault(c)
  <2>1. FirstOperation(request[c].op) # "replace"
    BY RequestTypes DEF FirstOperation, Request, Ops
  <2> QED
    BY <1>3, <2>1 DEF Arrive, FindTrace, Diagnose, CheckOverridden, Fault
<1>4. CASE FindUpdated(c) \/ FindDeleted(c) \/ UpsertTrace(c) \/ ReadTrace(c)
           \/ PurgeEnds(c) \/ DeleteTrace(c) \/ Return(c)
  BY <1>4 DEF FindUpdated, FindDeleted, UpsertTrace, ReadTrace, PurgeEnds, DeleteTrace, Return
<1>5. CASE Invalidate(c) \/ RestoreOverridden(c) \/ ApplyUpdate(c) \/ InsertAssessment(c)
           \/ DeleteDocument(c) \/ SelectTrace(c)
  BY <1>5 DEF Invalidate, RestoreOverridden, ApplyUpdate, InsertAssessment,
              DeleteDocument, SelectTrace
<1>6. CASE ReplaceAssessment(c) /\ UNCHANGED todo
  BY <1>6 DEF ReplaceAssessment, TodoTypes
<1>7. ASSUME NEW a \in Ids, PurgeAssessment(c, a)
      PROVE  TodoTypes'
  BY <1>7 DEF PurgeAssessment, TodoTypes
<1> QED
  BY <1>2, <1>3, <1>4, <1>5, <1>6, <1>7 DEF CallStep

LEMMA PhaseStep ==
    ASSUME TypeOK, PhaseInv, NEW c \in Calls, CallEffect(c)
    PROVE  PhaseInv'
<1>0. request \in [Calls -> Request] /\ pc \in [Calls -> Phases] /\ OpOf(c) \in Ops
  BY RequestTypes, OperationOfPhase DEF TypeOK
<1> USE <1>0, OperationOfPhase, PhasesOfOperations DEF PhaseInv, OpOf, Returned
<1>1. ASSUME NEW p \in Phases, Moves(c, p)
      PROVE  PhaseInv'
  BY <1>1 DEF Moves, Goes, history
<1>2. CASE Marks(c)
  BY <1>2 DEF Marks, Goes, Stored, SetValid, Remembers
<1>3. CASE Inserts(c)
  BY <1>3 DEF Inserts, Goes, Put, NewDocument
<1>4. ASSUME NEW p \in Phases, Checks(c, p)
      PROVE  PhaseInv'
  BY <1>4 DEF Checks, Goes, Found, Stored, Remembers
<1>5. CASE Applies(c)
  BY <1>5 DEF Applies, Goes, Found, Stored, history
<1>6. ASSUME NEW p \in Phases, Finds(c, p)
      PROVE  PhaseInv'
  BY <1>6 DEF Finds, Goes, Found, Stored, Remembers
<1>7. CASE Restores(c)
  BY <1>7 DEF Restores, Goes, Stored, SetValid
<1>8. CASE Skips(c)
  BY <1>8 DEF Skips, Goes, Stored, history
<1>9. CASE Deletes(c)
  BY <1>9 DEF Deletes, Goes, Found, Stored, Remove
<1>10. ASSUME NEW a \in Ids, Purges(c, a)
       PROVE  PhaseInv'
  BY <1>10 DEF Purges, Stored, Remove
<1>11. ASSUME NEW p \in Phases, Replaces(c, p)
       PROVE  PhaseInv'
  BY <1>11 DEF Replaces, Goes, Stored, Put, Reported
<1> QED
  BY <1>1, <1>2, <1>3, <1>4, <1>5, <1>6, <1>7, <1>8, <1>9, <1>10, <1>11 DEF
     CallEffect

-----------------------------------------------------------------------------
(***************************************************************************)
(* What writing, marking and removing a document changes.                  *)
(***************************************************************************)

(* The documents and what is known of them, but for document a.            *)
OthersKept(a) ==
    \A x \in DOMAIN docs \ {a} :
       /\ x \in DOMAIN docs'
       /\ docs'[x] = docs[x] /\ author'[x] = author[x] /\ validBy'[x] = validBy[x]

LEMMA PutFacts ==
    ASSUME TypeOK, NEW c, NEW a, NEW doc, Put(c, a, doc)
    PROVE  /\ DOMAIN docs' = DOMAIN docs \union {a}
           /\ docs'[a] = doc /\ author'[a] = c /\ validBy'[a] = c
           /\ OthersKept(a)
           /\ base' = base
<1>1. /\ docs' = [x \in DOMAIN docs \union {a} |-> IF x = a THEN doc ELSE docs[x]]
      /\ base' = base
  BY DEF Put
<1>2. author' = [x \in DOMAIN author \union {a} |-> IF x = a THEN c ELSE author[x]]
  BY DEF Put
<1>3. validBy' = [x \in DOMAIN validBy \union {a} |-> IF x = a THEN c ELSE validBy[x]]
  BY DEF Put
<1>4. DOMAIN author = DOMAIN docs /\ DOMAIN validBy = DOMAIN docs
  BY DEF TypeOK
<1> QED
  BY <1>1, <1>2, <1>3, <1>4 DEF OthersKept

LEMMA RemoveFacts ==
    ASSUME TypeOK, NEW a, Remove(a)
    PROVE  /\ DOMAIN docs' = DOMAIN docs \ {a}
           /\ OthersKept(a)
           /\ base' = base
BY DEF TypeOK, Remove, OthersKept

LEMMA SetValidFacts ==
    ASSUME TypeOK, NEW c, NEW a \in DOMAIN docs, NEW v, SetValid(c, a, v), author' = author
    PROVE  /\ DOMAIN docs' = DOMAIN docs
           /\ docs'[a].trace = docs[a].trace /\ docs'[a].overrides = docs[a].overrides
           /\ docs'[a].metadata = docs[a].metadata /\ docs'[a].kinds = docs[a].kinds
           /\ docs'[a].valid = v
           /\ author'[a] = author[a]
           /\ validBy'[a] = c
           /\ OthersKept(a)
BY DEF TypeOK, SetValid, OthersKept, Document

-----------------------------------------------------------------------------
(***************************************************************************)
(* Who wrote what.                                                         *)
(***************************************************************************)

LEMMA WroteStays ==
    ASSUME TypeOK, PhaseInv, TodoInv, NEW c \in Calls, CallEffect(c), NEW b \in Calls
    PROVE  /\ request' = request
           /\ \A a : CouldWrite(b, a)' => CouldWrite(b, a)
           /\ \A a, t : Wrote(b, a, t) => Wrote(b, a, t)'
<1>1. request' = request
  BY DEF CallEffect, Moves, Checks, Finds, Replaces, Marks, Inserts, Applies, Restores,
         Skips, Deletes, Purges
<1>2. OpOf(b) = "create" /\ pc[b] \in Returned => pc'[b] \in Returned
  BY OperationOfPhase
     DEF CallEffect, Moves, Checks, Finds, Replaces, Marks, Inserts, Applies, Restores,
         Skips, Deletes, Purges, Goes, Returned, TypeOK
<1>3. ASSUME NEW a, \E i \in DOMAIN todo'[b] : todo'[b][i].id = a
      PROVE  \E i \in DOMAIN todo[b] : todo[b][i].id = a
  <2>1. CASE UNCHANGED todo
    BY <1>3, <2>1
  <2>2. CASE \E p \in Phases : Replaces(c, p)
    <3>1. todo[c] # <<>> /\ todo' = [todo EXCEPT ![c] = Tail(@)]
      BY <2>2 DEF Replaces
    <3>2. Pending(todo[c])
      BY DEF TodoInv
    <3>3. PICK s : s = Tail(todo[c])
      OBVIOUS
    <3>4. \A i \in DOMAIN s : i + 1 \in DOMAIN todo[c] /\ s[i] = todo[c][i + 1]
      BY <3>1, <3>2, <3>3 DEF Pending
    <3> QED
      BY <1>3, <3>1, <3>3, <3>4 DEF TodoInv
  <2> QED
    BY <2>1, <2>2 DEF CallEffect, Moves, Checks, Finds, Marks, Inserts, Applies,
                      Restores, Skips, Deletes, Purges
<1>4. \A a : CouldWrite(b, a)' => CouldWrite(b, a)
  BY <1>1, <1>2, <1>3 DEF CouldWrite, OpOf
<1> QED
  BY <1>1, <1>4 DEF Wrote, OpOf

LEMMA FewKinds ==
    ASSUME NEW S \in SUBSET Kinds, S # {}, Cardinality(S) <= 1
    PROVE  \E k \in Kinds : S = {k}
<1>1. S \in {{"feedback"}, {"expectation"}, {"feedback", "expectation"}}
  BY DEF Kinds
<1>2. Cardinality({"feedback", "expectation"}) = 2
  <2>1. PICK T : T = {"feedback"}
    OBVIOUS
  <2>2. IsFiniteSet(T) /\ Cardinality(T) = 1
    BY <2>1, FS_Singleton
  <2>3. "expectation" \notin T /\ T \union {"expectation"} = {"feedback", "expectation"}
    BY <2>1
  <2>4. Cardinality(T \union {"expectation"}) = Cardinality(T) + 1
    BY <2>2, <2>3, FS_AddElement
  <2> QED
    BY <2>2, <2>3, <2>4
<1> QED
  BY <1>1, <1>2 DEF Kinds

(* The writer of a document has not got it before it, and has written it   *)
(* when it is there.                                                       *)
LEMMA WritersOnce ==
    ASSUME TypeOK, PhaseInv, TodoInv, NEW c \in Calls
    PROVE  /\ Inserts(c) =>
                 /\ CouldWrite(c, request[c].id)
                 /\ Wrote(c, request[c].id, request[c].trace)'
                 /\ OpOf(c) = "create"
           /\ \A p, a : Replaces(c, p) /\ a = Head(todo[c]).id =>
                 /\ CouldWrite(c, a)
                 /\ Wrote(c, a, request[c].trace)'
                 /\ OpOf(c) = "start_trace"
<1>1. ASSUME Inserts(c)
      PROVE  /\ CouldWrite(c, request[c].id)
             /\ Wrote(c, request[c].id, request[c].trace)'
             /\ OpOf(c) = "create"
  BY <1>1, OperationOfPhase
     DEF Inserts, CouldWrite, Wrote, OpOf, Goes, Returned, TypeOK
<1>2. ASSUME NEW p, NEW a, Replaces(c, p), a = Head(todo[c]).id
      PROVE  /\ CouldWrite(c, a)
             /\ Wrote(c, a, request[c].trace)'
             /\ OpOf(c) = "start_trace"
  <2>1. /\ pc[c] = "replace" /\ todo[c] # <<>> /\ request' = request
        /\ todo' = [todo EXCEPT ![c] = Tail(@)]
    BY <1>2 DEF Replaces
  <2>2. OpOf(c) = "start_trace"
    BY <2>1, OperationOfPhase
  <2>3. 1 \in DOMAIN todo[c] /\ Head(todo[c]) = todo[c][1] /\ Pending(todo[c])
    BY <2>1, FirstPending DEF TodoInv
  <2>4. PICK s : s = Tail(todo[c])
    OBVIOUS
  <2>5. \A i \in DOMAIN s : i \in Nat \ {0} /\ i + 1 \in DOMAIN todo[c] /\ s[i] = todo[c][i + 1]
    BY <2>1, <2>3, <2>4 DEF Pending
  <2>6. \A i \in DOMAIN s : s[i].id # a
    <3>1. ASSUME NEW i \in DOMAIN s, s[i].id = a
          PROVE  FALSE
      <4>1. i + 1 = 1
        BY <1>2, <2>3, <2>5, <3>1 DEF Pending
      <4> QED
        BY <2>5, <4>1
    <3> QED
      BY <3>1
  <2>7. ~\E i \in DOMAIN todo'[c] : todo'[c][i].id = a
    BY <2>1, <2>4, <2>6 DEF TodoInv
  <2>8. ~CouldWrite(c, a)'
    BY <2>1, <2>2, <2>7 DEF CouldWrite, OpOf
  <2>9. Wrote(c, a, request[c].trace)'
    BY <2>1, <2>2, <2>8 DEF Wrote, OpOf
  <2> QED
    BY <1>2, <2>2, <2>3, <2>9 DEF CouldWrite
<1> QED
  BY <1>1, <1>2

(* c writes all of document a, which it had not written before.            *)
Written(c, a) ==
    /\ DOMAIN docs' = DOMAIN docs \union {a}
    /\ author'[a] = c /\ validBy'[a] = c /\ OthersKept(a)
    /\ UNCHANGED <<base, overridden>>
    /\ docs'[a].trace = request[c].trace /\ docs'[a].metadata = {}
    /\ \E k \in Kinds : docs'[a].kinds = {k}
    /\ CouldWrite(c, a) /\ Wrote(c, a, request[c].trace)'
    /\ \A d \in Calls : d # c => pc'[d] = pc[d]

Inserted(c, a) ==
    /\ Written(c, a)
    /\ OpOf(c) = "create" /\ a = request[c].id /\ a \notin DOMAIN docs
    /\ docs'[a].valid /\ docs'[a].overrides = request[c].overrides
    /\ pc[c] = "insert" /\ pc'[c] = "reply"

Replaced(c, a) ==
    /\ Written(c, a)
    /\ OpOf(c) = "start_trace"
    /\ a \in DOMAIN docs => docs[a].trace = request[c].trace
    /\ pc[c] = "replace" /\ pc'[c] \in {"read", "replace"}

Removed(c, a) ==
    /\ DOMAIN docs' = DOMAIN docs \ {a}
    /\ a \in DOMAIN docs /\ docs[a].trace = request[c].trace
    /\ OthersKept(a)
    /\ UNCHANGED <<base, overridden>>
    /\ \A d \in Calls : d # c => pc'[d] = pc[d]

(* c sets the validity of document a, and nothing else of it.              *)
Validated(c, a, v) ==
    /\ a \in DOMAIN docs /\ docs[a].trace = request[c].trace
    /\ DOMAIN docs' = DOMAIN docs
    /\ docs'[a].trace = docs[a].trace /\ docs'[a].overrides = docs[a].overrides
    /\ docs'[a].metadata = docs[a].metadata /\ docs'[a].kinds = docs[a].kinds
    /\ docs'[a].valid = v
    /\ author'[a] = author[a] /\ validBy'[a] = c
    /\ OthersKept(a)
    /\ UNCHANGED overridden
    /\ \A d \in Calls : d # c => pc'[d] = pc[d] /\ base'[d] = base[d]

LEMMA InsertsFacts ==
    ASSUME TypeOK, PhaseInv, TodoInv, NEW c \in Calls, Inserts(c)
    PROVE  \E a \in Ids : Inserted(c, a)
<1>1. /\ pc[c] = "insert" /\ pc' = [pc EXCEPT ![c] = "reply"]
      /\ request[c].id \notin DOMAIN docs
      /\ Put(c, request[c].id, NewDocument(request[c]))
      /\ UNCHANGED <<request, todo, overridden>>
  BY DEF Inserts, Goes
<1>2. OpOf(c) = "create" /\ CouldWrite(c, request[c].id)
  BY WritersOnce
<1>3. PICK a \in Ids : a = request[c].id
  BY RequestTypes DEF Request
<1>4. Wrote(c, a, request[c].trace)'
  BY <1>1, <1>3, WritersOnce
<1>5. \E k \in Kinds : request[c].kinds = {k}
  <2>1. /\ request[c].kinds \subseteq Kinds /\ request[c].kinds # {}
        /\ Cardinality(request[c].kinds) <= 1
    BY RequestTypes, <1>2 DEF Request, WellFormed, OpOf
  <2> QED
    BY <2>1, FewKinds
<1>6. PICK doc : doc = NewDocument(request[c])
  OBVIOUS
<1>7. /\ DOMAIN docs' = DOMAIN docs \union {a}
      /\ docs'[a] = doc /\ author'[a] = c /\ validBy'[a] = c
      /\ OthersKept(a)
      /\ base' = base
  <2>1. Put(c, a, doc)
    BY <1>1, <1>3, <1>6
  <2> QED
    BY ONLY <2>1, TypeOK, PutFacts
<1>8. /\ doc.trace = request[c].trace /\ doc.metadata = {} /\ doc.valid
      /\ doc.overrides = request[c].overrides
      /\ \E k \in Kinds : doc.kinds = {k}
  BY ONLY <1>5, <1>6 DEF NewDocument
<1>9. pc'[c] = "reply" /\ \A d \in Calls : d # c => pc'[d] = pc[d]
  BY <1>1 DEF TypeOK
<1>10. Written(c, a)
  BY ONLY <1>1, <1>2, <1>3, <1>4, <1>7, <1>8, <1>9 DEF Written
<1>11. a \notin DOMAIN docs /\ a = request[c].id /\ pc[c] = "insert" /\ OpOf(c) = "create"
  BY <1>1, <1>2, <1>3
<1> QED
  BY ONLY <1>7, <1>8, <1>9, <1>10, <1>11, a \in Ids DEF Inserted

LEMMA ReplacesFacts ==
    ASSUME TypeOK, PhaseInv, TodoInv, NEW c \in Calls, NEW p, Replaces(c, p)
    PROVE  \E a \in Ids : Replaced(c, a)
<1>1. /\ pc[c] = "replace" /\ pc' = [pc EXCEPT ![c] = p] /\ p \in {"read", "replace"}
      /\ todo[c] # <<>>
      /\ Put(c, Head(todo[c]).id, Reported(c, Head(todo[c])))
      /\ Head(todo[c]).id \in DOMAIN docs =>
            docs[Head(todo[c]).id].trace = request[c].trace
      /\ UNCHANGED <<request, overridden>>
  BY DEF Replaces, Goes, Stored
<1>2. Head(todo[c]) \in Supplied /\ \E k \in Kinds : Head(todo[c]).kinds = {k}
  BY <1>1, FirstPending
<1>3. PICK a \in Ids : a = Head(todo[c]).id
  BY <1>2 DEF Supplied
<1>4. CouldWrite(c, a) /\ Wrote(c, a, request[c].trace)' /\ OpOf(c) = "start_trace"
  BY <1>3, WritersOnce
<1>5. PICK doc : doc = Reported(c, Head(todo[c]))
  OBVIOUS
<1>6. /\ DOMAIN docs' = DOMAIN docs \union {a}
      /\ docs'[a] = doc /\ author'[a] = c /\ validBy'[a] = c
      /\ OthersKept(a)
      /\ base' = base
  <2>1. Put(c, a, doc)
    BY <1>1, <1>3, <1>5
  <2> QED
    BY ONLY <2>1, TypeOK, PutFacts
<1>7. /\ doc.trace = request[c].trace /\ doc.metadata = {}
      /\ \E k \in Kinds : doc.kinds = {k}
  BY ONLY <1>2, <1>5 DEF Reported
<1>8. pc'[c] = p /\ \A d \in Calls : d # c => pc'[d] = pc[d]
  BY <1>1 DEF TypeOK
<1>9. /\ a \in DOMAIN docs => docs[a].trace = request[c].trace
      /\ pc[c] = "replace" /\ p \in {"read", "replace"} /\ overridden' = overridden
  BY <1>1, <1>3
<1>10. Written(c, a)
  BY ONLY <1>4, <1>6, <1>7, <1>8, <1>9 DEF Written
<1> QED
  BY ONLY <1>4, <1>8, <1>9, <1>10, a \in Ids DEF Replaced

LEMMA RemovalFacts ==
    ASSUME TypeOK, NEW c \in Calls
    PROVE  /\ Deletes(c) => Removed(c, request[c].id) /\ pc[c] = "delete" /\ pc'[c] = "reply"
           /\ \A a \in Ids : Purges(c, a) =>
                 Removed(c, a) /\ pc[c] = "purge" /\ pc' = pc
BY RemoveFacts DEF Deletes, Purges, Removed, Goes, Found, Stored, TypeOK

LEMMA MarksFacts ==
    ASSUME TypeOK, NEW c \in Calls, Marks(c)
    PROVE  \E a \in Ids : /\ Validated(c, a, FALSE) /\ a = request[c].overrides
                          /\ base'[c] = author[a]
                          /\ pc[c] = "invalidate" /\ pc'[c] = "insert"
<1>1. PICK a \in Ids : a = request[c].overrides
  BY DEF Marks, Stored, TypeOK
<1>2. /\ pc[c] = "invalidate" /\ pc' = [pc EXCEPT ![c] = "insert"]
      /\ a \in DOMAIN docs /\ docs[a].trace = request[c].trace
      /\ SetValid(c, a, FALSE)
      /\ base' = [base EXCEPT ![c] = author[a]]
      /\ UNCHANGED <<request, todo, overridden, author>>
  BY <1>1 DEF Marks, Stored, Remembers, Goes
<1>3. PICK v : v = FALSE
  OBVIOUS
<1>4. SetValid(c, a, v)
  BY <1>2, <1>3
<1>5. /\ pc'[c] = "insert" /\ base'[c] = author[a] /\ overridden' = overridden
      /\ \A d \in Calls : d # c => pc'[d] = pc[d] /\ base'[d] = base[d]
  BY <1>2 DEF TypeOK
<1>6. /\ DOMAIN docs' = DOMAIN docs
      /\ docs'[a].trace = docs[a].trace /\ docs'[a].overrides = docs[a].overrides
      /\ docs'[a].metadata = docs[a].metadata /\ docs'[a].kinds = docs[a].kinds
      /\ docs'[a].valid = v
      /\ author'[a] = author[a]
      /\ validBy'[a] = c
      /\ OthersKept(a)
  <2>1. a \in DOMAIN docs /\ author' = author
    BY <1>2
  <2> QED
    BY ONLY <1>4, <2>1, TypeOK, SetValidFacts
<1>7. Validated(c, a, v)
  BY ONLY <1>2, <1>5, <1>6 DEF Validated
<1> QED
  BY <1>1, <1>2, <1>3, <1>5, <1>7

LEMMA RestoresFacts ==
    ASSUME TypeOK, NEW c \in Calls, Restores(c)
    PROVE  \E a \in Ids : /\ Validated(c, a, TRUE) /\ a = overridden[c]
                          /\ base' = base
                          /\ pc[c] = "restore" /\ pc'[c] = "delete"
<1>1. PICK a \in Ids : a = overridden[c]
  BY DEF Restores, Stored, TypeOK
<1>2. /\ pc[c] = "restore" /\ pc' = [pc EXCEPT ![c] = "delete"]
      /\ a \in DOMAIN docs /\ docs[a].trace = request[c].trace
      /\ SetValid(c, a, TRUE)
      /\ UNCHANGED <<request, todo, overridden, author, base>>
  BY <1>1 DEF Restores, Stored, Goes
<1>3. PICK v : v = TRUE
  OBVIOUS
<1>4. SetValid(c, a, v)
  BY <1>2, <1>3
<1>5. /\ pc'[c] = "delete" /\ overridden' = overridden /\ base' = base
      /\ \A d \in Calls : d # c => pc'[d] = pc[d] /\ base'[d] = base[d]
  BY <1>2 DEF TypeOK
<1>6. /\ DOMAIN docs' = DOMAIN docs
      /\ docs'[a].trace = docs[a].trace /\ docs'[a].overrides = docs[a].overrides
      /\ docs'[a].metadata = docs[a].metadata /\ docs'[a].kinds = docs[a].kinds
      /\ docs'[a].valid = v
      /\ author'[a] = author[a]
      /\ validBy'[a] = c
      /\ OthersKept(a)
  <2>1. a \in DOMAIN docs /\ author' = author
    BY <1>2
  <2> QED
    BY ONLY <1>4, <2>1, TypeOK, SetValidFacts
<1>7. Validated(c, a, v)
  BY ONLY <1>2, <1>5, <1>6 DEF Validated
<1> QED
  BY <1>1, <1>2, <1>3, <1>5, <1>7

(* Nothing happens to the documents.                                       *)
DocumentsKept == UNCHANGED <<docs, author, validBy>>

(* A step of c is none of the other calls.                                 *)
OthersStay(c) ==
    /\ request' = request
    /\ \A d \in Calls : d # c => /\ pc'[d] = pc[d] /\ base'[d] = base[d]
                                 /\ overridden'[d] = overridden[d]

(* c adds its metadata, and maybe a kind, to document a.                   *)
Applied(c, a) ==
    /\ a = request[c].id /\ a \in DOMAIN docs /\ docs[a].trace = request[c].trace
    /\ DOMAIN docs' = DOMAIN docs
    /\ \A x \in DOMAIN docs : x # a => docs'[x] = docs[x]
    /\ docs'[a].trace = docs[a].trace /\ docs'[a].overrides = docs[a].overrides
    /\ docs'[a].valid = docs[a].valid
    /\ docs'[a].kinds = docs[a].kinds \union request[c].kinds
    /\ docs'[a].metadata = docs[a].metadata \union {c}
    /\ pc[c] = "apply" /\ pc'[c] = "reply"
    /\ UNCHANGED <<author, validBy, base, overridden>>

LEMMA AppliesFacts ==
    ASSUME TypeOK, NEW c \in Calls, Applies(c)
    PROVE  \E a \in Ids : Applied(c, a)
<1>1. PICK a \in Ids : a = request[c].id
  BY DEF Applies, Found, Stored, TypeOK
<1>2. /\ pc[c] = "apply" /\ pc' = [pc EXCEPT ![c] = "reply"]
      /\ a \in DOMAIN docs /\ docs[a].trace = request[c].trace
      /\ docs' = [docs EXCEPT ![a].kinds = @ \union request[c].kinds,
                              ![a].metadata = @ \union {c}]
      /\ UNCHANGED <<author, validBy, base, overridden>>
  BY <1>1 DEF Applies, Found, Stored, Goes, history
<1>3. docs[a] \in Document
  BY <1>2 DEF TypeOK
<1>4. PICK doc : doc = [docs[a] EXCEPT !.kinds = @ \union request[c].kinds,
                                       !.metadata = @ \union {c}]
  OBVIOUS
<1>5. docs' = [docs EXCEPT ![a] = doc]
  BY <1>2, <1>4
<1>6. /\ doc.trace = docs[a].trace /\ doc.overrides = docs[a].overrides
      /\ doc.valid = docs[a].valid
      /\ doc.kinds = docs[a].kinds \union request[c].kinds
      /\ doc.metadata = docs[a].metadata \union {c}
  BY <1>3, <1>4 DEF Document
<1>7. /\ DOMAIN docs' = DOMAIN docs /\ docs'[a] = doc
      /\ \A x \in DOMAIN docs : x # a => docs'[x] = docs[x]
  BY <1>2, <1>5
<1>8. pc'[c] = "reply"
  BY <1>2 DEF TypeOK
<1> QED
  BY ONLY <1>1, <1>2, <1>6, <1>7, <1>8, a \in Ids DEF Applied

LEMMA OthersFacts ==
    ASSUME TypeOK, PhaseInv, TodoInv, NEW c \in Calls, CallEffect(c)
    PROVE  OthersStay(c)
<1>1. request' = request
  BY WroteStays
<1>2. pc' = pc \/ \E p \in Phases : Goes(c, p)
  BY DEF CallEffect, Moves, Checks, Finds, Replaces, Marks, Inserts, Applies, Restores,
         Skips, Deletes, Purges, Phases, Goes
<1>3. base' = base \/ \E b : base' = [base EXCEPT ![c] = b]
  BY DEF CallEffect, Moves, Checks, Finds, Replaces, Marks, Inserts, Applies, Restores,
         Skips, Deletes, Purges, Remembers, history, Put, Remove
<1>4. overridden' = overridden \/ \E x : overridden' = [overridden EXCEPT ![c] = x]
  BY DEF CallEffect, Moves, Checks, Finds, Replaces, Marks, Inserts, Applies, Restores,
         Skips, Deletes, Purges
<1> QED
  BY <1>1, <1>2, <1>3, <1>4 DEF OthersStay, Goes, TypeOK

(* Where a document comes from.                                            *)
Same(a) ==
    /\ a \in DOMAIN docs
    /\ author'[a] = author[a] /\ docs'[a].trace = docs[a].trace
    /\ docs'[a].overrides = docs[a].overrides

LEMMA DocumentOrigin ==
    ASSUME TypeOK, PhaseInv, TodoInv, NEW c \in Calls, CallEffect(c),
           NEW a \in DOMAIN docs'
    PROVE  Same(a) \/ Inserted(c, a) \/ Replaced(c, a)
<1>1. CASE DocumentsKept
  BY <1>1 DEF DocumentsKept, Same
<1>2. CASE Marks(c) \/ Restores(c)
  <2>1. PICK x, v : Validated(c, x, v)
    BY <1>2, MarksFacts, RestoresFacts
  <2> QED
    BY <2>1 DEF Validated, OthersKept, Same
<1>3. CASE Applies(c)
  <2>1. PICK x \in Ids : Applied(c, x)
    BY <1>3, AppliesFacts
  <2> QED
    BY <2>1 DEF Applied, Same
<1>4. CASE Inserts(c)
  <2>1. PICK x \in Ids : Inserted(c, x)
    BY <1>4, InsertsFacts
  <2>2. DOMAIN docs' = DOMAIN docs \union {x} /\ OthersKept(x)
    BY <2>1 DEF Inserted, Written
  <2> QED
    BY <2>1, <2>2 DEF OthersKept, Same
<1>5. CASE \E p \in Phases : Replaces(c, p)
  <2>1. PICK x \in Ids : Replaced(c, x)
    BY <1>5, ReplacesFacts
  <2>2. DOMAIN docs' = DOMAIN docs \union {x} /\ OthersKept(x)
    BY <2>1 DEF Replaced, Written
  <2> QED
    BY <2>1, <2>2 DEF OthersKept, Same
<1>6. CASE Deletes(c) \/ \E x \in Ids : Purges(c, x)
  <2>1. PICK x : Removed(c, x)
    BY <1>6, RemovalFacts
  <2> QED
    BY <2>1 DEF Removed, OthersKept, Same
<1>7. CASE Skips(c) \/ \E p \in Phases : Moves(c, p) \/ Checks(c, p) \/ Finds(c, p)
  BY <1>1, <1>7 DEF Skips, Moves, Checks, Finds, DocumentsKept, history
<1> QED
  BY <1>2, <1>3, <1>4, <1>5, <1>6, <1>7 DEF CallEffect

(* What a call remembers is the author of the document it found.           *)
LEMMA BaseOrigin ==
    ASSUME TypeOK, PhaseInv, TodoInv, NEW c \in Calls, CallEffect(c)
    PROVE  \/ base'[c] = base[c]
           \/ /\ pc[c] \in {"invalidate", "find", "find_deleted"}
              /\ BaseId(c) \in DOMAIN docs
              /\ docs[BaseId(c)].trace = request[c].trace
              /\ base'[c] = author[BaseId(c)]
<1> USE OperationOfPhase DEF BaseId, OpOf
<1>1. CASE Marks(c)
  BY <1>1 DEF Marks, Remembers, Stored, TypeOK
<1>2. CASE \E p \in Phases : Checks(c, p) \/ Finds(c, p)
  BY <1>2 DEF Checks, Finds, Remembers, Found, Stored, TypeOK
<1>3. CASE base' = base
  BY <1>3
<1> QED
  BY <1>1, <1>2, <1>3 DEF CallEffect, Moves, Replaces, Inserts, Applies, Restores,
         Skips, Deletes, Purges, history, Put, Remove

LEMMA AuthorStep ==
    ASSUME TypeOK, PhaseInv, TodoInv, AuthorInv, BaseInv, NEW c \in Calls, CallEffect(c)
    PROVE  AuthorInv'
<1>0. OthersStay(c) /\ base \in [Calls -> Calls] /\ author \in [DOMAIN docs -> Calls]
  BY OthersFacts DEF TypeOK
<1>1. ASSUME NEW b \in Calls, OpOf(b) = "create", base[b] # b, NEW x, Wrote(b, x, request[b].trace)
      PROVE  base'[b] # b
  <2>1. CASE base'[b] = base[b]
    BY <1>1, <2>1
  <2>2. CASE b = c /\ base'[c] # base[c]
    <3>1. pc[c] = "invalidate"
      BY <1>1, <2>2, BaseOrigin, OperationOfPhase
    <3> QED
      BY <1>1, <2>2, <3>1 DEF Wrote, CouldWrite, OpOf, Returned
  <2> QED
    BY <1>0, <2>1, <2>2 DEF OthersStay
<1>2. ASSUME NEW a \in DOMAIN docs'
      PROVE  \E b, t : /\ b = author'[a] /\ t = docs'[a].trace
                       /\ Wrote(b, a, t)'
                       /\ OpOf(b) = "create" =>
                             /\ docs'[a].overrides = request[b].overrides
                             /\ docs'[a].overrides # None => base'[b] # b
  <2>1. CASE Same(a)
    <3>1. PICK b, t : b \in Calls /\ b = author[a] /\ t = docs[a].trace
      BY <1>0, <2>1 DEF Same
    <3>2. Wrote(b, a, t)
      BY <2>1, <3>1 DEF Same, AuthorInv
    <3>3. Wrote(b, a, t)'
      BY <3>1, <3>2, WroteStays
    <3>4. OpOf(b) = "create" =>
             /\ docs[a].overrides = request[b].overrides
             /\ docs[a].overrides # None => base[b] # b
      BY <2>1, <3>1 DEF Same, AuthorInv
    <3>5. Wrote(b, a, request[b].trace)
      BY <3>2 DEF Wrote
    <3> QED
      BY <1>1, <2>1, <3>1, <3>3, <3>4, <3>5 DEF Same
  <2>2. CASE Inserted(c, a)
    <3>1. PICK t : t = docs'[a].trace
      OBVIOUS
    <3>2. t = request[c].trace /\ author'[a] = c /\ Wrote(c, a, t)' /\ base' = base
      BY <1>0, <2>2, <3>1 DEF Inserted, Written, OthersStay
    <3>3. docs'[a].overrides = request[c].overrides
      BY <2>2 DEF Inserted
    <3>4. request[c].overrides # None => base[c] # c
      BY <2>2 DEF Inserted, BaseInv, Remembered
    <3> QED
      BY <3>1, <3>2, <3>3, <3>4
  <2>3. CASE Replaced(c, a)
    <3>1. PICK t : t = docs'[a].trace
      OBVIOUS
    <3>2. /\ t = request[c].trace /\ author'[a] = c /\ Wrote(c, a, t)'
          /\ OpOf(c) = "start_trace"
      BY <1>0, <2>3, <3>1 DEF Replaced, Written, OthersStay
    <3> QED
      BY <3>1, <3>2
  <2> QED
    BY <2>1, <2>2, <2>3, DocumentOrigin
<1>3. ASSUME NEW a \in DOMAIN docs'
      PROVE  (/\ Wrote(author[a], a, docs[a].trace)
              /\ OpOf(author[a]) = "create" =>
                    /\ docs[a].overrides = request[author[a]].overrides
                    /\ docs[a].overrides # None => base[author[a]] # author[a])'
  <2>1. PICK b, t : /\ b = author'[a] /\ t = docs'[a].trace
                    /\ Wrote(b, a, t)'
                    /\ OpOf(b) = "create" =>
                          /\ docs'[a].overrides = request[b].overrides
                          /\ docs'[a].overrides # None => base'[b] # b
    BY <1>2
  <2>2. request' = request
    BY <1>0 DEF OthersStay
  <2> QED
    BY ONLY <2>1, <2>2 DEF Wrote, CouldWrite, OpOf
<1> QED
  BY <1>3 DEF AuthorInv

LEMMA BaseStep ==
    ASSUME TypeOK, PhaseInv, TodoInv, AuthorInv, BaseInv, NEW c \in Calls, CallEffect(c)
    PROVE  BaseInv'
<1>0. OthersStay(c) /\ base \in [Calls -> Calls]
  BY OthersFacts DEF TypeOK
<1>1. ASSUME NEW d \in Calls, base'[d] = base[d], overridden'[d] = overridden[d],
             \/ pc'[d] = pc[d]
             \/ OpOf(d) = "create" /\ (pc'[d] = "insert" => request[d].overrides = None)
             \/ OpOf(d) = "delete" /\ pc'[d] \in {"find_trace", "find_deleted"}
                /\ pc[d] \in {"idle", "find_trace"}
             \/ OpOf(d) = "delete" /\ pc'[d] = "delete" /\ pc[d] = "restore"
             \/ OpOf(d) = "delete"
                /\ pc'[d] \notin {"idle", "find_trace", "find_deleted", "restore", "delete"}
             \/ OpOf(d) \notin {"create", "delete"}
      PROVE  Remembered(d)'
  <2>1. PICK b, a, t : b = base[d] /\ a = BaseId(d) /\ t = request[d].trace
    OBVIOUS
  <2>2. Remembered(d) /\ request' = request /\ b \in Calls
    BY <1>0, <2>1 DEF BaseInv, OthersStay
  <2>3. b # d => OpOf(d) \in {"create", "update", "delete"} /\ Wrote(b, a, t)'
    BY <2>1, <2>2, WroteStays DEF Remembered
  <2> QED
    BY ONLY <1>1, <2>1, <2>2, <2>3 DEF Remembered, BaseId, Wrote, CouldWrite, OpOf
<1>2. ASSUME NEW a \in DOMAIN docs, a = BaseId(c), docs[a].trace = request[c].trace,
             base'[c] = author[a], OpOf(c) \in {"create", "update", "delete"},
             OpOf(c) = "create" => pc[c] \notin Returned,
             OpOf(c) = "delete" =>
                /\ overridden'[c] = docs[a].overrides
                /\ pc'[c] \notin {"idle", "find_trace", "find_deleted"}
      PROVE  Remembered(c)'
  <2>1. PICK b, t : b = author[a] /\ t = docs[a].trace
    OBVIOUS
  <2>2. Wrote(b, a, t) /\ (OpOf(b) = "create" => docs[a].overrides = request[b].overrides)
    BY <2>1 DEF AuthorInv
  <2>3. b # c /\ b \in Calls
    BY <1>2, <2>1, <2>2 DEF Wrote, CouldWrite, TypeOK
  <2>4. Wrote(b, a, t)' /\ request' = request
    BY <2>2, <2>3, WroteStays
  <2>5. base'[c] = b /\ t = request[c].trace
    BY <1>2, <2>1
  <2>6. (Wrote(base[c], BaseId(c), request[c].trace))'
    BY ONLY <1>2, <2>4, <2>5 DEF BaseId, Wrote, CouldWrite, OpOf
  <2>7. /\ (OpOf(c) \in {"create", "update", "delete"})'
        /\ base'[c] # c
    BY ONLY <1>2, <2>3, <2>4, <2>5 DEF OpOf
  <2>8. (OpOf(c) = "delete" =>
           /\ pc[c] \notin {"idle", "find_trace", "find_deleted"}
           /\ OpOf(base[c]) = "create" => overridden[c] = request[base[c]].overrides)'
    BY ONLY <1>2, <2>2, <2>4, <2>5 DEF OpOf
  <2> QED
    BY ONLY <2>6, <2>7, <2>8 DEF Remembered
<1>3. ASSUME NEW d \in Calls, d # c
      PROVE  Remembered(d)'
  BY <1>0, <1>1, <1>3 DEF OthersStay
<1>4. Remembered(c)'
  <2>0. pc \in [Calls -> Phases] /\ overridden \in [Calls -> Ids \union {None}]
    BY DEF TypeOK
  <2> USE <1>0, <2>0, OperationOfPhase DEF Returned
  <2>1. ASSUME NEW p \in Phases, Moves(c, p)
        PROVE  Remembered(c)'
    <3>1. /\ base'[c] = base[c] /\ overridden'[c] = overridden[c] /\ pc'[c] = p
          /\ p = "insert" => request[c].overrides = None
          /\ p \notin {"idle", "restore", "delete"}
          /\ p \in {"find_trace", "find_deleted"} => pc[c] \in {"idle", "find_trace"}
      BY <2>1 DEF Moves, Goes, history
    <3> QED
      BY <1>1, <3>1 DEF Ops
  <2>2. CASE Marks(c)
    <3>1. PICK a \in Ids : /\ Validated(c, a, FALSE) /\ a = request[c].overrides
                           /\ base'[c] = author[a]
                           /\ pc[c] = "invalidate" /\ pc'[c] = "insert"
      BY <2>2, MarksFacts
    <3> QED
      BY <1>2, <3>1 DEF Validated, BaseId
  <2>3. ASSUME NEW p \in Phases, Checks(c, p)
        PROVE  Remembered(c)'
    <3>1. /\ pc[c] = "find" /\ base'[c] = author[request[c].id]
          /\ request[c].id \in DOMAIN docs
          /\ docs[request[c].id].trace = request[c].trace
      BY <2>3 DEF Checks, Remembers, Found, Stored
    <3> QED
      BY <1>2, <3>1 DEF BaseId
  <2>4. ASSUME NEW p \in Phases, Finds(c, p)
        PROVE  Remembered(c)'
    <3>1. /\ pc[c] = "find_deleted" /\ base'[c] = author[request[c].id]
          /\ request[c].id \in DOMAIN docs
          /\ docs[request[c].id].trace = request[c].trace
          /\ overridden'[c] = docs[request[c].id].overrides
          /\ pc'[c] \in {"restore", "delete"}
      BY <2>4 DEF Finds, Remembers, Found, Stored, Goes
    <3> QED
      BY <1>2, <3>1 DEF BaseId
  <2>5. CASE Inserts(c)
    BY <1>1, <2>5, InsertsFacts DEF Inserted, Written
  <2>6. CASE Applies(c)
    BY <1>1, <2>6, AppliesFacts DEF Applied
  <2>7. CASE Restores(c)
    BY <1>1, <2>7, RestoresFacts DEF Validated
  <2>8. CASE Skips(c)
    BY <1>1, <2>8 DEF Skips, Goes, history
  <2>9. CASE Deletes(c)
    BY <1>1, <2>9, RemovalFacts DEF Removed
  <2>10. ASSUME NEW a \in Ids, Purges(c, a)
         PROVE  Remembered(c)'
    BY <1>1, <2>10, RemovalFacts DEF Removed
  <2>11. ASSUME NEW p \in Phases, Replaces(c, p)
         PROVE  Remembered(c)'
    <3>1. PICK a \in Ids : Replaced(c, a)
      BY <2>11, ReplacesFacts
    <3> QED
      BY <1>1, <3>1 DEF Replaced, Written
  <2> QED
    BY <2>1, <2>2, <2>3, <2>4, <2>5, <2>6, <2>7, <2>8, <2>9, <2>10, <2>11 DEF CallEffect
<1> QED
  BY <1>3, <1>4 DEF BaseInv

-----------------------------------------------------------------------------
(***************************************************************************)
(* What is overridden is invalid.                                          *)
(***************************************************************************)

(* Document x stays as valid as it was.                                    *)
KeptValid(x) ==
    /\ x \in DOMAIN docs /\ docs'[x].valid = docs[x].valid
    /\ docs'[x].trace = docs[x].trace
    /\ author'[x] = author[x] /\ validBy'[x] = validBy[x]

(* c is a creation that marks x, or a deletion that restores it.           *)
Marked(c, x) ==
    /\ Validated(c, x, FALSE) /\ x = request[c].overrides /\ base'[c] = author[x]
    /\ OpOf(c) = "create" /\ pc[c] = "invalidate" /\ pc'[c] = "insert"

Restored(c, x) ==
    /\ Validated(c, x, TRUE) /\ x = overridden[c] /\ base' = base
    /\ OpOf(c) = "delete" /\ pc[c] = "restore" /\ pc'[c] = "delete"

LEMMA MarkedFacts ==
    ASSUME TypeOK, PhaseInv, NEW c \in Calls
    PROVE  /\ Marks(c) => \E x \in Ids : Marked(c, x)
           /\ Restores(c) => \E x \in Ids : Restored(c, x)
BY MarksFacts, RestoresFacts, OperationOfPhase DEF Marked, Restored

LEMMA ValidityOrigin ==
    ASSUME TypeOK, PhaseInv, TodoInv, NEW c \in Calls, CallEffect(c),
           NEW x \in DOMAIN docs'
    PROVE  \/ KeptValid(x) \/ Marked(c, x) \/ Restored(c, x)
           \/ x \in Ids /\ (Inserted(c, x) \/ Replaced(c, x))
<1>1. CASE DocumentsKept
  BY <1>1 DEF DocumentsKept, KeptValid
<1>2. CASE Marks(c)
  <2>1. PICK a \in Ids : Marked(c, a)
    BY <1>2, MarkedFacts
  <2> QED
    BY <2>1 DEF Marked, Validated, OthersKept, KeptValid
<1>3. CASE Restores(c)
  <2>1. PICK a \in Ids : Restored(c, a)
    BY <1>3, MarkedFacts
  <2> QED
    BY <2>1 DEF Restored, Validated, OthersKept, KeptValid
<1>4. CASE Applies(c)
  <2>1. PICK a \in Ids : Applied(c, a)
    BY <1>4, AppliesFacts
  <2> QED
    BY <2>1 DEF Applied, KeptValid
<1>5. CASE Inserts(c)
  <2>1. PICK a \in Ids : Inserted(c, a)
    BY <1>5, InsertsFacts
  <2>2. DOMAIN docs' = DOMAIN docs \union {a} /\ OthersKept(a)
    BY <2>1 DEF Inserted, Written
  <2> QED
    BY <2>1, <2>2 DEF OthersKept, KeptValid
<1>6. CASE \E p \in Phases : Replaces(c, p)
  <2>1. PICK a \in Ids : Replaced(c, a)
    BY <1>6, ReplacesFacts
  <2>2. DOMAIN docs' = DOMAIN docs \union {a} /\ OthersKept(a)
    BY <2>1 DEF Replaced, Written
  <2> QED
    BY <2>1, <2>2 DEF OthersKept, KeptValid
<1>7. CASE Deletes(c) \/ \E a \in Ids : Purges(c, a)
  <2>1. PICK a : Removed(c, a)
    BY <1>7, RemovalFacts
  <2> QED
    BY <2>1 DEF Removed, OthersKept, KeptValid
<1>8. CASE Skips(c) \/ \E p \in Phases : Moves(c, p) \/ Checks(c, p) \/ Finds(c, p)
  BY <1>1, <1>8 DEF Skips, Moves, Checks, Finds, DocumentsKept, history
<1> QED
  BY <1>2, <1>3, <1>4, <1>5, <1>6, <1>7, <1>8 DEF CallEffect

(* A creation becomes one that overrides by marking.                       *)
LEMMA OverriderOrigin ==
    ASSUME TypeOK, PhaseInv, TodoInv, NEW c \in Calls, CallEffect(c),
           NEW d \in Calls, Overrider(d)'
    PROVE  \/ Overrider(d)
           \/ request[d].overrides = None
           \/ d = c /\ \E x \in Ids : Marked(c, x)
<1>0. OthersStay(c) /\ OpOf(d) = "create" /\ pc \in [Calls -> Phases]
  BY OthersFacts DEF Overrider, OpOf, OthersStay, TypeOK
<1>1. CASE d # c /\ pc'[d] = "insert"
  BY <1>0, <1>1 DEF Overrider, OthersStay
<1>2. CASE d = c /\ pc'[c] = "insert"
  <2>1. CASE Marks(c)
    BY <1>2, <2>1, MarkedFacts
  <2>2. ASSUME NEW p \in Phases, Moves(c, p)
        PROVE  request[d].overrides = None
    BY <1>0, <1>2, <2>2 DEF Moves, Goes
  <2>3. CASE pc' = pc
    BY <1>0, <1>2, <2>3 DEF Overrider
  <2> QED
    BY <1>0, <1>2, <2>1, <2>2, <2>3
       DEF CallEffect, Checks, Finds, Replaces, Inserts, Applies, Restores, Skips,
           Deletes, Purges, Goes
<1>3. CASE request[d].id \in DOMAIN docs' /\ author'[request[d].id] = d
  <2>1. PICK a : a = request[d].id
    OBVIOUS
  <2>2. Same(a) \/ Inserted(c, a) \/ Replaced(c, a)
    BY <1>3, <2>1, DocumentOrigin
  <2> QED
    BY <1>0, <1>3, <2>1, <2>2 DEF Same, Inserted, Replaced, Written, Overrider
<1> QED
  BY <1>0, <1>1, <1>2, <1>3 DEF Overrider, OthersStay

(* What an overriding creation remembers.                                  *)
LEMMA OverriderKnows ==
    ASSUME TypeOK, PhaseInv, AuthorInv, BaseInv, NEW d \in Calls, Overrider(d)
    PROVE  /\ OpOf(d) = "create" /\ pc[d] \notin {"invalidate", "find", "find_deleted"}
           /\ request[d].overrides # None =>
                 base[d] # d /\ base[d] \in Calls
                 /\ Wrote(base[d], request[d].overrides, request[d].trace)
           /\ \A v \in Calls : base[v] = d /\ v # d /\ OpOf(v) = "delete" =>
                 /\ pc[d] # "insert"
                 /\ request[d].id = request[v].id
                 /\ Found(v)
<1>1. OpOf(d) = "create" /\ Remembered(d) /\ base \in [Calls -> Calls]
  BY DEF Overrider, BaseInv, TypeOK
<1>2. CASE pc[d] = "insert"
  <2>1. ASSUME NEW v \in Calls, base[v] = d, v # d, OpOf(v) = "delete"
        PROVE  FALSE
    <3>1. Wrote(d, request[v].id, request[v].trace)
      BY <2>1 DEF BaseInv, Remembered, BaseId
    <3> QED
      BY <1>1, <1>2, <3>1 DEF Wrote, CouldWrite, Returned
  <2> QED
    BY <1>1, <1>2, <2>1 DEF Remembered, BaseId
<1>3. CASE request[d].id \in DOMAIN docs /\ author[request[d].id] = d
  <2>1. PICK a : a = request[d].id
    OBVIOUS
  <2>2. Wrote(d, a, docs[a].trace) /\ docs[a].overrides = request[d].overrides
        /\ (docs[a].overrides # None => base[d] # d)
    BY <1>1, <1>3, <2>1 DEF AuthorInv
  <2>3. docs[a].trace = request[d].trace /\ pc[d] \in Returned
    BY <1>1, <2>1, <2>2 DEF Wrote, CouldWrite
  <2>4. ASSUME NEW v \in Calls, base[v] = d, v # d, OpOf(v) = "delete"
        PROVE  pc[d] # "insert" /\ request[d].id = request[v].id /\ Found(v)
    <3>1. Wrote(d, request[v].id, request[v].trace)
      BY <2>4 DEF BaseInv, Remembered, BaseId
    <3> QED
      BY <1>1, <1>3, <2>1, <2>3, <3>1 DEF Wrote, Found, Stored, Returned
  <2> QED
    BY <1>1, <2>1, <2>2, <2>3, <2>4 DEF Remembered, BaseId, Returned
<1> QED
  BY <1>2, <1>3 DEF Overrider

(* A deletion that has found what its assessment overrides keeps it, and    *)
(* returns when the assessment is removed.                                 *)
LEMMA DeletionGoesOn ==
    ASSUME TypeOK, PhaseInv, TodoInv, BaseInv, NEW c \in Calls, CallEffect(c),
           NEW v \in Calls, OpOf(v) = "delete", overridden[v] # None
    PROVE  /\ base'[v] = base[v] /\ overridden'[v] = overridden[v]
           /\ pc'[v] \in {"reply", "done"} =>
                 \/ pc[v] \in {"reply", "done"}
                 \/ ~Found(v)
                 \/ v = c /\ Removed(c, request[c].id)
<1>0. OthersStay(c) /\ Remembered(v) /\ pc \in [Calls -> Phases]
  BY OthersFacts DEF BaseInv, TypeOK
<1>1. CASE v # c
  BY <1>0, <1>1 DEF OthersStay
<1>2. CASE v = c
  <2>1. pc[c] \notin {"idle", "find_trace", "find_deleted", "invalidate", "find"}
    BY <1>0, <1>2, OperationOfPhase DEF Remembered
  <2>2. base'[c] = base[c]
    BY <2>1, BaseOrigin
  <2>3. overridden'[c] = overridden[c]
    BY <2>1 DEF CallEffect, Moves, Checks, Finds, Replaces, Marks, Inserts, Applies,
                Restores, Skips, Deletes, Purges
  <2>4. CASE Deletes(c)
    BY <1>2, <2>2, <2>3, <2>4, RemovalFacts
  <2>5. ASSUME NEW p \in Phases, Moves(c, p), pc'[c] \in {"reply", "done"}
        PROVE  pc[c] \in {"reply", "done"} \/ ~Found(c)
    BY <1>0, <1>2, <2>1, <2>5 DEF Moves, Goes
  <2>6. CASE pc' = pc
    BY <1>2, <2>2, <2>3, <2>6
  <2>7. CASE Restores(c) \/ Skips(c)
    BY <1>0, <1>2, <2>2, <2>3, <2>7 DEF Restores, Skips, Goes
  <2> QED
    BY <1>2, <2>1, <2>2, <2>3, <2>4, <2>5, <2>6, <2>7, OperationOfPhase
       DEF CallEffect, Checks, Finds, Replaces, Marks, Inserts, Applies, Purges
<1> QED
  BY <1>1, <1>2

LEMMA MarkStep ==
    ASSUME TypeOK, PhaseInv, TodoInv, AuthorInv, BaseInv, MarkInv,
           NEW c \in Calls, CallEffect(c)
    PROVE  MarkInv'
<1>0. OthersStay(c) /\ request' = request
  BY OthersFacts DEF OthersStay
<1> SUFFICES ASSUME NEW d \in Calls, NEW x, NEW y,
                    x = request[d].overrides, y = request[d].id, Overrider(d)',
                    x \in DOMAIN docs', docs'[x].trace = request[d].trace, docs'[x].valid
             PROVE  Excused(d, y, x)'
  BY <1>0 DEF MarkInv, Stored
<1>1. \/ KeptValid(x) \/ Marked(c, x) \/ Restored(c, x)
      \/ x \in Ids /\ (Inserted(c, x) \/ Replaced(c, x))
  BY ValidityOrigin
<1>2. x # None
  <2>1. x \in Ids
    BY <1>1 DEF KeptValid, Marked, Restored, Validated, TypeOK
  <2> QED
    BY <2>1, BoundsAssumption
<1>3. Overrider(d)
  <2>1. ~\E a \in Ids : d = c /\ Marked(c, a)
    BY DEF Marked, Validated
  <2> QED
    BY <1>2, <2>1, OverriderOrigin
<1>4. base'[d] = base[d]
  BY <1>0, <1>3, BaseOrigin, OverriderKnows DEF OthersStay
<1>5. CASE KeptValid(x)
  <2>1. PICK v : v = validBy[x] /\ v = validBy'[x]
    BY <1>5 DEF KeptValid
  <2>2. x \in DOMAIN docs /\ author'[x] = author[x] /\ v \in Calls
    BY <1>5, <2>1 DEF KeptValid, TypeOK
  <2>3. Excused(d, y, x)
    BY <1>3, <1>5 DEF MarkInv, KeptValid, Stored
  <2>4. CASE v = author[x] /\ base[d] \notin {d, v}
    BY <1>4, <2>1, <2>2, <2>4 DEF Excused
  <2>5. CASE /\ OpOf(v) = "delete" /\ overridden[v] = x
             /\ (request[v].id = y /\ base[v] = d) => pc[v] \notin {"reply", "done"}
    <3>1. /\ base'[v] = base[v] /\ overridden'[v] = overridden[v]
          /\ pc'[v] \in {"reply", "done"} =>
                \/ pc[v] \in {"reply", "done"}
                \/ ~Found(v)
                \/ v = c /\ Removed(c, request[c].id)
      BY <1>2, <2>2, <2>5, DeletionGoesOn
    <3>2. ASSUME request[v].id = y, base[v] = d
          PROVE  pc'[v] \notin {"reply", "done"}
      <4>1. v # d /\ pc[d] # "insert" /\ Found(v) /\ pc[v] \notin {"reply", "done"}
        BY <1>3, <2>2, <2>5, <3>2, OverriderKnows DEF Overrider
      <4>2. CASE v = c /\ Removed(c, request[c].id)
        <5>1. y \notin DOMAIN docs' /\ pc'[d] = pc[d]
          BY <3>2, <4>1, <4>2 DEF Removed
        <5>2. pc'[d] = "insert" \/ y \in DOMAIN docs'
          BY <1>0 DEF Overrider
        <5> QED
          BY <4>1, <5>1, <5>2
      <4> QED
        BY <3>1, <4>1, <4>2
    <3> QED
      BY <1>0, <2>1, <2>5, <3>1, <3>2 DEF Excused, OpOf
  <2> QED
    BY <2>1, <2>3, <2>4, <2>5 DEF Excused
<1>6. CASE Restored(c, x)
  <2>1. validBy'[x] = c /\ OpOf(c) = "delete" /\ overridden'[c] = x /\ pc'[c] = "delete"
    BY <1>6 DEF Restored, Validated
  <2> QED
    BY <1>0, <2>1 DEF Excused, OpOf
<1>7. CASE Inserted(c, x) \/ Replaced(c, x)
  <2>1. validBy'[x] = c /\ author'[x] = c /\ CouldWrite(c, x)
    BY <1>7 DEF Inserted, Replaced, Written
  <2>2. base[d] # d /\ Wrote(base[d], x, request[d].trace)
    BY <1>2, <1>3, OverriderKnows
  <2>3. base[d] # c
    BY <2>1, <2>2 DEF Wrote
  <2> QED
    BY <1>4, <2>1, <2>2, <2>3 DEF Excused
<1>8. CASE Marked(c, x)
  BY <1>8 DEF Marked, Validated
<1> QED
  BY <1>1, <1>5, <1>6, <1>7, <1>8

-----------------------------------------------------------------------------
(***************************************************************************)
(* What is invalid has been overridden.                                    *)
(***************************************************************************)

(* Who wrote of a document or is about to, and what that says of a call    *)
(* that marks or writes now.                                               *)
LEMMA OthersWrite ==
    ASSUME TypeOK, NEW c \in Calls, NEW x, NEW b \in Calls, OpOf(b) = "create",
           NEW a, NEW t, Wrote(b, a, t),
           Marked(c, x) \/ Inserted(c, x) \/ Replaced(c, x)
    PROVE  validBy'[x] = c /\ c # b
BY DEF Marked, Inserted, Replaced, Written, Validated, Wrote, CouldWrite, Returned, OpOf

LEMMA RestoredStep ==
    ASSUME TypeOK, PhaseInv, TodoInv, AuthorInv, BaseInv, RestoredInv, ExplainedInv,
           NEW c \in Calls, CallEffect(c)
    PROVE  RestoredInv'
<1>0. OthersStay(c) /\ request' = request /\ pc \in [Calls -> Phases]
  BY OthersFacts DEF OthersStay, TypeOK
<1> SUFFICES ASSUME NEW d \in Calls, NEW b, NEW x, b = base'[d], x = request[b].overrides,
                    OpOf(d) = "delete", pc'[d] = "delete", b # d, OpOf(b) = "create",
                    x \in DOMAIN docs', ~docs'[x].valid, validBy'[x] = b
             PROVE  FALSE
  BY <1>0 DEF RestoredInv, OpOf
<1>1. x \in Ids /\ x # None
  <2>1. DOMAIN docs' \subseteq Ids
    BY DocumentTypesStep DEF DocumentTypes
  <2> QED
    BY <2>1, BoundsAssumption
<1>2. CASE pc[d] = "delete"
  <2>1. base[d] = b
    BY <1>0, <1>2, BaseOrigin DEF OthersStay
  <2>2. Wrote(b, request[d].id, request[d].trace) /\ b \in Calls
    BY <2>1 DEF BaseInv, Remembered, BaseId, TypeOK
  <2>3. KeptValid(x)
    <3>1. \/ KeptValid(x) \/ Restored(c, x)
          \/ Marked(c, x) \/ Inserted(c, x) \/ Replaced(c, x)
      BY ValidityOrigin
    <3>2. ~Restored(c, x)
      BY DEF Restored, Validated
    <3>3. ~(Marked(c, x) \/ Inserted(c, x) \/ Replaced(c, x))
      <4>1. PICK a, t : Wrote(b, a, t)
        BY <2>2
      <4> QED
        BY ONLY <2>2, <4>1, OthersWrite, TypeOK, c \in Calls, OpOf(b) = "create",
                validBy'[x] = b
    <3> QED
      BY ONLY <3>1, <3>2, <3>3
  <2> QED
    BY <1>2, <2>1, <2>3 DEF RestoredInv, KeptValid
<1>3. CASE pc[d] # "delete"
  <2>1. d = c
    BY <1>0, <1>3 DEF OthersStay
  <2>2. Restores(c) \/ Skips(c) \/ Finds(c, "delete")
    <3>1. ASSUME NEW p \in Phases, Moves(c, p) \/ Checks(c, p) \/ Replaces(c, p)
          PROVE  FALSE
      BY <1>0, <2>1, <3>1 DEF Moves, Checks, Replaces, Goes
    <3>2. ASSUME NEW p \in Phases, Finds(c, p)
          PROVE  Finds(c, "delete")
      BY <1>0, <2>1, <3>2 DEF Finds, Goes
    <3> QED
      BY <1>0, <1>3, <2>1, <3>1, <3>2
         DEF CallEffect, Marks, Inserts, Applies, Deletes, Purges, Goes
  <2>3. CASE Finds(c, "delete")
    <3>1. PICK a : a = request[c].id
      OBVIOUS
    <3>2. /\ a \in DOMAIN docs /\ docs[a].overrides = None /\ b = author[a]
      BY <2>1, <2>3, <3>1 DEF Finds, Found, Stored, Remembers, TypeOK
    <3>3. request[b].overrides = None
      BY <3>2 DEF AuthorInv
    <3> QED
      BY <1>1, <3>3
  <2>4. CASE Restores(c) \/ Skips(c)
    <3>1. base'[c] = base[c] /\ pc[c] = "restore"
      BY <1>0, <2>4, RestoresFacts DEF Skips, history
    <3>2. overridden[c] = x /\ Wrote(b, request[c].id, request[c].trace)
      BY <2>1, <3>1 DEF BaseInv, Remembered, BaseId
    <3>3. CASE Restores(c)
      <4>1. PICK a \in Ids : Restored(c, a)
        BY <3>3, MarkedFacts
      <4> QED
        BY <3>2, <4>1 DEF Restored, Validated
    <3>4. CASE Skips(c)
      <4>1. /\ docs' = docs /\ validBy' = validBy /\ author' = author
            /\ ~Stored(request[c].trace, x)
        BY <3>2, <3>4 DEF Skips, history
      <4>2. docs[x].trace = request[b].trace
        BY <4>1 DEF ExplainedInv
      <4> QED
        BY <3>2, <4>1, <4>2 DEF Stored, Wrote
    <3> QED
      BY <2>4, <3>3, <3>4
  <2> QED
    BY <2>2, <2>3, <2>4
<1> QED
  BY <1>2, <1>3

LEMMA RemovedUnreadStays ==
    ASSUME TypeOK, PhaseInv, TodoInv, NEW c \in Calls, CallEffect(c),
           NEW v \in Calls, RemovedUnread(v)
    PROVE  RemovedUnread(v)'
<1>0. OthersStay(c) /\ request' = request /\ pc \in [Calls -> Phases]
  BY OthersFacts DEF OthersStay, TypeOK
<1>1. CASE \E d \in Calls : /\ OpOf(d) = "delete" /\ request[d].id = request[v].id
                            /\ base[d] \notin {d, v} /\ pc[d] \in Returned
  <2>1. PICK d \in Calls : /\ OpOf(d) = "delete" /\ request[d].id = request[v].id
                           /\ base[d] \notin {d, v} /\ pc[d] \in Returned
    BY <1>1
  <2>2. base'[d] = base[d]
    BY <1>0, <2>1, BaseOrigin DEF OthersStay, Returned
  <2>3. pc'[d] \in Returned
    <3>1. CASE d # c
      BY <1>0, <2>1, <3>1 DEF OthersStay
    <3>2. ASSUME d = c, NEW p \in Phases, Moves(c, p)
          PROVE  pc'[d] \in Returned
      BY <1>0, <2>1, <3>2 DEF Moves, Goes, Returned
    <3> QED
      BY <1>0, <2>1, <3>1, <3>2
         DEF CallEffect, Checks, Finds, Replaces, Marks, Inserts, Applies, Restores,
             Skips, Deletes, Purges, Returned
  <2> QED
    BY <1>0, <2>1, <2>2, <2>3 DEF RemovedUnread, OpOf, Returned
<1>2. CASE \E d \in Calls : /\ OpOf(d) = "delete_traces"
                            /\ request[d].trace = request[v].trace
                            /\ pc[d] \notin {"idle", "select"}
  <2>1. PICK d \in Calls : /\ OpOf(d) = "delete_traces"
                           /\ request[d].trace = request[v].trace
                           /\ pc[d] \notin {"idle", "select"}
    BY <1>2
  <2>2. pc'[d] \notin {"idle", "select"}
    <3>1. CASE d # c
      BY <1>0, <2>1, <3>1 DEF OthersStay
    <3>2. ASSUME d = c, NEW p \in Phases, Moves(c, p)
          PROVE  pc'[d] \notin {"idle", "select"}
      <4>1. pc[c] # "find_trace"
        BY <2>1, <3>2 DEF PhaseInv, PhasesOf, Returned
      <4> QED
        BY <1>0, <2>1, <3>2, <4>1 DEF Moves, Goes
    <3>3. CASE pc' = pc
      BY <2>1, <3>3
    <3> QED
      BY <1>0, <2>1, <3>1, <3>2, <3>3, OperationOfPhase
         DEF CallEffect, Checks, Finds, Replaces, Marks, Inserts, Applies, Restores,
             Skips, Deletes, Purges
  <2> QED
    BY <1>0, <2>1, <2>2 DEF RemovedUnread, OpOf
<1> QED
  BY <1>1, <1>2 DEF RemovedUnread, OpOf, Returned

(* A document that goes away is removed by the step.                       *)
LEMMA RemovalOrigin ==
    ASSUME TypeOK, PhaseInv, TodoInv, NEW c \in Calls, CallEffect(c),
           NEW y \in DOMAIN docs, y \notin DOMAIN docs'
    PROVE  /\ Removed(c, y)
           /\ \/ OpOf(c) = "delete" /\ y = request[c].id
                 /\ pc[c] = "delete" /\ pc'[c] = "reply"
              \/ OpOf(c) = "delete_traces" /\ pc[c] = "purge" /\ pc'[c] = "purge"
<1>1. CASE Marks(c) \/ Restores(c)
  BY <1>1, MarksFacts, RestoresFacts DEF Validated
<1>2. CASE Applies(c)
  BY <1>2, AppliesFacts DEF Applied
<1>3. CASE Inserts(c)
  <2>1. PICK a \in Ids : Inserted(c, a)
    BY <1>3, InsertsFacts
  <2> QED
    BY <2>1 DEF Inserted, Written
<1>4. CASE \E p \in Phases : Replaces(c, p)
  BY <1>4, ReplacesFacts DEF Replaced, Written
<1>5. CASE Deletes(c)
  BY <1>5, RemovalFacts, OperationOfPhase DEF Removed
<1>6. ASSUME NEW a \in Ids, Purges(c, a)
      PROVE  /\ Removed(c, y) /\ OpOf(c) = "delete_traces"
             /\ pc[c] = "purge" /\ pc'[c] = "purge"
  BY <1>6, RemovalFacts, OperationOfPhase DEF Removed
<1>7. CASE Skips(c) \/ \E p \in Phases : Moves(c, p) \/ Checks(c, p) \/ Finds(c, p)
  BY <1>7 DEF Skips, Moves, Checks, Finds
<1> QED
  BY <1>1, <1>2, <1>3, <1>4, <1>5, <1>6, <1>7 DEF CallEffect

(* Why the assessment that create call v wrote does not go unmissed.       *)
Accounted(v, y) ==
    \/ pc[v] \in {"insert", "failed"}
    \/ y \in DOMAIN docs /\ author[y] = v
    \/ /\ y \in DOMAIN docs /\ OpOf(author[y]) = "start_trace"
       /\ docs[y].trace = request[v].trace
    \/ RemovedUnread(v)

LEMMA AccountedStays ==
    ASSUME TypeOK, PhaseInv, TodoInv, AuthorInv, BaseInv, RestoredInv,
           NEW c \in Calls, CallEffect(c),
           NEW v \in Calls, NEW x, NEW y, OpOf(v) = "create", y = request[v].id,
           x = request[v].overrides, x \in DOMAIN docs, ~docs[x].valid, validBy[x] = v,
           Accounted(v, y)
    PROVE  Accounted(v, y)'
<1>0. OthersStay(c) /\ request' = request /\ pc \in [Calls -> Phases]
  BY OthersFacts DEF OthersStay, TypeOK
<1>1. CASE pc[v] \in {"insert", "failed"}
  <2>1. CASE v # c \/ pc'[v] = "failed"
    BY <1>0, <1>1, <2>1 DEF Accounted, OthersStay
  <2>2. CASE Inserts(c) /\ v = c
    <3>1. PICK a \in Ids : Inserted(c, a)
      BY <2>2, InsertsFacts
    <3>2. y \in DOMAIN docs' /\ author'[y] = v
      BY <2>2, <3>1 DEF Inserted, Written
    <3> QED
      BY <3>2 DEF Accounted
  <2>3. ASSUME NEW p \in Phases, Moves(c, p), v = c
        PROVE  pc'[v] = "failed"
    BY <1>0, <1>1, <2>3 DEF Moves, Goes
  <2> QED
    BY <1>1, <2>1, <2>2, <2>3
       DEF CallEffect, Checks, Finds, Replaces, Marks, Applies, Restores, Skips,
           Deletes, Purges
<1>2. CASE /\ y \in DOMAIN docs /\ docs[y].trace = request[v].trace
           /\ author[y] = v \/ OpOf(author[y]) = "start_trace"
  <2>1. CASE y \in DOMAIN docs'
    <3>1. CASE Same(y)
      BY <1>0, <1>2, <2>1, <3>1 DEF Same, Accounted, OpOf
    <3>2. CASE Replaced(c, y)
      BY <1>0, <1>2, <2>1, <3>2 DEF Replaced, Written, Accounted, OpOf
    <3> QED
      BY <1>2, <2>1, <3>1, <3>2, DocumentOrigin DEF Inserted
  <2>2. CASE y \notin DOMAIN docs'
    <3>1. /\ Removed(c, y)
          /\ \/ OpOf(c) = "delete" /\ y = request[c].id
                /\ pc[c] = "delete" /\ pc'[c] = "reply"
             \/ OpOf(c) = "delete_traces" /\ pc[c] = "purge" /\ pc'[c] = "purge"
      BY <1>2, <2>2, RemovalOrigin
    <3>2. base' = base /\ docs[y].trace = request[c].trace
      BY <3>1 DEF Removed
    <3>3. CASE OpOf(c) = "delete" /\ pc[c] = "delete"
      <4>1. base[c] # c
        BY <3>3 DEF BaseInv, Remembered
      <4>2. base[c] # v
        BY <3>3, <4>1 DEF RestoredInv
      <4> QED
        BY <1>0, <3>1, <3>2, <3>3, <4>1, <4>2 DEF Accounted, RemovedUnread, OpOf
    <3>4. CASE OpOf(c) = "delete_traces"
      BY <1>0, <1>2, <3>1, <3>2, <3>4 DEF Accounted, RemovedUnread, OpOf
    <3> QED
      BY <3>1, <3>3, <3>4
  <2> QED
    BY <2>1, <2>2
<1>3. CASE RemovedUnread(v)
  BY <1>3, RemovedUnreadStays DEF Accounted
<1>4. y \in DOMAIN docs /\ author[y] = v => docs[y].trace = request[v].trace
  BY DEF AuthorInv, Wrote
<1> QED
  BY <1>1, <1>2, <1>3, <1>4 DEF Accounted

LEMMA ExplainedStep ==
    ASSUME TypeOK, PhaseInv, TodoInv, AuthorInv, BaseInv, RestoredInv, ExplainedInv,
           NEW c \in Calls, CallEffect(c)
    PROVE  ExplainedInv'
<1>0. OthersStay(c) /\ request' = request
  BY OthersFacts DEF OthersStay
<1> SUFFICES ASSUME NEW x, NEW v, NEW y, x \in DOMAIN docs', v = validBy'[x],
                    y = request[v].id, ~docs'[x].valid
             PROVE  \/ v = author'[x] /\ OpOf(v) = "start_trace"
                    \/ /\ OpOf(v) = "create" /\ request[v].overrides = x
                       /\ request[v].trace = docs'[x].trace
                       /\ Accounted(v, y)'
  BY <1>0 DEF ExplainedInv, Accounted, RemovedUnread, OpOf
<1>1. CASE KeptValid(x)
  <2>1. /\ x \in DOMAIN docs /\ validBy[x] = v /\ ~docs[x].valid /\ author'[x] = author[x]
        /\ docs'[x].trace = docs[x].trace /\ v \in Calls
    BY <1>1 DEF KeptValid, TypeOK
  <2>2. \/ v = author[x] /\ OpOf(v) = "start_trace"
        \/ /\ OpOf(v) = "create" /\ request[v].overrides = x
           /\ request[v].trace = docs[x].trace
           /\ Accounted(v, y)
    BY <2>1 DEF ExplainedInv, Accounted
  <2> QED
    BY <2>1, <2>2, AccountedStays
<1>2. CASE Marked(c, x)
  BY <1>0, <1>2 DEF Marked, Validated, Accounted
<1>3. CASE Replaced(c, x)
  BY <1>3 DEF Replaced, Written
<1>4. ~Restored(c, x) /\ ~Inserted(c, x)
  BY DEF Restored, Validated, Inserted
<1> QED
  BY <1>1, <1>2, <1>3, <1>4, ValidityOrigin

-----------------------------------------------------------------------------
(***************************************************************************)
(* What updates do to a document.                                          *)
(***************************************************************************)

SameContent(a) ==
    /\ Same(a)
    /\ docs'[a].kinds = docs[a].kinds /\ docs'[a].metadata = docs[a].metadata

LEMMA ContentOrigin ==
    ASSUME TypeOK, PhaseInv, TodoInv, NEW c \in Calls, CallEffect(c),
           NEW a \in DOMAIN docs'
    PROVE  SameContent(a) \/ Applied(c, a) \/ Inserted(c, a) \/ Replaced(c, a)
<1>1. Same(a) \/ Inserted(c, a) \/ Replaced(c, a)
  BY DocumentOrigin
<1>2. ASSUME Same(a)
      PROVE  SameContent(a) \/ Applied(c, a) \/ Inserted(c, a) \/ Replaced(c, a)
  <2> USE <1>2 DEF Same, SameContent
  <2>1. CASE DocumentsKept
    BY <2>1 DEF DocumentsKept
  <2>2. CASE Marks(c) \/ Restores(c)
    <3>1. PICK x, v : Validated(c, x, v)
      BY <2>2, MarksFacts, RestoresFacts
    <3> QED
      BY <3>1 DEF Validated, OthersKept
  <2>3. CASE Applies(c)
    <3>1. PICK x \in Ids : Applied(c, x)
      BY <2>3, AppliesFacts
    <3>2. CASE x = a
      BY <3>1, <3>2
    <3>3. CASE x # a
      BY <3>1, <3>3 DEF Applied
    <3> QED
      BY <3>2, <3>3
  <2>4. CASE Inserts(c) \/ \E p \in Phases : Replaces(c, p)
    <3>1. PICK x \in Ids : Inserted(c, x) \/ Replaced(c, x)
      BY <2>4, InsertsFacts, ReplacesFacts
    <3>2. CASE x = a
      BY <3>1, <3>2
    <3>3. OthersKept(x)
      BY <3>1 DEF Inserted, Replaced, Written
    <3> QED
      BY <3>2, <3>3 DEF OthersKept
  <2>5. CASE Deletes(c) \/ \E x \in Ids : Purges(c, x)
    <3>1. PICK x : Removed(c, x)
      BY <2>5, RemovalFacts
    <3> QED
      BY <3>1 DEF Removed, OthersKept
  <2>6. CASE Skips(c) \/ \E p \in Phases : Moves(c, p) \/ Checks(c, p) \/ Finds(c, p)
    BY <2>1, <2>6 DEF Skips, Moves, Checks, Finds, DocumentsKept, history
  <2> QED
    BY <2>2, <2>3, <2>4, <2>5, <2>6 DEF CallEffect
<1> QED
  BY <1>1, <1>2

(* The phases of updates.                                                  *)
LEMMA UpdatePhases ==
    ASSUME TypeOK, PhaseInv, TodoInv, NEW c \in Calls, CallEffect(c),
           NEW d \in Calls, OpOf(d) = "update"
    PROVE  /\ pc[d] \in Returned => pc'[d] \in Returned
           /\ pc[d] # "find" => base'[d] = base[d]
           /\ pc'[d] \in {"reply", "done"} =>
                 pc[d] \in {"reply", "done"} \/ (d = c /\ Applies(c))
           /\ pc'[d] = "apply" =>
                 \/ pc[d] = "apply" /\ base'[d] = base[d]
                 \/ d = c /\ Checks(c, "apply")
<1>0. OthersStay(c) /\ pc \in [Calls -> Phases]
  BY OthersFacts DEF TypeOK
<1>1. base'[d] = base[d] \/ (d = c /\ pc[d] = "find")
  BY <1>0, BaseOrigin, OperationOfPhase DEF OthersStay
<1>2. CASE d # c
  BY <1>0, <1>1, <1>2 DEF OthersStay
<1>3. CASE d = c /\ \E p \in Phases : Moves(c, p)
  BY <1>0, <1>1, <1>3 DEF Moves, Goes, Returned
<1>4. CASE d = c /\ \E p \in Phases : Checks(c, p)
  BY <1>0, <1>1, <1>4 DEF Checks, Goes, Returned
<1>5. CASE d = c /\ Applies(c)
  BY <1>0, <1>1, <1>5 DEF Applies, Goes, Returned
<1> QED
  BY <1>2, <1>3, <1>4, <1>5, OperationOfPhase
     DEF CallEffect, Finds, Replaces, Marks, Inserts, Restores, Skips, Deletes, Purges

LEMMA UpdatedStep ==
    ASSUME TypeOK, PhaseInv, TodoInv, BaseInv, UpdatedInv, NEW c \in Calls, CallEffect(c)
    PROVE  UpdatedInv'
<1>0. OthersStay(c) /\ request' = request
  BY OthersFacts DEF OthersStay
<1> SUFFICES ASSUME NEW d \in Calls, NEW a, a = request[d].id, OpOf(d) = "update",
                    pc'[d] \in {"reply", "done"}, a \in DOMAIN docs',
                    docs'[a].trace = request[d].trace, author'[a] = base'[d]
             PROVE  d \in docs'[a].metadata /\ request[d].kinds \subseteq docs'[a].kinds
  BY <1>0 DEF UpdatedInv, OpOf, Found, Stored
<1>1. CASE d = c /\ Applies(c)
  <2>1. PICK x \in Ids : Applied(c, x)
    BY <1>1, AppliesFacts
  <2> QED
    BY <1>1, <2>1 DEF Applied
<1>2. CASE pc[d] \in {"reply", "done"}
  <2>1. base'[d] = base[d]
    BY <1>2, UpdatePhases
  <2>2. CASE SameContent(a)
    BY <1>2, <2>1, <2>2 DEF SameContent, Same, UpdatedInv, Found, Stored
  <2>3. CASE Applied(c, a)
    BY <1>2, <2>1, <2>3 DEF Applied, UpdatedInv, Found, Stored
  <2>4. CASE Inserted(c, a) \/ Replaced(c, a)
    <3>1. author'[a] = c /\ CouldWrite(c, a) /\ OpOf(c) # "update"
      BY <2>4 DEF Inserted, Replaced, Written
    <3>2. Wrote(c, a, request[d].trace)
      BY <2>1, <3>1 DEF BaseInv, Remembered, BaseId
    <3> QED
      BY <3>1, <3>2 DEF Wrote
  <2> QED
    BY <2>2, <2>3, <2>4, ContentOrigin
<1> QED
  BY <1>1, <1>2, UpdatePhases

(* A document that got a kind it should not have keeps the update that      *)
(* gave it.                                                                *)
LEMMA MixedStays ==
    ASSUME TypeOK, PhaseInv, TodoInv, KindInv, NEW c \in Calls, CallEffect(c),
           NEW a \in DOMAIN docs', SameContent(a) \/ Applied(c, a), Mixed(a)
    PROVE  Mixed(a)'
<1>1. PICK u \in docs[a].metadata : request[u].kinds # {} /\ base[u] # author[a]
  BY DEF Mixed
<1>2. a \in DOMAIN docs /\ author'[a] = author[a] /\ u \in docs'[a].metadata
  BY <1>1 DEF SameContent, Same, Applied
<1>3. u \in Calls /\ OpOf(u) = "update" /\ pc[u] \in Returned
  BY <1>1, <1>2 DEF KindInv, Returned, TypeOK, Document
<1>4. base'[u] = base[u] /\ request' = request
  BY <1>3, UpdatePhases, OthersFacts DEF Returned, OthersStay
<1> QED
  BY <1>1, <1>2, <1>4 DEF Mixed

LEMMA KindStep ==
    ASSUME TypeOK, PhaseInv, TodoInv, AuthorInv, BaseInv, KindInv,
           NEW c \in Calls, CallEffect(c)
    PROVE  KindInv'
<1>0. OthersStay(c) /\ request' = request
  BY OthersFacts DEF OthersStay
<1>1. ASSUME NEW a \in DOMAIN docs', NEW u \in docs'[a].metadata
      PROVE  OpOf(u) = "update" /\ pc'[u] \in Returned
  <2>1. CASE \/ SameContent(a)
             \/ Applied(c, a) /\ u # c
    <3>1. a \in DOMAIN docs /\ u \in docs[a].metadata
      BY <1>1, <2>1 DEF SameContent, Same, Applied
    <3>2. u \in Calls /\ OpOf(u) = "update" /\ pc[u] \in Returned
      BY <3>1 DEF KindInv, Returned, TypeOK, Document
    <3> QED
      BY <3>2, UpdatePhases
  <2>2. CASE Applied(c, a) /\ u = c
    BY <2>2, OperationOfPhase DEF Applied, Returned
  <2>3. CASE Inserted(c, a) \/ Replaced(c, a)
    BY <1>1, <2>3 DEF Inserted, Replaced, Written
  <2> QED
    BY <2>1, <2>2, <2>3, ContentOrigin
<1>2. ASSUME NEW a \in DOMAIN docs'
      PROVE  Mixed(a)' \/ \E k \in Kinds : docs'[a].kinds = {k}
  <2>1. CASE SameContent(a)
    BY <2>1, MixedStays DEF KindInv, SameContent, Same
  <2>2. CASE Applied(c, a)
    <3>1. /\ a \in DOMAIN docs /\ a = request[c].id /\ Found(c) /\ pc[c] = "apply"
          /\ docs'[a].kinds = docs[a].kinds \union request[c].kinds
          /\ c \in docs'[a].metadata /\ author'[a] = author[a] /\ base' = base
      BY <2>2 DEF Applied, Found, Stored
    <3>2. CASE request[c].kinds # {} /\ base[c] # author[a]
      BY <1>0, <3>1, <3>2 DEF Mixed
    <3>3. CASE request[c].kinds \subseteq docs[a].kinds
      <4>1. docs'[a].kinds = docs[a].kinds
        BY <3>1, <3>3
      <4> QED
        BY <2>2, <3>1, <4>1, MixedStays DEF KindInv
    <3>4. CASE base[c] = author[a] /\ ~(request[c].kinds \subseteq docs[a].kinds)
      <4>1. Mixed(a)
        BY <3>1, <3>4, OperationOfPhase DEF KindInv
      <4> QED
        BY <2>2, <4>1, MixedStays
    <3> QED
      BY <3>2, <3>3, <3>4
  <2>3. CASE Inserted(c, a) \/ Replaced(c, a)
    BY <2>3 DEF Inserted, Replaced, Written
  <2> QED
    BY <2>1, <2>2, <2>3, ContentOrigin
<1>3. ASSUME NEW d \in Calls, NEW a, a = request[d].id, OpOf(d) = "update",
             pc'[d] = "apply", a \in DOMAIN docs', docs'[a].trace = request[d].trace,
             author'[a] = base'[d]
      PROVE  Mixed(a)' \/ request[d].kinds \subseteq docs'[a].kinds
  <2>1. CASE d = c /\ Checks(c, "apply")
    BY <1>3, <2>1 DEF Checks
  <2>2. CASE pc[d] = "apply" /\ base'[d] = base[d]
    <3>1. CASE SameContent(a)
      BY <1>3, <2>2, <3>1, MixedStays DEF SameContent, Same, KindInv, Found, Stored
    <3>2. CASE Applied(c, a)
      <4>0. a \in DOMAIN docs /\ docs[a].trace = request[d].trace /\ author[a] = base[d]
        BY <1>3, <2>2, <3>2 DEF Applied
      <4>1. Mixed(a) \/ request[d].kinds \subseteq docs[a].kinds
        BY <1>3, <2>2, <4>0 DEF KindInv, Found, Stored
      <4>2. docs[a].kinds \subseteq docs'[a].kinds
        BY <3>2 DEF Applied
      <4> QED
        BY <1>3, <3>2, <4>1, <4>2, MixedStays
    <3>3. CASE Inserted(c, a) \/ Replaced(c, a)
      <4>1. author'[a] = c /\ CouldWrite(c, a) /\ OpOf(c) # "update"
        BY <3>3 DEF Inserted, Replaced, Written
      <4>2. Wrote(c, a, request[d].trace)
        BY <1>3, <2>2, <4>1 DEF BaseInv, Remembered, BaseId
      <4> QED
        BY <4>1, <4>2 DEF Wrote
    <3> QED
      BY <1>3, <3>1, <3>2, <3>3, ContentOrigin
  <2> QED
    BY <1>3, <2>1, <2>2, UpdatePhases
<1> QED
  BY <1>0, <1>1, <1>2, <1>3 DEF KindInv, OpOf, Found, Stored, Returned

-----------------------------------------------------------------------------
(***************************************************************************)
(* The invariant.                                                          *)
(***************************************************************************)

LEMMA InitIInv ==
    ASSUME Init
    PROVE  IInv
<1>1. /\ docs = <<>> /\ author = <<>> /\ validBy = <<>> /\ traces = Traces
      /\ pc = [c \in Calls |-> "idle"] /\ request \in Workloads
      /\ todo = [c \in Calls |-> request[c].supplied]
      /\ overridden = [c \in Calls |-> None] /\ visiting = [c \in Calls |-> {}]
      /\ error = [c \in Calls |-> "none"] /\ faults = 0
      /\ base = [c \in Calls |-> c]
  BY DEF Init
<1>2. DOMAIN docs = {} /\ author \in [DOMAIN docs -> Calls]
      /\ validBy \in [DOMAIN docs -> Calls]
  BY <1>1
<1>3. request \in [Calls -> Request] /\ \A c \in Calls : WellFormed(request[c])
  BY <1>1, WorkloadsAssumption
<1>4. ASSUME NEW c \in Calls
      PROVE  Pending(todo[c])
  <2>1. PICK s : s = request[c].supplied
    OBVIOUS
  <2>2. s \in Seq(Supplied)
    BY <1>3, <2>1 DEF Request
  <2>3. \A i, j \in DOMAIN s : Cardinality(s[i].kinds) = 1 /\ (s[i].id = s[j].id => i = j)
    BY <1>3, <2>1 DEF WellFormed
  <2>4. ASSUME NEW i \in DOMAIN s
        PROVE  \E k \in Kinds : s[i].kinds = {k}
    <3>1. s[i] \in Supplied
      BY <2>2
    <3>2. s[i].kinds \in SUBSET Kinds /\ Cardinality(s[i].kinds) = 1
      BY <2>3, <3>1 DEF Supplied
    <3>3. s[i].kinds # {}
      BY <3>2, FS_EmptySet
    <3> QED
      BY <3>2, <3>3, FewKinds
  <2>5. todo[c] = s
    BY <1>1, <2>1
  <2> QED
    BY <2>2, <2>3, <2>4, <2>5 DEF Pending
<1>5. TodoInv
  BY <1>1, <1>4 DEF TodoInv
<1>6. TypeOK
  BY <1>1, <1>2, <1>3, <1>4, BoundsAssumption DEF TypeOK, Phases, Errors, Pending
<1>7. PhaseInv
  BY <1>1 DEF PhaseInv, PhasesOf
<1>8. BaseInv
  BY <1>1 DEF BaseInv, Remembered
<1>9. AuthorInv /\ ExplainedInv /\ MarkInv /\ RestoredInv /\ UpdatedInv
  BY <1>1, <1>2
     DEF AuthorInv, ExplainedInv, MarkInv, Overrider, Stored, RestoredInv, UpdatedInv
<1>10. KindInv
  BY <1>1, <1>2 DEF KindInv
<1> QED
  BY <1>5, <1>6, <1>7, <1>8, <1>9, <1>10 DEF IInv

LEMMA StutterIInv ==
    ASSUME IInv, UNCHANGED vars
    PROVE  IInv'
<1>1. /\ traces' = traces /\ docs' = docs /\ pc' = pc /\ request' = request
      /\ todo' = todo /\ overridden' = overridden /\ visiting' = visiting
      /\ error' = error /\ faults' = faults /\ author' = author
      /\ validBy' = validBy /\ base' = base
  BY DEF vars
<1> USE <1>1 DEF IInv
<1>2. TypeOK' /\ PhaseInv' /\ TodoInv'
  BY DEF TypeOK, PhaseInv, TodoInv, OpOf
<1>3. AuthorInv' /\ BaseInv'
  BY DEF AuthorInv, BaseInv, Remembered, Wrote, CouldWrite, BaseId, OpOf
<1>4. MarkInv' /\ RestoredInv'
  BY DEF MarkInv, RestoredInv, Overrider, Excused, Stored, OpOf
<1>5. ExplainedInv'
  BY DEF ExplainedInv, RemovedUnread, OpOf
<1>6. UpdatedInv' /\ KindInv'
  BY DEF UpdatedInv, KindInv, Mixed, Found, Stored, OpOf
<1> QED
  BY <1>2, <1>3, <1>4, <1>5, <1>6

LEMMA NextIInv ==
    ASSUME IInv, [Next]_vars
    PROVE  IInv'
<1>1. ASSUME NEW c \in Calls, Arrive(c) \/ CallStep(c) \/ Fault(c)
      PROVE  IInv'
  <2> USE DEF IInv
  <2>1. CallEffect(c)
    BY <1>1, CallEffects
  <2>2. TypeOK' /\ TodoInv'
    <3>1. DocumentTypes' /\ CallTypes' /\ VisitTypes' /\ TodoTypes'
      BY <1>1, <2>1, DocumentTypesStep, CallTypesStep, VisitTypesStep, TodoTypesStep
    <3> QED
      BY <3>1, TypeParts, PTL
  <2>3. PhaseInv'
    BY <2>1, PhaseStep
  <2>4. AuthorInv' /\ BaseInv'
    BY <2>1, AuthorStep, BaseStep
  <2>5. MarkInv' /\ RestoredInv' /\ ExplainedInv'
    BY <2>1, MarkStep, RestoredStep, ExplainedStep
  <2>6. UpdatedInv' /\ KindInv'
    BY <2>1, UpdatedStep, KindStep
  <2> QED
    BY <2>2, <2>3, <2>4, <2>5, <2>6
<1>2. CASE AllReturned \/ UNCHANGED vars
  BY <1>2, StutterIInv DEF AllReturned
<1> QED
  BY <1>1, <1>2 DEF Next

(* The inductive invariant.                                                *)
THEOREM Invariance == Spec => []IInv
BY InitIInv, NextIInv, PTL DEF Spec

(* Calls keep to the phases of their operation, and the history variables   *)
(* know every document (store.py, create_assessment to delete_assessment). *)
THEOREM TypeCorrect == Spec => []TypeOK
<1>1. IInv => TypeOK
  BY DEF IInv
<1> QED
  BY Invariance, <1>1, PTL

(* What an assessment that is there overrides is invalid, but for the races *)
(* the property names (traces.py:383, 432).                                *)
THEOREM OverriddenStayInvalid == Spec => []OverriddenAssessmentsInvalid
<1>1. ASSUME IInv
      PROVE  OverriddenAssessmentsInvalid
  <2> SUFFICES ASSUME NEW y \in DOMAIN docs, NEW x, NEW c, x = docs[y].overrides,
                      c = author[y], OpOf(c) = "create", Stored(docs[y].trace, x),
                      docs[x].valid
               PROVE  Excused(c, y, x)
    BY DEF OverriddenAssessmentsInvalid, Excused, OpOf
  <2>1. Wrote(c, y, docs[y].trace) /\ docs[y].overrides = request[c].overrides
    BY <1>1 DEF IInv, AuthorInv
  <2>2. request[c].id = y /\ request[c].trace = docs[y].trace /\ c \in Calls
    BY <1>1, <2>1 DEF IInv, TypeOK, Wrote
  <2>3. Overrider(c)
    BY <2>2 DEF Overrider
  <2> QED
    BY <1>1, <2>1, <2>2, <2>3 DEF IInv, MarkInv
<1> QED
  BY Invariance, <1>1, PTL

(* What is invalid was reported so or has been overridden, and the          *)
(* assessment that did it is there unless a call removed it that had not   *)
(* read it (traces.py:383, 432).                                           *)
THEOREM InvalidExplained == Spec => []InvalidAssessmentsExplained
<1>1. IInv => InvalidAssessmentsExplained
  BY DEF IInv, ExplainedInv, InvalidAssessmentsExplained, OpOf
<1> QED
  BY Invariance, <1>1, PTL

(* No acknowledged update is lost to another one (traces.py:397).          *)
THEOREM UpdatesKept == Spec => []AcknowledgedUpdatesKept
<1>1. IInv => AcknowledgedUpdatesKept
  BY DEF IInv, UpdatedInv, AcknowledgedUpdatesKept, OpOf
<1> QED
  BY Invariance, <1>1, PTL

(* Two kinds in one assessment come of an update that had checked another  *)
(* assessment of that id (store.py:1895).                                  *)
THEOREM MixturesExplained == Spec => []KindsMixOnlyByRaces
<1>1. ASSUME IInv
      PROVE  KindsMixOnlyByRaces
  <2>1. \A k : Cardinality({k}) = 1
    BY FS_Singleton
  <2>2. ASSUME NEW a \in DOMAIN docs, Cardinality(docs[a].kinds) > 1
        PROVE  Mixed(a)
    <3>1. Mixed(a) \/ \E k \in Kinds : docs[a].kinds = {k}
      BY <1>1 DEF IInv, KindInv
    <3>2. ASSUME NEW k, docs[a].kinds = {k}
          PROVE  FALSE
      <4>1. Cardinality(docs[a].kinds) = 1
        BY <2>1, <3>2
      <4> QED
        BY <2>2, <4>1
    <3> QED
      BY <3>1, <3>2
  <2> QED
    BY <2>2 DEF KindsMixOnlyByRaces, Mixed
<1> QED
  BY Invariance, <1>1, PTL
=============================================================================
