------------------------- MODULE LoggedModelsProofs -------------------------
(***************************************************************************)
(* Proofs of the safety properties of LoggedModels, for any finite         *)
(* collection of models, any calls, and pages of any size.                 *)
(*                                                                         *)
(* Of a search only two things are used: each page is cut from a sequence  *)
(* without repetitions, and the last of them is the first that has no      *)
(* successor.  How the sequence comes about is left to TLC.                *)
(***************************************************************************)
EXTENDS LoggedModels, FiniteSetTheorems, TLAPS

(* The operations of a call are those of its request.                      *)
PhaseInv ==
    \A c \in Calls :
       /\ pc[c] \in {"find_experiment", "insert"} => request[c].op = "create"
       /\ pc[c] \in {"read_run", "write_tag"} => request[c].op = "record"
       /\ pc[c] = "page" => request[c].op = "search"
       /\ pc[c] = "update" =>
             request[c].op \notin {"create", "record", "search"}

(* A collection is finite.                                                 *)
FiniteInv == IsFiniteSet(DOMAIN models)

(* No call writes the tag twice.                                           *)
WroteInv ==
    /\ \A i, j \in DOMAIN wrote : i # j => wrote[i] # wrote[j]
    /\ \A c \in Calls :
          /\ pc[c] \in {"idle", "read_run", "write_tag"} =>
                c \notin Elements(wrote)
          /\ request[c].op = "record" /\ pc[c] \in {"reply", "done"} =>
                c \in Elements(wrote)

(* The list tag may be what the calls w have left when they wrote it one   *)
(* after another, and had read it after the calls was: it has entries of   *)
(* these calls only, in their order, and each of the others was            *)
(* overwritten by a call that had not seen it.                             *)
Left(tag, w, was) ==
    /\ Elements(tag) \subseteq Elements(w)
    /\ \A i, j \in DOMAIN tag : i < j => Place(w, tag[i]) < Place(w, tag[j])
    /\ \A i \in DOMAIN w : w[i] \notin Elements(tag) =>
          \E j \in DOMAIN w : j > i /\ w[i] \notin Elements(was[w[j]])

Prefix(v, w) ==
    /\ Len(v) <= Len(w)
    /\ \A i \in DOMAIN v : v[i] = w[i]

(* What a call has seen is what the writes before its read had left.       *)
LeftInv ==
    /\ Left(entries, wrote, before)
    /\ \A c \in Calls : pc[c] = "write_tag" =>
          Left(seen[c], before[c], before) /\ Prefix(before[c], wrote)

(* A sequence without repetitions.                                         *)
Listing(s, S) ==
    /\ s \in Seq(S)
    /\ \A i, j \in DOMAIN s : i # j => s[i] # s[j]

(* Page i is cut from result i; all but the last have a successor, which   *)
(* is why they are full, and so has the last if there is more to come.     *)
CutFrom(pp, rr, S, limit, more) ==
    /\ Len(rr) = Len(pp)
    /\ \A i \in 1..Len(pp) :
          /\ Listing(rr[i], S)
          /\ pp[i] = PageOf(rr[i], (i - 1) * limit, limit)
          /\ (i < Len(pp) \/ more) => Len(rr[i]) > (i - 1) * limit + limit

PageInv ==
    \A c \in Calls :
       /\ CutFrom(pages[c], results[c], DOMAIN models, work.limit,
                  pc[c] = "page")
       /\ pc[c] = "idle" => Len(pages[c]) = 0
       /\ request[c].op = "search" /\ pc[c] \in {"reply", "done"} =>
             /\ Len(pages[c]) # 0
             /\ Len(results[c][Len(pages[c])])
                   <= (Len(pages[c]) - 1) * work.limit + work.limit

(* The types TypeOK does not spell out.                                    *)
HistoryTypeOK ==
    /\ entries \in Seq(Calls) /\ wrote \in Seq(Calls)
    /\ seen \in [Calls -> Seq(Calls)] /\ before \in [Calls -> Seq(Calls)]
    /\ pages \in [Calls -> Seq(Seq(ModelIds))]
    /\ results \in [Calls -> Seq(Seq(ModelIds))]

(* The part of TypeOK that is not about pages.                             *)
StateTypeOK ==
    /\ DOMAIN models \subseteq ModelIds
    /\ \A m \in DOMAIN models : models[m] \in Model
    /\ points \subseteq Metrics
    /\ runStage \in {"active", "deleted"}
    /\ pc \in [Calls -> Phases]
    /\ work \in Workloads
    /\ error \in [Calls -> Errors]
    /\ faults \in 0..MaxFaults

IInv == /\ StateTypeOK /\ HistoryTypeOK /\ PhaseInv /\ FiniteInv
        /\ WroteInv /\ LeftInv /\ PageInv

-----------------------------------------------------------------------------
(* Sequences and pages.                                                    *)

LEMMA ElementOfSeq ==
    ASSUME NEW S, NEW s \in Seq(S), NEW x
    PROVE  /\ DOMAIN s = 1..Len(s) /\ Len(s) \in Nat
           /\ x \in Elements(s) <=> \E i \in 1..Len(s) : s[i] = x
           /\ Elements(s) \subseteq S
<1>1. DOMAIN s = 1..Len(s) /\ Len(s) \in Nat /\ \A i \in 1..Len(s) : s[i] \in S
  OBVIOUS
<1> QED
  BY <1>1 DEF Elements

LEMMA Appended ==
    ASSUME NEW S, NEW s \in Seq(S), NEW x \in S
    PROVE  /\ Append(s, x) \in Seq(S)
           /\ Len(Append(s, x)) = Len(s) + 1
           /\ DOMAIN Append(s, x) = 1..(Len(s) + 1)
           /\ \A i \in 1..Len(s) : Append(s, x)[i] = s[i]
           /\ Append(s, x)[Len(s) + 1] = x
           /\ Elements(Append(s, x)) = Elements(s) \union {x}
<1> DEFINE t == Append(s, x)
<1>1. /\ t \in Seq(S) /\ Len(t) = Len(s) + 1 /\ DOMAIN t = 1..(Len(s) + 1)
      /\ \A i \in 1..Len(s) : t[i] = s[i]
      /\ t[Len(s) + 1] = x
  OBVIOUS
<1>2. DOMAIN s = 1..Len(s) /\ Len(s) \in Nat
  OBVIOUS
<1> HIDE DEF t
<1>3. Elements(t) = Elements(s) \union {x}
  BY <1>1, <1>2 DEF Elements
<1> QED
  BY <1>1, <1>3 DEF t

(* The place of an element that occurs once.                               *)
LEMMA PlaceIs ==
    ASSUME NEW S, NEW s \in Seq(S), NEW i \in 1..Len(s),
           \A j, k \in DOMAIN s : j # k => s[j] # s[k]
    PROVE  Place(s, s[i]) = i
<1>1. DOMAIN s = 1..Len(s)
  OBVIOUS
<1>2. s[i] \in Elements(s)
  BY <1>1 DEF Elements
<1>3. \A k \in DOMAIN s : s[k] = s[i] => k = i
  BY <1>1
<1> QED
  BY <1>1, <1>2, <1>3 DEF Place

LEMMA PlaceHolds ==
    ASSUME NEW S, NEW s \in Seq(S), NEW x \in Elements(s)
    PROVE  Place(s, x) \in 1..Len(s) /\ s[Place(s, x)] = x
<1>1. \E i \in DOMAIN s : s[i] = x
  BY DEF Elements
<1>2. DOMAIN s = 1..Len(s)
  OBVIOUS
<1> QED
  BY <1>1, <1>2 DEF Place

LEMMA PageIs ==
    ASSUME NEW S, NEW s \in Seq(S), NEW first \in Nat, NEW size \in Nat
    PROVE  /\ PageOf(s, first, size) \in Seq(S)
           /\ Len(PageOf(s, first, size)) =
                 IF first >= Len(s) THEN 0
                 ELSE IF first + size < Len(s) THEN size ELSE Len(s) - first
           /\ \A i \in 1..Len(PageOf(s, first, size)) :
                 PageOf(s, first, size)[i] = s[first + i]
BY DEF PageOf

LEMMA MoreIs ==
    ASSUME NEW S, NEW s \in Seq(S), NEW first \in Nat, NEW size \in Nat
    PROVE  HasMore(s, first, size) <=> Len(s) > first + size
<1>1. size + 1 \in Nat
  OBVIOUS
<1>2. Len(PageOf(s, first, size + 1)) =
         IF first >= Len(s) THEN 0
         ELSE IF first + (size + 1) < Len(s) THEN size + 1 ELSE Len(s) - first
  BY ONLY <1>1, PageIs, s \in Seq(S), first \in Nat
<1> QED
  BY <1>2 DEF HasMore

(* What stands in front of place p.                                        *)
Ahead(s, p) == {s[k] : k \in 1..(p - 1)}

(* A sequence of more elements has one more than another, if none of them  *)
(* is there twice.                                                         *)
LEMMA LongerFront ==
    ASSUME NEW S, NEW s \in Seq(S), NEW t \in Seq(S),
           NEW p \in 1..Len(s), NEW q \in 1..Len(t), q < p,
           \A i, j \in DOMAIN s : i # j => s[i] # s[j]
    PROVE  ~(Ahead(s, p) \subseteq Ahead(t, q))
<1> SUFFICES ASSUME Ahead(s, p) \subseteq Ahead(t, q)
             PROVE  FALSE
  OBVIOUS
<1> DEFINE f == [k \in 1..(p - 1) |-> CHOOSE l \in 1..(q - 1) : t[l] = s[k]]
<1>1. \A k \in 1..(p - 1) : f[k] \in 1..(q - 1) /\ t[f[k]] = s[k]
  <2> TAKE k \in 1..(p - 1)
  <2>1. \E l \in 1..(q - 1) : t[l] = s[k]
    BY DEF Ahead
  <2> QED
    BY <2>1
<1>2. f \in [1..(p - 1) -> 1..(q - 1)]
  BY <1>1
<1>3. /\ IsFiniteSet(1..(p - 1)) /\ Cardinality(1..(p - 1)) = p - 1
      /\ IsFiniteSet(1..(q - 1)) /\ Cardinality(1..(q - 1)) = q - 1
  <2>1. p \in Nat \ {0} /\ q \in Nat \ {0}
    OBVIOUS
  <2>2. ASSUME NEW n \in Nat \ {0}
        PROVE  IsFiniteSet(1..(n - 1)) /\ Cardinality(1..(n - 1)) = n - 1
    <3> DEFINE b == n - 1
    <3>1. b \in Int /\ 1 \in Int /\ (1 > b => b = 0)
      OBVIOUS
    <3>2. /\ IsFiniteSet(1..b)
          /\ Cardinality(1..b) = IF 1 > b THEN 0 ELSE b - 1 + 1
      <4> HIDE DEF b
      <4> QED
        BY ONLY <3>1, FS_Interval
    <3> QED
      BY <3>1, <3>2
  <2> QED
    BY <2>1, <2>2
<1> HIDE DEF f
<1>4. PICK k, l \in 1..(p - 1) : k # l /\ f[k] = f[l]
  <2> DEFINE A == 1..(p - 1)
             B == 1..(q - 1)
  <2>1. p - 1 \in Nat /\ q - 1 \in Nat /\ q - 1 < p - 1
    OBVIOUS
  <2>2. /\ IsFiniteSet(A) /\ IsFiniteSet(B) /\ f \in [A -> B]
        /\ Cardinality(B) < Cardinality(A)
    BY <1>2, <1>3, <2>1
  <2> HIDE DEF A, B
  <2>3. \E k, l \in A : k # l /\ f[k] = f[l]
    BY ONLY <2>2, FS_PigeonHole
  <2> QED
    BY <2>3 DEF A
<1> QED
  BY <1>1, <1>4

-----------------------------------------------------------------------------
(* What a step does: it moves a call on and, besides changing models,      *)
(* reads the tag, writes it, or takes a page.                              *)

Follows(c, phase) ==
    \/ pc[c] = "idle" /\ phase = FirstOperation(request[c].op)
    \/ pc[c] = "find_experiment" /\ phase = "insert"
    \/ pc[c] \in {"insert", "update"} /\ phase = "reply"
    \/ pc[c] = "reply" /\ phase = "done"
    \/ Running(c) /\ phase = "failed"

Grows ==
    /\ DOMAIN models \subseteq DOMAIN models'
    /\ \E m : DOMAIN models' \subseteq DOMAIN models \union {m}

PlainStep(c) ==
    /\ \E phase \in Phases : Follows(c, phase) /\ Goto(c, phase)
    /\ Grows
    /\ UNCHANGED <<entries, work, seen, pages, history>>

ReadStep(c) ==
    /\ pc[c] = "read_run"
    /\ Goto(c, "write_tag")
    /\ seen' = [seen EXCEPT ![c] = entries]
    /\ before' = [before EXCEPT ![c] = wrote]
    /\ UNCHANGED <<models, entries, work, pages, wrote, results>>

WriteStep(c) ==
    /\ pc[c] = "write_tag"
    /\ Goto(c, "reply")
    /\ entries' = Append(seen[c], c)
    /\ wrote' = Append(wrote, c)
    /\ UNCHANGED <<models, work, seen, pages, before, results>>

PageStep(c) ==
    /\ pc[c] = "page"
    /\ \E found \in SearchResults(query, models, points) :
          /\ pages' = [pages EXCEPT
                         ![c] = Append(@, PageOf(found, Offset(c), work.limit))]
          /\ results' = [results EXCEPT ![c] = Append(@, found)]
          /\ Goto(c, IF HasMore(found, Offset(c), work.limit) THEN "page"
                     ELSE "reply")
    /\ UNCHANGED <<models, entries, work, seen, wrote, before>>

QuietStep == UNCHANGED <<models, entries, pc, work, seen, pages, history>>

LEMMA RequestType ==
    ASSUME work \in Workloads, NEW c \in Calls
    PROVE  request[c] \in Request /\ work.limit \in Nat \ {0}
BY WorkloadsAssumption DEF request

LEMMA StepEffect ==
    ASSUME StateTypeOK, PhaseInv, [Next]_vars
    PROVE  \/ QuietStep
           \/ \E c \in Calls :
                 PlainStep(c) \/ ReadStep(c) \/ WriteStep(c) \/ PageStep(c)
<1> USE DEF documents, history
<1>1. CASE UNCHANGED vars
  BY <1>1 DEF vars, QuietStep
<1>2. CASE MoveRun \/ AllReturned
  BY <1>2 DEF MoveRun, AllReturned, vars, QuietStep
<1>3. ASSUME NEW c \in Calls, Arrive(c) \/ CallStep(c) \/ Fault(c)
      PROVE  PlainStep(c) \/ ReadStep(c) \/ WriteStep(c) \/ PageStep(c)
  <2> pc[c] \in Phases /\ request[c].op \in Ops
    <3>1. request[c] \in Request
      BY RequestType DEF StateTypeOK
    <3> QED
      BY <3>1 DEF StateTypeOK, Request
  <2>1. CASE Arrive(c)
    <3>1. FirstOperation(request[c].op) \in Phases
      BY DEF FirstOperation, Phases
    <3>2. /\ Follows(c, FirstOperation(request[c].op))
          /\ Goto(c, FirstOperation(request[c].op))
      BY <2>1 DEF Arrive, Follows, Proceed
    <3> QED
      BY <2>1, <3>1, <3>2 DEF Arrive, PlainStep, Grows
  <2>2. ASSUME NEW phase \in Phases, Follows(c, phase), Goto(c, phase), Grows,
               UNCHANGED <<entries, work, seen, pages, history>>
        PROVE  PlainStep(c)
    BY <2>2 DEF PlainStep
  <2>3. "insert" \in Phases /\ "reply" \in Phases /\ "failed" \in Phases
        /\ "done" \in Phases
    BY DEF Phases
  <2>4. UNCHANGED models => Grows
    BY DEF Grows
  <2>5. CASE FindExperiment(c)
    BY <2>2, <2>3, <2>4, <2>5
       DEF FindExperiment, Proceed, Fail, Follows, Running
  <2>6. CASE InsertModel(c)
    <3>1. Grows
      BY <2>6 DEF InsertModel, Grows
    <3> QED
      BY <2>2, <2>3, <2>6, <3>1 DEF InsertModel, Proceed, Follows
  <2>7. ASSUME NEW e, Refuse(c, e) PROVE PlainStep(c)
    BY <2>2, <2>3, <2>4, <2>7 DEF Refuse, Fail, Follows, Running
  <2>8. ASSUME NEW m, NEW doc, UpdateModel(c, m, doc) PROVE PlainStep(c)
    <3>1. DOMAIN models' = DOMAIN models
      BY <2>8 DEF UpdateModel
    <3>2. Grows
      BY <3>1 DEF Grows
    <3> QED
      BY <2>2, <2>3, <2>8, <3>2 DEF UpdateModel, Proceed, Follows
  <2>9. CASE \/ ModelMissing(c) \/ Finalize(c) \/ MarkDeleted(c)
             \/ LogParams(c) \/ SetTags(c) \/ DeleteTag(c)
    BY <2>7, <2>8, <2>9 DEF ModelMissing, Finalize, MarkDeleted, LogParams,
       SetTags, DeleteTag
  <2>10. CASE LogMetric(c)
    BY <2>2, <2>3, <2>4, <2>10 DEF LogMetric, Proceed, Follows
  <2>11. CASE ReadRun(c)
    <3>1. CASE runStage = "active"
      BY <2>11, <3>1 DEF ReadRun, Proceed, ReadStep
    <3>2. CASE runStage # "active"
      BY <2>2, <2>3, <2>4, <2>11, <3>2 DEF ReadRun, Fail, Follows, Running
    <3> QED
      BY <3>1, <3>2
  <2>12. CASE WriteTag(c)
    <3>1. CASE runStage = "active"
      BY <2>12, <3>1 DEF WriteTag, Proceed, WriteStep
    <3>2. CASE runStage # "active"
      BY <2>2, <2>3, <2>4, <2>12, <3>2 DEF WriteTag, Fail, Follows, Running
    <3> QED
      BY <3>1, <3>2
  <2>13. CASE NextPage(c)
    BY <2>13 DEF NextPage, Proceed, PageStep
  <2>14. CASE Return(c)
    BY <2>2, <2>3, <2>4, <2>14 DEF Return, Proceed, Follows
  <2>15. CASE Fault(c)
    BY <2>2, <2>3, <2>4, <2>15 DEF Fault, Fail, Follows
  <2> QED
    BY <1>3, <2>1, <2>5, <2>6, <2>9, <2>10, <2>11, <2>12, <2>13, <2>14, <2>15
       DEF CallStep
<1> QED
  BY <1>1, <1>2, <1>3 DEF Next

-----------------------------------------------------------------------------
(* Types, phases and finiteness.                                           *)

LEMMA EntriesType ==
    ASSUME NEW old \in Entries
    PROVE  /\ \A new \in Entries : Merge(old, new) \in Entries
           /\ \A k \in Keys : [old EXCEPT ![k] = None] \in Entries
BY DEF Merge, Entries

LEMMA StateTypeStep ==
    ASSUME StateTypeOK, [Next]_vars
    PROVE  StateTypeOK'
<1> USE FaultsAssumption
<1> DEFINE Others == /\ points \subseteq Metrics
                     /\ runStage \in {"active", "deleted"}
                     /\ pc \in [Calls -> Phases]
                     /\ work \in Workloads
                     /\ error \in [Calls -> Errors]
                     /\ faults \in 0..MaxFaults
           ModelsOK == /\ DOMAIN models \subseteq ModelIds
                       /\ \A m \in DOMAIN models : models[m] \in Model
<1>1. CASE UNCHANGED vars
  BY <1>1 DEF StateTypeOK, vars
<1>2. CASE MoveRun \/ AllReturned
  BY <1>2 DEF StateTypeOK, MoveRun, AllReturned, vars
<1>3. ASSUME NEW c \in Calls, Arrive(c) \/ CallStep(c) \/ Fault(c)
      PROVE  StateTypeOK'
  <2> request[c] \in Request
    BY RequestType DEF StateTypeOK
  <2>1. Others'
    <3> USE DEF StateTypeOK, documents
    <3> {"insert", "reply", "write_tag", "page", "done", "failed"} \subseteq Phases
      BY DEF Phases
    <3>1. FirstOperation(request[c].op) \in Phases
      BY DEF FirstOperation, Phases
    <3>2. CASE Arrive(c)
      BY <3>1, <3>2 DEF Arrive, Proceed, Goto
    <3>3. CASE FindExperiment(c)
      BY <3>3 DEF FindExperiment, Proceed, Fail, Goto, Errors
    <3>4. CASE InsertModel(c)
      BY <3>4 DEF InsertModel, Proceed, Goto
    <3>5. ASSUME NEW e \in Errors, Refuse(c, e) PROVE Others'
      BY <3>5 DEF Refuse, Fail, Goto
    <3>6. ASSUME NEW m, NEW doc, UpdateModel(c, m, doc) PROVE Others'
      BY <3>6 DEF UpdateModel, Proceed, Goto
    <3>7. CASE \/ ModelMissing(c) \/ Finalize(c) \/ MarkDeleted(c)
               \/ LogParams(c) \/ SetTags(c) \/ DeleteTag(c)
      <4> "not_found" \in Errors /\ "exists" \in Errors
          /\ "tag_not_found" \in Errors
        BY DEF Errors
      <4> HIDE DEF Others
      <4> QED
        BY <3>5, <3>6, <3>7 DEF ModelMissing, Finalize, MarkDeleted, LogParams,
           SetTags, DeleteTag
    <3>8. CASE LogMetric(c)
      BY <3>8 DEF LogMetric, Proceed, Goto, Request
    <3>9. CASE ReadRun(c)
      BY <3>9 DEF ReadRun, Proceed, Fail, Goto, Errors
    <3>10. CASE WriteTag(c)
      BY <3>10 DEF WriteTag, Proceed, Fail, Goto, Errors
    <3>11. CASE NextPage(c)
      BY <3>11 DEF NextPage, Proceed, Goto
    <3>12. CASE Return(c)
      BY <3>12 DEF Return, Proceed, Goto
    <3>13. CASE Fault(c)
      BY <3>13 DEF Fault, Fail, Goto, Errors
    <3> HIDE DEF Others
    <3> QED
      BY <1>3, <3>2, <3>3, <3>4, <3>7, <3>8, <3>9, <3>10, <3>11, <3>12, <3>13
         DEF CallStep
  <2>2. ModelsOK'
    <3>1. CASE UNCHANGED models
      BY <3>1 DEF StateTypeOK
    <3>2. CASE InsertModel(c)
      BY <3>2 DEF StateTypeOK, InsertModel, Model, Request
    <3>3. ASSUME NEW m \in DOMAIN models, NEW doc \in Model,
                 UpdateModel(c, m, doc)
          PROVE  ModelsOK'
      BY <3>3 DEF StateTypeOK, UpdateModel
    <3>4. ASSUME request[c].model \in DOMAIN models
          PROVE  models[request[c].model] \in Model
      BY <3>4 DEF StateTypeOK
    <3> HIDE DEF ModelsOK
    <3>5. CASE Finalize(c)
      <4> DEFINE m == request[c].model
                 doc == [models[m] EXCEPT !.status = request[c].status]
      <4>1. m \in DOMAIN models /\ UpdateModel(c, m, doc)
        BY <3>5 DEF Finalize
      <4>2. doc \in Model
        BY <3>4, <4>1 DEF Model, Request
      <4> QED
        BY ONLY <3>3, <4>1, <4>2
    <3>6. CASE MarkDeleted(c)
      <4> DEFINE m == request[c].model
                 doc == [models[m] EXCEPT !.stage = "deleted"]
      <4>1. m \in DOMAIN models /\ UpdateModel(c, m, doc)
        BY <3>6 DEF MarkDeleted
      <4>2. doc \in Model
        BY <3>4, <4>1 DEF Model
      <4> QED
        BY ONLY <3>3, <4>1, <4>2
    <3>7. CASE LogParams(c) /\ ~UNCHANGED models
      <4> DEFINE m == request[c].model
                 new == request[c].entries
                 doc == [models[m] EXCEPT !.params = Merge(@, new)]
      <4>1. m \in DOMAIN models /\ UpdateModel(c, m, doc)
        BY <3>7 DEF LogParams, Refuse, documents
      <4>2. models[m].params \in Entries /\ new \in Entries
        BY <3>4, <4>1 DEF Model, Request
      <4>3. Merge(models[m].params, new) \in Entries
        BY <4>2, EntriesType
      <4>4. doc \in Model
        BY <3>4, <4>1, <4>3 DEF Model
      <4> QED
        BY ONLY <3>3, <4>1, <4>4
    <3>8. CASE SetTags(c)
      <4> DEFINE m == request[c].model
                 new == request[c].entries
                 doc == [models[m] EXCEPT !.tags = Merge(@, new)]
      <4>1. m \in DOMAIN models /\ UpdateModel(c, m, doc)
        BY <3>8 DEF SetTags
      <4>2. models[m].tags \in Entries /\ new \in Entries
        BY <3>4, <4>1 DEF Model, Request
      <4>3. Merge(models[m].tags, new) \in Entries
        BY <4>2, EntriesType
      <4>4. doc \in Model
        BY <3>4, <4>1, <4>3 DEF Model
      <4> QED
        BY ONLY <3>3, <4>1, <4>4
    <3>9. CASE DeleteTag(c) /\ ~UNCHANGED models
      <4> DEFINE m == request[c].model
                 k == request[c].key
                 doc == [models[m] EXCEPT !.tags[k] = None]
      <4>1. m \in DOMAIN models /\ UpdateModel(c, m, doc)
        BY <3>9 DEF DeleteTag, Refuse, documents
      <4>2. models[m].tags \in Entries /\ k \in Keys
        BY <3>4, <4>1 DEF Model, Request
      <4>3. [models[m].tags EXCEPT ![k] = None] \in Entries
        BY <4>2, EntriesType
      <4>4. doc \in Model
        BY <3>4, <4>1, <4>3 DEF Model
      <4> QED
        BY ONLY <3>3, <4>1, <4>4
    <3>10. CASE \/ Arrive(c) \/ FindExperiment(c) \/ ModelMissing(c)
                \/ LogMetric(c) \/ ReadRun(c) \/ WriteTag(c) \/ NextPage(c)
                \/ Return(c) \/ Fault(c)
      BY <3>1, <3>10 DEF Arrive, FindExperiment, ModelMissing, Refuse,
         LogMetric, ReadRun, WriteTag, NextPage, Return, Fault, documents
    <3> QED
      BY <1>3, <3>1, <3>2, <3>5, <3>6, <3>7, <3>8, <3>9, <3>10 DEF CallStep
  <2> QED
    BY <2>1, <2>2 DEF StateTypeOK
<1> QED
  BY <1>1, <1>2, <1>3 DEF Next

LEMMA PhaseStep ==
    ASSUME StateTypeOK, PhaseInv, [Next]_vars
    PROVE  PhaseInv'
<1>1. ASSUME NEW c \in Calls, NEW phase \in Phases, Follows(c, phase),
             Goto(c, phase), UNCHANGED work
      PROVE  PhaseInv'
  <2>1. request[c].op \in Ops
    BY RequestType DEF StateTypeOK, Request
  <2> QED
    BY <1>1, <2>1
       DEF StateTypeOK, PhaseInv, Follows, FirstOperation, Goto, Ops, request
<1>2. ASSUME NEW c \in Calls, Goto(c, "write_tag"), pc[c] = "read_run",
             UNCHANGED work
      PROVE  PhaseInv'
  BY <1>2 DEF StateTypeOK, PhaseInv, Goto, request
<1>3. ASSUME NEW c \in Calls, Goto(c, "reply"), UNCHANGED work
      PROVE  PhaseInv'
  BY <1>3 DEF StateTypeOK, PhaseInv, Goto, request
<1>4. ASSUME NEW c \in Calls, Goto(c, "page"), pc[c] = "page", UNCHANGED work
      PROVE  PhaseInv'
  BY <1>4 DEF StateTypeOK, PhaseInv, Goto, request
<1>5. CASE QuietStep
  BY <1>5 DEF QuietStep, PhaseInv, request
<1> QED
  BY <1>1, <1>2, <1>3, <1>4, <1>5, StepEffect
     DEF PlainStep, ReadStep, WriteStep, PageStep

LEMMA FiniteStep ==
    ASSUME StateTypeOK, PhaseInv, FiniteInv, [Next]_vars
    PROVE  FiniteInv' /\ DOMAIN models \subseteq DOMAIN models'
<1>1. CASE UNCHANGED models
  BY <1>1 DEF FiniteInv
<1>2. CASE Grows
  <2>1. PICK m : DOMAIN models' \subseteq DOMAIN models \union {m}
    BY <1>2 DEF Grows
  <2>2. IsFiniteSet(DOMAIN models \union {m})
    BY FS_AddElement DEF FiniteInv
  <2>3. IsFiniteSet(DOMAIN models')
    BY <2>1, <2>2, FS_Subset
  <2> QED
    BY <1>2, <2>3 DEF FiniteInv, Grows
<1> QED
  BY <1>1, <1>2, StepEffect
     DEF QuietStep, PlainStep, ReadStep, WriteStep, PageStep

(* What a search finds is finite and has no repetitions.                   *)
LEMMA ResultIsListing ==
    ASSUME FiniteInv, NEW found \in SearchResults(query, models, points)
    PROVE  Listing(found, DOMAIN models)
<1>1. PICK matching \in SUBSET (DOMAIN models) :
         /\ found \in [1..Cardinality(matching) -> matching]
         /\ \A i, j \in 1..Cardinality(matching) : i < j => found[i] # found[j]
  BY DEF SearchResults
<1>2. Cardinality(matching) \in Nat
  <2>1. IsFiniteSet(matching)
    BY FS_Subset DEF FiniteInv
  <2> QED
    BY <2>1, FS_CardinalityType
<1>3. found \in Seq(DOMAIN models)
  <2>1. found \in [1..Cardinality(matching) -> DOMAIN models]
    BY <1>1
  <2> QED
    BY <1>2, <2>1
<1>4. \A i, j \in DOMAIN found : i # j => found[i] # found[j]
  <2>1. DOMAIN found = 1..Cardinality(matching)
    BY <1>1
  <2>2. \A i, j \in 1..Cardinality(matching) : i # j => i < j \/ j < i
    BY <1>2
  <2> QED
    BY <1>1, <2>1, <2>2
<1> QED
  BY <1>3, <1>4 DEF Listing

LEMMA HistoryTypeStep ==
    ASSUME StateTypeOK, HistoryTypeOK, PhaseInv, FiniteInv, [Next]_vars
    PROVE  HistoryTypeOK'
<1> USE DEF HistoryTypeOK
<1>1. CASE QuietStep
  BY <1>1 DEF QuietStep, history
<1>2. ASSUME NEW c \in Calls, PlainStep(c) PROVE HistoryTypeOK'
  BY <1>2 DEF PlainStep, history
<1>3. ASSUME NEW c \in Calls, ReadStep(c) PROVE HistoryTypeOK'
  BY <1>3 DEF ReadStep
<1>4. ASSUME NEW c \in Calls, WriteStep(c) PROVE HistoryTypeOK'
  BY <1>4 DEF WriteStep
<1>5. ASSUME NEW c \in Calls, PageStep(c) PROVE HistoryTypeOK'
  <2>1. PICK found \in SearchResults(query, models, points) :
           /\ pages' = [pages EXCEPT
                         ![c] = Append(@, PageOf(found, Offset(c), work.limit))]
           /\ results' = [results EXCEPT ![c] = Append(@, found)]
    BY <1>5 DEF PageStep
  <2>2. found \in Seq(ModelIds)
    BY ResultIsListing DEF Listing, StateTypeOK
  <2>3. Offset(c) \in Nat /\ work.limit \in Nat
    BY RequestType DEF Offset, StateTypeOK
  <2>4. PageOf(found, Offset(c), work.limit) \in Seq(ModelIds)
    BY <2>2, <2>3, PageIs
  <2> QED
    BY <1>5, <2>1, <2>2, <2>4 DEF PageStep
<1> QED
  BY <1>1, <1>2, <1>3, <1>4, <1>5, StepEffect

-----------------------------------------------------------------------------
(* The tag of a run.                                                       *)

LEMMA WroteStep ==
    ASSUME StateTypeOK, HistoryTypeOK, PhaseInv, WroteInv, [Next]_vars
    PROVE  WroteInv'
<1>1. CASE QuietStep
  BY <1>1 DEF QuietStep, history, WroteInv, request
<1>2. ASSUME NEW c \in Calls, PlainStep(c) PROVE WroteInv'
  <2>1. UNCHANGED <<wrote, work>>
    BY <1>2 DEF PlainStep, history
  <2>2. PICK phase \in Phases : Follows(c, phase) /\ Goto(c, phase)
    BY <1>2 DEF PlainStep
  <2>3. /\ phase \in {"idle", "read_run", "write_tag"} =>
              pc[c] \in {"idle", "read_run", "write_tag"}
        /\ request[c].op = "record" /\ phase \in {"reply", "done"} =>
              pc[c] = "reply"
    BY <2>2 DEF Follows, FirstOperation, PhaseInv
  <2>4. pc' = [pc EXCEPT ![c] = phase]
    BY <2>2 DEF Goto
  <2> QED
    BY <2>1, <2>3, <2>4 DEF WroteInv, request, StateTypeOK
<1>3. ASSUME NEW c \in Calls, ReadStep(c) PROVE WroteInv'
  BY <1>3 DEF ReadStep, Goto, WroteInv, request, StateTypeOK
<1>4. ASSUME NEW c \in Calls, WriteStep(c) PROVE WroteInv'
  <2>1. c \notin Elements(wrote)
    BY <1>4 DEF WriteStep, WroteInv
  <2>2. /\ wrote' = Append(wrote, c) /\ wrote \in Seq(Calls)
        /\ pc' = [pc EXCEPT ![c] = "reply"] /\ work' = work
    BY <1>4 DEF WriteStep, Goto, HistoryTypeOK
  <2>3. /\ DOMAIN wrote' = 1..(Len(wrote) + 1)
        /\ \A i \in 1..Len(wrote) : wrote'[i] = wrote[i]
        /\ wrote'[Len(wrote) + 1] = c
        /\ Elements(wrote)' = Elements(wrote) \union {c}
    <3>1. Elements(wrote)' = Elements(wrote')
      BY DEF Elements
    <3> QED
      BY <2>2, <3>1, Appended
  <2>4. DOMAIN wrote = 1..Len(wrote) /\ Len(wrote) \in Nat
    BY <2>2
  <2>5. \A i \in 1..Len(wrote) : wrote[i] # c
    BY <2>1, <2>4 DEF Elements
  <2>6. \A i, j \in DOMAIN wrote' : i # j => wrote'[i] # wrote'[j]
    BY <2>3, <2>4, <2>5 DEF WroteInv
  <2>7. \A d \in Calls :
           /\ pc'[d] \in {"idle", "read_run", "write_tag"} =>
                 d \notin Elements(wrote) \union {c}
           /\ request[d].op = "record" /\ pc'[d] \in {"reply", "done"} =>
                 d \in Elements(wrote) \union {c}
    BY <2>2 DEF WroteInv, StateTypeOK
  <2> QED
    BY <2>2, <2>3, <2>6, <2>7 DEF WroteInv, request
<1>5. ASSUME NEW c \in Calls, PageStep(c) PROVE WroteInv'
  <2>1. pc[c] = "page" /\ UNCHANGED <<wrote, work>>
    BY <1>5 DEF PageStep
  <2>2. PICK phase \in {"page", "reply"} : Goto(c, phase)
    BY <1>5 DEF PageStep
  <2>3. request[c].op # "record"
    BY <2>1 DEF PhaseInv
  <2> QED
    BY <2>1, <2>2, <2>3 DEF WroteInv, Goto, request, StateTypeOK
<1> QED
  BY <1>1, <1>2, <1>3, <1>4, <1>5, StepEffect

(* What Left says of a tag depends on the reads of the calls that have     *)
(* written it.                                                             *)
LEMMA LeftStable ==
    ASSUME NEW w \in Seq(Calls), NEW tag, NEW was, NEW now,
           Left(tag, w, was), \A d \in Elements(w) : now[d] = was[d]
    PROVE  Left(tag, w, now)
<1>1. \A j \in DOMAIN w : now[w[j]] = was[w[j]]
  BY DEF Elements
<1>2. \A i \in DOMAIN w : w[i] \notin Elements(tag) =>
          \E j \in DOMAIN w : j > i /\ w[i] \notin Elements(now[w[j]])
  BY <1>1 DEF Left
<1> QED
  BY <1>2 DEF Left

LEMMA PrefixElements ==
    ASSUME NEW v \in Seq(Calls), NEW w \in Seq(Calls), Prefix(v, w)
    PROVE  Elements(v) \subseteq Elements(w)
<1>1. /\ DOMAIN v = 1..Len(v) /\ DOMAIN w = 1..Len(w)
      /\ Len(v) \in Nat /\ Len(w) \in Nat
  OBVIOUS
<1>2. \A i \in 1..Len(v) : i \in 1..Len(w) /\ v[i] = w[i]
  BY <1>1 DEF Prefix
<1> QED
  BY <1>1, <1>2 DEF Elements

(* A call that has seen tag, which v left, writes tag with its own entry   *)
(* after w.                                                                *)
LEMMA LeftAppended ==
    ASSUME NEW v \in Seq(Calls), NEW w \in Seq(Calls), NEW tag \in Seq(Calls),
           NEW was, NEW c \in Calls,
           Left(tag, v, was), Prefix(v, w), was[c] = v, c \notin Elements(w),
           \A i, j \in DOMAIN w : i # j => w[i] # w[j]
    PROVE  Left(Append(tag, c), Append(w, c), was)
<1> DEFINE t == Append(tag, c)
           x == Append(w, c)
<1>1. /\ DOMAIN t = 1..(Len(tag) + 1) /\ Elements(t) = Elements(tag) \union {c}
      /\ \A i \in 1..Len(tag) : t[i] = tag[i]
      /\ t[Len(tag) + 1] = c /\ t \in Seq(Calls)
  BY Appended
<1>2. /\ DOMAIN x = 1..(Len(w) + 1) /\ Elements(x) = Elements(w) \union {c}
      /\ \A i \in 1..Len(w) : x[i] = w[i]
      /\ x[Len(w) + 1] = c /\ x \in Seq(Calls) /\ Len(x) = Len(w) + 1
  BY Appended
<1> HIDE DEF t, x
<1>3. /\ DOMAIN v = 1..Len(v) /\ DOMAIN w = 1..Len(w)
      /\ DOMAIN tag = 1..Len(tag)
      /\ Len(v) \in Nat /\ Len(w) \in Nat /\ Len(tag) \in Nat
  OBVIOUS
<1>4. /\ Len(v) <= Len(w)
      /\ \A i \in 1..Len(v) : v[i] = w[i] /\ x[i] = w[i]
  <2>1. Len(v) <= Len(w) /\ \A i \in 1..Len(v) : v[i] = w[i]
    BY <1>3 DEF Prefix
  <2>2. \A i \in 1..Len(v) : i \in 1..Len(w)
    BY ONLY <1>3, <2>1
  <2> QED
    BY <1>2, <2>1, <2>2
<1>5. \A i \in 1..Len(w) : w[i] # c
  BY <1>3 DEF Elements
<1>6. ASSUME NEW i \in DOMAIN x, NEW j \in DOMAIN x, i # j
      PROVE  x[i] # x[j]
  <2>1. \A k \in DOMAIN x : k \in 1..Len(w) \/ k = Len(w) + 1
    BY <1>2, <1>3
  <2>2. CASE i \in 1..Len(w) /\ j \in 1..Len(w)
    BY <1>2, <1>3, <1>6, <2>2
  <2>3. CASE i = Len(w) + 1 /\ j \in 1..Len(w)
    BY <1>2, <1>5, <2>3
  <2>4. CASE i \in 1..Len(w) /\ j = Len(w) + 1
    BY <1>2, <1>5, <2>4
  <2> QED
    BY <1>6, <2>1, <2>2, <2>3, <2>4
<1>7. \A i, j \in DOMAIN v : i # j => v[i] # v[j]
  BY <1>3, <1>4
<1>8. Elements(t) \subseteq Elements(x)
  <2>1. Elements(v) \subseteq Elements(w)
    BY <1>3, <1>4 DEF Elements
  <2> QED
    BY <1>1, <1>2, <2>1 DEF Left
<1>9. ASSUME NEW d \in Elements(v)
      PROVE  Place(x, d) = Place(v, d) /\ Place(v, d) \in 1..Len(w)
  <2>1. Place(v, d) \in 1..Len(v) /\ v[Place(v, d)] = d
    BY PlaceHolds
  <2>2. Place(v, d) \in 1..Len(x) /\ x[Place(v, d)] = d
    BY <1>2, <1>3, <1>4, <2>1
  <2>3. Place(x, x[Place(v, d)]) = Place(v, d)
    <3> DEFINE p == Place(v, d)
    <3> HIDE DEF p
    <3>1. p \in 1..Len(x) => Place(x, x[p]) = p
      BY <1>2, <1>6, PlaceIs
    <3> QED
      BY <2>2, <3>1 DEF p
  <2> QED
    BY <1>3, <1>4, <2>1, <2>2, <2>3
<1>10. Place(x, c) = Len(w) + 1
  <2>1. Len(w) + 1 \in 1..Len(x)
    BY <1>2, <1>3
  <2>2. Place(x, x[Len(w) + 1]) = Len(w) + 1
    <3> DEFINE p == Len(w) + 1
    <3> HIDE DEF p
    <3>1. p \in 1..Len(x) => Place(x, x[p]) = p
      BY <1>2, <1>6, PlaceIs
    <3> QED
      BY <2>1, <3>1 DEF p
  <2> QED
    BY <1>2, <2>2
<1>11. ASSUME NEW i \in DOMAIN t, NEW j \in DOMAIN t, i < j
       PROVE  Place(x, t[i]) < Place(x, t[j])
  <2>0. \A k \in 1..Len(tag) : t[k] = tag[k] /\ tag[k] \in Elements(v)
    <3>1. \A k \in 1..Len(tag) : tag[k] \in Elements(tag)
      BY <1>3 DEF Elements
    <3>2. Elements(tag) \subseteq Elements(v)
      BY DEF Left
    <3> QED
      BY <1>1, <3>1, <3>2
  <2>1. i \in 1..Len(tag) /\ t[i] = tag[i] /\ tag[i] \in Elements(v)
    <3>1. i \in 1..Len(tag)
      BY <1>1, <1>3, <1>11
    <3> QED
      BY <2>0, <3>1
  <2>2. CASE j \in 1..Len(tag)
    <3>1. t[j] = tag[j] /\ tag[j] \in Elements(v)
      BY <2>2, <2>0
    <3>2. Place(v, tag[i]) < Place(v, tag[j])
      BY <1>3, <1>11, <2>1, <2>2 DEF Left
    <3> QED
      BY <1>9, <2>1, <3>1, <3>2
  <2>3. CASE j = Len(tag) + 1
    BY <1>1, <1>3, <1>9, <1>10, <2>1, <2>3
  <2> QED
    BY <1>1, <1>3, <2>2, <2>3
<1>12. ASSUME NEW i \in DOMAIN x, x[i] \notin Elements(t)
       PROVE  \E j \in DOMAIN x : j > i /\ x[i] \notin Elements(was[x[j]])
  <2>1. i \in 1..Len(w) /\ x[i] = w[i] /\ x[i] \notin Elements(tag)
    BY <1>1, <1>2, <1>3, <1>12
  <2>2. CASE x[i] \in Elements(v)
    <3>1. PICK k \in DOMAIN v : v[k] = x[i]
      BY <2>2 DEF Elements
    <3>2. PICK j \in DOMAIN v : j > k /\ v[k] \notin Elements(was[v[j]])
      BY <2>1, <3>1 DEF Left
    <3>3. k = i
      BY <1>2, <1>3, <1>4, <1>6, <3>1
    <3> QED
      BY <1>2, <1>3, <1>4, <3>1, <3>2, <3>3
  <2>3. CASE x[i] \notin Elements(v)
    BY <1>2, <1>3, <2>1, <2>3
  <2> QED
    BY <2>2, <2>3
<1>13. Left(t, x, was)
  BY <1>8, <1>11, <1>12 DEF Left
<1> QED
  BY <1>13 DEF t, x

LEMMA LeftStep ==
    ASSUME StateTypeOK, HistoryTypeOK, PhaseInv, WroteInv, LeftInv, [Next]_vars
    PROVE  LeftInv'
<1>1. CASE QuietStep
  BY <1>1 DEF QuietStep, history, LeftInv
<1>2. ASSUME NEW c \in Calls, NEW phase, Goto(c, phase), phase # "write_tag",
             UNCHANGED <<entries, wrote, before, seen>>
      PROVE  LeftInv'
  BY <1>2 DEF LeftInv, Goto, StateTypeOK
<1>3. ASSUME NEW c \in Calls, PlainStep(c) PROVE LeftInv'
  <2>1. PICK phase \in Phases : Follows(c, phase) /\ Goto(c, phase)
    BY <1>3 DEF PlainStep
  <2>2. phase # "write_tag"
    BY <2>1 DEF Follows, FirstOperation
  <2> QED
    BY <1>2, <1>3, <2>1, <2>2 DEF PlainStep, history
<1>4. ASSUME NEW c \in Calls, PageStep(c) PROVE LeftInv'
  BY <1>2, <1>4 DEF PageStep
<1>5. ASSUME NEW c \in Calls, ReadStep(c) PROVE LeftInv'
  <2>1. /\ before' = [before EXCEPT ![c] = wrote]
        /\ seen' = [seen EXCEPT ![c] = entries]
        /\ pc' = [pc EXCEPT ![c] = "write_tag"]
        /\ UNCHANGED <<entries, wrote>>
    BY <1>5 DEF ReadStep, Goto
  <2>2. c \notin Elements(wrote)
    BY <1>5 DEF ReadStep, WroteInv
  <2>3. \A d \in Calls : d # c => before'[d] = before[d]
    BY <2>1 DEF HistoryTypeOK
  <2>4. /\ wrote \in Seq(Calls)
        /\ \A d \in Elements(wrote) : d \in Calls /\ d # c
    BY <2>2, ElementOfSeq DEF HistoryTypeOK
  <2>5. Left(entries, wrote, before')
    BY <2>3, <2>4, LeftStable DEF LeftInv
  <2>6. ASSUME NEW d \in Calls, pc'[d] = "write_tag"
        PROVE  Left(seen'[d], before'[d], before') /\ Prefix(before'[d], wrote')
    <3>1. CASE d = c
      <4>1. seen'[d] = entries /\ before'[d] = wrote
        BY <2>1, <3>1 DEF HistoryTypeOK
      <4>2. Prefix(wrote, wrote)
        BY DEF Prefix, HistoryTypeOK
      <4> QED
        BY <2>1, <2>5, <4>1, <4>2
    <3>2. CASE d # c
      <4>1. /\ seen'[d] = seen[d] /\ before'[d] = before[d]
            /\ pc[d] = "write_tag"
        BY <2>1, <2>6, <3>2 DEF HistoryTypeOK, StateTypeOK
      <4>2. Left(seen[d], before[d], before) /\ Prefix(before[d], wrote)
        BY <4>1 DEF LeftInv
      <4>3. before[d] \in Seq(Calls)
        BY DEF HistoryTypeOK
      <4>5. \A a \in Elements(before[d]) : a \in Elements(wrote)
        BY <4>2, <4>3, <2>4, PrefixElements
      <4>4. Left(seen[d], before[d], before')
        BY <2>3, <2>4, <4>2, <4>3, <4>5, LeftStable
      <4> QED
        BY <2>1, <4>1, <4>2, <4>4
    <3> QED
      BY <3>1, <3>2
  <2> QED
    BY <2>1, <2>5, <2>6 DEF LeftInv
<1>6. ASSUME NEW c \in Calls, WriteStep(c) PROVE LeftInv'
  <2>1. /\ entries' = Append(seen[c], c) /\ wrote' = Append(wrote, c)
        /\ UNCHANGED <<seen, before>>
        /\ pc[c] = "write_tag" /\ pc' = [pc EXCEPT ![c] = "reply"]
    BY <1>6 DEF WriteStep, Goto
  <2>2. /\ wrote \in Seq(Calls) /\ seen[c] \in Seq(Calls)
        /\ \A d \in Calls : before[d] \in Seq(Calls)
    BY DEF HistoryTypeOK
  <2>3. Left(entries', wrote', before)
    <3>1. Left(seen[c], before[c], before) /\ Prefix(before[c], wrote)
      BY <2>1 DEF LeftInv
    <3>2. c \notin Elements(wrote)
      BY <2>1 DEF WroteInv
    <3>3. \A i, j \in DOMAIN wrote : i # j => wrote[i] # wrote[j]
      BY DEF WroteInv
    <3> DEFINE v == before[c]
               w == wrote
               tag == seen[c]
               was == before
    <3>4. /\ Left(tag, v, was) /\ Prefix(v, w) /\ was[c] = v
          /\ c \notin Elements(w) /\ v \in Seq(Calls) /\ w \in Seq(Calls)
          /\ tag \in Seq(Calls) /\ c \in Calls
          /\ \A i, j \in DOMAIN w : i # j => w[i] # w[j]
      BY <2>2, <3>1, <3>2, <3>3
    <3> HIDE DEF v, w, tag, was
    <3>5. Left(Append(tag, c), Append(w, c), was)
      BY ONLY <3>4, LeftAppended
    <3> QED
      BY <2>1, <3>5 DEF w, tag, was
  <2>4. ASSUME NEW d \in Calls, pc'[d] = "write_tag"
        PROVE  Left(seen[d], before[d], before) /\ Prefix(before[d], wrote')
    <3>1. pc[d] = "write_tag"
      BY <2>1, <2>4 DEF StateTypeOK
    <3>2. Left(seen[d], before[d], before) /\ Prefix(before[d], wrote)
      BY <3>1 DEF LeftInv
    <3>3. /\ Len(wrote') = Len(wrote) + 1 /\ Len(wrote) \in Nat
          /\ \A i \in 1..Len(wrote) : wrote'[i] = wrote[i]
          /\ DOMAIN before[d] = 1..Len(before[d]) /\ Len(before[d]) \in Nat
      BY <2>1, <2>2
    <3> QED
      BY <3>2, <3>3 DEF Prefix
  <2> QED
    BY <2>1, <2>3, <2>4 DEF LeftInv
<1> QED
  BY <1>1, <1>3, <1>4, <1>5, <1>6, StepEffect

-----------------------------------------------------------------------------
(* The pages of a search.                                                  *)

LEMMA CutStable ==
    ASSUME NEW pp, NEW rr, NEW S, NEW T, NEW limit, NEW more, NEW still,
           CutFrom(pp, rr, S, limit, more), S \subseteq T,
           still => more \/ Len(pp) = 0
    PROVE  CutFrom(pp, rr, T, limit, still)
<1>1. \A s : Listing(s, S) => Listing(s, T)
  BY DEF Listing
<1>2. CASE Len(pp) = 0
  BY <1>2 DEF CutFrom
<1>3. CASE still => more
  BY <1>1, <1>3 DEF CutFrom
<1> QED
  BY <1>2, <1>3

LEMMA CutAppended ==
    ASSUME NEW X, NEW pp \in Seq(Seq(X)), NEW rr \in Seq(Seq(X)), NEW S,
           NEW limit \in Nat, NEW found \in Seq(X), NEW more,
           CutFrom(pp, rr, S, limit, TRUE), Listing(found, S),
           more => Len(found) > Len(pp) * limit + limit
    PROVE  CutFrom(Append(pp, PageOf(found, Len(pp) * limit, limit)),
                   Append(rr, found), S, limit, more)
<1> DEFINE n == Len(pp)
           page == PageOf(found, n * limit, limit)
           qq == Append(pp, page)
           tt == Append(rr, found)
<1>1. n \in Nat /\ n * limit \in Nat /\ Len(rr) = n
  BY DEF CutFrom
<1>2. page \in Seq(X)
  <2> HIDE DEF n
  <2> QED
    BY <1>1, PageIs
<1>3. /\ Len(qq) = n + 1 /\ qq[n + 1] = page
      /\ \A i \in 1..n : qq[i] = pp[i]
  <2> HIDE DEF page
  <2> QED
    BY <1>2
<1>4. /\ Len(tt) = n + 1 /\ tt[n + 1] = found
      /\ \A i \in 1..n : tt[i] = rr[i]
  BY <1>1
<1>5. (n + 1) - 1 = n
  BY <1>1
<1>6. \A i \in 1..n : /\ Listing(rr[i], S)
                      /\ pp[i] = PageOf(rr[i], (i - 1) * limit, limit)
                      /\ Len(rr[i]) > (i - 1) * limit + limit
  BY DEF CutFrom
<1>7. /\ page = PageOf(found, n * limit, limit) /\ Listing(found, S)
      /\ more => Len(found) > n * limit + limit
  OBVIOUS
<1> HIDE DEF n, page, qq, tt
<1>8. ASSUME NEW i \in 1..(n + 1)
      PROVE  /\ Listing(tt[i], S)
             /\ qq[i] = PageOf(tt[i], (i - 1) * limit, limit)
             /\ (i < n + 1 \/ more) => Len(tt[i]) > (i - 1) * limit + limit
  <2>1. CASE i \in 1..n
    BY <1>3, <1>4, <1>6, <2>1
  <2>2. CASE i = n + 1
    <3>1. i - 1 = n /\ ~(i < n + 1)
      BY <1>1, <2>2
    <3> QED
      BY <1>3, <1>4, <1>7, <2>2, <3>1
  <2> QED
    BY <1>1, <2>1, <2>2
<1>9. CutFrom(qq, tt, S, limit, more)
  BY <1>3, <1>4, <1>8 DEF CutFrom
<1> QED
  BY <1>9 DEF qq, tt, page, n

LEMMA PageStepHolds ==
    ASSUME StateTypeOK, HistoryTypeOK, PhaseInv, FiniteInv, PageInv, [Next]_vars
    PROVE  PageInv'
<1> DEFINE Cut(c) == CutFrom(pages[c], results[c], DOMAIN models, work.limit,
                             pc[c] = "page")
           Ended(c) == request[c].op = "search" /\ pc[c] \in {"reply", "done"} =>
                          /\ Len(pages[c]) # 0
                          /\ Len(results[c][Len(pages[c])])
                                <= (Len(pages[c]) - 1) * work.limit + work.limit
<1>1. DOMAIN models \subseteq DOMAIN models'
  BY FiniteStep
<1>2. ASSUME NEW c \in Calls, UNCHANGED <<work, pages, results>>,
             pc'[c] = "page" => pc[c] = "page" \/ pc[c] = "idle",
             pc'[c] = "idle" => pc[c] = "idle",
             request[c].op = "search" /\ pc'[c] \in {"reply", "done"} =>
                pc[c] \in {"reply", "done"}
      PROVE  /\ Cut(c)' /\ Ended(c)'
             /\ pc'[c] = "idle" => Len(pages'[c]) = 0
  <2>1. CutFrom(pages[c], results[c], DOMAIN models, work.limit, pc[c] = "page")
    BY DEF PageInv
  <2>2. pc[c] = "idle" => Len(pages[c]) = 0
    BY DEF PageInv
  <2>3. CutFrom(pages[c], results[c], DOMAIN models', work.limit,
                pc'[c] = "page")
    BY ONLY <1>1, <1>2, <2>1, <2>2, CutStable
  <2>4. Cut(c)'
    BY <1>2, <2>3
  <2>5. Ended(c)'
    BY <1>2 DEF PageInv, request
  <2> QED
    BY <1>2, <2>2, <2>4, <2>5
<1>3. ASSUME NEW c \in Calls, NEW phase, Goto(c, phase),
             UNCHANGED <<work, pages, results>>,
             phase = "page" => pc[c] = "idle",
             phase # "idle",
             request[c].op = "search" /\ phase \in {"reply", "done"} =>
                pc[c] = "reply"
      PROVE  PageInv'
  <2>1. \A d \in Calls : pc'[d] = IF d = c THEN phase ELSE pc[d]
    BY <1>3 DEF Goto, StateTypeOK
  <2>2. \A d \in Calls : /\ Cut(d)' /\ Ended(d)'
                         /\ pc'[d] = "idle" => Len(pages'[d]) = 0
    <3> HIDE DEF Cut, Ended
    <3> QED
      BY <1>2, <1>3, <2>1
  <2> QED
    BY <2>2 DEF PageInv
<1>4. CASE QuietStep
  <2>1. UNCHANGED <<work, pages, results, pc>>
    BY <1>4 DEF QuietStep, history
  <2>2. \A d \in Calls : /\ Cut(d)' /\ Ended(d)'
                         /\ pc'[d] = "idle" => Len(pages'[d]) = 0
    <3> HIDE DEF Cut, Ended
    <3> QED
      BY <1>2, <2>1
  <2> QED
    BY <2>2 DEF PageInv
<1>5. ASSUME NEW c \in Calls, PlainStep(c) PROVE PageInv'
  <2>1. PICK phase \in Phases : Follows(c, phase) /\ Goto(c, phase)
    BY <1>5 DEF PlainStep
  <2>2. UNCHANGED <<work, pages, results>>
    BY <1>5 DEF PlainStep, history
  <2>3. /\ phase = "page" => pc[c] = "idle"
        /\ phase # "idle"
        /\ request[c].op = "search" /\ phase \in {"reply", "done"} =>
              pc[c] = "reply"
    BY <2>1 DEF Follows, FirstOperation, PhaseInv
  <2> QED
    BY <1>3, <2>1, <2>2, <2>3
<1>6. ASSUME NEW c \in Calls, ReadStep(c) \/ WriteStep(c) PROVE PageInv'
  <2>1. request[c].op # "search"
    BY <1>6 DEF ReadStep, WriteStep, PhaseInv
  <2> QED
    BY <1>3, <1>6, <2>1 DEF ReadStep, WriteStep
<1>7. ASSUME NEW c \in Calls, PageStep(c) PROVE PageInv'
  <2>1. PICK found \in SearchResults(query, models, points) :
           /\ pages' = [pages EXCEPT
                         ![c] = Append(@, PageOf(found, Offset(c), work.limit))]
           /\ results' = [results EXCEPT ![c] = Append(@, found)]
           /\ Goto(c, IF HasMore(found, Offset(c), work.limit) THEN "page"
                      ELSE "reply")
    BY <1>7 DEF PageStep
  <2> DEFINE n == Len(pages[c])
             limit == work.limit
             more == HasMore(found, n * limit, limit)
             qq == Append(pages[c], PageOf(found, n * limit, limit))
             tt == Append(results[c], found)
  <2>2. UNCHANGED <<work, models>> /\ pc[c] = "page"
    BY <1>7 DEF PageStep
  <2>3. Listing(found, DOMAIN models) /\ found \in Seq(ModelIds)
    BY <2>1, ResultIsListing DEF Listing, StateTypeOK
  <2>4. n \in Nat /\ limit \in Nat /\ n * limit \in Nat
    BY RequestType DEF StateTypeOK, HistoryTypeOK
  <2>5. /\ pages'[c] = qq /\ results'[c] = tt
        /\ pc'[c] = IF more THEN "page" ELSE "reply"
        /\ \A d \in Calls : d # c => /\ pages'[d] = pages[d]
                                     /\ results'[d] = results[d]
                                     /\ pc'[d] = pc[d]
    BY <2>1 DEF HistoryTypeOK, StateTypeOK, Offset, Goto
  <2>6. more <=> Len(found) > n * limit + limit
    <3> HIDE DEF n, limit
    <3> QED
      BY <2>3, <2>4, MoreIs
  <2>7. CutFrom(qq, tt, DOMAIN models, limit, more)
    <3>1. CutFrom(pages[c], results[c], DOMAIN models, limit, TRUE)
      BY <2>2 DEF PageInv
    <3>2. pages[c] \in Seq(Seq(ModelIds)) /\ results[c] \in Seq(Seq(ModelIds))
      BY DEF HistoryTypeOK
    <3> HIDE DEF limit, more
    <3> QED
      BY ONLY <2>3, <2>4, <2>6, <3>1, <3>2, CutAppended
  <2>8. /\ Len(qq) = n + 1 /\ tt[n + 1] = found
        /\ Len(found) \in Nat /\ (n + 1) - 1 = n
    <3>1. PageOf(found, n * limit, limit) \in Seq(ModelIds)
      <4> HIDE DEF n, limit
      <4> QED
        BY <2>3, <2>4, PageIs
    <3>2. Len(results[c]) = n
      BY DEF PageInv, CutFrom
    <3>3. pages[c] \in Seq(Seq(ModelIds)) /\ results[c] \in Seq(Seq(ModelIds))
      BY DEF HistoryTypeOK
    <3> DEFINE page == PageOf(found, n * limit, limit)
    <3>4. Len(Append(pages[c], page)) = Len(pages[c]) + 1
      <4> HIDE DEF page
      <4> QED
        BY ONLY <3>1, <3>3, Appended DEF page
    <3>5. tt[Len(results[c]) + 1] = found
      BY ONLY <2>3, <3>3, Appended
    <3> QED
      BY <2>3, <2>4, <3>2, <3>4, <3>5
  <2>9. ~more => /\ Len(qq) # 0
                 /\ Len(tt[Len(qq)]) <= (Len(qq) - 1) * limit + limit
    <3> HIDE DEF n, limit, more, qq, tt
    <3> QED
      BY <2>4, <2>6, <2>8
  <2>10. Cut(c)' /\ Ended(c)' /\ pc'[c] # "idle"
    <3>1. Cut(c)'
      <4>1. (pc'[c] = "page") = more
        BY <2>5 DEF HasMore
      <4> HIDE DEF n, more, qq, tt
      <4> QED
        BY <2>2, <2>5, <2>7, <4>1
    <3>2. Ended(c)'
      <4> HIDE DEF n, more, qq, tt
      <4> QED
        BY <2>2, <2>5, <2>9
    <3> QED
      BY <2>5, <3>1, <3>2
  <2>11. ASSUME NEW d \in Calls, d # c
         PROVE  /\ Cut(d)' /\ Ended(d)'
                /\ pc'[d] = "idle" => Len(pages'[d]) = 0
    <3>1. pages'[d] = pages[d] /\ results'[d] = results[d] /\ pc'[d] = pc[d]
      BY <2>5, <2>11
    <3>2. Cut(d) /\ Ended(d) /\ (pc[d] = "idle" => Len(pages[d]) = 0)
      BY DEF PageInv
    <3>3. Cut(d)'
      BY <2>2, <3>1, <3>2
    <3>4. Ended(d)'
      BY <2>2, <3>1, <3>2 DEF request
    <3> QED
      BY <3>1, <3>2, <3>3, <3>4
  <2> HIDE DEF Cut, Ended
  <2>12. \A d \in Calls : /\ Cut(d)' /\ Ended(d)'
                          /\ pc'[d] = "idle" => Len(pages'[d]) = 0
    BY <2>10, <2>11
  <2> QED
    BY <2>12 DEF PageInv, Cut, Ended
<1> QED
  BY <1>4, <1>5, <1>6, <1>7, StepEffect

-----------------------------------------------------------------------------
(* What the invariant says of the properties.                              *)

LEMMA PagesTyped ==
    ASSUME IInv, NEW c \in Calls, NEW i \in DOMAIN pages[c]
    PROVE  /\ Elements(pages[c][i]) \subseteq DOMAIN models
           /\ Len(pages[c][i]) <= work.limit
           /\ (i < Len(pages[c]) \/ pc[c] = "page") =>
                 Len(pages[c][i]) = work.limit
<1> DEFINE s == results[c][i]
           first == (i - 1) * work.limit
           page == PageOf(s, first, work.limit)
<1>1. i \in 1..Len(pages[c]) /\ i - 1 \in Nat
  BY DEF IInv, HistoryTypeOK
<1>2. work.limit \in Nat /\ first \in Nat
  BY <1>1, RequestType DEF IInv, StateTypeOK
<1>3. s \in Seq(DOMAIN models) /\ pages[c][i] = page
  BY <1>1 DEF IInv, PageInv, CutFrom, Listing
<1>4. (i < Len(pages[c]) \/ pc[c] = "page") => Len(s) > first + work.limit
  BY <1>1 DEF IInv, PageInv, CutFrom
<1>5. Len(s) \in Nat
  BY <1>3
<1> HIDE DEF s, first
<1>6. /\ page \in Seq(DOMAIN models)
      /\ Len(page) = IF first >= Len(s) THEN 0
                     ELSE IF first + work.limit < Len(s) THEN work.limit
                     ELSE Len(s) - first
  BY <1>2, <1>3, PageIs
<1>7. Elements(page) \subseteq DOMAIN models
  BY ONLY <1>6, ElementOfSeq
<1> HIDE DEF page
<1> QED
  BY <1>2, <1>3, <1>4, <1>5, <1>6, <1>7

LEMMA InvImpliesType ==
    ASSUME IInv
    PROVE  TypeOK
<1>1. \A c \in Calls : Len(results[c]) = Len(pages[c])
  BY DEF IInv, PageInv, CutFrom
<1>2. {entries} \union {seen[c] : c \in Calls} \subseteq Seq(Calls)
  BY DEF IInv, HistoryTypeOK
<1>3. /\ \A c \in Calls : before[c] \in Seq(Calls)
      /\ wrote \in Seq(Calls)
  BY DEF IInv, HistoryTypeOK
<1> QED
  BY <1>1, <1>2, <1>3, PagesTyped DEF TypeOK, IInv, StateTypeOK

LEMMA InvImpliesRecords ==
    ASSUME IInv
    PROVE  RecordsLostOnlyByOverlap
<1>1. Left(entries, wrote, before)
  BY DEF IInv, LeftInv
<1>2. \A c \in Calls :
         request[c].op = "record" /\ pc[c] = "done" => c \in Elements(wrote)
  BY DEF IInv, WroteInv
<1> QED
  BY <1>1, <1>2 DEF RecordsLostOnlyByOverlap, Left

LEMMA PageLength ==
    ASSUME NEW first \in Nat, NEW limit \in Nat, NEW n \in Nat, NEW size,
           size = IF first >= n THEN 0
                  ELSE IF first + limit < n THEN limit ELSE n - first
    PROVE  /\ \A i \in 1..size : i > 0 /\ i <= limit /\ first + i \in 1..n
           /\ \A p \in 1..n : first < p /\ p <= first + limit =>
                 p - first \in 1..size /\ first + (p - first) = p
<1>1. CASE first >= n
  BY <1>1
<1>2. CASE ~(first >= n) /\ first + limit < n
  BY <1>2
<1>3. CASE ~(first >= n) /\ ~(first + limit < n)
  BY <1>3
<1> QED
  BY <1>1, <1>2, <1>3

(* An element of a listing is on the page that its place belongs to.       *)
LEMMA OnPage ==
    ASSUME NEW S, NEW s, Listing(s, S), NEW m \in Elements(s),
           NEW first \in Nat, NEW limit \in Nat
    PROVE  m \in Elements(PageOf(s, first, limit)) <=>
              first < Place(s, m) /\ Place(s, m) <= first + limit
<1> DEFINE page == PageOf(s, first, limit)
           p == Place(s, m)
<1>1. s \in Seq(S) /\ DOMAIN s = 1..Len(s) /\ Len(s) \in Nat
  BY DEF Listing
<1>2. p \in 1..Len(s) /\ s[p] = m
  BY <1>1, PlaceHolds
<1>3. \A i \in 1..Len(s) : s[i] = m => i = p
  BY <1>1, <1>2 DEF Listing
<1>4. /\ page \in Seq(S)
      /\ Len(page) = IF first >= Len(s) THEN 0
                     ELSE IF first + limit < Len(s) THEN limit
                     ELSE Len(s) - first
      /\ \A i \in 1..Len(page) : page[i] = s[first + i]
  BY <1>1, PageIs
<1> HIDE DEF page, p
<1>5. m \in Elements(page) <=> \E i \in 1..Len(page) : page[i] = m
  BY <1>4 DEF Elements
<1>8. /\ \A i \in 1..Len(page) :
            i > 0 /\ i <= limit /\ first + i \in 1..Len(s)
      /\ \A x \in 1..Len(s) : first < x /\ x <= first + limit =>
            x - first \in 1..Len(page) /\ first + (x - first) = x
  <2> DEFINE n == Len(s)
             size == Len(page)
  <2>1. /\ first \in Nat /\ limit \in Nat /\ n \in Nat
        /\ size = IF first >= n THEN 0
                  ELSE IF first + limit < n THEN limit ELSE n - first
    BY <1>1, <1>4
  <2> HIDE DEF n, size
  <2>2. /\ \A i \in 1..size : i > 0 /\ i <= limit /\ first + i \in 1..n
        /\ \A x \in 1..n : first < x /\ x <= first + limit =>
              x - first \in 1..size /\ first + (x - first) = x
    BY ONLY <2>1, PageLength
  <2> QED
    BY <2>2 DEF n, size
<1>6. ASSUME NEW i \in 1..Len(page), page[i] = m
      PROVE  first < p /\ p <= first + limit
  <2>1. s[first + i] = m
    BY <1>4, <1>6
  <2>2. first + i \in 1..Len(s) /\ i <= limit /\ i > 0
    BY <1>8
  <2>3. first + i = p
    BY <1>3, <2>1, <2>2
  <2>4. i \in Nat
    OBVIOUS
  <2> QED
    BY <2>2, <2>3, <2>4
<1>7. ASSUME first < p, p <= first + limit
      PROVE  \E i \in 1..Len(page) : page[i] = m
  <2>1. p - first \in 1..Len(page) /\ first + (p - first) = p
    BY <1>2, <1>7, <1>8
  <2> QED
    BY <1>2, <1>4, <2>1
<1> QED
  BY <1>5, <1>6, <1>7 DEF page, p

-----------------------------------------------------------------------------
(* Induction on an index, in a form that takes a set and not a predicate.  *)

LEMMA LeastNatural ==
    ASSUME NEW T, T \subseteq Nat, T # {}
    PROVE  \E m \in T : \A k \in T : m <= k
<1> DEFINE R == OpToRel(<, Nat)
<1>1. IsWellFoundedOn(R, Nat)
  BY NatLessThanWellFounded
<1>2. \A k, m \in Nat : <<k, m>> \in R <=> k < m
  BY DEF OpToRel
<1> HIDE DEF R
<1>3. PICK m \in T : \A k \in T : ~(<<k, m>> \in R)
  BY <1>1, WFMin
<1>4. ASSUME NEW k \in T PROVE m <= k
  <2>1. ~(k < m)
    BY <1>2, <1>3
  <2> QED
    BY <2>1
<1> QED
  BY <1>3, <1>4

(* place[i] is the place of one model in result i, first[i] what is in     *)
(* front of page i.                                                        *)
Paged(n, place, first, limit) ==
    /\ n \in Nat \ {0} /\ limit \in Nat
    /\ place \in [1..n -> Nat \ {0}] /\ first \in [1..n -> Nat]
    /\ first[1] = 0
    /\ \A i \in 1..n : i > 1 => first[i] = first[i - 1] + limit

(* A model that is on no page although the last has no successor came      *)
(* forward at some time ...                                                *)
LEMMA CameForward ==
    ASSUME NEW n, NEW place, NEW first, NEW limit,
           Paged(n, place, first, limit),
           place[n] <= first[n] + limit,
           \A i \in 1..n : ~(first[i] < place[i] /\ place[i] <= first[i] + limit)
    PROVE  \E i \in 1..n : i > 1 /\ place[i] < place[i - 1]
<1> DEFINE T == {i \in 1..n : place[i] <= first[i] + limit}
<1> USE DEF Paged
<1>1. T \subseteq Nat /\ T # {}
  <2>1. n \in T
    OBVIOUS
  <2>2. T \subseteq Nat
    BY n \in Nat
  <2> QED
    BY <2>1, <2>2
<1>2. PICK i \in T : \A k \in T : i <= k
  <2> HIDE DEF T
  <2> QED
    BY <1>1, LeastNatural
<1>3. place[i] <= first[i] /\ i > 1
  <2>1. place[i] <= first[i]
    BY <1>2
  <2>2. place[1] > first[1]
    OBVIOUS
  <2> QED
    BY <1>2, <2>1, <2>2
<1>4. i - 1 \in 1..n /\ i - 1 \notin T
  BY <1>2, <1>3
<1>5. place[i - 1] > first[i - 1] + limit /\ first[i] = first[i - 1] + limit
  BY <1>2, <1>3, <1>4
<1>6. place[i - 1] \in Nat /\ place[i] \in Nat /\ first[i] \in Nat
  BY <1>2, <1>4
<1> QED
  BY <1>2, <1>3, <1>5, <1>6

(* ... and one that is on two pages fell behind.                           *)
LEMMA FellBehind ==
    ASSUME NEW n, NEW place, NEW first, NEW limit,
           Paged(n, place, first, limit),
           NEW i \in 1..n, NEW j \in 1..n, i < j,
           place[i] <= first[i] + limit, first[j] < place[j]
    PROVE  \E k \in 1..n : k > 1 /\ place[k - 1] < place[k]
<1> DEFINE T == {k \in 1..n : k > i /\ first[k] < place[k]}
<1> USE DEF Paged
<1>1. T \subseteq Nat /\ T # {}
  <2>1. j \in T
    OBVIOUS
  <2>2. T \subseteq Nat
    BY n \in Nat
  <2> QED
    BY <2>1, <2>2
<1>2. PICK k \in T : \A l \in T : k <= l
  <2> HIDE DEF T
  <2> QED
    BY <1>1, LeastNatural
<1>3. /\ k - 1 \in 1..n /\ k - 1 \notin T /\ k > 1 /\ k \in 1..n
      /\ first[k] = first[k - 1] + limit
  BY <1>2
<1>4. /\ place[k - 1] \in Nat /\ place[k] \in Nat
      /\ first[k] \in Nat /\ first[k - 1] \in Nat
  BY <1>3
<1>5. place[k - 1] <= first[k]
  <2>1. CASE k - 1 = i
    BY <1>3, <2>1
  <2>2. CASE k - 1 # i
    <3>1. k - 1 > i
      BY <1>2, <2>2
    <3>2. ~(first[k - 1] < place[k - 1])
      BY <1>3, <3>1
    <3>3. first[k] = first[k - 1] + limit /\ limit \in Nat
      BY <1>3
    <3> QED
      BY ONLY <1>4, <3>2, <3>3
  <2> QED
    BY <2>1, <2>2
<1>6. first[k] < place[k]
  BY <1>2
<1>7. place[k - 1] < place[k]
  BY ONLY <1>4, <1>5, <1>6
<1> QED
  BY ONLY <1>3, <1>7

LEMMA InvImpliesPages ==
    ASSUME IInv
    PROVE  PagesFollowTheResult
<1> SUFFICES ASSUME NEW c \in Calls, request[c].op = "search", pc[c] = "done",
                    NEW m \in DOMAIN models,
                    \A i \in DOMAIN results[c] : m \in Elements(results[c][i])
             PROVE  LET s == results[c]
                        Front(i) == {s[i][j] : j \in 1..(Place(s[i], m) - 1)}
                        Pages == {i \in DOMAIN s : m \in Elements(pages[c][i])}
                        steps == {i \in DOMAIN s : i > 1} IN
                    /\ Pages = {} =>
                          \E i \in steps : ~(Front(i - 1) \subseteq Front(i))
                    /\ (\E i, j \in Pages : i # j) =>
                          \E i \in steps : ~(Front(i) \subseteq Front(i - 1))
  BY DEF PagesFollowTheResult
<1> DEFINE s == results[c]
           n == Len(s)
           Front(i) == {s[i][j] : j \in 1..(Place(s[i], m) - 1)}
           Pages == {i \in DOMAIN s : m \in Elements(pages[c][i])}
           steps == {i \in DOMAIN s : i > 1}
           limit == work.limit
           place == [i \in 1..n |-> Place(s[i], m)]
           first == [i \in 1..n |-> (i - 1) * limit]
<1>1. DOMAIN s = 1..n /\ n \in Nat /\ n = Len(pages[c])
  BY DEF IInv, HistoryTypeOK, PageInv, CutFrom
<1>2. n # 0 /\ Len(s[n]) <= (n - 1) * limit + limit
  BY <1>1 DEF IInv, PageInv
<1>3. limit \in Nat
  BY RequestType DEF IInv, StateTypeOK
<1>4. \A i \in 1..n : /\ Listing(s[i], DOMAIN models)
                      /\ pages[c][i] = PageOf(s[i], (i - 1) * limit, limit)
  BY <1>1 DEF IInv, PageInv, CutFrom
<1>5. \A i \in 1..n : place[i] \in 1..Len(s[i]) /\ Len(s[i]) \in Nat
  <2> TAKE i \in 1..n
  <2>1. s[i] \in Seq(DOMAIN models) /\ m \in Elements(s[i])
    BY <1>1, <1>4 DEF Listing
  <2>2. Place(s[i], m) \in 1..Len(s[i]) /\ Len(s[i]) \in Nat
    <3> DEFINE t == s[i]
    <3> HIDE DEF t
    <3>1. t \in Seq(DOMAIN models) /\ m \in Elements(t) =>
             Place(t, m) \in 1..Len(t) /\ Len(t) \in Nat
      BY PlaceHolds, ElementOfSeq
    <3> QED
      BY <2>1, <3>1 DEF t
  <2> QED
    BY <2>2
<1>6. \A i \in 1..n : first[i] \in Nat
  BY <1>3
<1>7. ASSUME NEW i \in 1..n, i > 1
      PROVE  first[i] = first[i - 1] + limit
  <2>1. i - 1 \in 1..n /\ i - 1 \in Nat /\ i \in Nat
    BY <1>1, <1>7
  <2>2. first[i] = (i - 1) * limit /\ first[i - 1] = ((i - 1) - 1) * limit
    BY <2>1
  <2> DEFINE k == (i - 1) - 1
  <2>3. k \in Nat /\ i - 1 = k + 1
    BY <1>7, <2>1
  <2>4. (k + 1) * limit = k * limit + limit
    <3> HIDE DEF k, limit
    <3> QED
      BY ONLY <1>3, <2>3
  <2> QED
    BY <2>2, <2>3, <2>4
<1>8. first[1] = 0
  BY <1>1, <1>2, <1>3
<1>9. Paged(n, place, first, limit)
  <2>1. /\ place \in [1..n -> Nat \ {0}]
        /\ first \in [1..n -> Nat]
    <3>1. \A i \in 1..n : place[i] \in Nat \ {0}
      <4> HIDE DEF place, n, s
      <4> QED
        BY <1>5
    <3>2. place = [i \in 1..n |-> place[i]] /\ first = [i \in 1..n |-> first[i]]
      OBVIOUS
    <3> HIDE DEF place, first, n
    <3> QED
      BY ONLY <1>6, <3>1, <3>2
  <2>2. n \in Nat \ {0}
    BY <1>1, <1>2
  <2> HIDE DEF place, first, limit, n
  <2> QED
    BY <1>3, <1>7, <1>8, <2>1, <2>2 DEF Paged
<1>10. ASSUME NEW i \in 1..n
       PROVE  m \in Elements(pages[c][i]) <=>
                 first[i] < place[i] /\ place[i] <= first[i] + limit
  <2>1. m \in Elements(s[i]) /\ first[i] = (i - 1) * limit /\ first[i] \in Nat
        /\ place[i] = Place(s[i], m)
    BY <1>1, <1>6
  <2>2. /\ Listing(s[i], DOMAIN models)
        /\ pages[c][i] = PageOf(s[i], first[i], limit)
    BY <1>4, <2>1
  <2> DEFINE t == s[i]
             f == first[i]
             S == DOMAIN models
  <2>3. /\ m \in Elements(t) /\ f \in Nat /\ limit \in Nat /\ Listing(t, S)
        /\ pages[c][i] = PageOf(t, f, limit) /\ place[i] = Place(t, m)
    BY <1>3, <2>1, <2>2
  <2>4. m \in Elements(PageOf(t, f, limit)) <=>
           f < Place(t, m) /\ Place(t, m) <= f + limit
    <3> HIDE DEF t, f, limit, S
    <3> QED
      BY ONLY <2>3, OnPage
  <2> HIDE DEF t, limit, place
  <2> QED
    BY <2>3, <2>4
<1>11. ASSUME NEW i \in 1..n, NEW k \in 1..n, place[k] < place[i]
       PROVE  ~(Front(i) \subseteq Front(k))
  <2>1. /\ s[i] \in Seq(DOMAIN models) /\ s[k] \in Seq(DOMAIN models)
        /\ \A x, y \in DOMAIN s[i] : x # y => s[i][x] # s[i][y]
    BY <1>4 DEF Listing
  <2>2. place[i] \in 1..Len(s[i]) /\ place[k] \in 1..Len(s[k])
    BY <1>5
  <2>3. place[i] = Place(s[i], m) /\ place[k] = Place(s[k], m)
    OBVIOUS
  <2> DEFINE t == s[i]
             u == s[k]
             p == place[i]
             q == place[k]
  <2>4. /\ t \in Seq(DOMAIN models) /\ u \in Seq(DOMAIN models)
        /\ p \in 1..Len(t) /\ q \in 1..Len(u) /\ q < p
        /\ \A x, y \in DOMAIN t : x # y => t[x] # t[y]
    BY <1>11, <2>1, <2>2
  <2>5. ~(Ahead(t, p) \subseteq Ahead(u, q))
    <3> HIDE DEF t, u, p, q
    <3> QED
      BY ONLY <2>4, LongerFront
  <2> QED
    BY <2>3, <2>5 DEF Ahead
<1>12. ASSUME Pages = {}
       PROVE  \E i \in steps : ~(Front(i - 1) \subseteq Front(i))
  <2>1. \A i \in 1..n :
           ~(first[i] < place[i] /\ place[i] <= first[i] + limit)
    <3> HIDE DEF first, place, limit
    <3> QED
      BY <1>1, <1>10, <1>12
  <2>2. place[n] <= first[n] + limit
    <3>1. n \in 1..n /\ first[n] = (n - 1) * limit
      BY <1>1, <1>2
    <3>2. place[n] \in 1..Len(s[n]) /\ Len(s[n]) \in Nat
      <4> HIDE DEF place, s, n
      <4> QED
        BY ONLY <1>5, <3>1
    <3>3. first[n] \in Nat /\ Len(s[n]) <= first[n] + limit
      BY <1>2, <1>6, <3>1
    <3> HIDE DEF place, first, s, limit
    <3> QED
      BY ONLY <1>3, <3>2, <3>3
  <2>3. PICK i \in 1..n : i > 1 /\ place[i] < place[i - 1]
    <3> HIDE DEF place, first, s, limit, n
    <3> QED
      BY ONLY <1>9, <2>1, <2>2, CameForward
  <2>4. i - 1 \in 1..n /\ i \in steps
    BY <1>1, <2>3
  <2>5. ~(Front(i - 1) \subseteq Front(i))
    <3> HIDE DEF place, Front, n
    <3> QED
      BY <1>11, <2>3, <2>4
  <2> HIDE DEF Front, steps
  <2> QED
    BY <2>4, <2>5
<1>13. ASSUME NEW i \in Pages, NEW j \in Pages, i # j
       PROVE  \E k \in steps : ~(Front(k) \subseteq Front(k - 1))
  <2>1. i \in 1..n /\ j \in 1..n
    BY <1>1
  <2>2. /\ place[i] <= first[i] + limit /\ first[i] < place[i]
        /\ place[j] <= first[j] + limit /\ first[j] < place[j]
    <3>1. m \in Elements(pages[c][i]) /\ m \in Elements(pages[c][j])
      OBVIOUS
    <3> HIDE DEF place, first, limit
    <3> QED
      BY <1>10, <2>1, <3>1
  <2>3. PICK k \in 1..n : k > 1 /\ place[k - 1] < place[k]
    <3>1. i < j \/ j < i
      BY <1>13, <2>1
    <3> HIDE DEF place, first, s, limit, n, Pages
    <3>2. CASE i < j
      BY ONLY <1>9, <2>1, <2>2, <3>2, FellBehind
    <3>3. CASE j < i
      BY ONLY <1>9, <2>1, <2>2, <3>3, FellBehind
    <3> QED
      BY <3>1, <3>2, <3>3
  <2>4. k - 1 \in 1..n /\ k \in steps
    BY <1>1, <2>3
  <2>5. ~(Front(k) \subseteq Front(k - 1))
    <3> HIDE DEF place, Front, n
    <3> QED
      BY <1>11, <2>3, <2>4
  <2> HIDE DEF Front, steps
  <2> QED
    BY <2>4, <2>5
<1> QED
  BY <1>12, <1>13

-----------------------------------------------------------------------------
(* The invariant holds, and with it the properties.                        *)

LEMMA Initially ==
    ASSUME Init
    PROVE  IInv
<1> USE DEF Init
<1>1. PICK d \in Databases : models = d.models /\ points = d.points
  OBVIOUS
<1>2. /\ IsFiniteSet(DOMAIN d.models) /\ DOMAIN d.models \subseteq ModelIds
      /\ \A m \in DOMAIN d.models : d.models[m] \in Model
      /\ d.points \subseteq Metrics
  BY DatabasesAssumption
<1>3. FiniteInv
  BY <1>1, <1>2 DEF FiniteInv
<1>4. StateTypeOK
  BY <1>1, <1>2, FaultsAssumption DEF StateTypeOK, Phases, Errors
<1>5. <<>> \in Seq(Calls) /\ <<>> \in Seq(Seq(ModelIds)) /\ Elements(<<>>) = {}
  BY DEF Elements
<1>6. HistoryTypeOK
  BY <1>5 DEF HistoryTypeOK
<1>7. PhaseInv
  BY DEF PhaseInv
<1>8. WroteInv
  BY <1>5 DEF WroteInv
<1>9. LeftInv
  BY <1>5 DEF LeftInv, Left
<1>10. PageInv
  BY DEF PageInv, CutFrom
<1> QED
  BY <1>3, <1>4, <1>6, <1>7, <1>8, <1>9, <1>10 DEF IInv

(* Every conjunct of the invariant is kept by every step.                  *)
LEMMA Inductive ==
    ASSUME IInv, [Next]_vars
    PROVE  IInv'
BY StateTypeStep, HistoryTypeStep, PhaseStep, FiniteStep, WroteStep, LeftStep,
   PageStepHolds DEF IInv

(* The inductive invariant is an invariant: types, what the tag of the run *)
(* may hold, and which result every page of a search is cut from.          *)
THEOREM Invariance == Spec => []IInv
<1>1. Init => IInv
  BY Initially
<1>2. IInv /\ [Next]_vars => IInv'
  BY Inductive
<1> QED
  BY <1>1, <1>2, PTL DEF Spec

(* Types, and the shape of the pages a client has got: none is longer than *)
(* asked for and only the last may be shorter.                             *)
THEOREM TypeCorrect == Spec => []TypeOK
<1>1. IInv => TypeOK
  BY InvImpliesType
<1> QED
  BY <1>1, Invariance, PTL

(* An entry of the run's tag is lost only to a call that had read the tag  *)
(* before it was written (record_logged_model).                            *)
THEOREM RecordsKept == Spec => []RecordsLostOnlyByOverlap
<1>1. IInv => RecordsLostOnlyByOverlap
  BY InvImpliesRecords
<1> QED
  BY <1>1, Invariance, PTL

(* A client that follows the page tokens misses no model that every request *)
(* found, unless something in front of it went away meanwhile, and gets it  *)
(* once unless something came in front of it (search_logged_models).        *)
THEOREM PagesFollow == Spec => []PagesFollowTheResult
<1>1. IInv => PagesFollowTheResult
  BY InvImpliesPages
<1> QED
  BY <1>1, Invariance, PTL
=============================================================================
