--------------------------- MODULE RunDataProofs ---------------------------
(***************************************************************************)
(* Proofs of the safety properties of RunData, for any calls, batches of   *)
(* any length, and any number of faults.                                   *)
(*                                                                         *)
(* LatestIsNewestOfHistory relates the summary to the whole history, so    *)
(* the invariant says it of the points that are still to be written too:   *)
(* no point of the history, and none a call has yet to write, is newer     *)
(* than the summary.  What merging a batch does to the summary is proved   *)
(* by induction on the batch, as the least index at which it could fail.   *)
(***************************************************************************)
EXTENDS RunData, SequenceTheorems, WellFoundedInduction, TLAPS

(* p is not newer than the latest metric of its key.                       *)
Superseded(p) ==
    p.model = NoModel =>
       latest[p.k] # NoMetric /\ ~Newer(p, latest[p.k])

(* Neither is any point of the history, nor one that is to be written.     *)
NewestInv ==
    /\ \A p \in points : Superseded(p)
    /\ \A c \in Calls : \A i \in DOMAIN todo[c] : Superseded(todo[c][i])

(* The latest metrics are run points that were stored, or are about to be, *)
(* unless the call that logged them failed.                                *)
SourceInv ==
    \A k \in MetricKeys : latest[k] # NoMetric =>
       /\ latest[k].model = NoModel
       /\ \/ latest[k] \in points
          \/ \E c \in Calls : Unfinished(c) /\ latest[k] \in Documents(c)

(* A call past its update has merged its parameters, and its documents are *)
(* in the history or still to be written.                                  *)
BatchInv ==
    \A c \in Calls :
       /\ pc[c] \in {"find", "insert", "reply", "done"} =>
             /\ \A k \in ParamKeys : batch[c].params[k] # NoParam
                                        => params[k] = batch[c].params[k]
             /\ \A p \in Documents(c) :
                   p \in points \/ \E i \in DOMAIN todo[c] : p = todo[c][i]
       /\ pc[c] \in {"reply", "done"} => todo[c] = <<>>
       /\ pc[c] # "failed" => error[c] = "none"

IInv == RunDataTypeOK /\ NewestInv /\ SourceInv /\ BatchInv

-----------------------------------------------------------------------------
(* Induction on an index, in a form that takes a set and not a predicate.  *)

LEMMA LeastNatural ==
    ASSUME NEW T, T \subseteq Nat, T # {}
    PROVE  \E m \in T : \A k \in T : m <= k
<1> DEFINE R == OpToRel(<, Nat)
<1>1. IsWellFoundedOn(R, Nat)
  BY NatLessThanWellFounded
<1>2. \A k, m \in Nat : <<k, m>> \in R <=> k < m
  BY DEF OpToRel
<1> HIDE DEF R
<1>3. PICK m \in T : \A k \in T : ~(<<k, m>> \in R)
  BY <1>1, WFMin
<1>4. ASSUME NEW k \in T PROVE m <= k
  <2>1. ~(k < m)
    BY <1>2, <1>3
  <2> QED
    BY <2>1
<1> QED
  BY <1>3, <1>4

LEMMA IndexInduction ==
    ASSUME NEW n \in Nat, NEW T,
           0 \in T, \A i \in 1..n : i - 1 \in T => i \in T
    PROVE  \A i \in 0..n : i \in T
<1> DEFINE rest == {i \in 0..n : i \notin T}
<1>1. SUFFICES ASSUME rest # {} PROVE FALSE
  OBVIOUS
<1> rest \subseteq Nat
  OBVIOUS
<1>2. PICK m \in rest : \A k \in rest : m <= k
  <2> HIDE DEF rest
  <2> QED
    BY <1>1, LeastNatural
<1>3. m \in 1..n
  BY <1>2
<1>4. m - 1 \notin rest
  BY <1>2, <1>3
<1> QED
  BY <1>2, <1>3, <1>4

(* A function on the prefixes of a sequence can be defined by recursion.   *)
Steps(S, n) == [(1..n) \X S -> S]

Recurses(f, S, n, base, step) ==
    /\ f \in [0..n -> S]
    /\ \A i \in 0..n : f[i] = IF i = 0 THEN base ELSE step[<<i, f[i - 1]>>]

LEMMA PrefixRecursion ==
    ASSUME NEW S, NEW n \in Nat, NEW base \in S, NEW step \in Steps(S, n)
    PROVE  \E f : Recurses(f, S, n, base, step)
<1> USE DEF Steps, Recurses
<1> DEFINE Defined(f, m) ==
              \A i \in 0..m :
                 f[i] = IF i = 0 THEN base ELSE step[<<i, f[i - 1]>>]
           T == {m \in 0..n : \E f \in [0..m -> S] : Defined(f, m)}
<1>1. 0 \in T
  <2>1. [i \in 0..0 |-> base] \in [0..0 -> S]
    OBVIOUS
  <2>2. Defined([i \in 0..0 |-> base], 0)
    OBVIOUS
  <2>3. \E f \in [0..0 -> S] : Defined(f, 0)
    <3> HIDE DEF Defined
    <3> QED
      BY <2>1, <2>2
  <2> QED
    BY <2>3
<1>2. ASSUME NEW m \in 1..n, m - 1 \in T
      PROVE  m \in T
  <2>1. PICK f \in [0..(m - 1) -> S] : Defined(f, m - 1)
    BY <1>2
  <2> DEFINE g == [i \in 0..m |-> IF i = m THEN step[<<m, f[m - 1]>>] ELSE f[i]]
  <2>2. m - 1 \in 0..(m - 1) /\ f[m - 1] \in S
    BY <2>1
  <2>3. step[<<m, f[m - 1]>>] \in S
    BY <2>2
  <2>4. g \in [0..m -> S]
    BY <2>1, <2>3
  <2>5. Defined(g, m)
    <3>1. \A i \in 0..(m - 1) : g[i] = f[i]
      OBVIOUS
    <3>2. g[m] = step[<<m, f[m - 1]>>]
      OBVIOUS
    <3> HIDE DEF g
    <3>3. ASSUME NEW i \in 0..(m - 1)
          PROVE  g[i] = IF i = 0 THEN base ELSE step[<<i, g[i - 1]>>]
      <4>1. CASE i = 0
        BY <2>1, <3>1, <4>1
      <4>2. CASE i # 0
        <5>1. i - 1 \in 0..(m - 1)
          BY <4>2
        <5>2. f[i] = step[<<i, f[i - 1]>>]
          BY <2>1, <4>2
        <5> QED
          BY <3>1, <4>2, <5>1, <5>2
      <4> QED
        BY <4>1, <4>2
    <3>4. g[m] = step[<<m, g[m - 1]>>]
      BY <2>2, <3>1, <3>2
    <3>5. ASSUME NEW i \in 0..m
          PROVE  g[i] = IF i = 0 THEN base ELSE step[<<i, g[i - 1]>>]
      BY <3>3, <3>4
    <3> QED
      BY <3>5

  <2> HIDE DEF g
  <2> QED
    BY <2>4, <2>5
<1> HIDE DEF T
<1>3. n \in T
  BY <1>1, <1>2, IndexInduction
<1> QED
  BY <1>3 DEF T

-----------------------------------------------------------------------------
(* The order on metrics, and what merging one metric does to the summary.  *)

Summary == [MetricKeys -> Metric \union {NoMetric}]

Keyed(f) == \A k \in MetricKeys : f[k] # NoMetric => f[k].k = k

(* g has a metric at least as new as f for every key that f has.           *)
Covers(f, g) ==
    \A k \in MetricKeys : f[k] # NoMetric =>
       g[k] # NoMetric /\ ~Newer(f[k], g[k])

LEMMA RankType == \A v \in MetricValues : Rank(v) \in Int
BY ValuesAssumption DEF Rank

LEMMA NewerOrder ==
    ASSUME NEW p \in Metric, NEW q \in Metric, NEW r \in Metric
    PROVE  /\ ~Newer(p, p)
           /\ Newer(p, q) => ~Newer(q, p)
           /\ ~Newer(p, q) /\ ~Newer(q, r) => ~Newer(p, r)
           /\ Newer(RunPoint(p), q) <=> Newer(p, q)
<1>1. /\ p.step \in Nat /\ q.step \in Nat /\ r.step \in Nat
      /\ p.timestamp \in Nat /\ q.timestamp \in Nat /\ r.timestamp \in Nat
  BY DEF Metric
<1>2. Rank(p.v) \in Int /\ Rank(q.v) \in Int /\ Rank(r.v) \in Int
  BY RankType DEF Metric
<1>3. /\ RunPoint(p).step = p.step /\ RunPoint(p).timestamp = p.timestamp
      /\ RunPoint(p).v = p.v
  BY DEF RunPoint, Metric
<1> QED
  BY <1>1, <1>2, <1>3 DEF Newer

LEMMA RunPointType ==
    ASSUME NEW m \in Metric
    PROVE  /\ RunPoint(m) \in Metric
           /\ RunPoint(m).k = m.k
           /\ RunPoint(m).model = NoModel
BY DEF RunPoint, Metric

LEMMA MergeOne ==
    ASSUME NEW f \in Summary, Keyed(f), NEW m \in Metric
    PROVE  /\ MergeMetric(f, m) \in Summary
           /\ Keyed(MergeMetric(f, m))
           /\ Covers(f, MergeMetric(f, m))
           /\ MergeMetric(f, m)[m.k] # NoMetric
           /\ ~Newer(RunPoint(m), MergeMetric(f, m)[m.k])
           /\ \A k \in MetricKeys :
                 \/ MergeMetric(f, m)[k] = f[k]
                 \/ k = m.k /\ MergeMetric(f, m)[k] = RunPoint(m)
<1> USE RunPointType
<1>1. m.k \in MetricKeys /\ RunPoint(m) # NoMetric
  BY ValuesAssumption DEF Metric
<1>2. \A k \in MetricKeys : f[k] # NoMetric => f[k] \in Metric
  BY DEF Summary
<1>3. CASE f[m.k] = NoMetric \/ Newer(m, f[m.k])
  <2>1. MergeMetric(f, m) = [f EXCEPT ![m.k] = RunPoint(m)]
    BY <1>3 DEF MergeMetric
  <2>2. f[m.k] # NoMetric => ~Newer(f[m.k], RunPoint(m))
    BY <1>1, <1>2, <1>3, NewerOrder
  <2>3. \A k \in MetricKeys : f[k] # NoMetric => ~Newer(f[k], f[k])
    BY <1>2, NewerOrder
  <2>4. ~Newer(RunPoint(m), RunPoint(m))
    BY NewerOrder
  <2> QED
    BY <1>1, <2>1, <2>2, <2>3, <2>4 DEF Summary, Keyed, Covers
<1>4. CASE ~(f[m.k] = NoMetric \/ Newer(m, f[m.k]))
  <2>1. MergeMetric(f, m) = f
    BY <1>4 DEF MergeMetric
  <2>2. \A k \in MetricKeys : f[k] # NoMetric => ~Newer(f[k], f[k])
    BY <1>2, NewerOrder
  <2>3. ~Newer(RunPoint(m), f[m.k])
    BY <1>1, <1>2, <1>4, NewerOrder
  <2> QED
    BY <1>4, <2>1, <2>2, <2>3 DEF Covers
<1> QED
  BY <1>3, <1>4

(* MergeMetrics merges the metrics of the batch one after the other.       *)
LEMMA MergedPrefixes ==
    ASSUME NEW f \in Summary, NEW ms \in Seq(Metric)
    PROVE  \E g \in [0..Len(ms) -> Summary] :
              /\ \A i \in 0..Len(ms) :
                    g[i] = IF i = 0 THEN f ELSE MergeMetric(g[i - 1], ms[i])
              /\ MergeMetrics(f, ms) = g[Len(ms)]
<1> DEFINE n == Len(ms)
           step == [x \in (1..n) \X Summary |-> MergeMetric(x[2], ms[x[1]])]
           Body(g) == [i \in 0..n |->
                         IF i = 0 THEN f ELSE MergeMetric(g[i - 1], ms[i])]
           merged == CHOOSE g : g = Body(g)
<1>1. n \in Nat /\ \A i \in 1..n : ms[i] \in Metric
  OBVIOUS
<1>2. ASSUME NEW s \in Summary, NEW m \in Metric
      PROVE  MergeMetric(s, m) \in Summary
  BY RunPointType DEF MergeMetric, Summary
<1>3. step \in Steps(Summary, n)
  BY <1>1, <1>2 DEF Steps
<1>4. PICK g : Recurses(g, Summary, n, f, step)
  <2>1. n \in Nat
    OBVIOUS
  <2> HIDE DEF step, n
  <2> QED
    BY <1>3, <2>1, PrefixRecursion
<1> USE DEF Recurses
<1>5. \A i \in 1..n : step[<<i, g[i - 1]>>] = MergeMetric(g[i - 1], ms[i])
  <2>1. \A i \in 1..n : i - 1 \in 0..n
    OBVIOUS
  <2> QED
    BY <1>4, <2>1
<1>6. g = Body(g)
  <2> HIDE DEF step
  <2>1. \A i \in 0..n : g[i] = IF i = 0 THEN f ELSE MergeMetric(g[i - 1], ms[i])
    BY <1>4, <1>5
  <2> QED
    BY <1>4, <2>1
<1>7. merged = Body(merged)
  <2> HIDE DEF Body
  <2> QED
    BY <1>6
<1>8. /\ DOMAIN merged = 0..n
      /\ \A i \in 0..n :
            merged[i] = IF i = 0 THEN f ELSE MergeMetric(merged[i - 1], ms[i])
      /\ merged = [i \in 0..n |-> merged[i]]
  <2> HIDE DEF merged
  <2> QED
    BY <1>7
<1>9. \A i \in 0..n : merged[i] \in Summary
  <2> HIDE DEF merged
  <2> DEFINE T == {i \in 0..n : merged[i] \in Summary}
  <2>1. 0 \in T
    BY <1>1, <1>8
  <2>2. ASSUME NEW i \in 1..n, i - 1 \in T
        PROVE  i \in T
    <3>1. i \in 0..n /\ i # 0 /\ merged[i - 1] \in Summary
      BY <2>2
    <3>2. merged[i] = MergeMetric(merged[i - 1], ms[i])
      BY <1>8, <3>1
    <3> QED
      BY <1>1, <1>2, <3>1, <3>2
  <2>3. \A i \in 0..n : i \in T
    <3> HIDE DEF T
    <3> QED
      BY <1>1, <2>1, <2>2, IndexInduction
  <2> QED
    BY <2>3
<1>10. MergeMetrics(f, ms) = merged[Len(ms)]
  BY DEF MergeMetrics
<1> HIDE DEF merged
<1> QED
  BY <1>8, <1>9, <1>10

(* The summary covers the old one and every metric of the batch, and what  *)
(* is in it comes from one of them.                                        *)
LEMMA MergeAll ==
    ASSUME NEW f \in Summary, Keyed(f), NEW ms \in Seq(Metric)
    PROVE  LET g == MergeMetrics(f, ms) IN
           /\ g \in Summary
           /\ Keyed(g)
           /\ Covers(f, g)
           /\ \A j \in DOMAIN ms : /\ g[ms[j].k] # NoMetric
                                   /\ ~Newer(RunPoint(ms[j]), g[ms[j].k])
           /\ \A k \in MetricKeys :
                 \/ g[k] = f[k]
                 \/ \E j \in DOMAIN ms : g[k] = RunPoint(ms[j])
<1>1. PICK g \in [0..Len(ms) -> Summary] :
         /\ \A i \in 0..Len(ms) :
               g[i] = IF i = 0 THEN f ELSE MergeMetric(g[i - 1], ms[i])
         /\ MergeMetrics(f, ms) = g[Len(ms)]
  BY MergedPrefixes
<1> DEFINE Good(i) ==
              /\ Keyed(g[i])
              /\ Covers(f, g[i])
              /\ \A j \in 1..i : /\ g[i][ms[j].k] # NoMetric
                                 /\ ~Newer(RunPoint(ms[j]), g[i][ms[j].k])
              /\ \A k \in MetricKeys :
                    \/ g[i][k] = f[k]
                    \/ \E j \in 1..i : g[i][k] = RunPoint(ms[j])
           T == {i \in 0..Len(ms) : Good(i)}
<1>2. Len(ms) \in Nat /\ DOMAIN ms = 1..Len(ms) /\ \A j \in DOMAIN ms : ms[j] \in Metric
  OBVIOUS
<1>3. 0 \in T
  <2>1. g[0] = f
    BY <1>1
  <2>2. Covers(f, f)
    BY NewerOrder DEF Covers, Summary
  <2> QED
    BY <2>1, <2>2, <1>2
<1>4. ASSUME NEW i \in 1..Len(ms), i - 1 \in T
      PROVE  i \in T
  <2> DEFINE old == g[i - 1]
             new == g[i]
             m == ms[i]
  <2>1. /\ old \in Summary /\ new \in Summary /\ m \in Metric /\ m.k \in MetricKeys
        /\ new = MergeMetric(old, m)
        /\ i - 1 \in 0..Len(ms) /\ Good(i - 1) /\ Keyed(old)
    <3>1. i - 1 \in 0..Len(ms) /\ i \in 0..Len(ms) /\ i # 0
      BY <1>2
    <3>2. Good(i - 1)
      BY <1>4
    <3>3. m \in Metric /\ m.k \in MetricKeys
      BY <1>2 DEF Metric
    <3>4. Keyed(old)
      BY <3>2
    <3> HIDE DEF Good
    <3> QED
      BY <1>1, <3>1, <3>2, <3>3, <3>4
  <2>2. /\ Keyed(new) /\ Covers(old, new)
        /\ new[m.k] # NoMetric /\ ~Newer(RunPoint(m), new[m.k])
        /\ \A k \in MetricKeys :
              new[k] = old[k] \/ new[k] = RunPoint(m)
    <3>1. old \in Summary /\ Keyed(old) /\ m \in Metric /\ new = MergeMetric(old, m)
      BY <2>1
    <3> HIDE DEF old, new, m
    <3> QED
      BY ONLY <3>1, MergeOne
  <2>3. Covers(f, new)
    <3>1. SUFFICES ASSUME NEW k \in MetricKeys, f[k] # NoMetric
                   PROVE  new[k] # NoMetric /\ ~Newer(f[k], new[k])
      BY DEF Covers
    <3>2. old[k] # NoMetric /\ ~Newer(f[k], old[k])
      BY <2>1, <3>1 DEF Covers
    <3>3. new[k] # NoMetric /\ ~Newer(old[k], new[k])
      BY <2>2, <3>2 DEF Covers
    <3>4. f[k] \in Metric /\ old[k] \in Metric /\ new[k] \in Metric
      BY <2>1, <3>1, <3>2, <3>3 DEF Summary
    <3> QED
      BY <3>2, <3>3, <3>4, NewerOrder
  <2>4. ASSUME NEW j \in 1..i
        PROVE  new[ms[j].k] # NoMetric /\ ~Newer(RunPoint(ms[j]), new[ms[j].k])
    <3>1. CASE j = i
      BY <2>2, <3>1
    <3>2. CASE j # i
      <4> DEFINE k == ms[j].k
      <4>1. j \in 1..(i - 1) /\ j \in DOMAIN ms
        BY <3>2, <1>2
      <4>2. k \in MetricKeys /\ RunPoint(ms[j]) \in Metric
        BY <4>1, <1>2, RunPointType DEF Metric
      <4>3. old[k] # NoMetric /\ ~Newer(RunPoint(ms[j]), old[k])
        BY <2>1, <4>1
      <4>4. new[k] # NoMetric /\ ~Newer(old[k], new[k])
        BY <2>2, <4>2, <4>3 DEF Covers
      <4>5. old[k] \in Metric /\ new[k] \in Metric
        BY <2>1, <4>2, <4>3, <4>4 DEF Summary
      <4> QED
        BY <4>2, <4>3, <4>4, <4>5, NewerOrder
    <3> QED
      BY <3>1, <3>2
  <2>5. ASSUME NEW k \in MetricKeys
        PROVE  new[k] = f[k] \/ \E j \in 1..i : new[k] = RunPoint(ms[j])
    BY <2>1, <2>2
  <2> QED
    BY <2>2, <2>3, <2>4, <2>5
<1>5. \A i \in 0..Len(ms) : i \in T
  <2> HIDE DEF T
  <2> QED
    BY <1>2, <1>3, <1>4, IndexInduction
<1>6. Good(Len(ms)) /\ g[Len(ms)] \in Summary
  BY <1>1, <1>2, <1>5
<1> QED
  BY <1>1, <1>2, <1>6

-----------------------------------------------------------------------------
(* The documents of a batch: a run point for each of its metrics, and then  *)
(* points of models only.                                                  *)

Named == {m \in Metric : m.model # NoModel}

LEMMA ModelPointsType ==
    ASSUME NEW ms \in Seq(Metric)
    PROVE  ModelPoints(ms) \in Seq(Named)
<1> DEFINE n == Len(ms)
           Pick(q, m) == IF m.model = NoModel THEN q ELSE Append(q, m)
           step == [x \in (1..n) \X Seq(Named) |-> Pick(x[2], ms[x[1]])]
           Body(g) == [i \in 0..n |->
                         IF i = 0 THEN <<>>
                         ELSE IF ms[i].model = NoModel THEN g[i - 1]
                         ELSE Append(g[i - 1], ms[i])]
           first == CHOOSE g : g = Body(g)
<1>1. n \in Nat /\ \A i \in 1..n : ms[i] \in Metric
  OBVIOUS
<1>2. ASSUME NEW q \in Seq(Named), NEW m \in Metric
      PROVE  Pick(q, m) \in Seq(Named)
  BY DEF Named
<1>3. step \in Steps(Seq(Named), n)
  <2> HIDE DEF Pick
  <2> QED
    BY <1>1, <1>2 DEF Steps
<1>4. PICK g : Recurses(g, Seq(Named), n, <<>>, step)
  <2>1. n \in Nat /\ <<>> \in Seq(Named)
    OBVIOUS
  <2> HIDE DEF step, n
  <2> QED
    BY <1>3, <2>1, PrefixRecursion
<1> USE DEF Recurses
<1>5. \A i \in 1..n : step[<<i, g[i - 1]>>] = Pick(g[i - 1], ms[i])
  <2>1. \A i \in 1..n : i - 1 \in 0..n
    OBVIOUS
  <2> HIDE DEF Pick
  <2> QED
    BY <1>4, <2>1
<1>6. g = Body(g)
  <2> HIDE DEF step
  <2>1. ASSUME NEW i \in 0..n
        PROVE  g[i] = IF i = 0 THEN <<>> ELSE Pick(g[i - 1], ms[i])
    <3>1. i # 0 => i \in 1..n
      OBVIOUS
    <3> HIDE DEF Pick
    <3> QED
      BY <1>4, <1>5, <3>1
  <2> QED
    BY <1>4, <2>1
<1>7. first = Body(first)
  <2> HIDE DEF Body
  <2> QED
    BY <1>6
<1>8. \A i \in 0..n :
         first[i] = IF i = 0 THEN <<>> ELSE Pick(first[i - 1], ms[i])
  <2> HIDE DEF first
  <2> QED
    BY <1>7
<1>9. \A i \in 0..n : first[i] \in Seq(Named)
  <2> HIDE DEF first, Pick
  <2> DEFINE T == {i \in 0..n : first[i] \in Seq(Named)}
  <2>1. 0 \in T
    <3>1. <<>> \in Seq(Named)
      OBVIOUS
    <3>2. 0 \in 0..n
      BY <1>1
    <3>3. first[0] = <<>>
      BY <1>8, <3>2
    <3> QED
      BY <3>1, <3>2, <3>3
  <2>2. ASSUME NEW i \in 1..n, i - 1 \in T
        PROVE  i \in T
    <3>1. i \in 0..n /\ i # 0 /\ first[i - 1] \in Seq(Named)
      BY <2>2
    <3>2. first[i] = Pick(first[i - 1], ms[i])
      BY <1>8, <3>1
    <3> QED
      BY <1>1, <1>2, <3>1, <3>2
  <2>3. \A i \in 0..n : i \in T
    <3> HIDE DEF T
    <3> QED
      BY <1>1, <2>1, <2>2, IndexInduction
  <2> QED
    BY <2>3
<1>10. ModelPoints(ms) = first[Len(ms)]
  BY DEF ModelPoints
<1> HIDE DEF first
<1> QED
  BY <1>1, <1>9, <1>10

LEMMA DocumentsOfBatch ==
    ASSUME NEW ms \in Seq(Metric)
    PROVE  LET q == MetricDocuments(ms) IN
           /\ q \in Seq(Metric)
           /\ \A j \in DOMAIN ms : \E i \in DOMAIN q : q[i] = RunPoint(ms[j])
           /\ \A i \in DOMAIN q : q[i].model = NoModel =>
                 \E j \in DOMAIN ms : q[i] = RunPoint(ms[j])
<1> DEFINE r == [j \in DOMAIN ms |-> RunPoint(ms[j])]
           s == ModelPoints(ms)
           q == MetricDocuments(ms)
<1>1. /\ DOMAIN ms = 1..Len(ms) /\ Len(ms) \in Nat
      /\ \A j \in 1..Len(ms) : ms[j] \in Metric
  OBVIOUS
<1>2. /\ r \in Seq(Metric) /\ Len(r) = Len(ms)
      /\ \A j \in 1..Len(ms) : r[j] = RunPoint(ms[j])
  BY <1>1, RunPointType
<1>3. s \in Seq(Named) /\ s \in Seq(Metric) /\ \A i \in 1..Len(s) : s[i].model # NoModel
  <2>1. s \in Seq(Named)
    BY ModelPointsType
  <2> HIDE DEF s
  <2> QED
    BY <2>1 DEF Named
<1>4. q = r \o s
  BY DEF MetricDocuments
<1> HIDE DEF r, s, q
<1>5. /\ q \in Seq(Metric) /\ Len(q) = Len(r) + Len(s)
      /\ \A i \in 1..Len(q) : q[i] = IF i <= Len(r) THEN r[i] ELSE s[i - Len(r)]
  <2>1. /\ r \o s \in Seq(Metric) /\ Len(r \o s) = Len(r) + Len(s)
        /\ \A i \in 1..(Len(r) + Len(s)) :
              (r \o s)[i] = IF i <= Len(r) THEN r[i] ELSE s[i - Len(r)]
    <3>1. r \in Seq(Metric) /\ s \in Seq(Metric)
      BY <1>2, <1>3
    <3> QED
      BY ONLY <3>1, ConcatProperties
  <2> QED
    BY <2>1, <1>4
<1>6. Len(r) \in Nat /\ Len(s) \in Nat /\ DOMAIN q = 1..Len(q)
  BY <1>2, <1>3, <1>5
<1>7. ASSUME NEW j \in DOMAIN ms
      PROVE  \E i \in DOMAIN q : q[i] = RunPoint(ms[j])
  <2>1. j \in DOMAIN q /\ q[j] = r[j]
    BY <1>1, <1>2, <1>5, <1>6
  <2> QED
    BY <1>1, <1>2, <2>1
<1>8. ASSUME NEW i \in DOMAIN q, q[i].model = NoModel
      PROVE  \E j \in DOMAIN ms : q[i] = RunPoint(ms[j])
  <2>1. CASE i <= Len(r)
    BY <2>1, <1>1, <1>2, <1>5, <1>6
  <2>2. CASE ~(i <= Len(r))
    <3>1. i - Len(r) \in 1..Len(s) /\ q[i] = s[i - Len(r)]
      BY <2>2, <1>5, <1>6
    <3> QED
      BY <3>1, <1>3, <1>8
  <2> QED
    BY <2>1, <2>2
<1> QED
  BY <1>5, <1>7, <1>8 DEF q

-----------------------------------------------------------------------------
(* The effects a step of call c can have.                                  *)

(* The first document c has yet to write is in the history.                *)
Advances(c) ==
    /\ pc[c] \in {"find", "insert"}
    /\ points' = points \union {Head(todo[c])}
    /\ \A q \in points : Identity(q) = Identity(Head(todo[c])) => q = Head(todo[c])
    /\ Continue(c, Tail(todo[c]))
    /\ UNCHANGED <<stage, params, latest, batch, faults>>

(* The update of the run document merges the batch.                        *)
Merges(c) ==
    /\ pc[c] = "update"
    /\ Conflicts(params, batch[c].params) = {}
    /\ params' = MergeParams(params, batch[c].params)
    /\ latest' = MergeMetrics(latest, batch[c].metrics)
    /\ Continue(c, MetricDocuments(batch[c].metrics))
    /\ UNCHANGED <<stage, points, batch, faults>>

Goes(c, p) ==
    /\ \/ pc[c] = "idle" /\ p = "update"
       \/ pc[c] = "find" /\ p = "insert"
       \/ pc[c] = "insert" /\ p = "find"
       \/ pc[c] = "reply" /\ p = "done"
    /\ pc' = [pc EXCEPT ![c] = p]
    /\ UNCHANGED <<stage, params, latest, points, batch, todo, error, faults>>

Fails(c, x) ==
    /\ Running(c)
    /\ x = "persistence" \/ pc[c] = "update"
    /\ \/ faults' = faults
       \/ faults < MaxFaults /\ faults' = faults + 1
    /\ pc' = [pc EXCEPT ![c] = "failed"]
    /\ error' = [error EXCEPT ![c] = x]
    /\ UNCHANGED <<stage, params, latest, points, batch, todo>>

CallEffect(c) ==
    \/ Advances(c)
    \/ Merges(c)
    \/ \E p \in Phases : Goes(c, p)
    \/ \E x \in Errors : Fails(c, x)

LEMMA CallEffects ==
    ASSUME RunDataTypeOK, NEW c \in Calls, Arrive(c) \/ CallStep(c) \/ Fault(c)
    PROVE  CallEffect(c)
<1>1. CASE Arrive(c)
  <2>1. Goes(c, "update")
    BY <1>1 DEF Arrive, Goes, Goto
  <2> QED
    BY <2>1 DEF CallEffect, Phases
<1>2. CASE UpdateRun(c)
  <2>1. Merges(c) \/ Fails(c, "not_active") \/ Fails(c, "param_conflict")
    BY <1>2 DEF UpdateRun, Merges, Fails, Fail, Goto, Running
  <2> QED
    BY <2>1 DEF CallEffect, Errors
<1>3. CASE FindPoint(c)
  <2>1. CASE Head(todo[c]) \in points
    <3>1. points = points \union {Head(todo[c])}
      BY <2>1
    <3>2. Advances(c)
      BY <1>3, <2>1, <3>1 DEF FindPoint, Advances, RunDataTypeOK
    <3> QED
      BY <3>2 DEF CallEffect
  <2>2. CASE Head(todo[c]) \notin points
    <3>1. Goes(c, "insert")
      BY <1>3, <2>2 DEF FindPoint, Goes, Goto
    <3> QED
      BY <3>1 DEF CallEffect, Phases
  <2> QED
    BY <2>1, <2>2
<1>4. CASE InsertPoint(c)
  <2>1. Advances(c) \/ Fails(c, "persistence") \/ Goes(c, "find")
    BY <1>4 DEF InsertPoint, Advances, Fails, Goes, Fail, Goto, Running
  <2> QED
    BY <2>1 DEF CallEffect, Errors, Phases
<1>5. CASE Return(c)
  <2>1. Goes(c, "done")
    BY <1>5 DEF Return, Goes, Goto
  <2> QED
    BY <2>1 DEF CallEffect, Phases
<1>6. CASE Fault(c)
  <2>1. Fails(c, "persistence")
    BY <1>6 DEF Fault, Fails, Fail, Goto
  <2> QED
    BY <2>1 DEF CallEffect, Errors
<1> QED
  BY <1>1, <1>2, <1>3, <1>4, <1>5, <1>6 DEF CallStep

LEMMA TailElements ==
    ASSUME NEW S, NEW q \in Seq(S), q # <<>>
    PROVE  /\ Head(q) \in S /\ Tail(q) \in Seq(S)
           /\ \A i \in DOMAIN Tail(q) : \E j \in DOMAIN q : Tail(q)[i] = q[j]
           /\ \A j \in DOMAIN q :
                 q[j] = Head(q) \/ \E i \in DOMAIN Tail(q) : q[j] = Tail(q)[i]
<1>1. /\ Len(q) \in Nat /\ Len(q) # 0 /\ DOMAIN q = 1..Len(q)
      /\ Head(q) = q[1] /\ q[1] \in S
  OBVIOUS
<1>2. /\ Tail(q) \in Seq(S) /\ DOMAIN Tail(q) = 1..(Len(q) - 1)
      /\ \A i \in 1..(Len(q) - 1) : Tail(q)[i] = q[i + 1]
  OBVIOUS
<1>3. ASSUME NEW i \in DOMAIN Tail(q)
      PROVE  \E j \in DOMAIN q : Tail(q)[i] = q[j]
  <2>1. i + 1 \in DOMAIN q /\ Tail(q)[i] = q[i + 1]
    BY <1>1, <1>2
  <2> QED
    BY <2>1
<1>4. ASSUME NEW j \in DOMAIN q, j # 1
      PROVE  \E i \in DOMAIN Tail(q) : q[j] = Tail(q)[i]
  <2>1. j - 1 \in DOMAIN Tail(q) /\ Tail(q)[j - 1] = q[j]
    BY <1>1, <1>2, <1>4
  <2> QED
    BY <2>1
<1> QED
  BY <1>1, <1>2, <1>3, <1>4

LEMMA BatchTypes ==
    ASSUME RunDataTypeOK, NEW c \in Calls
    PROVE  /\ batch[c].metrics \in Seq(Metric)
           /\ batch[c].params \in [ParamKeys -> ParamValues \union {NoParam}]
           /\ latest \in Summary /\ Keyed(latest)
BY DEF RunDataTypeOK, Batch, Summary, Keyed

LEMMA Merged ==
    ASSUME RunDataTypeOK, NEW c \in Calls, Merges(c)
    PROVE  /\ latest' \in Summary /\ Keyed(latest')
           /\ Covers(latest, latest')
           /\ MetricDocuments(batch[c].metrics) \in Seq(Metric)
<1>1. LET g == MergeMetrics(latest, batch[c].metrics) IN
      g \in Summary /\ Keyed(g) /\ Covers(latest, g)
  BY BatchTypes, MergeAll
<1>2. MetricDocuments(batch[c].metrics) \in Seq(Metric)
  BY BatchTypes, DocumentsOfBatch
<1> QED
  BY <1>1, <1>2 DEF Merges

LEMMA TypeStep ==
    ASSUME RunDataTypeOK, NEW c \in Calls, CallEffect(c)
    PROVE  RunDataTypeOK'
<1>1. CASE Advances(c)
  <2>1. todo[c] \in Seq(Metric) /\ todo[c] # <<>>
    BY <1>1 DEF Advances, RunDataTypeOK
  <2>2. Head(todo[c]) \in Metric /\ Tail(todo[c]) \in Seq(Metric)
    BY <2>1, TailElements
  <2>3. /\ points' \subseteq Metric
        /\ \A p, q \in points' : Identity(p) = Identity(q) => p = q
    BY <1>1, <2>2 DEF Advances, RunDataTypeOK
  <2>4. /\ todo' = [todo EXCEPT ![c] = Tail(todo[c])]
        /\ pc' = [pc EXCEPT ![c] = IF Tail(todo[c]) = <<>> THEN "reply" ELSE "find"]
        /\ UNCHANGED <<stage, params, latest, batch, error, faults>>
    BY <1>1 DEF Advances, Continue, Goto
  <2>5. /\ todo' \in [Calls -> Seq(Metric)]
        /\ pc' \in [Calls -> Phases]
        /\ \A d \in Calls : pc'[d] \in {"find", "insert"} => todo'[d] # <<>>
    BY <2>2, <2>4 DEF RunDataTypeOK, Phases
  <2> QED
    BY <2>3, <2>4, <2>5 DEF RunDataTypeOK
<1>2. CASE Merges(c)
  <2> DEFINE q == MetricDocuments(batch[c].metrics)
  <2>1. /\ todo' = [todo EXCEPT ![c] = q]
        /\ pc' = [pc EXCEPT ![c] = IF q = <<>> THEN "reply" ELSE "find"]
        /\ params' = MergeParams(params, batch[c].params)
        /\ UNCHANGED <<stage, points, batch, error, faults>>
    BY <1>2 DEF Merges, Continue, Goto
  <2>2. q \in Seq(Metric)
    BY <1>2, Merged
  <2>3. /\ todo' \in [Calls -> Seq(Metric)]
        /\ pc' \in [Calls -> Phases]
        /\ \A d \in Calls : pc'[d] \in {"find", "insert"} => todo'[d] # <<>>
    <3> HIDE DEF q
    <3> QED
      BY <2>1, <2>2 DEF RunDataTypeOK, Phases
  <2>4. params' \in [ParamKeys -> ParamValues \union {NoParam}]
    BY <2>1, BatchTypes DEF MergeParams, RunDataTypeOK
  <2>5. /\ latest' \in [MetricKeys -> Metric \union {NoMetric}]
        /\ \A k \in MetricKeys : latest'[k] # NoMetric => latest'[k].k = k
    BY <1>2, Merged DEF Summary, Keyed
  <2> QED
    BY <2>1, <2>3, <2>4, <2>5 DEF RunDataTypeOK
<1>3. ASSUME NEW p \in Phases, Goes(c, p)
      PROVE  RunDataTypeOK'
  BY <1>3 DEF Goes, RunDataTypeOK
<1>4. ASSUME NEW x \in Errors, Fails(c, x)
      PROVE  RunDataTypeOK'
  BY <1>4, FaultsAssumption DEF Fails, RunDataTypeOK, Phases
<1> QED
  BY <1>1, <1>2, <1>3, <1>4 DEF CallEffect

(* A parameter that is logged keeps its value.                             *)
ParamsKept == \A k \in ParamKeys : params[k] # NoParam => params'[k] = params[k]

LEMMA ParamsStep ==
    ASSUME RunDataTypeOK, NEW c \in Calls, CallEffect(c)
    PROVE  ParamsKept
<1>1. CASE Merges(c)
  <2>1. /\ params' = MergeParams(params, batch[c].params)
        /\ \A k \in ParamKeys : ~(/\ params[k] # NoParam
                                  /\ batch[c].params[k] # NoParam
                                  /\ params[k] # batch[c].params[k])
    BY <1>1 DEF Merges, Conflicts
  <2> QED
    BY <2>1 DEF MergeParams, ParamsKept
<1>2. CASE Advances(c)
  BY <1>2 DEF Advances, ParamsKept
<1>3. ASSUME NEW p \in Phases, Goes(c, p)
      PROVE  ParamsKept
  BY <1>3 DEF Goes, ParamsKept
<1>4. ASSUME NEW x \in Errors, Fails(c, x)
      PROVE  ParamsKept
  BY <1>4 DEF Fails, ParamsKept
<1> QED
  BY <1>1, <1>2, <1>3, <1>4 DEF CallEffect

(* What BatchInv says of one call.                                         *)
BatchOf(c) ==
    /\ pc[c] \in {"find", "insert", "reply", "done"} =>
          /\ \A k \in ParamKeys : batch[c].params[k] # NoParam
                                     => params[k] = batch[c].params[k]
          /\ \A p \in Documents(c) :
                p \in points \/ \E i \in DOMAIN todo[c] : p = todo[c][i]
    /\ pc[c] \in {"reply", "done"} => todo[c] = <<>>
    /\ pc[c] # "failed" => error[c] = "none"

LEMMA BatchKept ==
    ASSUME RunDataTypeOK, NEW c \in Calls, BatchOf(c), ParamsKept,
           points \subseteq points',
           batch'[c] = batch[c], pc'[c] = pc[c], todo'[c] = todo[c],
           error'[c] = error[c]
    PROVE  BatchOf(c)'
<1>1. Documents(c)' = Documents(c)
  BY DEF Documents
<1>2. ASSUME NEW k \in ParamKeys, params[k] = batch[c].params[k],
             batch[c].params[k] # NoParam
      PROVE  params'[k] = batch'[c].params[k]
  BY <1>2 DEF ParamsKept
<1> QED
  BY <1>1, <1>2 DEF BatchOf

LEMMA BatchStep ==
    ASSUME RunDataTypeOK, BatchInv, NEW c \in Calls, CallEffect(c)
    PROVE  BatchInv'
<1>1. ParamsKept
  BY ParamsStep
<1>2. \A d \in Calls : BatchOf(d)
  BY DEF BatchInv, BatchOf
<1>3. /\ UNCHANGED batch
      /\ points \subseteq points'
      /\ \A d \in Calls \ {c} : /\ pc'[d] = pc[d] /\ todo'[d] = todo[d]
                                /\ error'[d] = error[d]
  BY DEF RunDataTypeOK, CallEffect, Advances, Merges, Goes, Fails, Continue, Goto
<1>4. ASSUME NEW d \in Calls, d # c
      PROVE  BatchOf(d)'
  BY <1>1, <1>2, <1>3, <1>4, BatchKept
<1>5. Documents(c)' = Documents(c)
  BY <1>3 DEF Documents
<1>6. BatchOf(c)'
  <2>1. CASE Advances(c)
    <3>1. /\ todo[c] \in Seq(Metric) /\ todo[c] # <<>>
          /\ pc[c] \in {"find", "insert"}
          /\ points' = points \union {Head(todo[c])}
      BY <2>1 DEF Advances, RunDataTypeOK
    <3>2. /\ todo'[c] = Tail(todo[c])
          /\ pc'[c] = IF Tail(todo[c]) = <<>> THEN "reply" ELSE "find"
          /\ UNCHANGED <<params, error>>
      BY <2>1 DEF Advances, Continue, Goto, RunDataTypeOK
    <3>3. \A j \in DOMAIN todo[c] :
             \/ todo[c][j] = Head(todo[c])
             \/ \E i \in DOMAIN todo'[c] : todo[c][j] = todo'[c][i]
      <4>1. PICK q : q = todo[c] /\ q \in Seq(Metric) /\ q # <<>>
        BY <3>1
      <4>2. \A j \in DOMAIN q : q[j] = Head(q) \/ \E i \in DOMAIN Tail(q) : q[j] = Tail(q)[i]
        BY ONLY <4>1, TailElements
      <4> QED
        BY ONLY <3>2, <4>1, <4>2
    <3>4. \A p \in Documents(c) :
             p \in points' \/ \E i \in DOMAIN todo'[c] : p = todo'[c][i]
      BY <1>2, <3>1, <3>3 DEF BatchOf
    <3> QED
      BY <1>2, <1>3, <1>5, <3>1, <3>2, <3>4 DEF BatchOf
  <2>2. CASE Merges(c)
    <3> DEFINE q == MetricDocuments(batch[c].metrics)
    <3>1. /\ todo'[c] = q
          /\ pc'[c] = IF q = <<>> THEN "reply" ELSE "find"
          /\ UNCHANGED error
      BY <2>2 DEF Merges, Continue, Goto, RunDataTypeOK
    <3>2. \A p \in Documents(c) : \E i \in DOMAIN q : p = q[i]
      BY DEF Documents
    <3>3. \A k \in ParamKeys : batch[c].params[k] # NoParam
                                  => params'[k] = batch[c].params[k]
      BY <2>2 DEF Merges, MergeParams
    <3>4. error[c] = "none"
      BY <2>2, <1>2 DEF Merges, BatchOf
    <3> HIDE DEF q
    <3> QED
      BY <1>3, <1>5, <3>1, <3>2, <3>3, <3>4 DEF BatchOf
  <2>3. ASSUME NEW p \in Phases, Goes(c, p)
        PROVE  BatchOf(c)'
    BY <2>3, <1>2, <1>5 DEF Goes, BatchOf, RunDataTypeOK
  <2>4. ASSUME NEW x \in Errors, Fails(c, x)
        PROVE  BatchOf(c)'
    BY <2>4 DEF Fails, BatchOf, RunDataTypeOK
  <2> QED
    BY <2>1, <2>2, <2>3, <2>4 DEF CallEffect
<1> QED
  BY <1>4, <1>6 DEF BatchInv, BatchOf

(* A point stays superseded when the summary is merged with a batch.       *)
LEMMA SupersededStays ==
    ASSUME RunDataTypeOK, NEW p \in Metric, Superseded(p),
           latest' \in Summary, Covers(latest, latest')
    PROVE  Superseded(p)'
<1>1. SUFFICES ASSUME p.model = NoModel
               PROVE  latest'[p.k] # NoMetric /\ ~Newer(p, latest'[p.k])
  BY DEF Superseded
<1>2. p.k \in MetricKeys
  BY DEF Metric
<1>3. latest[p.k] # NoMetric /\ ~Newer(p, latest[p.k])
  BY <1>1 DEF Superseded
<1>4. latest'[p.k] # NoMetric /\ ~Newer(latest[p.k], latest'[p.k])
  BY <1>2, <1>3 DEF Covers
<1>5. latest[p.k] \in Metric /\ latest'[p.k] \in Metric
  BY <1>2, <1>3, <1>4 DEF Summary, RunDataTypeOK
<1> QED
  BY <1>3, <1>4, <1>5, NewerOrder

LEMMA NewestStep ==
    ASSUME RunDataTypeOK, NewestInv, NEW c \in Calls, CallEffect(c)
    PROVE  NewestInv'
<1>1. CASE Advances(c)
  <2>1. todo[c] \in Seq(Metric) /\ todo[c] # <<>>
    BY <1>1 DEF Advances, RunDataTypeOK
  <2>2. /\ points' = points \union {Head(todo[c])}
        /\ todo' = [todo EXCEPT ![c] = Tail(todo[c])]
        /\ UNCHANGED latest
    BY <1>1 DEF Advances, Continue
  <2>3. /\ Head(todo[c]) = todo[c][1] /\ 1 \in DOMAIN todo[c]
        /\ \A i \in DOMAIN Tail(todo[c]) :
              \E j \in DOMAIN todo[c] : Tail(todo[c])[i] = todo[c][j]
    BY <2>1, TailElements
  <2>4. \A p : Superseded(p)' <=> Superseded(p)
    BY <2>2 DEF Superseded
  <2>5. \A p \in points' : Superseded(p)
    BY <2>2, <2>3 DEF NewestInv
  <2>6. ASSUME NEW d \in Calls, NEW i \in DOMAIN todo'[d]
        PROVE  Superseded(todo'[d][i])
    <3>1. CASE d = c
      BY <2>2, <2>3, <2>6, <3>1 DEF NewestInv, RunDataTypeOK
    <3>2. CASE d # c
      BY <2>2, <2>6, <3>2 DEF NewestInv, RunDataTypeOK
    <3> QED
      BY <3>1, <3>2
  <2> QED
    BY <2>4, <2>5, <2>6 DEF NewestInv
<1>2. CASE Merges(c)
  <2> DEFINE q == MetricDocuments(batch[c].metrics)
  <2>1. /\ todo' = [todo EXCEPT ![c] = q]
        /\ latest' = MergeMetrics(latest, batch[c].metrics)
        /\ UNCHANGED points
    BY <1>2 DEF Merges, Continue
  <2>2. \A p \in Metric : Superseded(p) => Superseded(p)'
    BY <1>2, Merged, SupersededStays
  <2>3. ASSUME NEW p \in Metric, NEW i \in DOMAIN q, p = q[i]
        PROVE  Superseded(p)'
    <3>1. SUFFICES ASSUME p.model = NoModel
                   PROVE  latest'[p.k] # NoMetric /\ ~Newer(p, latest'[p.k])
      BY DEF Superseded
    <3>2. PICK j \in DOMAIN batch[c].metrics : p = RunPoint(batch[c].metrics[j])
      BY <2>3, <3>1, BatchTypes, DocumentsOfBatch
    <3>3. p.k = batch[c].metrics[j].k
      <4>1. batch[c].metrics[j] \in Metric
        BY BatchTypes
      <4> QED
        BY <3>2, <4>1, RunPointType
    <3>4. LET g == MergeMetrics(latest, batch[c].metrics) IN
          /\ g[batch[c].metrics[j].k] # NoMetric
          /\ ~Newer(RunPoint(batch[c].metrics[j]), g[batch[c].metrics[j].k])
      BY BatchTypes, MergeAll
    <3> QED
      BY <2>1, <3>2, <3>3, <3>4
  <2>4. \A p \in points' : Superseded(p)'
    BY <2>1, <2>2 DEF NewestInv, RunDataTypeOK
  <2>5. ASSUME NEW d \in Calls, NEW i \in DOMAIN todo'[d], NEW p \in Metric,
               p = todo'[d][i]
        PROVE  Superseded(p)'
    <3>1. CASE d = c
      <4>1. todo'[d] = q
        BY <2>1, <3>1 DEF RunDataTypeOK
      <4> HIDE DEF q
      <4> QED
        BY <2>3, <2>5, <4>1
    <3>2. CASE d # c
      <4>1. todo'[d] = todo[d]
        BY <2>1, <3>2 DEF RunDataTypeOK
      <4>2. Superseded(p)
        BY <2>5, <4>1 DEF NewestInv
      <4> QED
        BY <2>2, <4>2
    <3> QED
      BY <3>1, <3>2
  <2>6. ASSUME NEW d \in Calls, NEW i \in DOMAIN todo'[d]
        PROVE  todo'[d][i] \in Metric
    BY TypeStep, <2>6 DEF RunDataTypeOK
  <2> QED
    BY <2>4, <2>5, <2>6 DEF NewestInv, Superseded
<1>3. ASSUME NEW p \in Phases, Goes(c, p)
      PROVE  NewestInv'
  BY <1>3 DEF Goes, NewestInv, Superseded
<1>4. ASSUME NEW x \in Errors, Fails(c, x)
      PROVE  NewestInv'
  BY <1>4 DEF Fails, NewestInv, Superseded
<1> QED
  BY <1>1, <1>2, <1>3, <1>4 DEF CallEffect

(* Where the latest metric of a key comes from.                            *)
SourceOf(k) ==
    \/ latest[k] \in points
    \/ \E c \in Calls : Unfinished(c) /\ latest[k] \in Documents(c)

LEMMA SourceStays ==
    ASSUME RunDataTypeOK, BatchInv, BatchInv', NEW c \in Calls, CallEffect(c),
           NEW k \in MetricKeys, SourceOf(k), latest'[k] = latest[k]
    PROVE  SourceOf(k)'
<1>1. points \subseteq points' /\ UNCHANGED batch
  BY DEF CallEffect, Advances, Merges, Goes, Fails
<1>2. \A d \in Calls : Documents(d)' = Documents(d)
  BY <1>1 DEF Documents
<1>3. SUFFICES ASSUME NEW d \in Calls, Unfinished(d), latest[k] \in Documents(d)
               PROVE  latest[k] \in points' \/ Unfinished(d)'
  BY <1>1, <1>2 DEF SourceOf
<1>4. CASE d # c
  BY <1>3, <1>4
  DEF CallEffect, Advances, Merges, Goes, Fails, Continue, Goto, Unfinished, RunDataTypeOK
<1>5. CASE d = c
  <2>1. CASE Advances(c)
    <3>1. /\ pc'[c] = IF Tail(todo[c]) = <<>> THEN "reply" ELSE "find"
          /\ todo'[c] = Tail(todo[c])
      BY <2>1 DEF Advances, Continue, Goto, RunDataTypeOK
    <3>2. CASE pc'[c] = "find"
      BY <1>5, <3>2 DEF Unfinished
    <3>3. CASE pc'[c] = "reply"
      <4>1. \A p \in Documents(c) : p \in points'
        BY <1>2, <3>1, <3>3 DEF BatchInv
      <4> QED
        BY <1>3, <1>5, <4>1
    <3> QED
      BY <3>1, <3>2, <3>3
  <2>2. CASE Merges(c)
    BY <1>3, <1>5, <2>2 DEF Merges, Unfinished, BatchInv
  <2>3. ASSUME NEW p \in Phases, Goes(c, p)
        PROVE  Unfinished(c)'
    BY <1>3, <1>5, <2>3 DEF Goes, Unfinished, BatchInv, RunDataTypeOK
  <2>4. ASSUME NEW x \in Errors, Fails(c, x)
        PROVE  Unfinished(c)'
    BY <1>3, <1>5, <2>4 DEF Fails, Unfinished, BatchInv, RunDataTypeOK, Running
  <2> QED
    BY <1>5, <2>1, <2>2, <2>3, <2>4 DEF CallEffect
<1> QED
  BY <1>4, <1>5

LEMMA SourceStep ==
    ASSUME RunDataTypeOK, SourceInv, BatchInv, BatchInv', NEW c \in Calls, CallEffect(c)
    PROVE  SourceInv'
<1>1. SUFFICES ASSUME NEW k \in MetricKeys, latest'[k] # NoMetric
               PROVE  latest'[k].model = NoModel /\ SourceOf(k)'
  BY DEF SourceInv, SourceOf
<1>2. CASE latest'[k] = latest[k]
  <2>1. latest[k].model = NoModel /\ SourceOf(k)
    BY <1>1, <1>2 DEF SourceInv, SourceOf
  <2> QED
    BY <1>2, <2>1, SourceStays
<1>3. CASE latest'[k] # latest[k]
  <2>1. Merges(c)
    BY <1>3 DEF CallEffect, Advances, Goes, Fails
  <2> DEFINE ms == batch[c].metrics
             q == MetricDocuments(ms)
  <2>2. PICK j \in DOMAIN ms : latest'[k] = RunPoint(ms[j])
    <3>1. latest' = MergeMetrics(latest, ms)
      BY <2>1 DEF Merges
    <3> QED
      BY <1>3, <3>1, BatchTypes, MergeAll
  <2>3. ms[j] \in Metric
    BY BatchTypes
  <2>4. PICK i \in DOMAIN q : q[i] = RunPoint(ms[j])
    BY BatchTypes, DocumentsOfBatch
  <2>5. RunPoint(ms[j]) \in Documents(c)
    BY <2>4 DEF Documents
  <2>6. q # <<>>
    BY <2>4
  <2>7. pc'[c] = "find" /\ UNCHANGED batch
    BY <2>1, <2>6 DEF Merges, Continue, Goto, RunDataTypeOK
  <2>8. Unfinished(c)' /\ latest'[k] \in Documents(c)'
    BY <2>2, <2>5, <2>7 DEF Unfinished, Documents
  <2> QED
    BY <2>2, <2>3, <2>8, RunPointType DEF SourceOf
<1> QED
  BY <1>2, <1>3

-----------------------------------------------------------------------------
LEMMA IInit == Init => IInv
<1> SUFFICES ASSUME Init PROVE IInv
  OBVIOUS
<1>1. /\ points = {} /\ todo = [c \in Calls |-> <<>>]
      /\ latest = [k \in MetricKeys |-> NoMetric]
      /\ \A c \in Calls : pc[c] = "idle" /\ error[c] = "none"
  BY DEF Init
<1>2. todo \in [Calls -> Seq(Metric)] /\ \A c \in Calls : DOMAIN todo[c] = {}
  BY <1>1
<1>3. RunDataTypeOK
  BY <1>1, <1>2, WorkloadsAssumption, FaultsAssumption
  DEF Init, RunDataTypeOK, Phases, Errors
<1>4. NewestInv /\ SourceInv /\ BatchInv
  BY <1>1, <1>2 DEF NewestInv, SourceInv, BatchInv
<1> QED
  BY <1>3, <1>4 DEF IInv

LEMMA IStep == IInv /\ [Next]_vars => IInv' /\ ParamsKept
<1> SUFFICES ASSUME IInv, [Next]_vars PROVE IInv' /\ ParamsKept
  OBVIOUS
<1>1. CASE UNCHANGED <<params, latest, points, pc, batch, todo, error, faults>>
           /\ stage' \in {"active", "deleted"}
  <2>1. RunDataTypeOK' /\ NewestInv'
    BY <1>1 DEF IInv, RunDataTypeOK, NewestInv, Superseded
  <2>2. SourceInv' /\ BatchInv'
    BY <1>1 DEF IInv, SourceInv, BatchInv, Unfinished, Documents
  <2> QED
    BY <1>1, <2>1, <2>2 DEF IInv, ParamsKept
<1>2. ASSUME NEW c \in Calls, Arrive(c) \/ CallStep(c) \/ Fault(c)
      PROVE  IInv' /\ ParamsKept
  <2>1. CallEffect(c)
    BY <1>2, CallEffects DEF IInv
  <2>2. RunDataTypeOK' /\ NewestInv' /\ BatchInv' /\ ParamsKept
    BY <2>1, TypeStep, NewestStep, BatchStep, ParamsStep DEF IInv
  <2>3. SourceInv'
    BY <2>1, <2>2, SourceStep DEF IInv
  <2> QED
    BY <2>2, <2>3 DEF IInv
<1>3. CASE MoveRun
  BY <1>1, <1>3 DEF MoveRun
<1>4. CASE UNCHANGED vars
  BY <1>1, <1>4 DEF vars, IInv, RunDataTypeOK
<1> QED
  BY <1>2, <1>3, <1>4 DEF Next

(* The conjunction of the parts holds in every reachable state.            *)
THEOREM Invariance == Spec => []IInv
<1>1. IInv /\ [Next]_vars => IInv'
  BY IStep
<1> QED
  BY <1>1, IInit, PTL DEF Spec

(* Documents, batches and phases keep their types, and no two points of    *)
(* the history have the same identity.                                     *)
THEOREM TypeCorrect == Spec => []RunDataTypeOK
<1>1. IInv => RunDataTypeOK
  BY DEF IInv
<1> QED
  BY <1>1, Invariance, PTL

(* A parameter never changes once it is logged.                            *)
THEOREM ParamsNeverChange == Spec => ParamsAreImmutable
<1>1. IInv /\ [Next]_vars
         => [\A k \in ParamKeys : params[k] # NoParam => params'[k] = params[k]]_vars
  BY IStep DEF ParamsKept
<1> QED
  BY <1>1, Invariance, PTL DEF Spec, ParamsAreImmutable

LEMMA NewestInHistory == IInv => LatestIsNewestOfHistory
<1> SUFFICES ASSUME IInv, NEW k \in MetricKeys
             PROVE  LET Logged == {p \in points : p.k = k /\ p.model = NoModel}
                        S == Logged \union {latest[k]}
                        LastStep == {p \in S : \A q \in S : q.step <= p.step}
                        LastTime == {p \in LastStep : \A q \in LastStep :
                                        q.timestamp <= p.timestamp} IN
                    \/ latest[k] = NoMetric /\ Logged = {}
                    \/ /\ latest[k] \in {p \in LastTime : \A q \in LastTime :
                                            Rank(q.v) <= Rank(p.v)}
                       /\ SourceOf(k)
  BY DEF LatestIsNewestOfHistory, SourceOf
<1> DEFINE l == latest[k]
           Logged == {p \in points : p.k = k /\ p.model = NoModel}
           S == Logged \union {l}
           LastStep == {p \in S : \A q \in S : q.step <= p.step}
           LastTime == {p \in LastStep : \A q \in LastStep :
                           q.timestamp <= p.timestamp}
<1>1. \A p \in Logged : p \in Metric /\ l # NoMetric /\ ~Newer(p, l)
  BY DEF IInv, NewestInv, Superseded, RunDataTypeOK
<1>2. CASE l = NoMetric
  BY <1>1, <1>2
<1>3. CASE l # NoMetric
  <2>1. l \in Metric /\ SourceOf(k)
    BY <1>3 DEF IInv, RunDataTypeOK, SourceInv, SourceOf
  <2>2. \A p \in S : p \in Metric /\ ~Newer(p, l)
    BY <1>1, <2>1, NewerOrder
  <2>3. \A p \in Metric : /\ p.step \in Nat /\ p.timestamp \in Nat
                          /\ Rank(p.v) \in Int
    BY RankType DEF Metric
  <2> HIDE DEF l, Logged
  <2>4. l \in LastStep
    BY <2>1, <2>2, <2>3 DEF Newer
  <2>5. l \in LastTime
    BY <2>1, <2>2, <2>3, <2>4 DEF Newer
  <2>6. \A q \in LastTime : Rank(q.v) <= Rank(l.v)
    <3>1. ASSUME NEW q \in LastTime
          PROVE  q.step = l.step /\ q.timestamp = l.timestamp /\ q \in S
      BY <2>1, <2>2, <2>3, <2>4, <2>5
    <3> HIDE DEF LastTime
    <3> QED
      BY <3>1, <2>1, <2>2, <2>3 DEF Newer
  <2> QED
    BY <2>1, <2>5, <2>6 DEF l, Logged
<1> QED
  BY <1>2, <1>3

(* The summary has, for each key, the newest of the whole history, however *)
(* the batches of any number of calls interleave.                          *)
THEOREM LatestIsNewest == Spec => []LatestIsNewestOfHistory
BY NewestInHistory, Invariance, PTL

(* A call that returned has its points in the history and its parameters   *)
(* in the run, for good.                                                   *)
THEOREM BatchesStored == Spec => []AcknowledgedBatchesStored
<1>1. IInv => AcknowledgedBatchesStored
  <2>1. SUFFICES ASSUME IInv, NEW c \in Calls, pc[c] = "done"
                 PROVE  /\ Documents(c) \subseteq points
                        /\ MergeParams(params, batch[c].params) = params
    BY DEF AcknowledgedBatchesStored
  <2>2. \A k \in ParamKeys : batch[c].params[k] # NoParam
                                => params[k] = batch[c].params[k]
    BY <2>1 DEF IInv, BatchInv
  <2>3. Documents(c) \subseteq points
    BY <2>1 DEF IInv, BatchInv
  <2>4. MergeParams(params, batch[c].params) = params
    BY <2>1, <2>2 DEF IInv, RunDataTypeOK, MergeParams
  <2> QED
    BY <2>3, <2>4
<1> QED
  BY <1>1, Invariance, PTL
=============================================================================
