-------------------------- MODULE MCSpanIngestion --------------------------
(* Small instances of SpanIngestion for TLC. *)
EXTENDS SpanIngestion, TLC

CONSTANTS t1, t2, s1, s2, s3, c1, c2, start, e1, e2

(* t1 gets a child span and a root, t2 a failed root. *)
MCTraceOf == s1 :> t1 @@ s2 :> t1 @@ s3 :> t2
MCRootStatus == s1 :> "child" @@ s2 :> "OK" @@ s3 :> "ERROR"

(* The spans sort by start_time_ns: s2, s1, s3. *)
MCFirstOf == [S \in (SUBSET Spans) \ {{}} |->
                 IF s2 \in S THEN s2 ELSE IF s1 \in S THEN s1 ELSE s3]

(* A root with its child, the child alone, and a batch over both traces. *)
MCBatches == {{s1, s2}, {s1}, {s1, s3}}

MCTraceInfos == {[state |-> "IN_PROGRESS", usage |-> FALSE, assessed |-> FALSE],
                 [state |-> "ERROR", usage |-> TRUE, assessed |-> TRUE]}

(* Calls and experiments are interchangeable: the properties of ingest.cfg  *)
(* are safety properties that name neither.                               *)
Symmetries == Permutations({c1, c2}) \union Permutations({e1, e2})
=============================================================================
