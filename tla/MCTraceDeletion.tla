-------------------------- MODULE MCTraceDeletion --------------------------
(* Small instances of TraceDeletion for TLC. *)
EXTENDS TraceDeletion, TLC

CONSTANTS t1, s1, s2, c1, c2, start, d1, d2, e1, e2

(* One trace, which gets a child span and a root. *)
MCTraceOf == s1 :> t1 @@ s2 :> t1
MCRootStatus == s1 :> "child" @@ s2 :> "OK"
MCFirstOf == [S \in (SUBSET Spans) \ {{}} |-> IF s2 \in S THEN s2 ELSE s1]

MCBatches == {{s1}, {s2}}

MCTraceInfos == {[state |-> "OK", usage |-> FALSE, assessed |-> TRUE]}
=============================================================================
