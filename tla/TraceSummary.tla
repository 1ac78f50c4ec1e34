--------------------------- MODULE TraceSummary ---------------------------
(***************************************************************************)
(* What span ingestion promises, whatever the number of servers, calls and *)
(* retries: spans are only ever added; the summary of a trace is computed  *)
(* from stored spans of that trace and never from fewer than before; and a *)
(* batch is acknowledged only once every one of its spans is summarised.   *)
(* SpanIngestion implements this specification.                            *)
(***************************************************************************)
CONSTANTS Traces, Spans, TraceOf

VARIABLES
    delivered,    \* the stored spans
    summary,      \* summary[t]: the spans the summary of t was computed from
    acknowledged  \* spans of batches that were accepted without an error

summaryVars == <<delivered, summary, acknowledged>>

Init ==
    /\ delivered = {}
    /\ summary = [t \in Traces |-> {}]
    /\ acknowledged = {}

Deliver ==
    \E s \in Spans \ delivered :
       /\ delivered' = delivered \union {s}
       /\ UNCHANGED <<summary, acknowledged>>

Summarise ==
    \E t \in Traces, S \in SUBSET delivered :
       /\ summary[t] \subseteq S
       /\ \A s \in S : TraceOf[s] = t
       /\ summary' = [summary EXCEPT ![t] = S]
       /\ UNCHANGED <<delivered, acknowledged>>

Acknowledge ==
    \E S \in SUBSET delivered :
       /\ \A s \in S : s \in summary[TraceOf[s]]
       /\ acknowledged' = acknowledged \union S
       /\ UNCHANGED <<delivered, summary>>

Next == Deliver \/ Summarise \/ Acknowledge

Spec == Init /\ [][Next]_summaryVars
=============================================================================
