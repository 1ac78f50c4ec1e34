--------------------------- MODULE MCAssessments ---------------------------
(* Small instances of Assessments for TLC. *)
EXTENDS Assessments, TLC

CONSTANTS c1, c2, c3, c4, c5, t1, t2, a1, a2, a3

(* A request about a1 of t1, with the parameters the operation ignores     *)
(* filled in.                                                              *)
Base(op) == [op |-> op, trace |-> t1, id |-> a1, kinds |-> {},
             overrides |-> None, supplied |-> <<>>]

Create(a, x) == [Base("create") EXCEPT !.id = a, !.overrides = x,
                                       !.kinds = {"feedback"}]
Update(kinds) == [Base("update") EXCEPT !.kinds = kinds]
Delete(a) == [Base("delete") EXCEPT !.id = a]
Start(s) == [Base("start_trace") EXCEPT !.supplied = s]
In(t, r) == [r EXCEPT !.trace = t]

Item(a, k, v, x) == [id |-> a, kinds |-> {k}, valid |-> v, overrides |-> x]

Workload(r1, r2, r3, r4, r5) ==
    c1 :> r1 @@ c2 :> r2 @@ c3 :> r3 @@ c4 :> r4 @@ c5 :> r5

(* Two assessments that override a third and are deleted; an overriding    *)
(* assessment deleted twice, with another or with the same id created      *)
(* after it, also in another trace; updates of both kinds beside a         *)
(* replacement of the other kind and a second update; chains supplied with *)
(* a trace, deleted with it and reported again; a trace deleted twice and  *)
(* started without assessments.                                            *)
MCWorkloads ==
    {Workload(Create(a1, None), Create(a2, a1), Create(a3, a1),
              Delete(a2), Delete(a3)),
     Workload(Create(a1, None), Create(a2, a1), Delete(a2),
              Create(a2, a1), Delete(a2)),
     Workload(Create(a1, None), Create(a2, a1), In(t2, Create(a2, a1)),
              In(t2, Start(<<Item(a1, "feedback", TRUE, None)>>)),
              Delete(a1)),
     Workload(Create(a1, None), Update({"feedback"}), Update({"expectation"}),
              Start(<<Item(a1, "expectation", TRUE, None)>>), Update({})),
     Workload(Create(a1, None), Create(a2, a1), Delete(a2),
              Start(<<Item(a2, "feedback", TRUE, None),
                      Item(a1, "feedback", FALSE, None)>>),
              Base("delete_traces")),
     Workload(Create(a1, None), Update({"feedback"}), Base("delete_traces"),
              Base("delete_traces"), Start(<<>>))}
=============================================================================
