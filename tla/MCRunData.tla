----------------------------- MODULE MCRunData -----------------------------
(* Small instances of RunData for TLC. *)
EXTENDS RunData, TLC

CONSTANTS c1, c2, c3, c4, loss, p1, p2, x, y, m1

MCMetricValues == {-1, 1, NaN}

M(v, timestamp, step, model) ==
    [k |-> loss, v |-> v, timestamp |-> timestamp, step |-> step, model |-> model]

Params(a, b) == p1 :> a @@ p2 :> b
B(ms, ps) == [metrics |-> ms, params |-> ps]

Workload(b1, b2, b3, b4) == c1 :> b1 @@ c2 :> b2 @@ c3 :> b3 @@ c4 :> b4

(* A batch, its retry, a conflicting value for the model's point and a     *)
(* conflicting parameter; batches that arrive out of order, with values    *)
(* that tie with NaN.                                                      *)
MCWorkloads ==
    LET none == Params(NoParam, NoParam)
        first == B(<<M(1, 1, 1, m1), M(1, 2, 1, NoModel)>>, Params(x, NoParam)) IN
    {Workload(first, first,
              B(<<M(-1, 1, 1, m1)>>, Params(x, y)),
              B(<<M(1, 2, 2, m1)>>, Params(y, y))),
     Workload(B(<<M(-1, 1, 1, NoModel), M(NaN, 1, 1, NoModel)>>, none),
              B(<<M(1, 2, 1, m1)>>, Params(x, x)),
              B(<<M(-1, 1, 2, m1), M(1, 1, 1, NoModel)>>, none),
              B(<<M(NaN, 1, 2, m1)>>, Params(NoParam, y)))}
=============================================================================
