-------------------------- MODULE MCExperimentRuns --------------------------
(* Small instances of ExperimentRuns for TLC. *)
EXTENDS ExperimentRuns, TLC

CONSTANTS c1, c2, c3, c4, c5, st1, st2, Default, n1

(* Two server processes. *)
MCStoreOf == [c \in Calls |-> IF c \in {c1, c3, c5} THEN st1 ELSE st2]

(* A request about experiment 0, with the parameters the operation ignores *)
(* filled in; the runs are created by c1 and c2.                           *)
Base(op) == [op |-> op, experiment |-> 0, name |-> n1, run |-> c1]

Create(n) == [Base("create_experiment") EXCEPT !.name = n]
About1(op) == [Base(op) EXCEPT !.experiment = 1]

Workload(r1, r2, r3, r4, r5) ==
    c1 :> r1 @@ c2 :> r2 @@ c3 :> r3 @@ c4 :> r4 @@ c5 :> r5

(* Deletions and restorations of an experiment with two runs, with a run   *)
(* moved by itself, and with two opposite moves at once; experiments       *)
(* created and renamed to the same names and to the default's, more than   *)
(* there are ids; a run created in an experiment that is being deleted.    *)
MCWorkloads ==
    {Workload(Base("create_run"), Base("create_run"), Base("delete_experiment"),
              Base("restore_experiment"), Base("delete_experiment")),
     Workload(Base("create_run"), Base("delete_run"), Base("delete_experiment"),
              Base("restore_experiment"), Base("restore_run")),
     Workload(Create(n1), Create(Default), Base("rename_experiment"),
              Create(n1), Base("delete_experiment")),
     Workload(Create(n1), About1("create_run"), About1("delete_experiment"),
              About1("rename_experiment"), About1("restore_experiment"))}
=============================================================================
