-------------------------- MODULE MCModelRegistry --------------------------
(* Small instances of ModelRegistry for TLC. *)
EXTENDS ModelRegistry, TLC

CONSTANTS c1, c2, c3, c4, c5, c6, n1, n2, champion

(* A request, with the parameters the operation ignores filled in. *)
Base(op) == [op |-> op, name |-> n1, new_name |-> n2, version |-> 1,
             stage |-> "Production", archive |-> TRUE, alias |-> champion]

Create == Base("create_model")
AddVersion == Base("create_version")
Promote(v) == [Base("transition") EXCEPT !.version = v]
Retire == [Base("transition") EXCEPT !.stage = "Archived", !.archive = FALSE]

(* Every workload starts with a model and a version of it.                 *)
Workload(r3, r4, r5, r6) ==
    c1 :> Create @@ c2 :> AddVersion @@ c3 :> r3 @@ c4 :> r4 @@ c5 :> r5 @@ c6 :> r6

(* Promotions of two versions while one is deleted; versions added and     *)
(* moved while the model is deleted; an alias set while its version is     *)
(* deleted and the model renamed to a name that may be taken, deleted and  *)
(* created again, or renamed while the alias is taken away; an alias read  *)
(* while it is set and its version deleted, or its model replaced.          *)
MCWorkloads ==
    {Workload(AddVersion, Promote(1), Promote(2), Base("delete_version")),
     Workload(AddVersion, Promote(1), Retire, Base("delete_model")),
     Workload(Base("delete_version"), Base("set_alias"), Base("rename"),
              [Create EXCEPT !.name = n2]),
     Workload(Base("delete_version"), Base("set_alias"), Base("delete_model"), Create),
     Workload(Base("delete_version"), Base("set_alias"), Base("rename"),
              Base("delete_alias")),
     Workload(Base("delete_version"), Base("set_alias"), Base("delete_alias"),
              Base("get_by_alias")),
     Workload(Base("set_alias"), Base("delete_model"), Create,
              Base("get_by_alias"))}

(* A model that is deleted while a version is added to it. *)
MCDeletionWorkload ==
    {c1 :> Create @@ c2 :> AddVersion @@ c3 :> Base("delete_model")}

(* Two versions promoted to the same stage. *)
MCPromotionWorkload ==
    {c1 :> Create @@ c2 :> AddVersion @@ c3 :> AddVersion
     @@ c4 :> Promote(1) @@ c5 :> Promote(2)}
=============================================================================
