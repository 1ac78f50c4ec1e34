-------------------------- MODULE ModelLifecycle --------------------------
(***************************************************************************)
(* What the registry promises about model versions, whatever the number of *)
(* servers and concurrent calls: the versions of a model are numbered 1, 2,*)
(* 3, ...; a number is given out once and names at most one version, ever; *)
(* and a deleted version never comes back to a stage.                      *)
(* ModelRegistry implements this specification.                            *)
(***************************************************************************)
EXTENDS Naturals

CONSTANTS Models, Stages, Deleted

VARIABLES
    issued,   \* issued[m]: the last number given out for model m
    created,  \* the pairs <<m, n>> for which a version has been stored
    stage     \* stage[<<m, n>>]: its stage; the domain is what is stored now

lifecycleVars == <<issued, created, stage>>

Init ==
    /\ issued = [m \in Models |-> 0]
    /\ created = {}
    /\ stage = <<>>

Issue ==
    \E m \in Models :
       /\ issued' = [issued EXCEPT ![m] = @ + 1]
       /\ UNCHANGED <<created, stage>>

Store ==
    \E m \in Models, s \in Stages : \E n \in 1..issued[m] :
       /\ <<m, n>> \notin created
       /\ created' = created \union {<<m, n>>}
       /\ stage' = [k \in DOMAIN stage \union {<<m, n>>} |->
                       IF k = <<m, n>> THEN s ELSE stage[k]]
       /\ UNCHANGED issued

Move ==
    \E k \in DOMAIN stage, s \in Stages \union {Deleted} :
       /\ stage[k] # Deleted
       /\ stage' = [stage EXCEPT ![k] = s]
       /\ UNCHANGED <<issued, created>>

Purge ==
    \E k \in DOMAIN stage :
       /\ stage' = [x \in DOMAIN stage \ {k} |-> stage[x]]
       /\ UNCHANGED <<issued, created>>

Next == Issue \/ Store \/ Move \/ Purge

Spec == Init /\ [][Next]_lifecycleVars
=============================================================================
