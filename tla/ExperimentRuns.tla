--------------------------- MODULE ExperimentRuns ---------------------------
(***************************************************************************)
(* Experiments, the runs in them, and the life cycle of both               *)
(* (tracking/store.py, repositories/experiments.py, repositories/runs.py). *)
(*                                                                         *)
(* Deleting or restoring an experiment first moves all of its runs, one    *)
(* document at a time, and then the experiment; create_run reads the       *)
(* experiment and inserts the run later; delete_run and restore_run do not *)
(* look at the experiment.  A store creates experiment 0 the first time    *)
(* one of its calls needs the experiments.  There is no transaction.       *)
(*                                                                         *)
(* A call is executed at most once.  The id of a run is the call that      *)
(* creates it (a uuid).  Tags, timestamps and artifact locations are left  *)
(* out.                                                                    *)
(***************************************************************************)
EXTENDS Integers, FiniteSets

CONSTANTS Calls,
          Stores,     \* tracking stores, one per server process
          StoreOf,    \* StoreOf[c]: the store call c is made on
          Names,      \* experiment names
          DefaultName,
          MaxId,      \* 2^63 - 1 in the code
          Workloads,  \* what the calls may be asked to do, for all of them
          MaxFaults   \* bound on the failing database operations

Moves == {"delete_experiment", "restore_experiment"}
RunMoves == {"delete_run", "restore_run"}
Ops == {"create_experiment", "rename_experiment", "create_run"}
          \union Moves \union RunMoves

Request == [op         : Ops,
            experiment : Nat,     \* all but create_experiment and RunMoves
            name       : Names,   \* create_experiment, rename_experiment
            run        : Calls]   \* RunMoves

ASSUME StoresAssumption == StoreOf \in [Calls -> Stores]

ASSUME WorkloadsAssumption == Workloads \subseteq [Calls -> Request]

ASSUME BoundsAssumption ==
    DefaultName \in Names /\ MaxId \in Nat \ {0} /\ MaxFaults \in Nat

VARIABLES
    experiments,  \* experiment documents, by id: [name, stage]
    runs,         \* run documents, by id: [experiment, stage]
    counter,      \* the id counter, or NoCounter
    ready,        \* stores whose experiment repository is initialised
    pc,           \* pc[c]: the next operation of call c
    request,      \* request[c]: what c was asked to do
    number,       \* number[c]: the experiment id allocated for c
    visiting,     \* visiting[c]: runs the update_many of c has yet to visit
    error,        \* error[c]: what c raises to its client
    faults,       \* number of database operations that have failed
    writer,       \* history: writer[r]: the call that last wrote r's stage
    crossed       \* history: runs last written across an opposite move

documents == <<experiments, runs, counter>>
history == <<writer, crossed>>
vars == <<experiments, runs, counter, ready, pc, request, number, visiting,
          error, faults, writer, crossed>>

-----------------------------------------------------------------------------

NoCounter == -1
DefaultId == 0

Stages == {"active", "deleted"}
Experiment == [name : Names, stage : Stages]
Run == [experiment : Nat, stage : Stages]

Errors == {"none", "not_found", "not_active", "exists", "id_taken", "init",
           "ids_exhausted", "persistence"}

Phases == {"idle", "counter", "default", "insert_default", "verify_default",
           "allocate", "insert", "rename", "diagnose", "find", "insert_run",
           "mark", "marking", "transition", "move_run", "reply", "done",
           "failed"}

Running(c) == pc[c] \notin {"idle", "done", "failed"}
Exists(e) == e \in DOMAIN experiments
Active(e) == Exists(e) /\ experiments[e].stage = "active"
NameTaken(n) == \E e \in DOMAIN experiments : experiments[e].name = n
RunsOf(e) == {r \in DOMAIN runs : runs[r].experiment = e}

(* The stage a call moves an experiment or a run to, and the one it leaves.*)
Into(c) == IF request[c].op \in {"delete_experiment", "delete_run"}
           THEN "deleted" ELSE "active"
Opposite(s) == IF s = "active" THEN "deleted" ELSE "active"

(* The first operation of a call that needs the experiments.               *)
FirstUse(c) == CASE request[c].op = "create_experiment" -> "allocate"
                 [] request[c].op = "rename_experiment" -> "rename"
                 [] request[c].op = "create_run"        -> "find"
                 [] OTHER                               -> "transition"

(* Calls that move e into stage s and have begun to move its runs.          *)
Marking(e, s) ==
    {c \in Calls : /\ request[c].op \in Moves
                   /\ request[c].experiment = e /\ Into(c) = s
                   /\ pc[c] \in {"marking", "counter", "default",
                                 "insert_default", "verify_default",
                                 "transition"}}

ExperimentsTypeOK ==
    /\ DOMAIN experiments \subseteq 0..(MaxId - 1)
    /\ \A e \in DOMAIN experiments : experiments[e] \in Experiment
    /\ DOMAIN runs \subseteq Calls
    /\ \A r \in DOMAIN runs : runs[r] \in Run /\ Exists(runs[r].experiment)
    /\ counter \in {NoCounter} \union 0..MaxId
    /\ ready \subseteq Stores
    /\ pc \in [Calls -> Phases]
    /\ request \in [Calls -> Request]
    /\ number \in [Calls -> 0..(MaxId - 1)]
    /\ visiting \in [Calls -> SUBSET (DOMAIN runs)]
    /\ error \in [Calls -> Errors]
    /\ faults \in 0..MaxFaults
    /\ writer \in [DOMAIN runs -> Calls]
    /\ crossed \subseteq DOMAIN runs

Init ==
    /\ experiments = <<>>
    /\ runs = <<>>
    /\ counter = NoCounter
    /\ ready = {}
    /\ pc = [c \in Calls |-> "idle"]
    /\ request \in Workloads
    /\ number = [c \in Calls |-> 0]
    /\ visiting = [c \in Calls |-> {}]
    /\ error = [c \in Calls |-> "none"]
    /\ faults = 0
    /\ writer = <<>>
    /\ crossed = {}

-----------------------------------------------------------------------------
(* Steps of a call that its actions share.  An action whose name has a      *)
(* suffix is a mistake the action could contain, not part of the model.    *)

Goto(c, phase) == pc' = [pc EXCEPT ![c] = phase]

Proceed(c, phase) == Goto(c, phase) /\ UNCHANGED error

Fail(c, e) ==
    /\ Goto(c, "failed")
    /\ error' = [error EXCEPT ![c] = e]

(* The experiment repository is created when a store first uses it.        *)
UseExperiments(c) ==
    Proceed(c, IF StoreOf[c] \in ready THEN FirstUse(c) ELSE "counter")

(* The stage of runs R is written by c.                                    *)
Wrote(c, R) ==
    writer' = [r \in DOMAIN runs' |-> IF r \in R THEN c ELSE writer[r]]

PutExperiment(e, doc) ==
    experiments' = [x \in DOMAIN experiments \union {e} |->
                       IF x = e THEN doc ELSE experiments[x]]

Arrive(c) ==
    /\ pc[c] = "idle"
    /\ CASE request[c].op \in Moves    -> Proceed(c, "mark")
         [] request[c].op \in RunMoves -> Proceed(c, "move_run")
         [] OTHER                      -> UseExperiments(c)
    /\ UNCHANGED <<documents, ready, request, number, visiting, faults,
                   history>>

-----------------------------------------------------------------------------
(* Initialisation of the experiment repository.                            *)

InitCounter_Resets(c) ==
    /\ pc[c] = "counter"
    /\ counter' = 0
    /\ Proceed(c, "default")
    /\ UNCHANGED <<experiments, runs, ready, request, number, visiting, faults,
                   history>>

(* An upsert on the _id alone: two stores at once make one counter, since   *)
(* the server repeats the one that meets a duplicate key.                  *)
InitCounter(c) ==
    /\ pc[c] = "counter"
    /\ counter' = IF counter = NoCounter THEN 0 ELSE counter
    /\ Proceed(c, "default")
    /\ UNCHANGED <<experiments, runs, ready, request, number, visiting, faults,
                   history>>

Initialised(c) ==
    /\ ready' = ready \union {StoreOf[c]}
    /\ Proceed(c, FirstUse(c))

(* The upsert of experiment 0: it looks for the document, then inserts it. *)
FindDefault(c) ==
    /\ pc[c] = "default"
    /\ IF Exists(DefaultId) THEN Initialised(c)
       ELSE Proceed(c, "insert_default") /\ UNCHANGED ready
    /\ UNCHANGED <<documents, request, number, visiting, faults, history>>

InsertDefault(c) ==
    /\ pc[c] = "insert_default"
    /\ IF Exists(DefaultId) \/ NameTaken(DefaultName)
       THEN Proceed(c, "verify_default") /\ UNCHANGED <<experiments, ready>>
       ELSE /\ PutExperiment(DefaultId,
                             [name |-> DefaultName, stage |-> "active"])
            /\ Initialised(c)
    /\ UNCHANGED <<runs, counter, request, number, visiting, faults, history>>

VerifyDefault_Raises(c) ==
    /\ pc[c] = "verify_default"
    /\ Fail(c, "init")
    /\ UNCHANGED <<documents, ready, request, number, visiting, faults, history>>

(* After a duplicate key: another store may have inserted experiment 0.    *)
VerifyDefault(c) ==
    /\ pc[c] = "verify_default"
    /\ IF Exists(DefaultId) THEN Initialised(c)
       ELSE Fail(c, "init") /\ UNCHANGED ready
    /\ UNCHANGED <<documents, request, number, visiting, faults, history>>

-----------------------------------------------------------------------------
(* create_experiment, rename_experiment *)

AllocateId_AcceptsMaxId(c) ==
    /\ pc[c] = "allocate"
    /\ counter < MaxId
    /\ counter' = counter + 1
    /\ number' = [number EXCEPT ![c] = counter + 1]
    /\ Proceed(c, "insert")
    /\ UNCHANGED <<experiments, runs, ready, request, visiting, faults, history>>

(* The counter is incremented before the id is checked; at MaxId the        *)
(* increment itself fails, a 64-bit integer cannot hold the result.        *)
AllocateId(c) ==
    /\ pc[c] = "allocate"
    /\ \/ /\ counter + 1 < MaxId
          /\ counter' = counter + 1
          /\ number' = [number EXCEPT ![c] = counter + 1]
          /\ Proceed(c, "insert")
       \/ /\ counter + 1 >= MaxId
          /\ counter' = MaxId
          /\ Fail(c, "ids_exhausted")
          /\ UNCHANGED number
    /\ UNCHANGED <<experiments, runs, ready, request, visiting, faults, history>>

InsertExperiment(c) ==
    /\ pc[c] = "insert"
    /\ IF Exists(number[c]) \/ NameTaken(request[c].name)
       THEN /\ Fail(c, IF Exists(number[c]) THEN "id_taken" ELSE "exists")
            /\ UNCHANGED experiments
       ELSE /\ PutExperiment(number[c],
                             [name |-> request[c].name, stage |-> "active"])
            /\ Proceed(c, "reply")
    /\ UNCHANGED <<runs, counter, ready, request, number, visiting, faults,
                   history>>

RenameExperiment(c) ==
    LET e == request[c].experiment
        n == request[c].name IN
    /\ pc[c] = "rename"
    /\ \/ /\ Active(e)
          /\ \A x \in DOMAIN experiments : experiments[x].name = n => x = e
          /\ PutExperiment(e, [name |-> n, stage |-> "active"])
          /\ Proceed(c, "reply")
       \/ /\ Active(e)
          /\ \E x \in DOMAIN experiments \ {e} : experiments[x].name = n
          /\ Fail(c, "exists")
          /\ UNCHANGED experiments
       \/ /\ ~Active(e)
          /\ Proceed(c, "diagnose")
          /\ UNCHANGED experiments
    /\ UNCHANGED <<runs, counter, ready, request, number, visiting, faults,
                   history>>

(* Nothing was renamed: a second read tells a missing experiment from one   *)
(* that is, or was a moment ago, deleted.                                  *)
DiagnoseRename(c) ==
    /\ pc[c] = "diagnose"
    /\ Fail(c, IF Exists(request[c].experiment) THEN "not_active"
               ELSE "not_found")
    /\ UNCHANGED <<documents, ready, request, number, visiting, faults, history>>

-----------------------------------------------------------------------------
(* create_run, delete_run, restore_run *)

FindExperiment(c) ==
    LET e == request[c].experiment IN
    /\ pc[c] = "find"
    /\ \/ Active(e) /\ Proceed(c, "insert_run")
       \/ Exists(e) /\ ~Active(e) /\ Fail(c, "not_active")
       \/ ~Exists(e) /\ Fail(c, "not_found")
    /\ UNCHANGED <<documents, ready, request, number, visiting, faults, history>>

(* An update_many over the experiment's runs may or may not meet the new    *)
(* run.                                                                    *)
InsertRun(c) ==
    LET e == request[c].experiment
        movers == {d \in Calls : /\ pc[d] = "marking"
                                 /\ request[d].experiment = e} IN
    /\ pc[c] = "insert_run"
    /\ runs' = [r \in DOMAIN runs \union {c} |->
                   IF r = c THEN [experiment |-> e, stage |-> "active"]
                   ELSE runs[r]]
    /\ \E seen \in SUBSET movers :
          visiting' = [d \in Calls |-> IF d \in seen THEN visiting[d] \union {c}
                                       ELSE visiting[d]]
    /\ Wrote(c, {c})
    /\ crossed' = IF ~Active(e) \/ Marking(e, "deleted") # {}
                  THEN crossed \union {c} ELSE crossed
    /\ Proceed(c, "reply")
    /\ UNCHANGED <<experiments, counter, ready, request, number, faults>>

MoveRun(c) ==
    LET r == request[c].run IN
    /\ pc[c] = "move_run"
    /\ \/ /\ r \in DOMAIN runs
          /\ runs' = [runs EXCEPT ![r].stage = Into(c)]
          /\ Wrote(c, {r})
          /\ crossed' = crossed \ {r}
          /\ Proceed(c, "reply")
       \/ /\ r \notin DOMAIN runs
          /\ Fail(c, "not_found")
          /\ UNCHANGED <<runs, history>>
    /\ UNCHANGED <<experiments, counter, ready, request, number, visiting,
                   faults>>

-----------------------------------------------------------------------------
(* delete_experiment, restore_experiment: the runs first *)

StartMovingRuns(c) ==
    /\ pc[c] = "mark"
    /\ Proceed(c, "marking")
    /\ visiting' = [visiting EXCEPT ![c] = RunsOf(request[c].experiment)]
    /\ UNCHANGED <<documents, ready, request, number, faults, history>>

(* Whatever stage the run is in, and whether or not the experiment exists  *)
(* and is in the stage the call moves it from.                             *)
MoveRunOfExperiment(c, r) ==
    /\ pc[c] = "marking"
    /\ r \in visiting[c]
    /\ runs' = [runs EXCEPT ![r].stage = Into(c)]
    /\ visiting' = [visiting EXCEPT ![c] = @ \ {r}]
    /\ Wrote(c, {r})
    /\ crossed' = IF Marking(request[c].experiment, Opposite(Into(c))) # {}
                  THEN crossed \union {r} ELSE crossed \ {r}
    /\ UNCHANGED <<experiments, counter, ready, pc, request, number, error,
                   faults>>

RunsMoved_TooEarly(c) ==
    /\ pc[c] = "marking"
    /\ UseExperiments(c)
    /\ visiting' = [visiting EXCEPT ![c] = {}]
    /\ UNCHANGED <<documents, ready, request, number, faults, history>>

RunsMoved(c) ==
    /\ pc[c] = "marking"
    /\ visiting[c] = {}
    /\ UseExperiments(c)
    /\ UNCHANGED <<documents, ready, request, number, visiting, faults, history>>

MoveExperiment_FromAnyStage(c) ==
    LET e == request[c].experiment IN
    /\ pc[c] = "transition"
    /\ Exists(e)
    /\ experiments' = [experiments EXCEPT ![e].stage = Into(c)]
    /\ Proceed(c, "reply")
    /\ UNCHANGED <<runs, counter, ready, request, number, visiting, faults,
                   history>>

MoveExperiment(c) ==
    LET e == request[c].experiment IN
    /\ pc[c] = "transition"
    /\ IF Exists(e) /\ experiments[e].stage = Opposite(Into(c))
       THEN /\ experiments' = [experiments EXCEPT ![e].stage = Into(c)]
            /\ Proceed(c, "reply")
       ELSE Fail(c, "not_found") /\ UNCHANGED experiments
    /\ UNCHANGED <<runs, counter, ready, request, number, visiting, faults,
                   history>>

-----------------------------------------------------------------------------

(* The reply of the last operation arrives and the call returns.           *)
Return(c) ==
    /\ pc[c] = "reply"
    /\ Proceed(c, "done")
    /\ UNCHANGED <<documents, ready, request, number, visiting, faults, history>>

(* An operation fails, or it is applied and its reply is lost (the call is *)
(* one phase further then).  Nothing is undone.                            *)
Fault(c) ==
    /\ Running(c)
    /\ faults < MaxFaults
    /\ faults' = faults + 1
    /\ Fail(c, "persistence")
    /\ UNCHANGED <<documents, ready, request, number, visiting, history>>

AllReturned ==
    /\ \A c \in Calls : pc[c] \in {"done", "failed"}
    /\ UNCHANGED vars

CallStep(c) ==
    \/ InitCounter(c) \/ FindDefault(c) \/ InsertDefault(c) \/ VerifyDefault(c)
    \/ AllocateId(c) \/ InsertExperiment(c)
    \/ RenameExperiment(c) \/ DiagnoseRename(c)
    \/ FindExperiment(c) \/ InsertRun(c) \/ MoveRun(c)
    \/ StartMovingRuns(c) \/ RunsMoved(c) \/ MoveExperiment(c)
    \/ \E r \in DOMAIN runs : MoveRunOfExperiment(c, r)
    \/ Return(c)

Next ==
    \/ \E c \in Calls : Arrive(c) \/ CallStep(c) \/ Fault(c)
    \/ AllReturned

Spec == Init /\ [][Next]_vars

-----------------------------------------------------------------------------
(***************************************************************************)
(* Properties.                                                             *)
(***************************************************************************)

(* create_experiment never meets an experiment with the id it allocated:   *)
(* not one of another create_experiment, and not the default experiment,   *)
(* however the stores interleave their initialisation with the allocation, *)
(* and also when the counter runs out (experiments.py:65, 94; the id       *)
(* collision distinguished at experiments.py:187).                         *)
AllocatedIdsAreFree == \A c \in Calls : error[c] # "id_taken"

(* Every store that initialised finds experiment 0, also when several      *)
(* stores initialise at once, and on a database written by this store only *)
(* no initialisation is refused (experiments.py:71;                        *)
(* test_default_experiment.py:57).                                         *)
StoresShareOneDefault ==
    /\ ready # {} => Exists(DefaultId)
    /\ \A c \in Calls : error[c] # "init"

(* A run is in another stage than its experiment only if a call moved that *)
(* run by itself, if the call that last wrote the run did so while an      *)
(* opposite move of the experiment was under way (or the experiment had    *)
(* been deleted since create_run read it), or if that call moves the       *)
(* experiment but has not done so yet, or failed.  In particular a         *)
(* deletion that returned has reached every run that existed when it       *)
(* started (store.py:488).                                                 *)
RunsFollowTheirExperiment ==
    \A r \in DOMAIN runs :
       LET w == writer[r] IN
       \/ runs[r].stage = experiments[runs[r].experiment].stage
       \/ request[w].op \in RunMoves
       \/ r \in crossed
       \/ request[w].op \in Moves /\ pc[w] \notin {"reply", "done"}

(* Moves of experiment e to stage s that succeeded, and those that ended   *)
(* in a database error, whether or not they had moved it.                  *)
MovesTo(e, s) == {c \in Calls : /\ request[c].op \in Moves
                                /\ request[c].experiment = e
                                /\ Into(c) = s}
Succeeded(e, s) == {c \in MovesTo(e, s) : pc[c] \in {"reply", "done"}}
Unanswered(e, s) == {c \in MovesTo(e, s) : error[c] = "persistence"}

(* The deletions and restorations of an experiment that their clients know *)
(* to have succeeded alternate, also when a move fails between the runs    *)
(* and the experiment (store.py:491): what separates them from the stage   *)
(* of the experiment is at most the moves that ended in a database error,  *)
(* each in its own direction.  Of two concurrent deletions, say, one is    *)
(* told that there is no such (active) experiment (experiments.py:318).    *)
AcknowledgedMovesAlternate ==
    \A e \in DOMAIN experiments :
       LET deleted == IF experiments[e].stage = "deleted" THEN 1 ELSE 0 IN
       Cardinality(Succeeded(e, "deleted")) - Cardinality(Succeeded(e, "active"))
          \in (deleted - Cardinality(Unanswered(e, "deleted")))
                 ..(deleted + Cardinality(Unanswered(e, "active")))
=============================================================================
