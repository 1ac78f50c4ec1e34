------------------------ MODULE ExperimentRunsProofs ------------------------
(***************************************************************************)
(* Proofs of the invariants of ExperimentRuns, for any number of calls,    *)
(* stores, names, ids and faults.                                          *)
(*                                                                         *)
(* The properties are not inductive.  The invariant below adds what a call *)
(* in each phase knows of the documents: which calls may be in the phase,  *)
(* what the initialisation of a store leaves behind, that an allocated id  *)
(* is still free, and, for the life cycle, that a call that moves an       *)
(* experiment has met every run of it which no opposite writer disturbed.  *)
(*                                                                         *)
(* A step of a call is reduced to one of eighteen effects, and each part   *)
(* of the invariant is shown to survive each effect.                       *)
(***************************************************************************)
EXTENDS ExperimentRuns, FiniteSetTheorems, TLAPS

(* The initialisation of a store, after the counter.                       *)
DefaultPhases == {"default", "insert_default", "verify_default"}

(* The phases of a call that uses an initialised store.                    *)
UsePhases == {"allocate", "insert", "rename", "diagnose", "find",
              "insert_run", "transition"}

(* Each phase is reached only by the operations that go through it.        *)
PhaseInv ==
    \A c \in Calls :
       /\ pc[c] \in {"mark", "marking", "transition"} => request[c].op \in Moves
       /\ pc[c] = "move_run" => request[c].op \in RunMoves
       /\ pc[c] \in {"allocate", "insert"}
             => request[c].op = "create_experiment"
       /\ pc[c] \in {"rename", "diagnose"}
             => request[c].op = "rename_experiment"
       /\ pc[c] \in {"find", "insert_run"} => request[c].op = "create_run"
       /\ pc[c] \in DefaultPhases \union {"counter"}
             => request[c].op \notin RunMoves
       /\ error[c] # "none" => pc[c] = "failed"

(* What the initialisation of a store leaves behind: the counter first,    *)
(* experiment 0 before any other experiment.                               *)
StoreInv ==
    /\ DOMAIN experiments # {} => Exists(DefaultId)
    /\ ready # {} => Exists(DefaultId) /\ counter # NoCounter
    /\ \A c \in Calls :
          /\ pc[c] \in DefaultPhases => counter # NoCounter
          /\ pc[c] = "verify_default" => Exists(DefaultId)
          /\ pc[c] \in UsePhases => StoreOf[c] \in ready

(* The counter is past every experiment, and an id that was allocated and  *)
(* not inserted yet is free and belongs to one call.                       *)
NumberInv ==
    /\ \A e \in DOMAIN experiments : e <= counter
    /\ \A c \in Calls : pc[c] = "insert" =>
          /\ number[c] \in 1..counter
          /\ ~Exists(number[c])
          /\ \A d \in Calls \ {c} : pc[d] = "insert" => number[d] # number[c]

(* A run is inserted once, in an experiment that exists, and a move of an  *)
(* experiment writes and visits only the runs of that experiment.          *)
RunInv ==
    /\ \A r \in DOMAIN runs :
          /\ request[r].op = "create_run"
          /\ pc[r] \in {"reply", "done", "failed"}
          /\ request[writer[r]].op \in Moves
                => request[writer[r]].experiment = runs[r].experiment
    /\ \A c \in Calls :
          /\ pc[c] = "insert_run" => Exists(request[c].experiment)
          /\ \A r \in visiting[c] : runs[r].experiment = request[c].experiment
          /\ request[c].op \in Moves
             /\ pc[c] \in DefaultPhases \union {"counter", "transition"}
                => visiting[c] = {}

(* A call that moves an experiment has yet to visit a run, or the run is   *)
(* in the stage the call moves it to, or it was moved by itself, or it was *)
(* last written across an opposite move.                                   *)
RunsMarked ==
    \A r \in DOMAIN runs, s \in Stages :
       \A c \in Marking(runs[r].experiment, s) :
          \/ r \in visiting[c]
          \/ r \in crossed
          \/ request[writer[r]].op \in RunMoves
          \/ runs[r].stage = s

(* The calls that ended in a database error.                              *)
Interrupted == {c \in Calls : error[c] = "persistence"}

(* They are finitely many, and the experiment of a success exists.         *)
SuccessInv ==
    /\ IsFiniteSet(Interrupted)
    /\ \A c \in Calls :
          request[c].op \in Moves /\ pc[c] \in {"reply", "done"}
             => Exists(request[c].experiment)
    /\ \A e \in DOMAIN experiments, s \in Stages :
          IsFiniteSet(Succeeded(e, s))

IInv ==
    /\ ExperimentsTypeOK
    /\ PhaseInv
    /\ StoreInv
    /\ NumberInv
    /\ RunInv
    /\ RunsMarked
    /\ SuccessInv
    /\ AllocatedIdsAreFree
    /\ StoresShareOneDefault
    /\ RunsFollowTheirExperiment
    /\ AcknowledgedMovesAlternate

-----------------------------------------------------------------------------
(* The effects a step of call c can have.  Each names what it reads, and    *)
(* says of every variable what becomes of it.                              *)

(* The phase, and nothing else that the invariant is about.                *)
Only(c, p) ==
    /\ pc' = [pc EXCEPT ![c] = p]
    /\ UNCHANGED <<documents, ready, request, number, visiting, error, faults,
                   history>>

ReadyFor(c, p) ==
    /\ StoreOf[c] \in ready
    /\ p \in UsePhases \ {"insert", "diagnose", "insert_run"}
    /\ p = "allocate" => request[c].op = "create_experiment"
    /\ p = "rename" => request[c].op = "rename_experiment"
    /\ p = "find" => request[c].op = "create_run"
    /\ p = "transition" => request[c].op \in Moves

(* A call that needs the experiments goes on, or initialises its store.    *)
Uses(c, p) ==
    /\ \/ pc[c] = "idle" /\ request[c].op \notin Moves \union RunMoves
       \/ pc[c] = "marking" /\ visiting[c] = {}
    /\ p = "counter" \/ ReadyFor(c, p)
    /\ Only(c, p)

Begins(c, p) ==
    /\ pc[c] = "idle"
    /\ \/ p = "mark" /\ request[c].op \in Moves
       \/ p = "move_run" /\ request[c].op \in RunMoves
    /\ Only(c, p)

MakesCounter(c) ==
    /\ pc[c] = "counter"
    /\ counter' = IF counter = NoCounter THEN 0 ELSE counter
    /\ pc' = [pc EXCEPT ![c] = "default"]
    /\ UNCHANGED <<experiments, runs, ready, request, number, visiting, error,
                   faults, history>>

(* Experiment 0 is there: the store is initialised.                        *)
Initialises(c, p) ==
    /\ pc[c] \in {"default", "verify_default"}
    /\ Exists(DefaultId)
    /\ ready' = ready \union {StoreOf[c]}
    /\ p \in UsePhases \ {"insert", "diagnose", "insert_run"}
    /\ ReadyFor(c, p)'
    /\ pc' = [pc EXCEPT ![c] = p]
    /\ UNCHANGED <<documents, request, number, visiting, error, faults, history>>

SeeksDefault(c, p) ==
    /\ \/ pc[c] = "default" /\ p = "insert_default"
       \/ /\ pc[c] = "insert_default" /\ p = "verify_default"
          /\ DOMAIN experiments # {}
    /\ Only(c, p)

MakesDefault(c, p) ==
    /\ pc[c] = "insert_default"
    /\ ~Exists(DefaultId)
    /\ PutExperiment(DefaultId, [name |-> DefaultName, stage |-> "active"])
    /\ ready' = ready \union {StoreOf[c]}
    /\ ReadyFor(c, p)'
    /\ pc' = [pc EXCEPT ![c] = p]
    /\ UNCHANGED <<runs, counter, request, number, visiting, error, faults,
                   history>>

Allocates(c) ==
    /\ pc[c] = "allocate"
    /\ counter + 1 < MaxId
    /\ counter' = counter + 1
    /\ number' = [number EXCEPT ![c] = counter + 1]
    /\ pc' = [pc EXCEPT ![c] = "insert"]
    /\ UNCHANGED <<experiments, runs, ready, request, visiting, error, faults,
                   history>>

Exhausts(c) ==
    /\ pc[c] = "allocate"
    /\ counter' = MaxId
    /\ pc' = [pc EXCEPT ![c] = "failed"]
    /\ error' = [error EXCEPT ![c] = "ids_exhausted"]
    /\ UNCHANGED <<experiments, runs, ready, request, number, visiting, faults,
                   history>>

Creates(c) ==
    /\ pc[c] = "insert"
    /\ ~Exists(number[c])
    /\ PutExperiment(number[c], [name |-> request[c].name, stage |-> "active"])
    /\ pc' = [pc EXCEPT ![c] = "reply"]
    /\ UNCHANGED <<runs, counter, ready, request, number, visiting, error,
                   faults, history>>

(* An active experiment gets another name.                                 *)
Renames(c) ==
    /\ pc[c] = "rename"
    /\ Active(request[c].experiment)
    /\ PutExperiment(request[c].experiment,
                     [name |-> request[c].name, stage |-> "active"])
    /\ pc' = [pc EXCEPT ![c] = "reply"]
    /\ UNCHANGED <<runs, counter, ready, request, number, visiting, error,
                   faults, history>>

Finds(c) ==
    /\ pc[c] = "find"
    /\ Exists(request[c].experiment)
    /\ Only(c, "insert_run")

InsertsRun(c) ==
    /\ InsertRun(c)
    /\ pc' = [pc EXCEPT ![c] = "reply"]
    /\ UNCHANGED error

MovesRun(c, r) ==
    /\ pc[c] = "move_run"
    /\ r = request[c].run
    /\ runs' = [runs EXCEPT ![r].stage = Into(c)]
    /\ writer' = [writer EXCEPT ![r] = c]
    /\ crossed' = crossed \ {r}
    /\ pc' = [pc EXCEPT ![c] = "reply"]
    /\ UNCHANGED <<experiments, counter, ready, request, number, visiting,
                   error, faults>>

StartsMoving(c) ==
    /\ pc[c] = "mark"
    /\ pc' = [pc EXCEPT ![c] = "marking"]
    /\ visiting' = [visiting EXCEPT ![c] = RunsOf(request[c].experiment)]
    /\ UNCHANGED <<documents, ready, request, number, error, faults, history>>

MovesRunOf(c, r) ==
    /\ pc[c] = "marking"
    /\ r \in visiting[c]
    /\ runs' = [runs EXCEPT ![r].stage = Into(c)]
    /\ visiting' = [visiting EXCEPT ![c] = @ \ {r}]
    /\ writer' = [writer EXCEPT ![r] = c]
    /\ crossed' = IF Marking(request[c].experiment, Opposite(Into(c))) # {}
                  THEN crossed \union {r} ELSE crossed \ {r}
    /\ UNCHANGED <<experiments, counter, ready, pc, request, number, error,
                   faults>>

MovesExperiment(c, e) ==
    /\ pc[c] = "transition"
    /\ e = request[c].experiment
    /\ experiments[e].stage = Opposite(Into(c))
    /\ experiments' = [experiments EXCEPT ![e].stage = Into(c)]
    /\ pc' = [pc EXCEPT ![c] = "reply"]
    /\ UNCHANGED <<runs, counter, ready, request, number, visiting, error,
                   faults, history>>

Continues(c, p) ==
    /\ \/ pc[c] = "rename" /\ p = "diagnose"
       \/ pc[c] = "reply" /\ p = "done"
    /\ Only(c, p)

(* The call fails: a database operation did, or it raises what it found.   *)
Fails(c, x) ==
    /\ pc[c] \notin {"idle", "done", "failed"}
    /\ x = "id_taken" => pc[c] = "insert" /\ Exists(number[c])
    /\ x = "init" => pc[c] = "verify_default" /\ ~Exists(DefaultId)
    /\ pc[c] = "reply" => x = "persistence"
    /\ x # "none"
    /\ faults' = faults \/ (faults < MaxFaults /\ faults' = faults + 1)
    /\ pc' = [pc EXCEPT ![c] = "failed"]
    /\ error' = [error EXCEPT ![c] = x]
    /\ UNCHANGED <<documents, ready, request, number, visiting, history>>

CallEffect(c) ==
    \/ \E p \in Phases : \/ Uses(c, p) \/ Begins(c, p) \/ Initialises(c, p)
                         \/ SeeksDefault(c, p) \/ MakesDefault(c, p)
                         \/ Continues(c, p)
    \/ MakesCounter(c)
    \/ Allocates(c)
    \/ Exhausts(c)
    \/ Creates(c)
    \/ Renames(c)
    \/ Finds(c)
    \/ InsertsRun(c)
    \/ \E r \in DOMAIN runs : MovesRun(c, r)
    \/ StartsMoving(c)
    \/ \E r \in DOMAIN runs : MovesRunOf(c, r)
    \/ \E e \in DOMAIN experiments : MovesExperiment(c, e)
    \/ \E x \in Errors : Fails(c, x)

(* FirstUse goes where the operation of the call needs the experiments.    *)
LEMMA FirstUseCases ==
    ASSUME ExperimentsTypeOK, NEW c \in Calls, request[c].op \notin RunMoves
    PROVE  /\ FirstUse(c) \in UsePhases \ {"insert", "diagnose", "insert_run"}
           /\ FirstUse(c) = "allocate" => request[c].op = "create_experiment"
           /\ FirstUse(c) = "rename" => request[c].op = "rename_experiment"
           /\ FirstUse(c) = "find" => request[c].op = "create_run"
           /\ FirstUse(c) = "transition" => request[c].op \in Moves
<1>1. request[c].op \in {"create_experiment", "rename_experiment",
                         "create_run"} \union Moves
  BY DEF ExperimentsTypeOK, Request, Ops
<1> QED
  BY <1>1 DEF FirstUse, UsePhases, Moves

LEMMA UsesExperiments ==
    ASSUME ExperimentsTypeOK, NEW c \in Calls, request[c].op \notin RunMoves,
           UseExperiments(c)
    PROVE  \E p \in Phases : /\ p = "counter" \/ ReadyFor(c, p)
                             /\ pc' = [pc EXCEPT ![c] = p]
                             /\ UNCHANGED error
<1>1. CASE StoreOf[c] \in ready
  <2>1. ReadyFor(c, FirstUse(c))
    BY <1>1, FirstUseCases DEF ReadyFor
  <2>2. FirstUse(c) \in Phases
    BY FirstUseCases DEF UsePhases, Phases
  <2> QED
    BY <1>1, <2>1, <2>2 DEF UseExperiments, Proceed, Goto
<1>2. CASE StoreOf[c] \notin ready
  BY <1>2 DEF UseExperiments, Proceed, Goto, Phases
<1> QED
  BY <1>1, <1>2

LEMMA InitialisesStore ==
    ASSUME ExperimentsTypeOK, NEW c \in Calls, request[c].op \notin RunMoves,
           Initialised(c), UNCHANGED request
    PROVE  \E p \in Phases : /\ ReadyFor(c, p)'
                             /\ p \in UsePhases \ {"insert", "diagnose", "insert_run"}
                             /\ ready' = ready \union {StoreOf[c]}
                             /\ pc' = [pc EXCEPT ![c] = p]
                             /\ UNCHANGED error
<1>1. FirstUse(c) \in Phases
  BY FirstUseCases DEF UsePhases, Phases
<1> DEFINE p == FirstUse(c)
<1>2. PICK q \in Phases : q = p
  BY <1>1
<1>3. ReadyFor(c, q)'
  BY <1>2, FirstUseCases DEF ReadyFor, Initialised
<1> QED
  BY <1>2, <1>3, FirstUseCases DEF Initialised, Proceed, Goto

(* Writing the stage of one run is an update of the history at that run.   *)
LEMMA WroteOne ==
    ASSUME ExperimentsTypeOK, NEW c \in Calls, NEW r \in DOMAIN runs,
           runs' = [runs EXCEPT ![r].stage = Into(c)], Wrote(c, {r})
    PROVE  writer' = [writer EXCEPT ![r] = c]
BY DEF ExperimentsTypeOK, Wrote

LEMMA CallEffects ==
    ASSUME ExperimentsTypeOK, PhaseInv, NEW c \in Calls,
           Arrive(c) \/ CallStep(c) \/ Fault(c)
    PROVE  CallEffect(c)
<1> USE DEF documents, history
<1>1. CASE Arrive(c)
  <2>1. CASE request[c].op \in Moves
    <3>1. Begins(c, "mark")
      BY <1>1, <2>1 DEF Arrive, Begins, Only, Proceed, Goto, Moves, RunMoves
    <3> QED
      BY <3>1 DEF CallEffect, Phases
  <2>2. CASE request[c].op \in RunMoves
    <3>1. Begins(c, "move_run")
      BY <1>1, <2>2 DEF Arrive, Begins, Only, Proceed, Goto, Moves, RunMoves
    <3> QED
      BY <3>1 DEF CallEffect, Phases
  <2>3. CASE request[c].op \notin Moves \union RunMoves
    <3>1. UseExperiments(c)
      BY <1>1, <2>3 DEF Arrive
    <3>2. PICK p \in Phases : Uses(c, p)
      BY <1>1, <2>3, <3>1, UsesExperiments DEF Arrive, Uses, Only
    <3> QED
      BY <3>2 DEF CallEffect
  <2> QED
    BY <2>1, <2>2, <2>3
<1>2. CASE InitCounter(c)
  <2>1. MakesCounter(c)
    BY <1>2 DEF InitCounter, MakesCounter, Proceed, Goto
  <2> QED
    BY <2>1 DEF CallEffect
<1>3. CASE FindDefault(c)
  <2>1. pc[c] = "default" /\ request[c].op \notin RunMoves
    BY <1>3 DEF FindDefault, PhaseInv, DefaultPhases
  <2>2. CASE Exists(DefaultId)
    <3>1. PICK p \in Phases : Initialises(c, p)
      BY <1>3, <2>1, <2>2, InitialisesStore DEF FindDefault, Initialises
    <3> QED
      BY <3>1 DEF CallEffect
  <2>3. CASE ~Exists(DefaultId)
    <3>1. SeeksDefault(c, "insert_default")
      BY <1>3, <2>1, <2>3 DEF FindDefault, SeeksDefault, Only, Proceed, Goto
    <3> QED
      BY <3>1 DEF CallEffect, Phases
  <2> QED
    BY <2>2, <2>3
<1>4. CASE InsertDefault(c)
  <2>1. pc[c] = "insert_default" /\ request[c].op \notin RunMoves
    BY <1>4 DEF InsertDefault, PhaseInv, DefaultPhases
  <2>2. CASE Exists(DefaultId) \/ NameTaken(DefaultName)
    <3>1. SeeksDefault(c, "verify_default")
      BY <1>4, <2>1, <2>2
      DEF InsertDefault, SeeksDefault, Only, Proceed, Goto, Exists, NameTaken
    <3> QED
      BY <3>1 DEF CallEffect, Phases
  <2>3. CASE ~(Exists(DefaultId) \/ NameTaken(DefaultName))
    <3>1. PICK p \in Phases : MakesDefault(c, p)
      BY <1>4, <2>1, <2>3, InitialisesStore DEF InsertDefault, MakesDefault
    <3> QED
      BY <3>1 DEF CallEffect
  <2> QED
    BY <2>2, <2>3
<1>5. CASE VerifyDefault(c)
  <2>1. pc[c] = "verify_default" /\ request[c].op \notin RunMoves
    BY <1>5 DEF VerifyDefault, PhaseInv, DefaultPhases
  <2>2. CASE Exists(DefaultId)
    <3>1. PICK p \in Phases : Initialises(c, p)
      BY <1>5, <2>1, <2>2, InitialisesStore DEF VerifyDefault, Initialises
    <3> QED
      BY <3>1 DEF CallEffect
  <2>3. CASE ~Exists(DefaultId)
    <3>1. Fails(c, "init")
      BY <1>5, <2>1, <2>3 DEF VerifyDefault, Fails, Fail, Goto
    <3> QED
      BY <3>1 DEF CallEffect, Errors
  <2> QED
    BY <2>2, <2>3
<1>6. CASE AllocateId(c)
  <2>1. Allocates(c) \/ Exhausts(c)
    BY <1>6 DEF AllocateId, Allocates, Exhausts, Proceed, Fail, Goto
  <2> QED
    BY <2>1 DEF CallEffect
<1>7. CASE InsertExperiment(c)
  <2>1. CASE Exists(number[c])
    <3>1. Fails(c, "id_taken")
      BY <1>7, <2>1 DEF InsertExperiment, Fails, Fail, Goto
    <3> QED
      BY <3>1 DEF CallEffect, Errors
  <2>2. CASE ~Exists(number[c]) /\ NameTaken(request[c].name)
    <3>1. Fails(c, "exists")
      BY <1>7, <2>2 DEF InsertExperiment, Fails, Fail, Goto
    <3> QED
      BY <3>1 DEF CallEffect, Errors
  <2>3. CASE ~Exists(number[c]) /\ ~NameTaken(request[c].name)
    <3>1. Creates(c)
      BY <1>7, <2>3 DEF InsertExperiment, Creates, Proceed, Goto
    <3> QED
      BY <3>1 DEF CallEffect
  <2> QED
    BY <2>1, <2>2, <2>3
<1>8. CASE RenameExperiment(c)
  <2>1. Renames(c) \/ Fails(c, "exists") \/ Continues(c, "diagnose")
    BY <1>8 DEF RenameExperiment, Renames, Fails, Continues, Only, Proceed,
                Fail, Goto
  <2> QED
    BY <2>1 DEF CallEffect, Errors, Phases
<1>9. CASE DiagnoseRename(c)
  <2>1. Fails(c, "not_active") \/ Fails(c, "not_found")
    BY <1>9 DEF DiagnoseRename, Fails, Fail, Goto
  <2> QED
    BY <2>1 DEF CallEffect, Errors
<1>10. CASE FindExperiment(c)
  <2>1. Finds(c) \/ Fails(c, "not_active") \/ Fails(c, "not_found")
    BY <1>10 DEF FindExperiment, Finds, Fails, Only, Active, Proceed, Fail, Goto
  <2> QED
    BY <2>1 DEF CallEffect, Errors
<1>11. CASE InsertRun(c)
  <2>1. InsertsRun(c)
    BY <1>11 DEF InsertRun, InsertsRun, Proceed, Goto
  <2> QED
    BY <2>1 DEF CallEffect
<1>12. CASE MoveRun(c)
  <2>1. CASE request[c].run \in DOMAIN runs
    <3>1. PICK r \in DOMAIN runs : r = request[c].run
      BY <2>1
    <3>2. /\ runs' = [runs EXCEPT ![r].stage = Into(c)]
          /\ Wrote(c, {r})
          /\ crossed' = crossed \ {r}
      BY <1>12, <3>1 DEF MoveRun
    <3>3. MovesRun(c, r)
      BY <1>12, <3>1, <3>2, WroteOne DEF MoveRun, MovesRun, Proceed, Goto
    <3> QED
      BY <3>3 DEF CallEffect
  <2>2. CASE request[c].run \notin DOMAIN runs
    <3>1. Fails(c, "not_found")
      BY <1>12, <2>2 DEF MoveRun, Fails, Fail, Goto
    <3> QED
      BY <3>1 DEF CallEffect, Errors
  <2> QED
    BY <2>1, <2>2
<1>13. CASE StartMovingRuns(c)
  <2>1. StartsMoving(c)
    BY <1>13 DEF StartMovingRuns, StartsMoving, Proceed, Goto
  <2> QED
    BY <2>1 DEF CallEffect
<1>14. CASE RunsMoved(c)
  <2>1. request[c].op \notin RunMoves
    BY <1>14 DEF RunsMoved, PhaseInv, Moves, RunMoves
  <2>2. PICK p \in Phases : Uses(c, p)
    BY <1>14, <2>1, UsesExperiments DEF RunsMoved, Uses, Only
  <2> QED
    BY <2>2 DEF CallEffect
<1>15. CASE MoveExperiment(c)
  <2>1. CASE /\ Exists(request[c].experiment)
             /\ experiments[request[c].experiment].stage = Opposite(Into(c))
    <3>1. PICK e \in DOMAIN experiments : e = request[c].experiment
      BY <2>1 DEF Exists
    <3>2. MovesExperiment(c, e)
      BY <1>15, <2>1, <3>1 DEF MoveExperiment, MovesExperiment, Proceed, Goto
    <3> QED
      BY <3>2 DEF CallEffect
  <2>2. CASE ~(/\ Exists(request[c].experiment)
               /\ experiments[request[c].experiment].stage = Opposite(Into(c)))
    <3>1. Fails(c, "not_found")
      BY <1>15, <2>2 DEF MoveExperiment, Fails, Fail, Goto
    <3> QED
      BY <3>1 DEF CallEffect, Errors
  <2> QED
    BY <2>1, <2>2
<1>16. CASE \E r \in DOMAIN runs : MoveRunOfExperiment(c, r)
  <2>1. PICK r \in DOMAIN runs : MoveRunOfExperiment(c, r)
    BY <1>16
  <2>2. MovesRunOf(c, r)
    BY <2>1, WroteOne DEF MoveRunOfExperiment, MovesRunOf
  <2> QED
    BY <2>2 DEF CallEffect
<1>17. CASE Return(c)
  <2>1. Continues(c, "done")
    BY <1>17 DEF Return, Continues, Only, Proceed, Goto
  <2> QED
    BY <2>1 DEF CallEffect, Phases
<1>18. CASE Fault(c)
  <2>1. Fails(c, "persistence")
    BY <1>18 DEF Fault, Running, Fails, Fail, Goto
  <2> QED
    BY <2>1 DEF CallEffect, Errors
<1> QED
  BY <1>1, <1>2, <1>3, <1>4, <1>5, <1>6, <1>7, <1>8, <1>9, <1>10, <1>11, <1>12,
     <1>13, <1>14, <1>15, <1>16, <1>17, <1>18 DEF CallStep

LEMMA TypeStep ==
    ASSUME IInv,
           NEW c \in Calls, CallEffect(c)
    PROVE  ExperimentsTypeOK'
<1> USE DEF IInv
<1> USE StoresAssumption, BoundsAssumption
    DEF ExperimentsTypeOK, documents, history, Phases, Stages, Exists, NoCounter
<1>1. ASSUME NEW p \in Phases, Uses(c, p)
      PROVE  ExperimentsTypeOK'
  BY <1>1 DEF Uses, Only, ReadyFor
<1>2. ASSUME NEW p \in Phases, Begins(c, p)
      PROVE  ExperimentsTypeOK'
  BY <1>2 DEF Begins, Only
<1>3. CASE MakesCounter(c)
  BY <1>3 DEF MakesCounter
<1>4. ASSUME NEW p \in Phases, Initialises(c, p)
      PROVE  ExperimentsTypeOK'
  BY <1>4 DEF Initialises, ReadyFor, UsePhases
<1>5. ASSUME NEW p \in Phases, SeeksDefault(c, p)
      PROVE  ExperimentsTypeOK'
  BY <1>5 DEF SeeksDefault, Only
<1>6. ASSUME NEW p \in Phases, MakesDefault(c, p)
      PROVE  ExperimentsTypeOK'
  BY <1>6 DEF MakesDefault, ReadyFor, PutExperiment, UsePhases, Experiment,
     DefaultId
<1>7. CASE Allocates(c)
  BY <1>7 DEF Allocates
<1>8. CASE Exhausts(c)
  BY <1>8 DEF Exhausts, Errors
<1>9. CASE Creates(c)
  BY <1>9 DEF Creates, PutExperiment, Experiment, NumberInv, Request
<1>10. CASE Renames(c)
  BY <1>10 DEF Renames, PutExperiment, Experiment, Active, Request
<1>11. CASE Finds(c)
  BY <1>11 DEF Finds, Only
<1>12. CASE InsertsRun(c)
  BY <1>12 DEF InsertsRun, InsertRun, Run, Wrote, RunInv, Request, Proceed
<1>13. ASSUME NEW r \in DOMAIN runs, MovesRun(c, r)
       PROVE  ExperimentsTypeOK'
  BY <1>13 DEF MovesRun, Run, Into
<1>14. CASE StartsMoving(c)
  BY <1>14 DEF StartsMoving, RunsOf
<1>15. ASSUME NEW r \in DOMAIN runs, MovesRunOf(c, r)
       PROVE  ExperimentsTypeOK'
  BY <1>15 DEF MovesRunOf, Run, Into
<1>16. ASSUME NEW e \in DOMAIN experiments, MovesExperiment(c, e)
       PROVE  ExperimentsTypeOK'
  BY <1>16 DEF MovesExperiment, Experiment, Into
<1>17. ASSUME NEW p \in Phases, Continues(c, p)
       PROVE  ExperimentsTypeOK'
  BY <1>17 DEF Continues, Only
<1>18. ASSUME NEW x \in Errors, Fails(c, x)
       PROVE  ExperimentsTypeOK'
  BY <1>18 DEF Fails, Errors
<1> QED
  BY <1>1, <1>2, <1>3, <1>4, <1>5, <1>6, <1>7, <1>8, <1>9, <1>10, <1>11,
     <1>12, <1>13, <1>14, <1>15, <1>16, <1>17, <1>18 DEF CallEffect

LEMMA PhaseStep ==
    ASSUME ExperimentsTypeOK, PhaseInv,
           NEW c \in Calls, CallEffect(c)
    PROVE  PhaseInv'
<1> USE DEF ExperimentsTypeOK, PhaseInv, documents, Phases, DefaultPhases
<1>1. ASSUME NEW p \in Phases, Uses(c, p)
      PROVE  PhaseInv'
  BY <1>1 DEF Uses, Only, ReadyFor, UsePhases, Moves, RunMoves
<1>2. ASSUME NEW p \in Phases, Begins(c, p)
      PROVE  PhaseInv'
  BY <1>2 DEF Begins, Only, Moves, RunMoves
<1>3. CASE MakesCounter(c)
  BY <1>3 DEF MakesCounter
<1>4. ASSUME NEW p \in Phases, Initialises(c, p)
      PROVE  PhaseInv'
  BY <1>4 DEF Initialises, ReadyFor, UsePhases
<1>5. ASSUME NEW p \in Phases, SeeksDefault(c, p)
      PROVE  PhaseInv'
  BY <1>5 DEF SeeksDefault, Only
<1>6. ASSUME NEW p \in Phases, MakesDefault(c, p)
      PROVE  PhaseInv'
  BY <1>6 DEF MakesDefault, ReadyFor, PutExperiment, UsePhases
<1>7. CASE Allocates(c)
  BY <1>7 DEF Allocates
<1>8. CASE Exhausts(c)
  BY <1>8 DEF Exhausts
<1>9. CASE Creates(c)
  BY <1>9 DEF Creates, PutExperiment
<1>10. CASE Renames(c)
  BY <1>10 DEF Renames, PutExperiment
<1>11. CASE Finds(c)
  BY <1>11 DEF Finds, Only
<1>12. CASE InsertsRun(c)
  BY <1>12 DEF InsertsRun, InsertRun, Wrote, Proceed
<1>13. ASSUME NEW r \in DOMAIN runs, MovesRun(c, r)
       PROVE  PhaseInv'
  BY <1>13 DEF MovesRun
<1>14. CASE StartsMoving(c)
  BY <1>14 DEF StartsMoving
<1>15. ASSUME NEW r \in DOMAIN runs, MovesRunOf(c, r)
       PROVE  PhaseInv'
  BY <1>15 DEF MovesRunOf
<1>16. ASSUME NEW e \in DOMAIN experiments, MovesExperiment(c, e)
       PROVE  PhaseInv'
  BY <1>16 DEF MovesExperiment
<1>17. ASSUME NEW p \in Phases, Continues(c, p)
       PROVE  PhaseInv'
  BY <1>17 DEF Continues, Only
<1>18. ASSUME NEW x \in Errors, Fails(c, x)
       PROVE  PhaseInv'
  BY <1>18 DEF Fails
<1> QED
  BY <1>1, <1>2, <1>3, <1>4, <1>5, <1>6, <1>7, <1>8, <1>9, <1>10, <1>11,
     <1>12, <1>13, <1>14, <1>15, <1>16, <1>17, <1>18 DEF CallEffect

LEMMA StoreStep ==
    ASSUME ExperimentsTypeOK, StoreInv, PhaseInv,
           NEW c \in Calls, CallEffect(c)
    PROVE  StoreInv'
<1> USE DEF ExperimentsTypeOK, StoreInv, documents, DefaultPhases, UsePhases, Exists
<1>1. ASSUME NEW p \in Phases, Uses(c, p)
      PROVE  StoreInv'
  BY <1>1 DEF Uses, Only, ReadyFor
<1>2. ASSUME NEW p \in Phases, Begins(c, p)
      PROVE  StoreInv'
  BY <1>2 DEF Begins, Only
<1>3. CASE MakesCounter(c)
  BY <1>3 DEF MakesCounter, NoCounter
<1>4. ASSUME NEW p \in Phases, Initialises(c, p)
      PROVE  StoreInv'
  BY <1>4, StoresAssumption DEF Initialises, ReadyFor, NoCounter
<1>5. ASSUME NEW p \in Phases, SeeksDefault(c, p)
      PROVE  StoreInv'
  BY <1>5 DEF SeeksDefault, Only
<1>6. ASSUME NEW p \in Phases, MakesDefault(c, p)
      PROVE  StoreInv'
  BY <1>6, StoresAssumption DEF MakesDefault, ReadyFor, PutExperiment,
     DefaultId
<1>7. CASE Allocates(c)
  BY <1>7, BoundsAssumption DEF Allocates, NoCounter
<1>8. CASE Exhausts(c)
  BY <1>8, BoundsAssumption DEF Exhausts, NoCounter
<1>9. CASE Creates(c)
  BY <1>9 DEF Creates, PutExperiment, DefaultId
<1>10. CASE Renames(c)
  BY <1>10 DEF Renames, PutExperiment
<1>11. CASE Finds(c)
  BY <1>11 DEF Finds, Only
<1>12. CASE InsertsRun(c)
  BY <1>12 DEF InsertsRun, InsertRun
<1>13. ASSUME NEW r \in DOMAIN runs, MovesRun(c, r)
       PROVE  StoreInv'
  BY <1>13 DEF MovesRun
<1>14. CASE StartsMoving(c)
  BY <1>14 DEF StartsMoving
<1>15. ASSUME NEW r \in DOMAIN runs, MovesRunOf(c, r)
       PROVE  StoreInv'
  BY <1>15 DEF MovesRunOf
<1>16. ASSUME NEW e \in DOMAIN experiments, MovesExperiment(c, e)
       PROVE  StoreInv'
  BY <1>16 DEF MovesExperiment
<1>17. ASSUME NEW p \in Phases, Continues(c, p)
       PROVE  StoreInv'
  BY <1>17 DEF Continues, Only
<1>18. ASSUME NEW x \in Errors, Fails(c, x)
       PROVE  StoreInv'
  BY <1>18 DEF Fails
<1> QED
  BY <1>1, <1>2, <1>3, <1>4, <1>5, <1>6, <1>7, <1>8, <1>9, <1>10, <1>11,
     <1>12, <1>13, <1>14, <1>15, <1>16, <1>17, <1>18 DEF CallEffect

LEMMA NumberStep ==
    ASSUME ExperimentsTypeOK, NumberInv, StoreInv, PhaseInv,
           NEW c \in Calls, CallEffect(c)
    PROVE  NumberInv'
<1> USE DEF ExperimentsTypeOK, NumberInv, documents, Exists
<1>1. ASSUME NEW p \in Phases, Uses(c, p)
      PROVE  NumberInv'
  BY <1>1 DEF Uses, Only, ReadyFor
<1>2. ASSUME NEW p \in Phases, Begins(c, p)
      PROVE  NumberInv'
  BY <1>2 DEF Begins, Only
<1>3. CASE MakesCounter(c)
  BY <1>3 DEF MakesCounter, NoCounter
<1>4. ASSUME NEW p \in Phases, Initialises(c, p)
      PROVE  NumberInv'
  BY <1>4 DEF Initialises, ReadyFor, UsePhases
<1>5. ASSUME NEW p \in Phases, SeeksDefault(c, p)
      PROVE  NumberInv'
  BY <1>5 DEF SeeksDefault, Only
<1>6. ASSUME NEW p \in Phases, MakesDefault(c, p)
      PROVE  NumberInv'
  BY <1>6 DEF MakesDefault, ReadyFor, PutExperiment, UsePhases, DefaultId,
     StoreInv, DefaultPhases, NoCounter
<1>7. CASE Allocates(c)
  BY <1>7, BoundsAssumption DEF Allocates, StoreInv, UsePhases, NoCounter
<1>8. CASE Exhausts(c)
  BY <1>8, BoundsAssumption DEF Exhausts
<1>9. CASE Creates(c)
  BY <1>9 DEF Creates, PutExperiment
<1>10. CASE Renames(c)
  BY <1>10 DEF Renames, PutExperiment, Active
<1>11. CASE Finds(c)
  BY <1>11 DEF Finds, Only
<1>12. CASE InsertsRun(c)
  BY <1>12 DEF InsertsRun, InsertRun
<1>13. ASSUME NEW r \in DOMAIN runs, MovesRun(c, r)
       PROVE  NumberInv'
  BY <1>13 DEF MovesRun
<1>14. CASE StartsMoving(c)
  BY <1>14 DEF StartsMoving
<1>15. ASSUME NEW r \in DOMAIN runs, MovesRunOf(c, r)
       PROVE  NumberInv'
  BY <1>15 DEF MovesRunOf
<1>16. ASSUME NEW e \in DOMAIN experiments, MovesExperiment(c, e)
       PROVE  NumberInv'
  BY <1>16 DEF MovesExperiment
<1>17. ASSUME NEW p \in Phases, Continues(c, p)
       PROVE  NumberInv'
  BY <1>17 DEF Continues, Only
<1>18. ASSUME NEW x \in Errors, Fails(c, x)
       PROVE  NumberInv'
  BY <1>18 DEF Fails
<1> QED
  BY <1>1, <1>2, <1>3, <1>4, <1>5, <1>6, <1>7, <1>8, <1>9, <1>10, <1>11,
     <1>12, <1>13, <1>14, <1>15, <1>16, <1>17, <1>18 DEF CallEffect

LEMMA IdsFreeStep ==
    ASSUME ExperimentsTypeOK, NumberInv, AllocatedIdsAreFree,
           NEW c \in Calls, CallEffect(c)
    PROVE  AllocatedIdsAreFree'
<1> USE DEF ExperimentsTypeOK, AllocatedIdsAreFree, documents
<1>1. ASSUME NEW p \in Phases, Uses(c, p)
      PROVE  AllocatedIdsAreFree'
  BY <1>1 DEF Uses, Only, ReadyFor
<1>2. ASSUME NEW p \in Phases, Begins(c, p)
      PROVE  AllocatedIdsAreFree'
  BY <1>2 DEF Begins, Only
<1>3. CASE MakesCounter(c)
  BY <1>3 DEF MakesCounter
<1>4. ASSUME NEW p \in Phases, Initialises(c, p)
      PROVE  AllocatedIdsAreFree'
  BY <1>4 DEF Initialises, ReadyFor
<1>5. ASSUME NEW p \in Phases, SeeksDefault(c, p)
      PROVE  AllocatedIdsAreFree'
  BY <1>5 DEF SeeksDefault, Only
<1>6. ASSUME NEW p \in Phases, MakesDefault(c, p)
      PROVE  AllocatedIdsAreFree'
  BY <1>6 DEF MakesDefault, ReadyFor, PutExperiment
<1>7. CASE Allocates(c)
  BY <1>7 DEF Allocates
<1>8. CASE Exhausts(c)
  BY <1>8 DEF Exhausts, Errors
<1>9. CASE Creates(c)
  BY <1>9 DEF Creates, PutExperiment
<1>10. CASE Renames(c)
  BY <1>10 DEF Renames, PutExperiment
<1>11. CASE Finds(c)
  BY <1>11 DEF Finds, Only
<1>12. CASE InsertsRun(c)
  BY <1>12 DEF InsertsRun, InsertRun, Proceed
<1>13. ASSUME NEW r \in DOMAIN runs, MovesRun(c, r)
       PROVE  AllocatedIdsAreFree'
  BY <1>13 DEF MovesRun
<1>14. CASE StartsMoving(c)
  BY <1>14 DEF StartsMoving
<1>15. ASSUME NEW r \in DOMAIN runs, MovesRunOf(c, r)
       PROVE  AllocatedIdsAreFree'
  BY <1>15 DEF MovesRunOf
<1>16. ASSUME NEW e \in DOMAIN experiments, MovesExperiment(c, e)
       PROVE  AllocatedIdsAreFree'
  BY <1>16 DEF MovesExperiment
<1>17. ASSUME NEW p \in Phases, Continues(c, p)
       PROVE  AllocatedIdsAreFree'
  BY <1>17 DEF Continues, Only
<1>18. ASSUME NEW x \in Errors, Fails(c, x)
       PROVE  AllocatedIdsAreFree'
  BY <1>18 DEF Fails, NumberInv
<1> QED
  BY <1>1, <1>2, <1>3, <1>4, <1>5, <1>6, <1>7, <1>8, <1>9, <1>10, <1>11,
     <1>12, <1>13, <1>14, <1>15, <1>16, <1>17, <1>18 DEF CallEffect

LEMMA OneDefaultStep ==
    ASSUME ExperimentsTypeOK, StoreInv, StoresShareOneDefault,
           NEW c \in Calls, CallEffect(c)
    PROVE  StoresShareOneDefault'
<1> USE DEF ExperimentsTypeOK, StoresShareOneDefault, documents, Exists
<1>1. ASSUME NEW p \in Phases, Uses(c, p)
      PROVE  StoresShareOneDefault'
  BY <1>1 DEF Uses, Only, ReadyFor
<1>2. ASSUME NEW p \in Phases, Begins(c, p)
      PROVE  StoresShareOneDefault'
  BY <1>2 DEF Begins, Only
<1>3. CASE MakesCounter(c)
  BY <1>3 DEF MakesCounter
<1>4. ASSUME NEW p \in Phases, Initialises(c, p)
      PROVE  StoresShareOneDefault'
  BY <1>4 DEF Initialises, ReadyFor, StoreInv
<1>5. ASSUME NEW p \in Phases, SeeksDefault(c, p)
      PROVE  StoresShareOneDefault'
  BY <1>5 DEF SeeksDefault, Only
<1>6. ASSUME NEW p \in Phases, MakesDefault(c, p)
      PROVE  StoresShareOneDefault'
  BY <1>6 DEF MakesDefault, ReadyFor, PutExperiment
<1>7. CASE Allocates(c)
  BY <1>7 DEF Allocates
<1>8. CASE Exhausts(c)
  BY <1>8 DEF Exhausts
<1>9. CASE Creates(c)
  BY <1>9 DEF Creates, PutExperiment
<1>10. CASE Renames(c)
  BY <1>10 DEF Renames, PutExperiment
<1>11. CASE Finds(c)
  BY <1>11 DEF Finds, Only
<1>12. CASE InsertsRun(c)
  BY <1>12 DEF InsertsRun, InsertRun, Proceed
<1>13. ASSUME NEW r \in DOMAIN runs, MovesRun(c, r)
       PROVE  StoresShareOneDefault'
  BY <1>13 DEF MovesRun
<1>14. CASE StartsMoving(c)
  BY <1>14 DEF StartsMoving
<1>15. ASSUME NEW r \in DOMAIN runs, MovesRunOf(c, r)
       PROVE  StoresShareOneDefault'
  BY <1>15 DEF MovesRunOf
<1>16. ASSUME NEW e \in DOMAIN experiments, MovesExperiment(c, e)
       PROVE  StoresShareOneDefault'
  BY <1>16 DEF MovesExperiment
<1>17. ASSUME NEW p \in Phases, Continues(c, p)
       PROVE  StoresShareOneDefault'
  BY <1>17 DEF Continues, Only
<1>18. ASSUME NEW x \in Errors, Fails(c, x)
       PROVE  StoresShareOneDefault'
  BY <1>18 DEF Fails, StoreInv
<1> QED
  BY <1>1, <1>2, <1>3, <1>4, <1>5, <1>6, <1>7, <1>8, <1>9, <1>10, <1>11,
     <1>12, <1>13, <1>14, <1>15, <1>16, <1>17, <1>18 DEF CallEffect

LEMMA RunStep ==
    ASSUME ExperimentsTypeOK, RunInv, PhaseInv, NumberInv,
           NEW c \in Calls, CallEffect(c)
    PROVE  RunInv'
<1> USE DEF ExperimentsTypeOK, RunInv, documents, history, Exists, DefaultPhases
<1>1. ASSUME NEW p \in Phases, Uses(c, p)
      PROVE  RunInv'
  BY <1>1 DEF Uses, Only, ReadyFor, UsePhases
<1>2. ASSUME NEW p \in Phases, Begins(c, p)
      PROVE  RunInv'
  BY <1>2 DEF Begins, Only, Moves, RunMoves
<1>3. CASE MakesCounter(c)
  BY <1>3 DEF MakesCounter
<1>4. ASSUME NEW p \in Phases, Initialises(c, p)
      PROVE  RunInv'
  BY <1>4 DEF Initialises, ReadyFor, UsePhases, PhaseInv
<1>5. ASSUME NEW p \in Phases, SeeksDefault(c, p)
      PROVE  RunInv'
  BY <1>5 DEF SeeksDefault, Only
<1>6. ASSUME NEW p \in Phases, MakesDefault(c, p)
      PROVE  RunInv'
  BY <1>6 DEF MakesDefault, ReadyFor, PutExperiment, UsePhases, PhaseInv
<1>7. CASE Allocates(c)
  BY <1>7 DEF Allocates, PhaseInv
<1>8. CASE Exhausts(c)
  BY <1>8 DEF Exhausts
<1>9. CASE Creates(c)
  BY <1>9 DEF Creates, PutExperiment, PhaseInv,Moves
<1>10. CASE Renames(c)
  BY <1>10 DEF Renames, PutExperiment
<1>11. CASE Finds(c)
  BY <1>11 DEF Finds, Only
<1>12. CASE InsertsRun(c)
  BY <1>12 DEF InsertsRun, InsertRun, Wrote, PhaseInv, Moves, Proceed
<1>13. ASSUME NEW r \in DOMAIN runs, MovesRun(c, r)
       PROVE  RunInv'
  BY <1>13 DEF MovesRun, PhaseInv, Moves, RunMoves
<1>14. CASE StartsMoving(c)
  BY <1>14 DEF StartsMoving, RunsOf, PhaseInv, Moves
<1>15. ASSUME NEW r \in DOMAIN runs, MovesRunOf(c, r)
       PROVE  RunInv'
  BY <1>15 DEF MovesRunOf, PhaseInv, Moves
<1>16. ASSUME NEW e \in DOMAIN experiments, MovesExperiment(c, e)
       PROVE  RunInv'
  BY <1>16 DEF MovesExperiment
<1>17. ASSUME NEW p \in Phases, Continues(c, p)
       PROVE  RunInv'
  BY <1>17 DEF Continues, Only
<1>18. ASSUME NEW x \in Errors, Fails(c, x)
       PROVE  RunInv'
  BY <1>18 DEF Fails
<1> QED
  BY <1>1, <1>2, <1>3, <1>4, <1>5, <1>6, <1>7, <1>8, <1>9, <1>10, <1>11,
     <1>12, <1>13, <1>14, <1>15, <1>16, <1>17, <1>18 DEF CallEffect

LEMMA MarkedStep ==
    ASSUME ExperimentsTypeOK, RunsMarked, RunInv, PhaseInv,
           NEW c \in Calls, CallEffect(c)
    PROVE  RunsMarked'
<1> USE DEF ExperimentsTypeOK, RunsMarked, Marking, Into, documents, history
<1>1. ASSUME NEW p \in Phases, Uses(c, p)
      PROVE  RunsMarked'
  BY <1>1 DEF Uses, Only, ReadyFor, UsePhases
<1>2. ASSUME NEW p \in Phases, Begins(c, p)
      PROVE  RunsMarked'
  BY <1>2 DEF Begins, Only
<1>3. CASE MakesCounter(c)
  BY <1>3 DEF MakesCounter
<1>4. ASSUME NEW p \in Phases, Initialises(c, p)
      PROVE  RunsMarked'
  BY <1>4 DEF Initialises, ReadyFor, UsePhases
<1>5. ASSUME NEW p \in Phases, SeeksDefault(c, p)
      PROVE  RunsMarked'
  BY <1>5 DEF SeeksDefault, Only
<1>6. ASSUME NEW p \in Phases, MakesDefault(c, p)
      PROVE  RunsMarked'
  BY <1>6 DEF MakesDefault, ReadyFor, PutExperiment, UsePhases
<1>7. CASE Allocates(c)
  BY <1>7 DEF Allocates
<1>8. CASE Exhausts(c)
  BY <1>8 DEF Exhausts
<1>9. CASE Creates(c)
  BY <1>9 DEF Creates, PutExperiment
<1>10. CASE Renames(c)
  BY <1>10 DEF Renames, PutExperiment
<1>11. CASE Finds(c)
  BY <1>11 DEF Finds, Only
<1>12. CASE InsertsRun(c)
  BY <1>12 DEF InsertsRun, InsertRun, Wrote, Proceed, Opposite, Stages,
     Moves
<1>13. ASSUME NEW r \in DOMAIN runs, MovesRun(c, r)
       PROVE  RunsMarked'
  BY <1>13 DEF MovesRun, PhaseInv, Moves, RunMoves
<1>14. CASE StartsMoving(c)
  BY <1>14 DEF StartsMoving, RunsOf
<1>15. ASSUME NEW r \in DOMAIN runs, MovesRunOf(c, r)
       PROVE  RunsMarked'
  BY <1>15 DEF MovesRunOf, PhaseInv, RunInv, Opposite, Stages
<1>16. ASSUME NEW e \in DOMAIN experiments, MovesExperiment(c, e)
       PROVE  RunsMarked'
  BY <1>16 DEF MovesExperiment
<1>17. ASSUME NEW p \in Phases, Continues(c, p)
       PROVE  RunsMarked'
  BY <1>17 DEF Continues, Only
<1>18. ASSUME NEW x \in Errors, Fails(c, x)
       PROVE  RunsMarked'
  BY <1>18 DEF Fails
<1> QED
  BY <1>1, <1>2, <1>3, <1>4, <1>5, <1>6, <1>7, <1>8, <1>9, <1>10, <1>11,
     <1>12, <1>13, <1>14, <1>15, <1>16, <1>17, <1>18 DEF CallEffect

LEMMA FollowStep ==
    ASSUME ExperimentsTypeOK, RunsFollowTheirExperiment, RunsMarked, RunInv, PhaseInv, NumberInv,
           NEW c \in Calls, CallEffect(c)
    PROVE  RunsFollowTheirExperiment'
<1> USE DEF ExperimentsTypeOK, RunsFollowTheirExperiment, documents, history, Exists
<1>1. ASSUME NEW p \in Phases, Uses(c, p)
      PROVE  RunsFollowTheirExperiment'
  BY <1>1 DEF Uses, Only, ReadyFor, UsePhases
<1>2. ASSUME NEW p \in Phases, Begins(c, p)
      PROVE  RunsFollowTheirExperiment'
  BY <1>2 DEF Begins, Only
<1>3. CASE MakesCounter(c)
  BY <1>3 DEF MakesCounter
<1>4. ASSUME NEW p \in Phases, Initialises(c, p)
      PROVE  RunsFollowTheirExperiment'
  BY <1>4 DEF Initialises, ReadyFor, UsePhases
<1>5. ASSUME NEW p \in Phases, SeeksDefault(c, p)
      PROVE  RunsFollowTheirExperiment'
  BY <1>5 DEF SeeksDefault, Only
<1>6. ASSUME NEW p \in Phases, MakesDefault(c, p)
      PROVE  RunsFollowTheirExperiment'
  BY <1>6 DEF MakesDefault, ReadyFor, PutExperiment, UsePhases
<1>7. CASE Allocates(c)
  BY <1>7 DEF Allocates
<1>8. CASE Exhausts(c)
  BY <1>8 DEF Exhausts
<1>9. CASE Creates(c)
  <2>1. \A x \in DOMAIN experiments : experiments'[x] = experiments[x]
    BY <1>9 DEF Creates, PutExperiment
  <2>2. \A d \in Calls : request[d].op \in Moves => pc'[d] = pc[d]
    BY <1>9 DEF Creates, PhaseInv, Moves
  <2> QED
    BY <1>9, <2>1, <2>2 DEF Creates
<1>10. CASE Renames(c)
  <2>1. \A x \in DOMAIN experiments : experiments'[x].stage = experiments[x].stage
    BY <1>10 DEF Renames, PutExperiment, Active
  <2>2. \A d \in Calls : request[d].op \in Moves => pc'[d] = pc[d]
    BY <1>10 DEF Renames, PhaseInv, Moves
  <2> QED
    BY <1>10, <2>1, <2>2 DEF Renames
<1>11. CASE Finds(c)
  BY <1>11 DEF Finds, Only
<1>12. CASE InsertsRun(c)
  <2>1. \A d \in Calls : request[d].op \in Moves => pc'[d] = pc[d]
    BY <1>12 DEF InsertsRun, InsertRun, PhaseInv, Moves
  <2>2. \A r \in DOMAIN runs : r # c /\ runs'[r] = runs[r] /\ writer'[r] = writer[r]
    BY <1>12 DEF InsertsRun, InsertRun, Wrote, RunInv
  <2>3. \A r \in DOMAIN runs : r \in crossed => r \in crossed'
    BY <1>12 DEF InsertsRun, InsertRun
  <2>4. /\ runs'[c].stage = "active"
        /\ runs'[c].experiment = request[c].experiment
        /\ DOMAIN runs' = DOMAIN runs \union {c}
        /\ ~Active(request[c].experiment) => c \in crossed'
    BY <1>12 DEF InsertsRun, InsertRun
  <2>5. Exists(request[c].experiment)
    BY <1>12 DEF InsertsRun, InsertRun, RunInv
  <2>6. UNCHANGED <<experiments, request>>
    BY <1>12 DEF InsertsRun, InsertRun
  <2>7. ASSUME NEW r \in DOMAIN runs
        PROVE  LET w == writer'[r] IN
               \/ runs'[r].stage = experiments'[runs'[r].experiment].stage
               \/ request'[w].op \in RunMoves
               \/ r \in crossed'
               \/ request'[w].op \in Moves /\ pc'[w] \notin {"reply", "done"}
    BY <2>1, <2>2, <2>3, <2>6
  <2>8. \/ runs'[c].stage = experiments'[runs'[c].experiment].stage
        \/ c \in crossed'
    BY <2>4, <2>5, <2>6 DEF Active
  <2> QED
    BY <2>4, <2>7, <2>8
<1>13. ASSUME NEW r \in DOMAIN runs, MovesRun(c, r)
       PROVE  RunsFollowTheirExperiment'
  BY <1>13 DEF MovesRun, PhaseInv
<1>14. CASE StartsMoving(c)
  BY <1>14 DEF StartsMoving
<1>15. ASSUME NEW r \in DOMAIN runs, MovesRunOf(c, r)
       PROVE  RunsFollowTheirExperiment'
  BY <1>15 DEF MovesRunOf, PhaseInv
<1>16. ASSUME NEW e \in DOMAIN experiments, MovesExperiment(c, e)
       PROVE  RunsFollowTheirExperiment'
  BY <1>16 DEF MovesExperiment, RunsMarked, Marking, RunInv, PhaseInv, Into,
     Stages
<1>17. ASSUME NEW p \in Phases, Continues(c, p)
       PROVE  RunsFollowTheirExperiment'
  BY <1>17 DEF Continues, Only
<1>18. ASSUME NEW x \in Errors, Fails(c, x)
       PROVE  RunsFollowTheirExperiment'
  BY <1>18 DEF Fails
<1> QED
  BY <1>1, <1>2, <1>3, <1>4, <1>5, <1>6, <1>7, <1>8, <1>9, <1>10, <1>11,
     <1>12, <1>13, <1>14, <1>15, <1>16, <1>17, <1>18 DEF CallEffect

-----------------------------------------------------------------------------
(* The property, for one experiment.                                      *)
Deleted(e) == IF experiments[e].stage = "deleted" THEN 1 ELSE 0

Alternates(e) ==
    Cardinality(Succeeded(e, "deleted")) - Cardinality(Succeeded(e, "active"))
       \in (Deleted(e) - Cardinality(Unanswered(e, "deleted")))
              ..(Deleted(e) + Cardinality(Unanswered(e, "active")))

LEMMA AlternateCounts ==
    /\ AcknowledgedMovesAlternate <=> \A e \in DOMAIN experiments : Alternates(e)
    /\ AcknowledgedMovesAlternate'
          <=> \A e \in DOMAIN experiments' : Alternates(e)'
BY DEF AcknowledgedMovesAlternate, Alternates, Deleted

LEMMA Counted ==
    ASSUME SuccessInv, NEW e, NEW s
    PROVE  /\ IsFiniteSet(Unanswered(e, s))
           /\ Cardinality(Unanswered(e, s)) \in Nat
           /\ e \in DOMAIN experiments /\ s \in Stages =>
                 Cardinality(Succeeded(e, s)) \in Nat
<1>1. Unanswered(e, s) \subseteq Interrupted
  BY DEF MovesTo, Unanswered, Interrupted
<1>2. IsFiniteSet(Unanswered(e, s))
  BY <1>1, FS_Subset DEF SuccessInv
<1> QED
  BY <1>2, FS_CardinalityType DEF SuccessInv

(* A step that completes no move and changes the stage of no experiment.   *)
LEMMA SuccessKept ==
    ASSUME ExperimentsTypeOK, SuccessInv, AcknowledgedMovesAlternate,
           request' = request,
           \A d \in Calls : error'[d] = "persistence" <=> error[d] = "persistence",
           \A d \in Calls : request[d].op \in Moves =>
              (pc'[d] \in {"reply", "done"} <=> pc[d] \in {"reply", "done"}),
           \A e \in DOMAIN experiments :
              /\ e \in DOMAIN experiments'
              /\ experiments'[e].stage = experiments[e].stage,
           \A e \in DOMAIN experiments' \ DOMAIN experiments :
              experiments'[e].stage = "active"
    PROVE  SuccessInv' /\ AcknowledgedMovesAlternate'
<1>1. ASSUME NEW e, NEW s
      PROVE  /\ Succeeded(e, s)' = Succeeded(e, s)
             /\ Unanswered(e, s)' = Unanswered(e, s)
  BY DEF MovesTo, Succeeded, Unanswered, Into
<1>2. ASSUME NEW e, NEW s, e \notin DOMAIN experiments
      PROVE  Succeeded(e, s) = {}
  BY <1>2 DEF MovesTo, Succeeded, SuccessInv, Exists
<1>3. SuccessInv'
  <2>1. \A d \in Calls :
           request'[d].op \in Moves /\ pc'[d] \in {"reply", "done"}
             => Exists(request[d].experiment)'
    BY DEF SuccessInv, Exists
  <2>2. ASSUME NEW e \in DOMAIN experiments', NEW s \in Stages
        PROVE  IsFiniteSet(Succeeded(e, s)')
    BY <1>1, <1>2, FS_EmptySet DEF SuccessInv
  <2>3. Interrupted' = Interrupted
    BY DEF Interrupted
  <2> QED
    BY <2>1, <2>2, <2>3 DEF SuccessInv
<1>4. AcknowledgedMovesAlternate'
  <2>1. SUFFICES ASSUME NEW e \in DOMAIN experiments'
                 PROVE  Alternates(e)'
    BY AlternateCounts
  <2>2. CASE e \in DOMAIN experiments
    BY <2>2, <1>1, AlternateCounts DEF Alternates, Deleted
  <2>3. CASE e \notin DOMAIN experiments
    <3>1. Succeeded(e, "deleted")' = {} /\ Succeeded(e, "active")' = {}
      BY <2>3, <1>1, <1>2
    <3>2. Deleted(e)' = 0
      BY <2>1, <2>3 DEF Deleted
    <3>3. Cardinality({}) = 0
      BY FS_EmptySet
    <3>4. \A s : Cardinality(Unanswered(e, s)') \in Nat
      BY <1>1, Counted
    <3> DEFINE u(s) == Cardinality(Unanswered(e, s)')
    <3>5. Alternates(e)' <=> 0 - 0 \in (0 - u("deleted"))..(0 + u("active"))
      BY <3>1, <3>2, <3>3 DEF Alternates
    <3> QED
      BY <3>4, <3>5
  <2> QED
    BY <2>2, <2>3
<1> QED
  BY <1>3, <1>4

(* A call that a database error ends may have succeeded before, and from   *)
(* now on counts as one whose client is not told.                          *)
LEMMA FailureCounts ==
    ASSUME ExperimentsTypeOK, PhaseInv, SuccessInv, AcknowledgedMovesAlternate,
           NEW c \in Calls, Fails(c, "persistence")
    PROVE  SuccessInv' /\ AcknowledgedMovesAlternate'
<1> DEFINE e0 == request[c].experiment
           S(e, s) == Succeeded(e, s)
           U(e, s) == Unanswered(e, s)
<1>1. /\ request' = request /\ experiments' = experiments
      /\ pc'[c] = "failed" /\ error'[c] = "persistence" /\ error[c] = "none"
      /\ \A d \in Calls \ {c} : pc'[d] = pc[d] /\ error'[d] = error[d]
  BY DEF Fails, ExperimentsTypeOK, PhaseInv, documents
<1>2. ASSUME NEW e, NEW s
      PROVE  /\ S(e, s)' = S(e, s) \ {c}
             /\ U(e, s)' = U(e, s) \/ U(e, s)' = U(e, s) \union {c}
             /\ c \notin U(e, s)
             /\ c \in S(e, s) => U(e, s)' = U(e, s) \union {c}
  BY <1>1 DEF MovesTo, Succeeded, Unanswered, Into
<1>3. Interrupted' = Interrupted \union {c}
  BY <1>1 DEF Interrupted
<1>4. SuccessInv'
  <2>1. IsFiniteSet(Interrupted')
    BY <1>3, FS_AddElement DEF SuccessInv
  <2>2. ASSUME NEW e \in DOMAIN experiments, NEW s \in Stages
        PROVE  IsFiniteSet(S(e, s)')
    BY <1>2, FS_RemoveElement DEF SuccessInv
  <2>3. \A d \in Calls :
           request[d].op \in Moves /\ pc'[d] \in {"reply", "done"}
             => request[d].experiment \in DOMAIN experiments
    BY <1>1 DEF SuccessInv, Exists
  <2> QED
    BY <1>1, <2>1, <2>2, <2>3 DEF SuccessInv, Exists
<1>5. ASSUME NEW e \in DOMAIN experiments
      PROVE  Alternates(e)'
  <2>1. ASSUME NEW s \in Stages
        PROVE  /\ Cardinality(S(e, s)) \in Nat /\ Cardinality(U(e, s)) \in Nat
               /\ \/ /\ Cardinality(S(e, s)') = Cardinality(S(e, s))
                     /\ \/ Cardinality(U(e, s)') = Cardinality(U(e, s))
                        \/ Cardinality(U(e, s)') = Cardinality(U(e, s)) + 1
                  \/ /\ Cardinality(S(e, s)') = Cardinality(S(e, s)) - 1
                     /\ Cardinality(U(e, s)') = Cardinality(U(e, s)) + 1
    <3>1. IsFiniteSet(S(e, s)) /\ IsFiniteSet(U(e, s))
      BY Counted DEF SuccessInv
    <3>2. /\ Cardinality(U(e, s) \union {c}) = Cardinality(U(e, s)) + 1
          /\ Cardinality(S(e, s)) \in Nat /\ Cardinality(U(e, s)) \in Nat
      BY <1>2, <3>1, FS_AddElement, FS_CardinalityType
    <3>3. CASE c \in S(e, s)
      <4>1. Cardinality(S(e, s) \ {c}) = Cardinality(S(e, s)) - 1
        BY <3>1, <3>3, FS_RemoveElement
      <4> QED
        BY <1>2, <3>2, <3>3, <4>1
    <3>4. CASE c \notin S(e, s)
      <4>1. S(e, s)' = S(e, s)
        BY <1>2, <3>4
      <4> QED
        BY <1>2, <3>2, <4>1
    <3> QED
      BY <3>3, <3>4
  <2>2. /\ Alternates(e)
        /\ Deleted(e)' = Deleted(e) /\ Deleted(e) \in Int
    BY <1>1, AlternateCounts DEF Deleted
  <2>3. {"active", "deleted"} \subseteq Stages
    BY DEF Stages
  <2> QED
    BY <2>1, <2>2, <2>3 DEF Alternates
<1> QED
  BY <1>1, <1>4, <1>5, AlternateCounts

LEMMA AlternateStep ==
    ASSUME ExperimentsTypeOK, PhaseInv, SuccessInv, AcknowledgedMovesAlternate,
           NEW c \in Calls, CallEffect(c)
    PROVE  SuccessInv' /\ AcknowledgedMovesAlternate'
<1>1. ASSUME NEW p \in Phases, Uses(c, p)
      PROVE  SuccessInv' /\ AcknowledgedMovesAlternate'
  <2>1. \A d \in Calls : request[d].op \in Moves =>
           (pc'[d] \in {"reply", "done"} <=> pc[d] \in {"reply", "done"})
    BY <1>1 DEF Uses, Only, ReadyFor, PhaseInv, ExperimentsTypeOK, UsePhases, DefaultPhases
  <2>2. /\ UNCHANGED <<request, error>>
        /\ \A x \in DOMAIN experiments :
              /\ x \in DOMAIN experiments'
              /\ experiments'[x].stage = experiments[x].stage
        /\ \A x \in DOMAIN experiments' \ DOMAIN experiments :
              experiments'[x].stage = "active"
    BY <1>1 DEF Uses, Only, ReadyFor, ExperimentsTypeOK, documents, Exists
  <2> QED
    BY <2>1, <2>2, SuccessKept
<1>2. ASSUME NEW p \in Phases, Begins(c, p)
      PROVE  SuccessInv' /\ AcknowledgedMovesAlternate'
  <2>1. \A d \in Calls : request[d].op \in Moves =>
           (pc'[d] \in {"reply", "done"} <=> pc[d] \in {"reply", "done"})
    BY <1>2 DEF Begins, Only, PhaseInv, ExperimentsTypeOK
  <2>2. /\ UNCHANGED <<request, error>>
        /\ \A x \in DOMAIN experiments :
              /\ x \in DOMAIN experiments'
              /\ experiments'[x].stage = experiments[x].stage
        /\ \A x \in DOMAIN experiments' \ DOMAIN experiments :
              experiments'[x].stage = "active"
    BY <1>2 DEF Begins, Only, ExperimentsTypeOK, documents, Exists
  <2> QED
    BY <2>1, <2>2, SuccessKept
<1>3. CASE MakesCounter(c)
  <2>1. \A d \in Calls : request[d].op \in Moves =>
           (pc'[d] \in {"reply", "done"} <=> pc[d] \in {"reply", "done"})
    BY <1>3 DEF MakesCounter, PhaseInv, ExperimentsTypeOK
  <2>2. /\ UNCHANGED <<request, error>>
        /\ \A x \in DOMAIN experiments :
              /\ x \in DOMAIN experiments'
              /\ experiments'[x].stage = experiments[x].stage
        /\ \A x \in DOMAIN experiments' \ DOMAIN experiments :
              experiments'[x].stage = "active"
    BY <1>3 DEF MakesCounter, ExperimentsTypeOK, documents, Exists
  <2> QED
    BY <2>1, <2>2, SuccessKept
<1>4. ASSUME NEW p \in Phases, Initialises(c, p)
      PROVE  SuccessInv' /\ AcknowledgedMovesAlternate'
  <2>1. \A d \in Calls : request[d].op \in Moves =>
           (pc'[d] \in {"reply", "done"} <=> pc[d] \in {"reply", "done"})
    BY <1>4 DEF Initialises, ReadyFor, PhaseInv, ExperimentsTypeOK, UsePhases, DefaultPhases
  <2>2. /\ UNCHANGED <<request, error>>
        /\ \A x \in DOMAIN experiments :
              /\ x \in DOMAIN experiments'
              /\ experiments'[x].stage = experiments[x].stage
        /\ \A x \in DOMAIN experiments' \ DOMAIN experiments :
              experiments'[x].stage = "active"
    BY <1>4 DEF Initialises, ReadyFor, ExperimentsTypeOK, documents, Exists
  <2> QED
    BY <2>1, <2>2, SuccessKept
<1>5. ASSUME NEW p \in Phases, SeeksDefault(c, p)
      PROVE  SuccessInv' /\ AcknowledgedMovesAlternate'
  <2>1. \A d \in Calls : request[d].op \in Moves =>
           (pc'[d] \in {"reply", "done"} <=> pc[d] \in {"reply", "done"})
    BY <1>5 DEF SeeksDefault, Only, PhaseInv, ExperimentsTypeOK
  <2>2. /\ UNCHANGED <<request, error>>
        /\ \A x \in DOMAIN experiments :
              /\ x \in DOMAIN experiments'
              /\ experiments'[x].stage = experiments[x].stage
        /\ \A x \in DOMAIN experiments' \ DOMAIN experiments :
              experiments'[x].stage = "active"
    BY <1>5 DEF SeeksDefault, Only, ExperimentsTypeOK, documents, Exists
  <2> QED
    BY <2>1, <2>2, SuccessKept
<1>6. ASSUME NEW p \in Phases, MakesDefault(c, p)
      PROVE  SuccessInv' /\ AcknowledgedMovesAlternate'
  <2>1. \A d \in Calls : request[d].op \in Moves =>
           (pc'[d] \in {"reply", "done"} <=> pc[d] \in {"reply", "done"})
    BY <1>6 DEF MakesDefault, ReadyFor, PutExperiment, PhaseInv, ExperimentsTypeOK, UsePhases, DefaultPhases
  <2>2. /\ UNCHANGED <<request, error>>
        /\ \A x \in DOMAIN experiments :
              /\ x \in DOMAIN experiments'
              /\ experiments'[x].stage = experiments[x].stage
        /\ \A x \in DOMAIN experiments' \ DOMAIN experiments :
              experiments'[x].stage = "active"
    BY <1>6 DEF MakesDefault, ReadyFor, PutExperiment, ExperimentsTypeOK, documents, Exists
  <2> QED
    BY <2>1, <2>2, SuccessKept
<1>7. CASE Allocates(c)
  <2>1. \A d \in Calls : request[d].op \in Moves =>
           (pc'[d] \in {"reply", "done"} <=> pc[d] \in {"reply", "done"})
    BY <1>7 DEF Allocates, PhaseInv, ExperimentsTypeOK
  <2>2. /\ UNCHANGED <<request, error>>
        /\ \A x \in DOMAIN experiments :
              /\ x \in DOMAIN experiments'
              /\ experiments'[x].stage = experiments[x].stage
        /\ \A x \in DOMAIN experiments' \ DOMAIN experiments :
              experiments'[x].stage = "active"
    BY <1>7 DEF Allocates, ExperimentsTypeOK, documents, Exists
  <2> QED
    BY <2>1, <2>2, SuccessKept
<1>8. CASE Exhausts(c)
  <2>1. \A d \in Calls : request[d].op \in Moves =>
           (pc'[d] \in {"reply", "done"} <=> pc[d] \in {"reply", "done"})
    BY <1>8 DEF Exhausts, PhaseInv, ExperimentsTypeOK
  <2>2. /\ request' = request
        /\ \A d \in Calls : error'[d] = "persistence" <=> error[d] = "persistence"
        /\ \A x \in DOMAIN experiments :
              /\ x \in DOMAIN experiments'
              /\ experiments'[x].stage = experiments[x].stage
        /\ \A x \in DOMAIN experiments' \ DOMAIN experiments :
              experiments'[x].stage = "active"
    BY <1>8 DEF Exhausts, ExperimentsTypeOK, PhaseInv, documents, Exists
  <2> QED
    BY <2>1, <2>2, SuccessKept
<1>9. CASE Creates(c)
  <2>1. \A d \in Calls : request[d].op \in Moves =>
           (pc'[d] \in {"reply", "done"} <=> pc[d] \in {"reply", "done"})
    BY <1>9 DEF Creates, PutExperiment, PhaseInv, ExperimentsTypeOK, Moves
  <2>2. /\ UNCHANGED <<request, error>>
        /\ \A x \in DOMAIN experiments :
              /\ x \in DOMAIN experiments'
              /\ experiments'[x].stage = experiments[x].stage
        /\ \A x \in DOMAIN experiments' \ DOMAIN experiments :
              experiments'[x].stage = "active"
    BY <1>9 DEF Creates, PutExperiment, ExperimentsTypeOK, documents, Exists
  <2> QED
    BY <2>1, <2>2, SuccessKept
<1>10. CASE Renames(c)
  <2>1. \A d \in Calls : request[d].op \in Moves =>
           (pc'[d] \in {"reply", "done"} <=> pc[d] \in {"reply", "done"})
    BY <1>10 DEF Renames, PutExperiment, PhaseInv, ExperimentsTypeOK, Moves
  <2>2. /\ UNCHANGED <<request, error>>
        /\ \A x \in DOMAIN experiments :
              /\ x \in DOMAIN experiments'
              /\ experiments'[x].stage = experiments[x].stage
        /\ \A x \in DOMAIN experiments' \ DOMAIN experiments :
              experiments'[x].stage = "active"
    BY <1>10 DEF Renames, PutExperiment, ExperimentsTypeOK, documents, Exists, Active
  <2> QED
    BY <2>1, <2>2, SuccessKept
<1>11. CASE Finds(c)
  <2>1. \A d \in Calls : request[d].op \in Moves =>
           (pc'[d] \in {"reply", "done"} <=> pc[d] \in {"reply", "done"})
    BY <1>11 DEF Finds, Only, PhaseInv, ExperimentsTypeOK
  <2>2. /\ UNCHANGED <<request, error>>
        /\ \A x \in DOMAIN experiments :
              /\ x \in DOMAIN experiments'
              /\ experiments'[x].stage = experiments[x].stage
        /\ \A x \in DOMAIN experiments' \ DOMAIN experiments :
              experiments'[x].stage = "active"
    BY <1>11 DEF Finds, Only, ExperimentsTypeOK, documents, Exists
  <2> QED
    BY <2>1, <2>2, SuccessKept
<1>12. CASE InsertsRun(c)
  <2>1. \A d \in Calls : request[d].op \in Moves =>
           (pc'[d] \in {"reply", "done"} <=> pc[d] \in {"reply", "done"})
    BY <1>12 DEF InsertsRun, InsertRun, PhaseInv, ExperimentsTypeOK, Moves
  <2>2. /\ UNCHANGED <<request, error>>
        /\ \A x \in DOMAIN experiments :
              /\ x \in DOMAIN experiments'
              /\ experiments'[x].stage = experiments[x].stage
        /\ \A x \in DOMAIN experiments' \ DOMAIN experiments :
              experiments'[x].stage = "active"
    BY <1>12 DEF InsertsRun, InsertRun, ExperimentsTypeOK, documents, Exists
  <2> QED
    BY <2>1, <2>2, SuccessKept
<1>13. ASSUME NEW r \in DOMAIN runs, MovesRun(c, r)
       PROVE  SuccessInv' /\ AcknowledgedMovesAlternate'
  <2>1. \A d \in Calls : request[d].op \in Moves =>
           (pc'[d] \in {"reply", "done"} <=> pc[d] \in {"reply", "done"})
    BY <1>13 DEF MovesRun, PhaseInv, ExperimentsTypeOK, Moves, RunMoves
  <2>2. /\ UNCHANGED <<request, error>>
        /\ \A x \in DOMAIN experiments :
              /\ x \in DOMAIN experiments'
              /\ experiments'[x].stage = experiments[x].stage
        /\ \A x \in DOMAIN experiments' \ DOMAIN experiments :
              experiments'[x].stage = "active"
    BY <1>13 DEF MovesRun, ExperimentsTypeOK, documents, Exists
  <2> QED
    BY <2>1, <2>2, SuccessKept
<1>14. CASE StartsMoving(c)
  <2>1. \A d \in Calls : request[d].op \in Moves =>
           (pc'[d] \in {"reply", "done"} <=> pc[d] \in {"reply", "done"})
    BY <1>14 DEF StartsMoving, PhaseInv, ExperimentsTypeOK
  <2>2. /\ UNCHANGED <<request, error>>
        /\ \A x \in DOMAIN experiments :
              /\ x \in DOMAIN experiments'
              /\ experiments'[x].stage = experiments[x].stage
        /\ \A x \in DOMAIN experiments' \ DOMAIN experiments :
              experiments'[x].stage = "active"
    BY <1>14 DEF StartsMoving, ExperimentsTypeOK, documents, Exists
  <2> QED
    BY <2>1, <2>2, SuccessKept
<1>15. ASSUME NEW r \in DOMAIN runs, MovesRunOf(c, r)
       PROVE  SuccessInv' /\ AcknowledgedMovesAlternate'
  <2>1. \A d \in Calls : request[d].op \in Moves =>
           (pc'[d] \in {"reply", "done"} <=> pc[d] \in {"reply", "done"})
    BY <1>15 DEF MovesRunOf, PhaseInv, ExperimentsTypeOK
  <2>2. /\ UNCHANGED <<request, error>>
        /\ \A x \in DOMAIN experiments :
              /\ x \in DOMAIN experiments'
              /\ experiments'[x].stage = experiments[x].stage
        /\ \A x \in DOMAIN experiments' \ DOMAIN experiments :
              experiments'[x].stage = "active"
    BY <1>15 DEF MovesRunOf, ExperimentsTypeOK, documents, Exists
  <2> QED
    BY <2>1, <2>2, SuccessKept
<1>16. ASSUME NEW e \in DOMAIN experiments, MovesExperiment(c, e)
       PROVE  SuccessInv' /\ AcknowledgedMovesAlternate'
  <2> DEFINE S(x, s) == Succeeded(x, s)
  <2>1. /\ request[c].op \in Moves
        /\ request[c].experiment = e
        /\ pc[c] = "transition" /\ pc'[c] = "reply"
        /\ \A d \in Calls \ {c} : pc'[d] = pc[d]
        /\ UNCHANGED <<request, error>>
    BY <1>16 DEF MovesExperiment, PhaseInv, ExperimentsTypeOK
  <2>2. /\ DOMAIN experiments' = DOMAIN experiments
        /\ experiments[e].stage = Opposite(Into(c))
        /\ experiments'[e].stage = Into(c)
        /\ \A x \in DOMAIN experiments \ {e} : experiments'[x] = experiments[x]
    BY <1>16 DEF MovesExperiment, ExperimentsTypeOK, Experiment
  <2>3. PICK t \in Stages : t = Into(c)
    BY DEF Into, Stages
  <2>4. ASSUME NEW x, NEW s, x # e \/ s # t
        PROVE  S(x, s)' = S(x, s)
    BY <2>1, <2>3, <2>4 DEF MovesTo, Succeeded, Into
  <2>10. /\ \A x, s : Unanswered(x, s)' = Unanswered(x, s)
         /\ Interrupted' = Interrupted
    BY <2>1 DEF MovesTo, Unanswered, Interrupted, Into
  <2>5. S(e, t)' = S(e, t) \union {c} /\ c \notin S(e, t)
    BY <2>1, <2>3 DEF MovesTo, Succeeded, Into
  <2>6. \A s \in Stages : /\ IsFiniteSet(S(e, s))
                          /\ Cardinality(S(e, s)) \in Nat
    BY FS_CardinalityType DEF SuccessInv
  <2>7. /\ IsFiniteSet(S(e, t) \union {c})
        /\ Cardinality(S(e, t) \union {c}) = Cardinality(S(e, t)) + 1
    BY <2>3, <2>5, <2>6, FS_AddElement
  <2>8. SuccessInv'
    <3>1. ASSUME NEW x \in DOMAIN experiments, NEW s \in Stages
          PROVE  IsFiniteSet(S(x, s)')
      <4>1. CASE x = e /\ s = t
        BY <4>1, <2>5, <2>7
      <4>2. CASE x # e \/ s # t
        BY <4>2, <2>4 DEF SuccessInv
      <4> QED
        BY <4>1, <4>2
    <3>2. \A d \in Calls :
             request[d].op \in Moves /\ pc'[d] \in {"reply", "done"}
               => request[d].experiment \in DOMAIN experiments
      BY <2>1 DEF SuccessInv, Exists
    <3> QED
      BY <3>1, <3>2, <2>1, <2>2, <2>10 DEF SuccessInv, Exists
  <2>9. AcknowledgedMovesAlternate'
    <3>1. SUFFICES ASSUME NEW x \in DOMAIN experiments
                   PROVE  Alternates(x)'
      BY <2>2, AlternateCounts
    <3>2. Alternates(x)
      BY AlternateCounts
    <3>6. \A s : Cardinality(Unanswered(x, s)) \in Nat
      BY Counted
    <3>3. CASE x # e
      BY <3>2, <3>3, <2>2, <2>4, <2>10 DEF Alternates, Deleted
    <3>4. CASE x = e /\ t = "deleted"
      <4>1. S(e, "active")' = S(e, "active")
        BY <3>4, <2>4
      <4>2. Cardinality(S(e, "deleted")') = Cardinality(S(e, "deleted")) + 1
        BY <3>4, <2>5, <2>7
      <4>3. Deleted(e) = 0 /\ Deleted(e)' = 1
        BY <3>4, <2>2, <2>3 DEF Opposite, Deleted
      <4> QED
        BY <3>2, <3>4, <3>6, <4>1, <4>2, <4>3, <2>6, <2>10 DEF Stages, Alternates
    <3>5. CASE x = e /\ t = "active"
      <4>1. S(e, "deleted")' = S(e, "deleted")
        BY <3>5, <2>4
      <4>2. Cardinality(S(e, "active")') = Cardinality(S(e, "active")) + 1
        BY <3>5, <2>5, <2>7
      <4>3. Deleted(e) = 1 /\ Deleted(e)' = 0
        BY <3>5, <2>2, <2>3 DEF Opposite, Deleted
      <4> QED
        BY <3>2, <3>5, <3>6, <4>1, <4>2, <4>3, <2>6, <2>10 DEF Stages, Alternates
    <3> QED
      BY <3>3, <3>4, <3>5, <2>3 DEF Stages
  <2> QED
    BY <2>8, <2>9
<1>17. ASSUME NEW p \in Phases, Continues(c, p)
       PROVE  SuccessInv' /\ AcknowledgedMovesAlternate'
  <2>1. \A d \in Calls : request[d].op \in Moves =>
           (pc'[d] \in {"reply", "done"} <=> pc[d] \in {"reply", "done"})
    BY <1>17 DEF Continues, Only, PhaseInv, ExperimentsTypeOK
  <2>2. /\ UNCHANGED <<request, error>>
        /\ \A x \in DOMAIN experiments :
              /\ x \in DOMAIN experiments'
              /\ experiments'[x].stage = experiments[x].stage
        /\ \A x \in DOMAIN experiments' \ DOMAIN experiments :
              experiments'[x].stage = "active"
    BY <1>17 DEF Continues, Only, ExperimentsTypeOK, documents, Exists
  <2> QED
    BY <2>1, <2>2, SuccessKept
<1>18. ASSUME NEW x \in Errors, Fails(c, x)
       PROVE  SuccessInv' /\ AcknowledgedMovesAlternate'
  <2>1. CASE x # "persistence"
    <3>1. \A d \in Calls :
             pc'[d] \in {"reply", "done"} <=> pc[d] \in {"reply", "done"}
      BY <1>18, <2>1 DEF Fails, ExperimentsTypeOK
    <3>2. \A d \in Calls : error'[d] = "persistence" <=> error[d] = "persistence"
      BY <1>18, <2>1 DEF Fails, ExperimentsTypeOK, PhaseInv
    <3> QED
      BY <1>18, <3>1, <3>2, SuccessKept DEF Fails, documents
  <2>2. CASE x = "persistence"
    BY <1>18, <2>2, FailureCounts
  <2> QED
    BY <2>1, <2>2
<1> QED
  BY <1>1, <1>2, <1>3, <1>4, <1>5, <1>6, <1>7, <1>8, <1>9, <1>10, <1>11,
     <1>12, <1>13, <1>14, <1>15, <1>16, <1>17, <1>18 DEF CallEffect

-----------------------------------------------------------------------------
LEMMA IInit == Init => IInv
<1> SUFFICES ASSUME Init PROVE IInv
  OBVIOUS
<1>1. /\ DOMAIN experiments = {} /\ DOMAIN runs = {}
      /\ ready = {} /\ counter = NoCounter /\ faults = 0
      /\ \A c \in Calls : /\ pc[c] = "idle" /\ error[c] = "none"
                          /\ visiting[c] = {}
  BY DEF Init
<1>2. ExperimentsTypeOK
  BY <1>1, WorkloadsAssumption, BoundsAssumption
  DEF Init, ExperimentsTypeOK, Phases, Errors, NoCounter
<1>3. PhaseInv /\ StoreInv
  BY <1>1 DEF PhaseInv, StoreInv, DefaultPhases, UsePhases
<1>4. NumberInv /\ RunInv /\ RunsMarked
  BY <1>1 DEF NumberInv, RunInv, RunsMarked, DefaultPhases
<1>5. SuccessInv /\ AcknowledgedMovesAlternate
  <2>1. Interrupted = {}
    BY <1>1 DEF Interrupted
  <2> QED
    BY <1>1, <2>1, FS_EmptySet DEF SuccessInv, AcknowledgedMovesAlternate
<1>6. AllocatedIdsAreFree /\ StoresShareOneDefault /\ RunsFollowTheirExperiment
  BY <1>1 DEF AllocatedIdsAreFree, StoresShareOneDefault,
              RunsFollowTheirExperiment
<1> QED
  BY <1>2, <1>3, <1>4, <1>5, <1>6 DEF IInv

LEMMA IStep == IInv /\ [Next]_vars => IInv'
<1> SUFFICES ASSUME IInv, [Next]_vars PROVE IInv'
  OBVIOUS
<1> USE DEF IInv
<1>1. CASE UNCHANGED vars
  <2>1. ExperimentsTypeOK' /\ PhaseInv' /\ StoreInv'
    BY <1>1 DEF vars, ExperimentsTypeOK, PhaseInv, StoreInv, Exists
  <2>2. NumberInv' /\ RunInv'
    BY <1>1 DEF vars, NumberInv, RunInv, Exists
  <2>3. RunsMarked' /\ SuccessInv'
    BY <1>1 DEF vars, RunsMarked, SuccessInv, Interrupted, Marking, MovesTo, Succeeded, Into,
                Exists
  <2>4. AllocatedIdsAreFree' /\ StoresShareOneDefault'
    BY <1>1 DEF vars, AllocatedIdsAreFree, StoresShareOneDefault, Exists
  <2>5. RunsFollowTheirExperiment' /\ AcknowledgedMovesAlternate'
    BY <1>1
    DEF vars, RunsFollowTheirExperiment, AcknowledgedMovesAlternate, MovesTo,
        Succeeded, Unanswered, Into
  <2> QED
    BY <2>1, <2>2, <2>3, <2>4, <2>5
<1>2. ASSUME NEW c \in Calls, Arrive(c) \/ CallStep(c) \/ Fault(c)
      PROVE  IInv'
  <2>1. CallEffect(c)
    BY <1>2, CallEffects
  <2>2. ExperimentsTypeOK' /\ PhaseInv' /\ StoreInv' /\ NumberInv' /\ RunInv'
    BY <2>1, TypeStep, PhaseStep, StoreStep, NumberStep, RunStep
  <2>3. RunsMarked' /\ RunsFollowTheirExperiment'
    BY <2>1, MarkedStep, FollowStep
  <2>4. AllocatedIdsAreFree' /\ StoresShareOneDefault'
    BY <2>1, IdsFreeStep, OneDefaultStep
  <2>5. SuccessInv' /\ AcknowledgedMovesAlternate'
    BY <2>1, AlternateStep
  <2> QED
    BY <2>2, <2>3, <2>4, <2>5
<1> QED
  BY <1>1, <1>2 DEF Next, AllReturned

(* The conjunction above holds in every reachable state.                   *)
THEOREM Invariance == Spec => []IInv
BY IInit, IStep, PTL DEF Spec

(* Documents, phases and results keep their types; in particular the runs  *)
(* of an experiment are never left without it, and no id leaves the 64-bit *)
(* range.                                                                  *)
THEOREM TypeCorrect == Spec => []ExperimentsTypeOK
<1>1. IInv => ExperimentsTypeOK
  BY DEF IInv
<1> QED
  BY <1>1, Invariance, PTL

(* create_experiment never meets an experiment with the id it allocated.   *)
THEOREM IdsAreFree == Spec => []AllocatedIdsAreFree
<1>1. IInv => AllocatedIdsAreFree
  BY DEF IInv
<1> QED
  BY <1>1, Invariance, PTL

(* Every store that initialised finds experiment 0, and none is refused,   *)
(* however many stores initialise at once.                                 *)
THEOREM DefaultIsShared == Spec => []StoresShareOneDefault
<1>1. IInv => StoresShareOneDefault
  BY DEF IInv
<1> QED
  BY <1>1, Invariance, PTL

(* A run whose stage is not its experiment's was moved by itself or written *)
(* across an opposite move, or the move that wrote it is not over.         *)
THEOREM RunsFollow == Spec => []RunsFollowTheirExperiment
<1>1. IInv => RunsFollowTheirExperiment
  BY DEF IInv
<1> QED
  BY <1>1, Invariance, PTL

(* The successful deletions and restorations of an experiment alternate,   *)
(* but for what moves that ended in a database error may have done, for    *)
(* any number of concurrent calls.                                         *)
THEOREM MovesAlternate == Spec => []AcknowledgedMovesAlternate
<1>1. IInv => AcknowledgedMovesAlternate
  BY DEF IInv
<1> QED
  BY <1>1, Invariance, PTL
=============================================================================
