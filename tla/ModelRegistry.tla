--------------------------- MODULE ModelRegistry ---------------------------
(***************************************************************************)
(* Concurrent calls of the model registry (model_registry/store.py and the *)
(* two repositories under model_registry/repositories).                    *)
(*                                                                         *)
(* A registered model and each of its versions are documents of their own; *)
(* there is no transaction.  A call resolves a name to the model's _id     *)
(* once and then works on that _id, while other calls rename, delete or    *)
(* replace the model.  Every action is one operation on one document,      *)
(* except update_many and delete_many, which visit one document at a time: *)
(* what matches when they start is visited, what begins to match while     *)
(* they run may or may not be.                                             *)
(*                                                                         *)
(* A call is executed at most once.  The _id of a model is the call that   *)
(* creates it: the driver generates a new one for every insert_one.        *)
(* Descriptions, tags, sources, timestamps and prompts are left out.       *)
(***************************************************************************)
EXTENDS Naturals, FiniteSets

CONSTANTS Calls,
          Names,      \* registered-model names
          Aliases,    \* alias names
          Workloads,  \* what the calls may be asked to do, for all of them
          NoModel,    \* target[c] before c resolved its name
          MaxFaults   \* bound on the failing database operations

ActiveStages == {"Staging", "Production"}
Stages == ActiveStages \union {"None", "Archived"}
Deleted == "Deleted_Internal"

Ops == {"create_model", "rename", "delete_model", "create_version",
        "transition", "delete_version", "set_alias", "delete_alias",
        "get_by_alias"}

Request == [op       : Ops,
            name     : Names,
            new_name : Names,        \* rename
            version  : Nat \ {0},    \* transition, delete_version, set_alias
            stage    : Stages,       \* transition
            archive  : BOOLEAN,      \* archive_existing_versions
            alias    : Aliases]      \* set_alias, delete_alias, get_by_alias

(* Requests that pass the argument checks every operation starts with.     *)
ASSUME WorkloadsAssumption ==
    \A w \in Workloads :
       /\ w \in [Calls -> Request]
       /\ \A c \in Calls : w[c].op = "transition" /\ w[c].archive
                             => w[c].stage \in ActiveStages

ASSUME NoModelAssumption == NoModel \notin Calls

ASSUME FaultsAssumption == MaxFaults \in Nat

VARIABLES
    registered,  \* the registered models, by _id
    versions,    \* the stage of each model version, by <<_id, number>>
    pc,          \* pc[c]: the next operation of call c
    request,     \* request[c]: what c was asked to do
    target,      \* target[c]: the _id c resolved its name to
    number,      \* number[c]: the version number c was given
    visiting,    \* visiting[c]: versions the xxx_many of c has yet to visit
    error,       \* error[c]: what c raises to its client
    faults,      \* number of database operations that have failed
    issued,      \* history: issued[i]: the last number a call got for model i
    created,     \* history: the versions that have ever been inserted
    raced        \* history: calls whose model or version changed under them

documents == <<registered, versions>>
locals == <<pc, request, target, number, visiting, error>>
history == <<issued, created, raced>>
vars == <<registered, versions, pc, request, target, number, visiting, error,
          faults, issued, created, raced>>

-----------------------------------------------------------------------------

Model == [name            : Names,
          version_counter : Nat,
          aliases         : [Aliases -> Nat]]   \* 0: the alias is not set

Errors == {"none", "not_found", "exists", "version_exists", "persistence",
           "alias_not_found", "version_not_found"}

FirstPhase(op) ==
    CASE op = "create_model" -> "register"
      [] op = "rename"       -> "rename"
      [] op = "delete_model" -> "remove"
      [] op = "delete_alias" -> "unset"
      [] op = "get_by_alias" -> "resolve"
      [] OTHER               -> "lookup"

PhaseAfterLookup(op) ==
    CASE op = "create_version" -> "allocate"
      [] op = "transition"     -> "transition"
      [] op = "delete_version" -> "redact"
      [] op = "set_alias"      -> "check"

Phases == {"idle", "register", "diagnose", "rename", "touch_all", "remove",
           "purge", "purging", "unset", "lookup", "allocate", "insert",
           "transition", "archive", "archiving", "touch", "redact", "unalias",
           "check", "alias", "resolve", "read", "reply", "done", "failed"}

Running(c) == pc[c] \notin {"idle", "done", "failed"}

IsRegistered(i) == i \in DOMAIN registered
Named(i, n) == IsRegistered(i) /\ registered[i].name = n
NameTaken(n) == \E i \in DOMAIN registered : registered[i].name = n

(* The version named by the call's target and request. *)
VersionOf(c) == <<target[c], request[c].version>>
Live(k) == k \in DOMAIN versions /\ versions[k] # Deleted
VersionsOf(i) == {k \in DOMAIN versions : k[1] = i}

(* Other versions of c's model in the stage c archives. *)
Peers(c) == {k \in VersionsOf(target[c]) :
                k # VersionOf(c) /\ versions[k] = request[c].stage}

TypeOK ==
    /\ DOMAIN registered \subseteq Calls
    /\ \A i \in DOMAIN registered : registered[i] \in Model
    /\ DOMAIN versions \subseteq Calls \X (Nat \ {0})
    /\ \A k \in DOMAIN versions : versions[k] \in Stages \union {Deleted}
    /\ pc \in [Calls -> Phases]
    /\ request \in [Calls -> Request]
    /\ target \in [Calls -> Calls \union {NoModel}]
    /\ number \in [Calls -> Nat]
    /\ visiting \in [Calls -> SUBSET (DOMAIN versions)]
    /\ error \in [Calls -> Errors]
    /\ faults \in 0..MaxFaults
    /\ issued \in [Calls -> Nat]
    /\ created \subseteq Calls \X (Nat \ {0})
    /\ raced \subseteq Calls

Init ==
    /\ registered = <<>>
    /\ versions = <<>>
    /\ pc = [c \in Calls |-> "idle"]
    /\ request \in Workloads
    /\ target = [c \in Calls |-> NoModel]
    /\ number = [c \in Calls |-> 0]
    /\ visiting = [c \in Calls |-> {}]
    /\ error = [c \in Calls |-> "none"]
    /\ faults = 0
    /\ issued = [i \in Calls |-> 0]
    /\ created = {}
    /\ raced = {}

-----------------------------------------------------------------------------
(* Steps of a call that its actions share.  An action whose name has a      *)
(* suffix is a mistake the action could contain, not part of the model.    *)

Goto(c, phase) == pc' = [pc EXCEPT ![c] = phase]

Fail(c, e) ==
    /\ Goto(c, "failed")
    /\ error' = [error EXCEPT ![c] = e]

(* After its last write the call waits for the reply. *)
Proceed(c, phase) == Goto(c, phase) /\ UNCHANGED error

(* The operation on the document with _id target[c] matches nothing. *)
TargetGone(c) ==
    /\ ~IsRegistered(target[c])
    /\ Fail(c, "not_found")
    /\ UNCHANGED documents

(* Version k moves to stage s: whoever archives another stage can skip k. *)
SetStage(k, s) ==
    /\ versions' = [versions EXCEPT ![k] = s]
    /\ visiting' = [c \in Calls |->
                       IF request[c].op = "transition" /\ request[c].stage # s
                       THEN visiting[c] \ {k} ELSE visiting[c]]

SetAlias(i, a, n) ==
    registered' = [registered EXCEPT ![i].aliases = [@ EXCEPT ![a] = n]]

(* Calls that resolved model i and still have to write. *)
UsersOf(i) == {c \in Calls : /\ target[c] = i /\ Running(c) /\ pc[c] # "reply"
                              /\ request[c].op # "get_by_alias"}
AliasersOf(i) == {c \in UsersOf(i) : request[c].op = "set_alias"}

Arrive(c) ==
    /\ pc[c] = "idle"
    /\ Proceed(c, FirstPhase(request[c].op))
    /\ UNCHANGED <<documents, request, target, number, visiting, faults,
                   history>>

(* find_by_name; for set_alias the first stage of the existence check. *)
Lookup(c) ==
    /\ pc[c] = "lookup"
    /\ \/ \E i \in DOMAIN registered :
             /\ Named(i, request[c].name)
             /\ target' = [target EXCEPT ![c] = i]
             /\ Proceed(c, PhaseAfterLookup(request[c].op))
       \/ /\ ~NameTaken(request[c].name)
          /\ Fail(c, "not_found")
          /\ UNCHANGED target
    /\ UNCHANGED <<documents, request, number, visiting, faults, history>>

-----------------------------------------------------------------------------
(* create_registered_model, rename_registered_model, delete_registered_model *)

(* insert_one; the unique index on name rejects a second model. *)
RegisterModel(c) ==
    /\ pc[c] = "register"
    /\ IF NameTaken(request[c].name)
       THEN Goto(c, "diagnose") /\ UNCHANGED registered
       ELSE /\ registered' =
                  [i \in DOMAIN registered \union {c} |->
                      IF i = c THEN [name            |-> request[c].name,
                                     version_counter |-> 0,
                                     aliases         |-> [a \in Aliases |-> 0]]
                      ELSE registered[i]]
            /\ Goto(c, "reply")
    /\ UNCHANGED <<versions, request, target, number, visiting, error, faults,
                   history>>

(* The existing model is read for its tags; it may be gone by now. *)
DiagnoseDuplicate(c) ==
    /\ pc[c] = "diagnose"
    /\ Fail(c, "exists")
    /\ UNCHANGED <<documents, request, target, number, visiting, faults,
                   history>>

RenameModel(c) ==
    LET old == request[c].name
        new == request[c].new_name IN
    /\ pc[c] = "rename"
    /\ \/ \E i \in DOMAIN registered :
             /\ Named(i, old)
             /\ \A j \in DOMAIN registered : Named(j, new) => j = i
             /\ registered' = [registered EXCEPT ![i].name = new]
             /\ target' = [target EXCEPT ![c] = i]
             /\ raced' = raced \union AliasersOf(i)
             /\ Proceed(c, "touch_all")
       \/ /\ \E i, j \in DOMAIN registered :
                Named(i, old) /\ Named(j, new) /\ i # j
          /\ Fail(c, "exists")
          /\ UNCHANGED <<registered, target, raced>>
       \/ /\ ~NameTaken(old)
          /\ Fail(c, "not_found")
          /\ UNCHANGED <<registered, target, raced>>
    /\ UNCHANGED <<versions, request, number, visiting, faults, issued,
                   created>>

(* Versions refer to the model by _id: only their timestamps change. *)
TouchVersions(c) ==
    /\ pc[c] = "touch_all"
    /\ Proceed(c, "reply")
    /\ UNCHANGED <<documents, request, target, number, visiting, faults,
                   history>>

RemoveModel(c) ==
    /\ pc[c] = "remove"
    /\ \/ \E i \in DOMAIN registered :
             /\ Named(i, request[c].name)
             /\ registered' = [j \in DOMAIN registered \ {i} |-> registered[j]]
             /\ target' = [target EXCEPT ![c] = i]
             /\ raced' = raced \union UsersOf(i)
             /\ Proceed(c, "purge")
       \/ /\ ~NameTaken(request[c].name)
          /\ Fail(c, "not_found")
          /\ UNCHANGED <<registered, target, raced>>
    /\ UNCHANGED <<versions, request, number, visiting, faults, issued,
                   created>>

PurgeStarts(c) ==
    /\ pc[c] = "purge"
    /\ Proceed(c, "purging")
    /\ visiting' = [visiting EXCEPT ![c] = VersionsOf(target[c])]
    /\ UNCHANGED <<documents, request, target, number, faults, history>>

PurgeVersion(c, k) ==
    /\ pc[c] = "purging"
    /\ k \in VersionsOf(target[c])
    /\ versions' = [x \in DOMAIN versions \ {k} |-> versions[x]]
    /\ visiting' = [d \in Calls |-> visiting[d] \ {k}]
    /\ UNCHANGED <<registered, pc, request, target, number, error, faults,
                   history>>

PurgeEnds_TooEarly(c) ==
    /\ pc[c] = "purging"
    /\ Proceed(c, "reply")
    /\ UNCHANGED <<documents, request, target, number, visiting, faults,
                   history>>

PurgeEnds(c) ==
    /\ pc[c] = "purging"
    /\ visiting[c] = {}
    /\ Proceed(c, "reply")
    /\ UNCHANGED <<documents, request, target, number, visiting, faults,
                   history>>

-----------------------------------------------------------------------------
(* create_model_version *)

AllocateVersion_ReturnsOldNumber(c) ==
    LET i == target[c] IN
    /\ pc[c] = "allocate"
    /\ IsRegistered(i)
    /\ registered' = [registered EXCEPT ![i].version_counter = @ + 1]
    /\ number' = [number EXCEPT ![c] = registered[i].version_counter]
    /\ issued' = [issued EXCEPT ![i] = registered[i].version_counter]
    /\ Proceed(c, "insert")
    /\ UNCHANGED <<versions, request, target, visiting, faults, created, raced>>

AllocateVersion_CountsVersions(c) ==
    LET i == target[c]
        n == Cardinality(VersionsOf(i)) + 1 IN
    /\ pc[c] = "allocate"
    /\ number' = [number EXCEPT ![c] = n]
    /\ issued' = [issued EXCEPT ![i] = n]
    /\ Proceed(c, "insert")
    /\ UNCHANGED <<documents, request, target, visiting, faults, created, raced>>

(* $inc returns the new value of version_counter. *)
AllocateVersion(c) ==
    LET i == target[c] IN
    /\ pc[c] = "allocate"
    /\ \/ /\ IsRegistered(i)
          /\ registered' = [registered EXCEPT ![i].version_counter = @ + 1]
          /\ number' = [number EXCEPT ![c] = registered[i].version_counter + 1]
          /\ issued' = [issued EXCEPT ![i] = registered[i].version_counter + 1]
          /\ Proceed(c, "insert")
          /\ UNCHANGED versions
       \/ TargetGone(c) /\ UNCHANGED <<number, issued>>
    /\ UNCHANGED <<request, target, visiting, faults, created, raced>>

(* insert_one under the unique index; nothing requires the model to exist. *)
InsertVersion(c) ==
    LET k == <<target[c], number[c]>> IN
    /\ pc[c] = "insert"
    /\ IF k \in DOMAIN versions
       THEN Fail(c, "version_exists") /\ UNCHANGED <<versions, created>>
       ELSE /\ versions' = [x \in DOMAIN versions \union {k} |->
                               IF x = k THEN "None" ELSE versions[x]]
            /\ created' = created \union {k}
            /\ Proceed(c, "reply")
    /\ UNCHANGED <<registered, request, target, number, visiting, faults,
                   issued, raced>>

-----------------------------------------------------------------------------
(* transition_model_version_stage *)

TransitionStage_IgnoresDeletion(c) ==
    LET k == VersionOf(c) IN
    /\ pc[c] = "transition"
    /\ k \in DOMAIN versions
    /\ SetStage(k, request[c].stage)
    /\ Proceed(c, IF request[c].archive THEN "archive" ELSE "touch")
    /\ UNCHANGED <<registered, request, target, number, faults, history>>

TransitionStage(c) ==
    LET k == VersionOf(c) IN
    /\ pc[c] = "transition"
    /\ IF Live(k)
       THEN /\ SetStage(k, request[c].stage)
            /\ Proceed(c, IF request[c].archive THEN "archive" ELSE "touch")
       ELSE Fail(c, "not_found") /\ UNCHANGED <<versions, visiting>>
    /\ UNCHANGED <<registered, request, target, number, faults, history>>

ArchiveStarts(c) ==
    /\ pc[c] = "archive"
    /\ Proceed(c, "archiving")
    /\ visiting' = [visiting EXCEPT ![c] = Peers(c)]
    /\ UNCHANGED <<documents, request, target, number, faults, history>>

ArchiveVersion_KeptOneToo(c, k) ==
    /\ pc[c] = "archiving"
    /\ k \in VersionsOf(target[c]) /\ versions[k] = request[c].stage
    /\ SetStage(k, "Archived")
    /\ UNCHANGED <<registered, pc, request, target, number, error, faults,
                   history>>

ArchiveVersion(c, k) ==
    /\ pc[c] = "archiving"
    /\ k \in Peers(c)
    /\ SetStage(k, "Archived")
    /\ UNCHANGED <<registered, pc, request, target, number, error, faults,
                   history>>

ArchiveEnds(c) ==
    /\ pc[c] = "archiving"
    /\ visiting[c] = {}
    /\ Proceed(c, "touch")
    /\ UNCHANGED <<documents, request, target, number, visiting, faults,
                   history>>

(* The version has moved by now, also when its model is found to be gone. *)
TouchModel(c) ==
    /\ pc[c] = "touch"
    /\ \/ /\ IsRegistered(target[c])
          /\ Proceed(c, "reply")
          /\ UNCHANGED documents
       \/ TargetGone(c)
    /\ UNCHANGED <<request, target, number, visiting, faults, history>>

-----------------------------------------------------------------------------
(* delete_model_version *)

SoftDelete(c) ==
    LET k == VersionOf(c) IN
    /\ pc[c] = "redact"
    /\ IF Live(k)
       THEN /\ SetStage(k, Deleted)
            /\ raced' = raced \union {d \in AliasersOf(target[c]) :
                                         request[d].version = request[c].version}
            /\ Proceed(c, "unalias")
       ELSE Fail(c, "not_found") /\ UNCHANGED <<versions, visiting, raced>>
    /\ UNCHANGED <<registered, request, target, number, faults, issued,
                   created>>

DeleteAliasesForVersion_OnlyTouches(c) ==
    /\ pc[c] = "unalias"
    /\ Proceed(c, "reply")
    /\ UNCHANGED <<documents, request, target, number, visiting, faults, history>>

DeleteAliasesForVersion(c) ==
    LET i == target[c] IN
    /\ pc[c] = "unalias"
    /\ \/ /\ IsRegistered(i)
          /\ registered' = [registered EXCEPT ![i].aliases =
                               [a \in Aliases |->
                                   IF @[a] = request[c].version THEN 0
                                   ELSE @[a]]]
          /\ Proceed(c, "reply")
          /\ UNCHANGED versions
       \/ TargetGone(c)
    /\ UNCHANGED <<request, target, number, visiting, faults, history>>

-----------------------------------------------------------------------------
(* set_registered_model_alias, delete_registered_model_alias *)

(* The $lookup of the existence check, after the match on the name. *)
CheckVersion(c) ==
    /\ pc[c] = "check"
    /\ IF Live(VersionOf(c)) THEN Proceed(c, "alias") ELSE Fail(c, "not_found")
    /\ UNCHANGED <<documents, request, target, number, visiting, faults,
                   history>>

(* The write finds the model by its name again. *)
WriteAlias(c) ==
    /\ \/ /\ pc[c] = "alias"
          /\ \E i \in DOMAIN registered :
                /\ Named(i, request[c].name)
                /\ SetAlias(i, request[c].alias, request[c].version)
          /\ Proceed(c, "reply")
       \/ /\ pc[c] = "unset"
          /\ \E i \in DOMAIN registered :
                /\ Named(i, request[c].name)
                /\ SetAlias(i, request[c].alias, 0)
          /\ Proceed(c, "reply")
       \/ /\ pc[c] \in {"alias", "unset"}
          /\ ~NameTaken(request[c].name)
          /\ Fail(c, "not_found")
          /\ UNCHANGED registered
    /\ UNCHANGED <<versions, request, target, number, visiting, faults,
                   history>>

-----------------------------------------------------------------------------
(* get_model_version_by_alias *)

(* One read has the model and its aliases ...                              *)
ResolveAlias(c) ==
    /\ pc[c] = "resolve"
    /\ \/ \E i \in DOMAIN registered :
             LET n == registered[i].aliases[request[c].alias] IN
             /\ Named(i, request[c].name)
             /\ target' = [target EXCEPT ![c] = i]
             /\ number' = [number EXCEPT ![c] = n]
             /\ IF n = 0 THEN Fail(c, "alias_not_found") ELSE Proceed(c, "read")
       \/ /\ ~NameTaken(request[c].name)
          /\ Fail(c, "not_found")
          /\ UNCHANGED <<target, number>>
    /\ UNCHANGED <<documents, request, visiting, faults, history>>

(* ... and another one the version.                                        *)
ReadVersion(c) ==
    /\ pc[c] = "read"
    /\ IF Live(<<target[c], number[c]>>) THEN Proceed(c, "reply")
       ELSE Fail(c, "version_not_found")
    /\ UNCHANGED <<documents, request, target, number, visiting, faults,
                   history>>

-----------------------------------------------------------------------------

(* The reply of the last operation arrives and the call returns. *)
Return(c) ==
    /\ pc[c] = "reply"
    /\ Proceed(c, "done")
    /\ UNCHANGED <<documents, request, target, number, visiting, faults,
                   history>>

(* An operation fails, or it is applied and its reply is lost (the call is *)
(* one phase further then).  Nothing is undone.                            *)
Fault(c) ==
    /\ Running(c)
    /\ faults < MaxFaults
    /\ faults' = faults + 1
    /\ Fail(c, "persistence")
    /\ UNCHANGED <<documents, request, target, number, visiting, history>>

AllReturned ==
    /\ \A c \in Calls : pc[c] \in {"done", "failed"}
    /\ UNCHANGED vars

CallStep(c) ==
    \/ Lookup(c)
    \/ RegisterModel(c) \/ DiagnoseDuplicate(c)
    \/ RenameModel(c) \/ TouchVersions(c)
    \/ RemoveModel(c) \/ PurgeStarts(c) \/ PurgeEnds(c)
    \/ \E k \in DOMAIN versions : PurgeVersion(c, k) \/ ArchiveVersion(c, k)
    \/ AllocateVersion(c) \/ InsertVersion(c)
    \/ TransitionStage(c) \/ ArchiveStarts(c) \/ ArchiveEnds(c) \/ TouchModel(c)
    \/ SoftDelete(c) \/ DeleteAliasesForVersion(c)
    \/ CheckVersion(c) \/ WriteAlias(c)
    \/ ResolveAlias(c) \/ ReadVersion(c)
    \/ Return(c)

Next ==
    \/ \E c \in Calls : Arrive(c) \/ CallStep(c) \/ Fault(c)
    \/ AllReturned

Spec == Init /\ [][Next]_vars

-----------------------------------------------------------------------------
(***************************************************************************)
(* Properties.                                                             *)
(***************************************************************************)

(* create_model_version never meets the version it was allocated: numbers  *)
(* are unique however the calls interleave, fail half-way or overlap the   *)
(* deletion of the model (registered_models.py:123, the error at           *)
(* store.py:944).                                                          *)
AllocatedVersionsAreFree == \A c \in Calls : error[c] # "version_exists"

(* The deletion of version k has not reached its second write, or failed   *)
(* there.                                                                  *)
HalfDeleted(k) ==
    \E c \in Calls : /\ request[c].op = "delete_version" /\ VersionOf(c) = k
                     /\ pc[c] = "unalias" \/ error[c] = "persistence"

(* Alias a was set to number n by a call whose version or name changed     *)
(* between its check and its write, the race the comment at store.py:824   *)
(* admits.                                                                 *)
SetInARace(a, n) ==
    \E c \in raced : /\ request[c].op = "set_alias"
                     /\ request[c].alias = a /\ request[c].version = n

(* Version k was deleted, or its model.                                    *)
Gone(k) ==
    /\ ~Live(k)
    /\ \E c \in Calls :
          /\ target[c] = k[1]
          /\ \/ request[c].op = "delete_model"
             \/ request[c].op = "delete_version" /\ request[c].version = k[2]

(* An alias names a version that exists and is not deleted, except for the *)
(* two reasons above; in particular deleting a version that nobody is      *)
(* aliasing leaves no alias to it (registered_models.py:492).  And a       *)
(* reader that has resolved an alias misses its version only if that was   *)
(* deleted, for good, or the alias set in a race (store.py:1365).          *)
AliasesDangleOnlyByRaces ==
    /\ \A i \in DOMAIN registered, a \in Aliases :
          LET n == registered[i].aliases[a] IN
          n = 0 \/ Live(<<i, n>>) \/ HalfDeleted(<<i, n>>) \/ SetInARace(a, n)
    /\ \A c \in Calls : error[c] = "version_not_found" =>
          \/ Gone(<<target[c], number[c]>>)
          \/ SetInARace(request[c].alias, number[c])

(* A version document without its model is left only by a deletion that    *)
(* has not finished or failed, or by a create_model_version that had its   *)
(* number when the model was removed (store.py:638).                       *)
OrphansComeOnlyByRaces ==
    \A k \in DOMAIN versions :
       \/ IsRegistered(k[1])
       \/ \E c \in Calls : /\ request[c].op = "delete_model"
                           /\ target[c] = k[1]
                           /\ \/ pc[c] \in {"purge", "purging"}
                              \/ error[c] = "persistence"
       \/ \E c \in raced : <<target[c], number[c]>> = k

(* Transition c has moved its version, or failed in one of the two ways    *)
(* that do not tell its client whether it had: a database error, or a      *)
(* model that is gone (store.py:1052).                                     *)
MayHaveMoved(c) ==
    /\ request[c].op = "transition"
    /\ \/ pc[c] \in {"archive", "archiving", "touch", "reply", "done"}
       \/ error[c] = "persistence"
       \/ error[c] = "not_found" /\ ~IsRegistered(target[c])

(* Version k was moved to stage s by a transition that asked for it. *)
Asked(k, s) ==
    \E c \in Calls : /\ MayHaveMoved(c)
                     /\ VersionOf(c) = k
                     /\ request[c].stage = s

(* Every stage has a cause, which is not a transition that has yet to move *)
(* its version, nor one that was told that there is no such version in a   *)
(* model that still exists.  And a version is archived without having been *)
(* asked to only if it was asked into a stage that a transition of ANOTHER *)
(* version of the same model archived (model_versions.py:235, 250).        *)
StagesHaveACause ==
    \A k \in DOMAIN versions :
       \/ versions[k] \in {"None", Deleted}
       \/ Asked(k, versions[k])
       \/ /\ versions[k] = "Archived"
          /\ \E c \in Calls : /\ MayHaveMoved(c)
                              /\ request[c].archive
                              /\ target[c] = k[1] /\ VersionOf(c) # k
                              /\ Asked(k, request[c].stage)

Lifecycle == INSTANCE ModelLifecycle WITH
    Models <- Calls,
    stage  <- versions

(* The interleaved calls implement the promise of ModelLifecycle:          *)
(* consecutive numbers, at most one version per number ever, and no way    *)
(* out of the deleted stage (test_model_lifecycle.py:126,                  *)
(* model_versions.py:222, 322).                                            *)
ImplementsLifecycle == Lifecycle!Spec

(* "Remove every version so a registered model or a prompt cannot leave    *)
(* orphaned documents" (comment, store.py:638): when all calls have        *)
(* returned and no operation failed, every version has its model.          *)
NoOrphanedVersions ==
    (\A c \in Calls : pc[c] \in {"done", "failed"}) /\ faults = 0
       => \A k \in DOMAIN versions : IsRegistered(k[1])

(* "Model-version number to keep in the stage" (docstring,                 *)
(* model_versions.py:262): when transitions that archive the others are    *)
(* all that moves versions, and one of them has returned, its stage is not *)
(* empty once all calls have returned.                                     *)
ArchivingKeepsAVersion ==
    (\A c \in Calls : pc[c] = "done")
       => \A c \in Calls :
             request[c].op = "transition" =>
                \E k \in VersionsOf(target[c]) : versions[k] = request[c].stage
=============================================================================
