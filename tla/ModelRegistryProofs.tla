------------------------- MODULE ModelRegistryProofs -------------------------
(***************************************************************************)
(* Proofs about ModelRegistry for every set of calls, names and aliases,   *)
(* every workload and every number of faults.                              *)
(***************************************************************************)
EXTENDS ModelRegistry, TLAPS

Writers == {"create_version", "transition", "delete_version", "set_alias"}

(* Calls go through the phases of their own operation. *)
PhaseInv ==
    \A c \in Calls :
       /\ pc[c] \in {"register", "diagnose"} => request[c].op = "create_model"
       /\ pc[c] \in {"rename", "touch_all"} => request[c].op = "rename"
       /\ pc[c] \in {"remove", "purge", "purging"} => request[c].op = "delete_model"
       /\ pc[c] = "unset" => request[c].op = "delete_alias"
       /\ pc[c] = "lookup" => request[c].op \in Writers
       /\ pc[c] \in {"allocate", "insert"} => request[c].op = "create_version"
       /\ pc[c] \in {"transition", "archive", "archiving", "touch"} =>
             request[c].op = "transition"
       /\ pc[c] \in {"archive", "archiving"} =>
             request[c].archive /\ request[c].stage \in ActiveStages
       /\ pc[c] \in {"redact", "unalias"} => request[c].op = "delete_version"
       /\ pc[c] \in {"check", "alias"} => request[c].op = "set_alias"
       /\ pc[c] \in {"resolve", "read"} => request[c].op = "get_by_alias"
       /\ error[c] # "none" => pc[c] = "failed"

RequestInv ==
    \A c \in Calls : request[c].op = "transition" /\ request[c].archive
                        => request[c].stage \in ActiveStages

(* A call has a target from the operation that resolves its name on, and   *)
(* a number from the one that gives it out.                                *)
TargetInv ==
    \A c \in Calls :
       /\ pc[c] \in {"idle", "register", "diagnose", "rename", "remove", "unset",
                     "lookup", "resolve"} => target[c] = NoModel
       /\ pc[c] \in {"purge", "purging", "allocate", "insert", "transition",
                     "archive", "archiving", "touch", "redact", "unalias",
                     "check", "alias", "read"} => target[c] \in Calls
       /\ number[c] # 0 =>
             \/ /\ request[c].op = "get_by_alias"
                /\ pc[c] \in {"read", "reply", "done", "failed"}
             \/ /\ request[c].op = "create_version"
                /\ pc[c] \in {"insert", "reply", "done", "failed"}
       /\ pc[c] = "resolve" => number[c] = 0
       /\ pc[c] \in {"insert", "read"} => number[c] # 0
       /\ error[c] \in {"version_exists", "version_not_found"} =>
             target[c] \in Calls /\ number[c] # 0

(* The _id of a model is new when it is inserted: nothing refers to it.    *)
FreshInv ==
    /\ \A i \in Calls :
          pc[i] \in {"idle", "register"} \/ request[i].op # "create_model" =>
             /\ ~IsRegistered(i)
             /\ issued[i] = 0
             /\ \A c \in Calls : target[c] # i
    /\ \A i, j \in DOMAIN registered :
          registered[i].name = registered[j].name => i = j

(* Numbers are given out once: the counter of a registered model is the    *)
(* last number given out for it, and the number a call is about to use is  *)
(* its own and not in use.                                                 *)
NumberInv ==
    /\ \A i \in DOMAIN registered : issued[i] = registered[i].version_counter
    /\ DOMAIN versions \subseteq created
    /\ \A k \in created : k[2] <= issued[k[1]]
    /\ \A c \in Calls :
          pc[c] = "insert" =>
             /\ number[c] <= issued[target[c]]
             /\ <<target[c], number[c]>> \notin created
    /\ \A c, d \in Calls :
          /\ pc[c] = "insert" /\ pc[d] = "insert"
          /\ target[c] = target[d] /\ number[c] = number[d]
          => c = d

(* Whoever works on a model that was removed has been noted as raced. *)
RemovedInv ==
    \A c \in Calls :
       /\ request[c].op \in Writers
       /\ target[c] \in Calls /\ ~IsRegistered(target[c])
       /\ Running(c) /\ pc[c] # "reply"
       => c \in raced

(* So has whoever sets an alias on a model that has another name by now or *)
(* to a version that was deleted since the check.                          *)
CheckedInv ==
    \A c \in Calls :
       pc[c] \in {"check", "alias"} /\ c \notin raced =>
          /\ IsRegistered(target[c])
          /\ registered[target[c]].name = request[c].name
          /\ pc[c] = "alias" => Live(VersionOf(c))

RacedInv == \A c \in raced : request[c].op # "get_by_alias" /\ target[c] \in Calls

(* The deletion of a model has yet to visit what is left of its versions,  *)
(* save those inserted by calls it raced with.                             *)
PurgeInv ==
    \A c \in Calls :
       /\ pc[c] \in {"purge", "purging"} => ~IsRegistered(target[c])
       /\ pc[c] = "purging" =>
             \A k \in VersionsOf(target[c]) :
                \/ k \in visiting[c]
                \/ \E d \in raced : <<target[d], number[d]>> = k

(* What an alias names was stored once, so that it stays deleted when it   *)
(* is; a reader that has resolved the alias relies on it.                  *)
AliasInv ==
    /\ \A i \in DOMAIN registered, a \in Aliases :
          LET n == registered[i].aliases[a] IN
          \/ n = 0
          \/ /\ <<i, n>> \in created
             /\ Live(<<i, n>>) \/ HalfDeleted(<<i, n>>)
          \/ SetInARace(a, n)
    /\ \A c \in Calls :
          LET k == <<target[c], number[c]>> IN
          pc[c] = "read" \/ error[c] = "version_not_found" =>
             \/ /\ k \in created
                /\ Gone(k) \/ (pc[c] = "read" /\ Live(k))
             \/ SetInARace(request[c].alias, number[c])

IInv ==
    /\ TypeOK
    /\ PhaseInv
    /\ RequestInv
    /\ TargetInv
    /\ FreshInv
    /\ NumberInv
    /\ RemovedInv
    /\ CheckedInv
    /\ RacedInv
    /\ PurgeInv
    /\ AliasInv
    /\ AllocatedVersionsAreFree
    /\ OrphansComeOnlyByRaces
    /\ StagesHaveACause

-----------------------------------------------------------------------------
(***************************************************************************)
(* Type correctness.                                                       *)
(***************************************************************************)

LEMMA RequestType ==
    ASSUME NEW r \in Request
    PROVE  /\ r.op \in Ops /\ r.name \in Names /\ r.new_name \in Names
           /\ r.version \in Nat \ {0} /\ r.stage \in Stages
           /\ r.archive \in BOOLEAN /\ r.alias \in Aliases
BY DEF Request

LEMMA RequestTypes ==
    ASSUME TypeOK, NEW c \in Calls
    PROVE  /\ request[c].op \in Ops /\ request[c].name \in Names
           /\ request[c].new_name \in Names
           /\ request[c].version \in Nat \ {0} /\ request[c].stage \in Stages
           /\ request[c].archive \in BOOLEAN /\ request[c].alias \in Aliases
BY RequestType DEF TypeOK

LEMMA ModelType ==
    ASSUME NEW m \in Model
    PROVE  /\ m.name \in Names /\ m.version_counter \in Nat
           /\ m.aliases \in [Aliases -> Nat]
BY DEF Model

LEMMA TypeInit == Init => TypeOK
BY WorkloadsAssumption, NoModelAssumption, FaultsAssumption
   DEF Init, TypeOK, Phases, Errors

(* What the operations write into a model document. *)
LEMMA NewModelType ==
    ASSUME NEW n \in Names
    PROVE  [name |-> n, version_counter |-> 0,
            aliases |-> [a \in Aliases |-> 0]] \in Model
BY DEF Model

LEMMA RenamedModelType ==
    ASSUME NEW m \in Model, NEW n \in Names
    PROVE  /\ [m EXCEPT !.name = n] \in Model
           /\ [m EXCEPT !.name = n].version_counter = m.version_counter
           /\ [m EXCEPT !.name = n].aliases = m.aliases
           /\ [m EXCEPT !.name = n].name = n
BY DEF Model

LEMMA CountedModelType ==
    ASSUME NEW m \in Model, NEW n \in Nat
    PROVE  /\ [m EXCEPT !.version_counter = n] \in Model
           /\ [m EXCEPT !.version_counter = n].version_counter = n
           /\ [m EXCEPT !.version_counter = n].aliases = m.aliases
           /\ [m EXCEPT !.version_counter = n].name = m.name
BY DEF Model

LEMMA AliasedModelType ==
    ASSUME NEW m \in Model, NEW f \in [Aliases -> Nat]
    PROVE  /\ [m EXCEPT !.aliases = f] \in Model
           /\ [m EXCEPT !.aliases = f].version_counter = m.version_counter
           /\ [m EXCEPT !.aliases = f].aliases = f
           /\ [m EXCEPT !.aliases = f].name = m.name
BY DEF Model

LEMMA Renamed ==
    ASSUME TypeOK, NEW i \in DOMAIN registered, NEW n \in Names,
           registered' = [registered EXCEPT ![i].name = n]
    PROVE  /\ DOMAIN registered' = DOMAIN registered
           /\ \A j \in DOMAIN registered :
                 /\ registered'[j] \in Model
                 /\ registered'[j].version_counter = registered[j].version_counter
                 /\ registered'[j].aliases = registered[j].aliases
                 /\ registered'[j].name = IF j = i THEN n ELSE registered[j].name
<1>1. registered' = [registered EXCEPT ![i] = [registered[i] EXCEPT !.name = n]]
  OBVIOUS
<1> QED
  BY <1>1, RenamedModelType DEF TypeOK

LEMMA Counted ==
    ASSUME TypeOK, NEW i \in DOMAIN registered,
           registered' = [registered EXCEPT ![i].version_counter = @ + 1]
    PROVE  /\ DOMAIN registered' = DOMAIN registered
           /\ \A j \in DOMAIN registered :
                 /\ registered'[j] \in Model
                 /\ registered'[j].version_counter =
                       IF j = i THEN registered[j].version_counter + 1
                       ELSE registered[j].version_counter
                 /\ registered'[j].aliases = registered[j].aliases
                 /\ registered'[j].name = registered[j].name
<1> DEFINE n == registered[i].version_counter + 1
<1>1. registered[i] \in Model /\ n \in Nat
  BY ModelType DEF TypeOK
<1>2. registered' = [registered EXCEPT ![i] = [registered[i] EXCEPT !.version_counter = n]]
  OBVIOUS
<1> QED
  BY <1>1, <1>2, CountedModelType DEF TypeOK

LEMMA Realiased ==
    ASSUME TypeOK, NEW i \in DOMAIN registered, NEW f \in [Aliases -> Nat],
           registered' = [registered EXCEPT ![i].aliases = f]
    PROVE  /\ DOMAIN registered' = DOMAIN registered
           /\ \A j \in DOMAIN registered :
                 /\ registered'[j] \in Model
                 /\ registered'[j].version_counter = registered[j].version_counter
                 /\ registered'[j].aliases = IF j = i THEN f ELSE registered[j].aliases
                 /\ registered'[j].name = registered[j].name
<1>1. registered' = [registered EXCEPT ![i] = [registered[i] EXCEPT !.aliases = f]]
  OBVIOUS
<1> QED
  BY <1>1, AliasedModelType DEF TypeOK

LEMMA AliasSet ==
    ASSUME TypeOK, NEW i \in DOMAIN registered, NEW a \in Aliases, NEW n \in Nat,
           SetAlias(i, a, n)
    PROVE  /\ DOMAIN registered' = DOMAIN registered
           /\ \A j \in DOMAIN registered :
                 /\ registered'[j] \in Model
                 /\ registered'[j].version_counter = registered[j].version_counter
                 /\ registered'[j].name = registered[j].name
                 /\ \A b \in Aliases :
                       registered'[j].aliases[b] =
                          IF j = i /\ b = a THEN n ELSE registered[j].aliases[b]
<1> DEFINE f == [registered[i].aliases EXCEPT ![a] = n]
<1>1. registered[i].aliases \in [Aliases -> Nat]
  BY ModelType DEF TypeOK
<1>2. f \in [Aliases -> Nat] /\ \A b \in Aliases :
                                   f[b] = IF b = a THEN n ELSE registered[i].aliases[b]
  BY <1>1
<1>3. registered' = [registered EXCEPT ![i].aliases = f]
  BY DEF SetAlias
<1> HIDE DEF f
<1>4. /\ DOMAIN registered' = DOMAIN registered
      /\ \A j \in DOMAIN registered :
            /\ registered'[j] \in Model
            /\ registered'[j].version_counter = registered[j].version_counter
            /\ registered'[j].aliases = IF j = i THEN f ELSE registered[j].aliases
            /\ registered'[j].name = registered[j].name
  BY <1>2, <1>3, Realiased
<1> QED
  BY <1>2, <1>4

LEMMA AliasesCleared ==
    ASSUME TypeOK, NEW i \in DOMAIN registered, NEW n \in Nat,
           registered' = [registered EXCEPT ![i].aliases =
                             [a \in Aliases |-> IF @[a] = n THEN 0 ELSE @[a]]]
    PROVE  /\ DOMAIN registered' = DOMAIN registered
           /\ \A j \in DOMAIN registered :
                 /\ registered'[j] \in Model
                 /\ registered'[j].version_counter = registered[j].version_counter
                 /\ registered'[j].name = registered[j].name
                 /\ \A b \in Aliases :
                       registered'[j].aliases[b] =
                          IF j = i /\ registered[j].aliases[b] = n THEN 0
                          ELSE registered[j].aliases[b]
<1> DEFINE f == [a \in Aliases |-> IF registered[i].aliases[a] = n THEN 0
                                   ELSE registered[i].aliases[a]]
<1>1. registered[i].aliases \in [Aliases -> Nat]
  BY ModelType DEF TypeOK
<1>2. f \in [Aliases -> Nat] /\ \A b \in Aliases :
                                   f[b] = IF registered[i].aliases[b] = n THEN 0
                                          ELSE registered[i].aliases[b]
  BY <1>1
<1>3. registered' = [registered EXCEPT ![i].aliases = f]
  OBVIOUS
<1> HIDE DEF f
<1> QED
  BY <1>2, <1>3, Realiased

LEMMA PhaseTypes ==
    ASSUME NEW op
    PROVE  /\ FirstPhase(op) \in Phases
           /\ op \in Writers => PhaseAfterLookup(op) \in Phases
<1>1. FirstPhase(op) \in Phases
  BY DEF FirstPhase, Phases
<1>2. op \in Writers => PhaseAfterLookup(op) \in Phases
  BY DEF PhaseAfterLookup, Phases, Writers
<1> QED
  BY <1>1, <1>2

(***************************************************************************)
(* The actions with alternatives, case by case.                            *)
(***************************************************************************)

(* Call c raises e and has changed no document. *)
Fails(c, e) ==
    /\ e \in Errors /\ e # "none" /\ Running(c)
    /\ pc' = [pc EXCEPT ![c] = "failed"]
    /\ error' = [error EXCEPT ![c] = e]
    /\ UNCHANGED <<registered, versions, request, target, number, visiting,
                   issued, created, raced>>
    /\ UNCHANGED faults \/ faults' \in 0..MaxFaults

(* Call c proceeds to phase p. *)
Moves(c, p) == pc' = [pc EXCEPT ![c] = p] /\ UNCHANGED <<error, request, faults>>

Renames(c, i) ==
    /\ i \in DOMAIN registered /\ registered[i].name = request[c].name
    /\ \A j \in DOMAIN registered :
          registered[j].name = request[c].new_name => j = i
    /\ Moves(c, "touch_all")
    /\ DOMAIN registered' = DOMAIN registered
    /\ \A j \in DOMAIN registered :
          /\ registered'[j] \in Model
          /\ registered'[j].version_counter = registered[j].version_counter
          /\ registered'[j].aliases = registered[j].aliases
          /\ registered'[j].name = IF j = i THEN request[c].new_name
                                   ELSE registered[j].name
    /\ target' = [target EXCEPT ![c] = i]
    /\ raced' = raced \union AliasersOf(i)
    /\ UNCHANGED <<versions, number, visiting, issued, created>>

LEMMA RenameCases ==
    ASSUME TypeOK, NEW c \in Calls, RenameModel(c)
    PROVE  /\ pc[c] = "rename"
           /\ \/ \E e \in {"exists", "not_found"} : Fails(c, e)
              \/ \E i \in DOMAIN registered : Renames(c, i)
<1> USE DEF Goto, Fail, Proceed
<1>1. CASE UNCHANGED <<registered, target, raced>>
           /\ \E e \in {"exists", "not_found"} : Fail(c, e)
  BY <1>1 DEF RenameModel, Fails, Errors, Running
<1>2. CASE ~(UNCHANGED <<registered, target, raced>>
             /\ \E e \in {"exists", "not_found"} : Fail(c, e))
  <2>1. PICK i \in DOMAIN registered :
           /\ Named(i, request[c].name)
           /\ \A j \in DOMAIN registered : Named(j, request[c].new_name) => j = i
           /\ registered' = [registered EXCEPT ![i].name = request[c].new_name]
           /\ target' = [target EXCEPT ![c] = i]
           /\ raced' = raced \union AliasersOf(i)
           /\ pc' = [pc EXCEPT ![c] = "touch_all"] /\ UNCHANGED error
    BY <1>2 DEF RenameModel
  <2>2. /\ DOMAIN registered' = DOMAIN registered
        /\ \A j \in DOMAIN registered :
              /\ registered'[j] \in Model
              /\ registered'[j].version_counter = registered[j].version_counter
              /\ registered'[j].aliases = registered[j].aliases
              /\ registered'[j].name = IF j = i THEN request[c].new_name
                                       ELSE registered[j].name
    BY <2>1, Renamed, RequestTypes
  <2>3. Renames(c, i)
    BY <2>1, <2>2 DEF RenameModel, Renames, Moves, Named, IsRegistered
  <2> QED
    BY <2>1, <2>3 DEF RenameModel
<1> QED
  BY <1>1, <1>2

Removes(c, i) ==
    /\ i \in DOMAIN registered /\ registered[i].name = request[c].name
    /\ Moves(c, "purge")
    /\ DOMAIN registered' = DOMAIN registered \ {i}
    /\ \A j \in DOMAIN registered' : registered'[j] = registered[j]
    /\ target' = [target EXCEPT ![c] = i]
    /\ raced' = raced \union UsersOf(i)
    /\ UNCHANGED <<versions, number, visiting, issued, created>>

LEMMA RemoveCases ==
    ASSUME NEW c \in Calls, RemoveModel(c)
    PROVE  /\ pc[c] = "remove"
           /\ \/ Fails(c, "not_found")
              \/ \E i \in DOMAIN registered : Removes(c, i)
<1>1. CASE NameTaken(request[c].name)
  BY <1>1 DEF RemoveModel, Removes, Moves, Proceed, Goto, Named, IsRegistered
<1>2. CASE ~NameTaken(request[c].name)
  BY <1>2 DEF RemoveModel, Fails, Fail, Goto, NameTaken, Named, Errors, Running
<1> QED
  BY <1>1, <1>2

Allocates(c) ==
    LET i == target[c]
        n == registered[target[c]].version_counter + 1 IN
    /\ i \in DOMAIN registered /\ n \in Nat \ {0}
    /\ Moves(c, "insert")
    /\ DOMAIN registered' = DOMAIN registered
    /\ \A j \in DOMAIN registered :
          /\ registered'[j] \in Model
          /\ registered'[j].version_counter =
                IF j = i THEN n ELSE registered[j].version_counter
          /\ registered'[j].aliases = registered[j].aliases
          /\ registered'[j].name = registered[j].name
    /\ number' = [number EXCEPT ![c] = n]
    /\ issued' = [issued EXCEPT ![i] = n]
    /\ UNCHANGED <<versions, target, visiting, created, raced>>

LEMMA AllocateCases ==
    ASSUME TypeOK, NEW c \in Calls, AllocateVersion(c)
    PROVE  pc[c] = "allocate" /\ (Fails(c, "not_found") \/ Allocates(c))
<1> USE DEF Goto, Fail, Proceed, IsRegistered, documents
<1>1. CASE IsRegistered(target[c])
  <2>1. registered[target[c]].version_counter + 1 \in Nat \ {0}
    BY <1>1, ModelType DEF TypeOK
  <2>2. /\ registered' = [registered EXCEPT ![target[c]].version_counter = @ + 1]
        /\ number' = [number EXCEPT ![c] = registered[target[c]].version_counter + 1]
        /\ issued' = [issued EXCEPT ![target[c]] = registered[target[c]].version_counter + 1]
        /\ Moves(c, "insert")
        /\ UNCHANGED <<versions, target, visiting, created, raced>>
    BY <1>1 DEF AllocateVersion, TargetGone, Moves
  <2> QED
    BY <1>1, <2>1, <2>2, Counted DEF Allocates, AllocateVersion
<1>2. CASE ~IsRegistered(target[c])
  BY <1>2 DEF AllocateVersion, TargetGone, Fails, Errors, Running
<1> QED
  BY <1>1, <1>2

Inserts(c) ==
    LET k == <<target[c], number[c]>> IN
    /\ k \notin DOMAIN versions
    /\ Moves(c, "reply")
    /\ DOMAIN versions' = DOMAIN versions \union {k}
    /\ versions'[k] = "None"
    /\ \A x \in DOMAIN versions : versions'[x] = versions[x]
    /\ created' = created \union {k}
    /\ UNCHANGED <<registered, target, number, visiting, issued, raced>>

LEMMA InsertCases ==
    ASSUME NEW c \in Calls, InsertVersion(c)
    PROVE  /\ pc[c] = "insert"
           /\ \/ /\ <<target[c], number[c]>> \in DOMAIN versions
                 /\ Fails(c, "version_exists")
              \/ Inserts(c)
<1>1. CASE <<target[c], number[c]>> \in DOMAIN versions
  BY <1>1 DEF InsertVersion, Fails, Fail, Goto, Errors, Running
<1>2. CASE <<target[c], number[c]>> \notin DOMAIN versions
  BY <1>2 DEF InsertVersion, Inserts, Moves, Proceed, Goto
<1> QED
  BY <1>1, <1>2

(* The stage of version k becomes s; only transitions may skip it.         *)
StageBecomes(k, s) ==
    /\ k \in DOMAIN versions
    /\ s \in Stages \union {Deleted}
    /\ DOMAIN versions' = DOMAIN versions
    /\ \A x \in DOMAIN versions : versions'[x] = IF x = k THEN s ELSE versions[x]
    /\ visiting' \in [Calls -> SUBSET DOMAIN versions]
    /\ \A d \in Calls : request[d].op # "transition" => visiting'[d] = visiting[d]

LEMMA StageSet ==
    ASSUME TypeOK, NEW k \in DOMAIN versions, NEW s \in Stages \union {Deleted},
           SetStage(k, s)
    PROVE  StageBecomes(k, s)
BY DEF SetStage, TypeOK, StageBecomes

Transitions(c) ==
    /\ Live(VersionOf(c))
    /\ Moves(c, IF request[c].archive THEN "archive" ELSE "touch")
    /\ StageBecomes(VersionOf(c), request[c].stage)
    /\ UNCHANGED <<registered, target, number, issued, created, raced>>

LEMMA TransitionCases ==
    ASSUME TypeOK, NEW c \in Calls, TransitionStage(c)
    PROVE  pc[c] = "transition" /\ (Fails(c, "not_found") \/ Transitions(c))
<1> USE DEF Goto, Fail, Proceed, history
<1>1. CASE Live(VersionOf(c))
  <2>1. VersionOf(c) \in DOMAIN versions /\ SetStage(VersionOf(c), request[c].stage)
    BY <1>1 DEF TransitionStage, Live
  <2> QED
    BY <1>1, <2>1, StageSet, RequestTypes DEF TransitionStage, Transitions, Moves
<1>2. CASE ~Live(VersionOf(c))
  BY <1>2 DEF TransitionStage, Fails, Errors, Running
<1> QED
  BY <1>1, <1>2

Archives(c, k) ==
    /\ pc[c] = "archiving" /\ k \in Peers(c)
    /\ StageBecomes(k, "Archived")
    /\ UNCHANGED <<registered, pc, error, request, target, number, faults,
                   issued, created, raced>>

LEMMA ArchiveCases ==
    ASSUME TypeOK, NEW c \in Calls, NEW k \in DOMAIN versions, ArchiveVersion(c, k)
    PROVE  Archives(c, k)
BY StageSet DEF ArchiveVersion, Archives, Stages, history

Redacts(c) ==
    /\ Live(VersionOf(c))
    /\ Moves(c, "unalias")
    /\ StageBecomes(VersionOf(c), Deleted)
    /\ raced' = raced \union {d \in AliasersOf(target[c]) :
                                 request[d].version = request[c].version}
    /\ UNCHANGED <<registered, target, number, issued, created>>

LEMMA RedactCases ==
    ASSUME TypeOK, NEW c \in Calls, SoftDelete(c)
    PROVE  pc[c] = "redact" /\ (Fails(c, "not_found") \/ Redacts(c))
<1> USE DEF Goto, Fail, Proceed
<1>1. CASE Live(VersionOf(c))
  <2>1. VersionOf(c) \in DOMAIN versions /\ SetStage(VersionOf(c), Deleted)
    BY <1>1 DEF SoftDelete, Live
  <2> QED
    BY <1>1, <2>1, StageSet DEF SoftDelete, Redacts, Moves
<1>2. CASE ~Live(VersionOf(c))
  BY <1>2 DEF SoftDelete, Fails, Errors, Running
<1> QED
  BY <1>1, <1>2

Unaliases(c) ==
    /\ target[c] \in DOMAIN registered
    /\ Moves(c, "reply")
    /\ DOMAIN registered' = DOMAIN registered
    /\ \A j \in DOMAIN registered :
          /\ registered'[j] \in Model
          /\ registered'[j].version_counter = registered[j].version_counter
          /\ registered'[j].name = registered[j].name
          /\ \A b \in Aliases :
                registered'[j].aliases[b] =
                   IF j = target[c] /\ registered[j].aliases[b] = request[c].version
                   THEN 0 ELSE registered[j].aliases[b]
    /\ UNCHANGED <<versions, target, number, visiting, issued, created, raced>>

LEMMA UnaliasCases ==
    ASSUME TypeOK, NEW c \in Calls, DeleteAliasesForVersion(c)
    PROVE  /\ pc[c] = "unalias"
           /\ \/ Fails(c, "not_found") /\ target[c] \notin DOMAIN registered
              \/ Unaliases(c)
<1> USE DEF Goto, Fail, Proceed, IsRegistered, documents, history
<1>1. CASE IsRegistered(target[c])
  <2>1. registered' = [registered EXCEPT ![target[c]].aliases =
                          [a \in Aliases |-> IF @[a] = request[c].version THEN 0
                                             ELSE @[a]]]
    BY <1>1 DEF DeleteAliasesForVersion, TargetGone
  <2>2. Moves(c, "reply")
        /\ UNCHANGED <<versions, target, number, visiting, issued, created, raced>>
    BY <1>1 DEF DeleteAliasesForVersion, TargetGone, Moves
  <2>3. target[c] \in DOMAIN registered /\ request[c].version \in Nat
    BY <1>1, RequestTypes
  <2>4. PICK i, n : i = target[c] /\ n = request[c].version
    OBVIOUS
  <2>5. /\ DOMAIN registered' = DOMAIN registered
        /\ \A j \in DOMAIN registered :
              /\ registered'[j] \in Model
              /\ registered'[j].version_counter = registered[j].version_counter
              /\ registered'[j].name = registered[j].name
              /\ \A b \in Aliases :
                    registered'[j].aliases[b] =
                       IF j = i /\ registered[j].aliases[b] = n THEN 0
                       ELSE registered[j].aliases[b]
    <3>1. /\ i \in DOMAIN registered /\ n \in Nat
          /\ registered' = [registered EXCEPT ![i].aliases =
                               [a \in Aliases |-> IF @[a] = n THEN 0 ELSE @[a]]]
      BY <2>1, <2>3, <2>4
    <3> QED
      BY ONLY <3>1, TypeOK, AliasesCleared
  <2>6. Unaliases(c)
    BY ONLY <2>2, <2>3, <2>4, <2>5 DEF Unaliases
  <2>7. pc[c] = "unalias"
    BY DEF DeleteAliasesForVersion
  <2> QED
    BY ONLY <2>6, <2>7
<1>2. CASE ~IsRegistered(target[c])
  BY <1>2 DEF DeleteAliasesForVersion, TargetGone, Fails, Errors, Running
<1> QED
  BY <1>1, <1>2

(* Call c sets its alias on model i to n. *)
SetsAlias(c, i, n) ==
    /\ i \in DOMAIN registered /\ registered[i].name = request[c].name
    /\ Moves(c, "reply")
    /\ DOMAIN registered' = DOMAIN registered
    /\ \A j \in DOMAIN registered :
          /\ registered'[j] \in Model
          /\ registered'[j].version_counter = registered[j].version_counter
          /\ registered'[j].name = registered[j].name
          /\ \A b \in Aliases :
                registered'[j].aliases[b] =
                   IF j = i /\ b = request[c].alias THEN n
                   ELSE registered[j].aliases[b]
    /\ UNCHANGED <<versions, target, number, visiting, issued, created, raced>>

LEMMA WriteAliasCases ==
    ASSUME TypeOK, NEW c \in Calls, WriteAlias(c)
    PROVE  \/ pc[c] \in {"alias", "unset"} /\ Fails(c, "not_found")
           \/ /\ pc[c] = "alias"
              /\ \E i \in DOMAIN registered : SetsAlias(c, i, request[c].version)
           \/ /\ pc[c] = "unset"
              /\ \E i \in DOMAIN registered : SetsAlias(c, i, 0)
<1> USE DEF Goto, Fail, Proceed, history
<1>1. ASSUME NEW i \in DOMAIN registered, NEW n \in Nat,
             SetAlias(i, request[c].alias, n),
             Named(i, request[c].name),
             pc' = [pc EXCEPT ![c] = "reply"], UNCHANGED error
      PROVE  SetsAlias(c, i, n)
  BY <1>1, AliasSet, RequestTypes DEF SetsAlias, WriteAlias, Moves, Named, IsRegistered
<1>2. CASE /\ pc[c] = "alias"
           /\ \E i \in DOMAIN registered :
                /\ Named(i, request[c].name)
                /\ SetAlias(i, request[c].alias, request[c].version)
           /\ Proceed(c, "reply")
  BY <1>1, <1>2, RequestTypes
<1>3. CASE /\ pc[c] = "unset"
           /\ \E i \in DOMAIN registered :
                /\ Named(i, request[c].name)
                /\ SetAlias(i, request[c].alias, 0)
           /\ Proceed(c, "reply")
  BY <1>1, <1>3
<1>4. CASE /\ pc[c] \in {"alias", "unset"}
           /\ ~NameTaken(request[c].name)
           /\ Fail(c, "not_found")
           /\ UNCHANGED registered
  BY <1>4 DEF Fails, WriteAlias, Errors, Running
<1> QED
  BY <1>2, <1>3, <1>4 DEF WriteAlias

(* Call c reads what its alias on model i is set to. *)
Resolves(c, i) ==
    LET n == registered[i].aliases[request[c].alias] IN
    /\ i \in DOMAIN registered /\ registered[i].name = request[c].name
    /\ n \in Nat
    /\ target' = [target EXCEPT ![c] = i]
    /\ number' = [number EXCEPT ![c] = n]
    /\ \/ n = 0 /\ Fail(c, "alias_not_found")
       \/ n # 0 /\ Moves(c, "read")
    /\ UNCHANGED <<registered, versions, request, visiting, faults, issued,
                   created, raced>>

LEMMA ResolveCases ==
    ASSUME TypeOK, NEW c \in Calls, ResolveAlias(c)
    PROVE  /\ pc[c] = "resolve"
           /\ \/ Fails(c, "not_found")
              \/ \E i \in DOMAIN registered : Resolves(c, i)
<1> USE DEF Goto, Fail, Proceed, documents, history
<1>1. CASE /\ ~NameTaken(request[c].name)
           /\ Fail(c, "not_found")
           /\ UNCHANGED <<target, number>>
  BY <1>1 DEF ResolveAlias, Fails, Errors, Running
<1>2. ASSUME NEW i \in DOMAIN registered,
             Named(i, request[c].name),
             target' = [target EXCEPT ![c] = i],
             number' = [number EXCEPT ![c] = registered[i].aliases[request[c].alias]],
             IF registered[i].aliases[request[c].alias] = 0
             THEN Fail(c, "alias_not_found") ELSE Proceed(c, "read")
      PROVE  Resolves(c, i)
  <2>1. registered[i].aliases[request[c].alias] \in Nat
    BY ModelType, RequestTypes DEF TypeOK
  <2> QED
    BY <1>2, <2>1 DEF ResolveAlias, Resolves, Moves, Named
<1> QED
  BY <1>1, <1>2 DEF ResolveAlias

Registers(c) ==
    /\ ~NameTaken(request[c].name)
    /\ Moves(c, "reply")
    /\ DOMAIN registered' = DOMAIN registered \union {c}
    /\ registered'[c] \in Model
    /\ registered'[c].name = request[c].name
    /\ registered'[c].version_counter = 0
    /\ \A a \in Aliases : registered'[c].aliases[a] = 0
    /\ \A j \in DOMAIN registered \ {c} : registered'[j] = registered[j]
    /\ UNCHANGED <<versions, target, number, visiting, issued, created, raced>>

LEMMA RegisterCases ==
    ASSUME TypeOK, NEW c \in Calls, RegisterModel(c)
    PROVE  /\ pc[c] = "register"
           /\ \/ /\ Moves(c, "diagnose")
                 /\ UNCHANGED <<registered, versions, target, number, visiting,
                                issued, created, raced>>
              \/ Registers(c)
<1> USE DEF Goto, Moves, history
<1>1. CASE NameTaken(request[c].name)
  BY <1>1 DEF RegisterModel
<1>2. CASE ~NameTaken(request[c].name)
  <2> DEFINE m == [name            |-> request[c].name,
                   version_counter |-> 0,
                   aliases         |-> [a \in Aliases |-> 0]]
  <2>1. m \in Model /\ m.name = request[c].name /\ m.version_counter = 0
        /\ \A a \in Aliases : m.aliases[a] = 0
    BY NewModelType, RequestTypes
  <2>2. registered' = [i \in DOMAIN registered \union {c} |->
                          IF i = c THEN m ELSE registered[i]]
    BY <1>2 DEF RegisterModel
  <2> HIDE DEF m
  <2> QED
    BY <1>2, <2>1, <2>2 DEF RegisterModel, Registers
<1> QED
  BY <1>1, <1>2

Frame == UNCHANGED <<registered, versions, target, number, visiting, issued,
                     created, raced>>

Begins(c) == pc[c] = "idle" /\ Moves(c, FirstPhase(request[c].op)) /\ Frame

Finds(c, i) ==
    /\ pc[c] = "lookup"
    /\ i \in DOMAIN registered /\ registered[i].name = request[c].name
    /\ Moves(c, PhaseAfterLookup(request[c].op))
    /\ target' = [target EXCEPT ![c] = i]
    /\ UNCHANGED <<registered, versions, number, visiting, issued, created, raced>>

(* Call c visits with xxx_many, from its next phase p on, the versions S.  *)
Visits(c, p, S) ==
    /\ Moves(c, p)
    /\ visiting' = [visiting EXCEPT ![c] = S]
    /\ UNCHANGED <<registered, versions, target, number, issued, created, raced>>

Purges(c, k) ==
    /\ pc[c] = "purging" /\ k \in VersionsOf(target[c])
    /\ DOMAIN versions' = DOMAIN versions \ {k}
    /\ \A x \in DOMAIN versions' : versions'[x] = versions[x]
    /\ visiting' = [d \in Calls |-> visiting[d] \ {k}]
    /\ UNCHANGED <<registered, pc, error, request, target, number, faults,
                   issued, created, raced>>

(* Steps that only move the call. *)
Continues(c) ==
    /\ \/ pc[c] = "register" /\ Moves(c, "diagnose")
       \/ pc[c] = "check" /\ Moves(c, "alias")
       \/ pc[c] = "archiving" /\ Moves(c, "touch")
       \/ pc[c] \in {"touch_all", "purging", "touch", "read"} /\ Moves(c, "reply")
       \/ pc[c] = "reply" /\ Moves(c, "done")
    /\ pc[c] = "purging" => visiting[c] = {}
    /\ pc[c] = "check" => Live(VersionOf(c))
    /\ Frame

(* What call c meets when it fails. *)
FailsAsSpecified(c, e) ==
    /\ Fails(c, e)
    /\ e = "version_exists" =>
          pc[c] = "insert" /\ <<target[c], number[c]>> \in DOMAIN versions
    /\ e = "version_not_found" =>
          pc[c] = "read" /\ ~Live(<<target[c], number[c]>>)
    /\ e # "persistence" =>
          /\ pc[c] \notin {"purge", "purging"}
          /\ pc[c] \in {"unalias", "touch"} => ~IsRegistered(target[c])
          /\ pc[c] \notin {"archive", "archiving", "reply"}
    /\ pc[c] = "touch" => e \in {"not_found", "persistence"}

CallEffect(c) ==
    \/ Begins(c)
    \/ \E i \in DOMAIN registered : Finds(c, i)
    \/ pc[c] = "register" /\ Registers(c)
    \/ pc[c] = "rename" /\ \E i \in DOMAIN registered : Renames(c, i)
    \/ pc[c] = "remove" /\ \E i \in DOMAIN registered : Removes(c, i)
    \/ pc[c] = "purge" /\ Visits(c, "purging", VersionsOf(target[c]))
    \/ \E k \in DOMAIN versions : Purges(c, k)
    \/ pc[c] = "allocate" /\ Allocates(c)
    \/ pc[c] = "insert" /\ Inserts(c)
    \/ pc[c] = "transition" /\ Transitions(c)
    \/ pc[c] = "archive" /\ Visits(c, "archiving", Peers(c))
    \/ \E k \in DOMAIN versions : Archives(c, k)
    \/ pc[c] = "redact" /\ Redacts(c)
    \/ pc[c] = "unalias" /\ Unaliases(c)
    \/ pc[c] = "alias" /\ \E i \in DOMAIN registered : SetsAlias(c, i, request[c].version)
    \/ pc[c] = "unset" /\ \E i \in DOMAIN registered : SetsAlias(c, i, 0)
    \/ pc[c] = "resolve" /\ \E i \in DOMAIN registered : Resolves(c, i)
    \/ Continues(c)
    \/ \E e \in Errors : FailsAsSpecified(c, e)

(* Every step of a call is one of these.                                   *)
LEMMA CallEffects ==
    ASSUME TypeOK, NEW c \in Calls, Arrive(c) \/ CallStep(c) \/ Fault(c)
    PROVE  CallEffect(c)
<1> USE DEF Goto, Fail, Proceed, Moves, Frame, documents, history
<1>1. CASE Arrive(c)
  BY <1>1 DEF Arrive, Begins, CallEffect
<1>2. CASE Lookup(c)
  BY <1>2 DEF Lookup, Finds, Named, FailsAsSpecified, Fails, Errors, Running, CallEffect
<1>3. CASE RegisterModel(c)
  BY <1>3, RegisterCases DEF Continues, CallEffect
<1>4. CASE DiagnoseDuplicate(c)
  BY <1>4 DEF DiagnoseDuplicate, FailsAsSpecified, Fails, Errors, Running, CallEffect
<1>5. CASE RenameModel(c)
  BY <1>5, RenameCases DEF FailsAsSpecified, Errors, CallEffect
<1>6. CASE TouchVersions(c)
  BY <1>6 DEF TouchVersions, Continues, CallEffect
<1>7. CASE RemoveModel(c)
  BY <1>7, RemoveCases DEF FailsAsSpecified, Errors, CallEffect
<1>8. CASE PurgeStarts(c)
  BY <1>8 DEF PurgeStarts, Visits, CallEffect
<1>9. CASE PurgeEnds(c)
  BY <1>9 DEF PurgeEnds, Continues, CallEffect
<1>10. ASSUME NEW k \in DOMAIN versions, PurgeVersion(c, k)
       PROVE  CallEffect(c)
  BY <1>10 DEF PurgeVersion, Purges, CallEffect
<1>11. ASSUME NEW k \in DOMAIN versions, ArchiveVersion(c, k)
       PROVE  CallEffect(c)
  BY <1>11, ArchiveCases DEF CallEffect
<1>12. CASE AllocateVersion(c)
  BY <1>12, AllocateCases DEF FailsAsSpecified, Errors, CallEffect
<1>13. CASE InsertVersion(c)
  BY <1>13, InsertCases DEF FailsAsSpecified, Errors, CallEffect
<1>14. CASE TransitionStage(c)
  BY <1>14, TransitionCases DEF FailsAsSpecified, Errors, CallEffect
<1>15. CASE ArchiveStarts(c)
  BY <1>15 DEF ArchiveStarts, Visits, CallEffect
<1>16. CASE ArchiveEnds(c)
  BY <1>16 DEF ArchiveEnds, Continues, CallEffect
<1>17. CASE TouchModel(c)
  BY <1>17 DEF TouchModel, TargetGone, Continues, FailsAsSpecified, Fails, Errors,
               IsRegistered, Running, CallEffect
<1>18. CASE SoftDelete(c)
  BY <1>18, RedactCases DEF FailsAsSpecified, Errors, CallEffect
<1>19. CASE DeleteAliasesForVersion(c)
  BY <1>19, UnaliasCases DEF FailsAsSpecified, Errors, IsRegistered, CallEffect
<1>20. CASE CheckVersion(c)
  BY <1>20 DEF CheckVersion, Continues, FailsAsSpecified, Fails, Errors, Running, CallEffect
<1>21. CASE WriteAlias(c)
  BY <1>21, WriteAliasCases DEF FailsAsSpecified, Errors, CallEffect
<1>22. CASE ResolveAlias(c)
  BY <1>22, ResolveCases DEF FailsAsSpecified, Errors, CallEffect
<1>23. CASE ReadVersion(c)
  BY <1>23 DEF ReadVersion, Continues, FailsAsSpecified, Fails, Errors, Running, CallEffect
<1>24. CASE Return(c)
  BY <1>24 DEF Return, Continues, CallEffect
<1>25. CASE Fault(c)
  <2>1. faults' \in 0..MaxFaults
    BY <1>25, FaultsAssumption DEF Fault, TypeOK
  <2> QED
    BY <1>25, <2>1 DEF Fault, FailsAsSpecified, Fails, Errors, CallEffect
<1> QED
  BY <1>1, <1>2, <1>3, <1>4, <1>5, <1>6, <1>7, <1>8, <1>9, <1>10, <1>11, <1>12,
     <1>13, <1>14, <1>15, <1>16, <1>17, <1>18, <1>19, <1>20, <1>21, <1>22, <1>23,
     <1>24, <1>25 DEF CallStep

LEMMA TypeStep ==
    ASSUME TypeOK, PhaseInv, TargetInv,
           NEW c \in Calls, CallEffect(c)
    PROVE  TypeOK'
<1> USE RequestTypes DEF TypeOK, Phases, Errors, Moves, Frame
<1>1. CASE Begins(c)
  BY <1>1, PhaseTypes DEF Begins
<1>2. ASSUME NEW i \in DOMAIN registered, Finds(c, i)
      PROVE  TypeOK'
  BY <1>2, PhaseTypes DEF Finds, PhaseInv
<1>3. CASE pc[c] = "register" /\ Registers(c)
  BY <1>3 DEF Registers
<1>4. ASSUME NEW i \in DOMAIN registered, pc[c] = "rename", Renames(c, i)
      PROVE  TypeOK'
  BY <1>4 DEF Renames, AliasersOf, UsersOf
<1>5. ASSUME NEW i \in DOMAIN registered, pc[c] = "remove", Removes(c, i)
      PROVE  TypeOK'
  BY <1>5 DEF Removes, UsersOf
<1>6. CASE pc[c] = "purge" /\ Visits(c, "purging", VersionsOf(target[c]))
  BY <1>6 DEF Visits, VersionsOf
<1>7. ASSUME NEW k \in DOMAIN versions, Purges(c, k)
      PROVE  TypeOK'
  BY <1>7 DEF Purges
<1>8. CASE pc[c] = "allocate" /\ Allocates(c)
  BY <1>8 DEF Allocates
<1>9. CASE pc[c] = "insert" /\ Inserts(c)
  <2>1. <<target[c], number[c]>> \in Calls \X (Nat \ {0})
    BY <1>9 DEF TargetInv
  <2> QED
    BY <1>9, <2>1 DEF Inserts, Stages
<1>10. CASE pc[c] = "transition" /\ Transitions(c)
  BY <1>10 DEF Transitions, StageBecomes
<1>11. CASE pc[c] = "archive" /\ Visits(c, "archiving", Peers(c))
  BY <1>11 DEF Visits, VersionsOf, Peers
<1>12. ASSUME NEW k \in DOMAIN versions, Archives(c, k)
       PROVE  TypeOK'
  BY <1>12 DEF Archives, StageBecomes
<1>13. CASE pc[c] = "redact" /\ Redacts(c)
  BY <1>13 DEF Redacts, AliasersOf, UsersOf, StageBecomes
<1>14. CASE pc[c] = "unalias" /\ Unaliases(c)
  BY <1>14 DEF Unaliases
<1>15. ASSUME NEW i \in DOMAIN registered, pc[c] = "alias", SetsAlias(c, i, request[c].version)
       PROVE  TypeOK'
  BY <1>15 DEF SetsAlias
<1>16. ASSUME NEW i \in DOMAIN registered, pc[c] = "unset", SetsAlias(c, i, 0)
       PROVE  TypeOK'
  BY <1>16 DEF SetsAlias
<1>17. ASSUME NEW i \in DOMAIN registered, pc[c] = "resolve", Resolves(c, i)
       PROVE  TypeOK'
  BY <1>17 DEF Resolves, Fail, Goto
<1>18. CASE Continues(c)
  BY <1>18 DEF Continues
<1>19. ASSUME NEW e \in Errors, FailsAsSpecified(c, e)
       PROVE  TypeOK'
  BY <1>19 DEF FailsAsSpecified, Fails
<1> QED
  BY <1>1, <1>2, <1>3, <1>4, <1>5, <1>6, <1>7, <1>8, <1>9, <1>10, <1>11,
     <1>12, <1>13, <1>14, <1>15, <1>16, <1>17, <1>18, <1>19 DEF CallEffect

LEMMA PhaseStep ==
    ASSUME TypeOK, PhaseInv, RequestInv,
           NEW c \in Calls, CallEffect(c)
    PROVE  PhaseInv'
<1> USE RequestTypes DEF TypeOK, PhaseInv, Phases, Moves, Frame
<1>1. CASE Begins(c)
  BY <1>1 DEF Begins, FirstPhase, Ops, Writers
<1>2. ASSUME NEW i \in DOMAIN registered, Finds(c, i)
      PROVE  PhaseInv'
  BY <1>2 DEF Finds, PhaseAfterLookup, Ops, Writers
<1>3. CASE pc[c] = "register" /\ Registers(c)
  BY <1>3 DEF Registers
<1>4. ASSUME NEW i \in DOMAIN registered, pc[c] = "rename", Renames(c, i)
      PROVE  PhaseInv'
  BY <1>4 DEF Renames
<1>5. ASSUME NEW i \in DOMAIN registered, pc[c] = "remove", Removes(c, i)
      PROVE  PhaseInv'
  BY <1>5 DEF Removes
<1>6. CASE pc[c] = "purge" /\ Visits(c, "purging", VersionsOf(target[c]))
  BY <1>6 DEF Visits
<1>7. ASSUME NEW k \in DOMAIN versions, Purges(c, k)
      PROVE  PhaseInv'
  BY <1>7 DEF Purges
<1>8. CASE pc[c] = "allocate" /\ Allocates(c)
  BY <1>8 DEF Allocates
<1>9. CASE pc[c] = "insert" /\ Inserts(c)
  BY <1>9 DEF Inserts
<1>10. CASE pc[c] = "transition" /\ Transitions(c)
  BY <1>10 DEF Transitions, RequestInv
<1>11. CASE pc[c] = "archive" /\ Visits(c, "archiving", Peers(c))
  BY <1>11 DEF Visits
<1>12. ASSUME NEW k \in DOMAIN versions, Archives(c, k)
       PROVE  PhaseInv'
  BY <1>12 DEF Archives
<1>13. CASE pc[c] = "redact" /\ Redacts(c)
  BY <1>13 DEF Redacts
<1>14. CASE pc[c] = "unalias" /\ Unaliases(c)
  BY <1>14 DEF Unaliases
<1>15. ASSUME NEW i \in DOMAIN registered, pc[c] = "alias", SetsAlias(c, i, request[c].version)
       PROVE  PhaseInv'
  BY <1>15 DEF SetsAlias
<1>16. ASSUME NEW i \in DOMAIN registered, pc[c] = "unset", SetsAlias(c, i, 0)
       PROVE  PhaseInv'
  BY <1>16 DEF SetsAlias
<1>17. ASSUME NEW i \in DOMAIN registered, pc[c] = "resolve", Resolves(c, i)
       PROVE  PhaseInv'
  BY <1>17 DEF Resolves, Fail, Goto
<1>18. CASE Continues(c)
  BY <1>18 DEF Continues
<1>19. ASSUME NEW e \in Errors, FailsAsSpecified(c, e)
       PROVE  PhaseInv'
  BY <1>19 DEF FailsAsSpecified, Fails
<1> QED
  BY <1>1, <1>2, <1>3, <1>4, <1>5, <1>6, <1>7, <1>8, <1>9, <1>10, <1>11,
     <1>12, <1>13, <1>14, <1>15, <1>16, <1>17, <1>18, <1>19 DEF CallEffect


LEMMA RequestStep ==
    ASSUME TypeOK, RequestInv, NEW c \in Calls, CallEffect(c)
    PROVE  request' = request /\ RequestInv'
<1>1. request' = request
  BY DEF CallEffect, Allocates, Archives, Begins, Continues, FailsAsSpecified, Fails, Finds, Inserts, Purges, Redacts, Registers, Removes, Renames, Resolves, SetsAlias, Transitions, Unaliases, Visits, Moves, Frame
<1> QED
  BY <1>1 DEF RequestInv

LEMMA TargetStep ==
    ASSUME TypeOK, PhaseInv, TargetInv,
           NEW c \in Calls, CallEffect(c)
    PROVE  TargetInv'
<1> USE RequestTypes, ModelType, NoModelAssumption DEF TypeOK, PhaseInv, TargetInv, Moves, Frame
<1>1. CASE Begins(c)
  <2>1. FirstPhase(request[c].op) \in {"register", "rename", "remove", "unset",
                                       "lookup", "resolve"}
    BY DEF FirstPhase
  <2> QED
    BY <1>1, <2>1 DEF Begins
<1>2. ASSUME NEW i \in DOMAIN registered, Finds(c, i)
      PROVE  TargetInv'
  BY <1>2 DEF Finds, PhaseAfterLookup, Writers
<1>3. CASE pc[c] = "register" /\ Registers(c)
  BY <1>3 DEF Registers
<1>4. ASSUME NEW i \in DOMAIN registered, pc[c] = "rename", Renames(c, i)
      PROVE  TargetInv'
  BY <1>4 DEF Renames
<1>5. ASSUME NEW i \in DOMAIN registered, pc[c] = "remove", Removes(c, i)
      PROVE  TargetInv'
  BY <1>5 DEF Removes
<1>6. CASE pc[c] = "purge" /\ Visits(c, "purging", VersionsOf(target[c]))
  BY <1>6 DEF Visits
<1>7. ASSUME NEW k \in DOMAIN versions, Purges(c, k)
      PROVE  TargetInv'
  BY <1>7 DEF Purges
<1>8. CASE pc[c] = "allocate" /\ Allocates(c)
  BY <1>8 DEF Allocates
<1>9. CASE pc[c] = "insert" /\ Inserts(c)
  BY <1>9 DEF Inserts
<1>10. CASE pc[c] = "transition" /\ Transitions(c)
  BY <1>10 DEF Transitions
<1>11. CASE pc[c] = "archive" /\ Visits(c, "archiving", Peers(c))
  BY <1>11 DEF Visits
<1>12. ASSUME NEW k \in DOMAIN versions, Archives(c, k)
       PROVE  TargetInv'
  BY <1>12 DEF Archives
<1>13. CASE pc[c] = "redact" /\ Redacts(c)
  BY <1>13 DEF Redacts
<1>14. CASE pc[c] = "unalias" /\ Unaliases(c)
  BY <1>14 DEF Unaliases
<1>15. ASSUME NEW i \in DOMAIN registered, pc[c] = "alias", SetsAlias(c, i, request[c].version)
       PROVE  TargetInv'
  BY <1>15 DEF SetsAlias
<1>16. ASSUME NEW i \in DOMAIN registered, pc[c] = "unset", SetsAlias(c, i, 0)
       PROVE  TargetInv'
  BY <1>16 DEF SetsAlias
<1>17. ASSUME NEW i \in DOMAIN registered, pc[c] = "resolve", Resolves(c, i)
       PROVE  TargetInv'
  BY <1>17 DEF Resolves, Fail, Goto
<1>18. CASE Continues(c)
  BY <1>18 DEF Continues
<1>19. ASSUME NEW e \in Errors, FailsAsSpecified(c, e)
       PROVE  TargetInv'
  BY <1>19 DEF FailsAsSpecified, Fails
<1> QED
  BY <1>1, <1>2, <1>3, <1>4, <1>5, <1>6, <1>7, <1>8, <1>9, <1>10, <1>11,
     <1>12, <1>13, <1>14, <1>15, <1>16, <1>17, <1>18, <1>19 DEF CallEffect


LEMMA FreshStep ==
    ASSUME TypeOK, PhaseInv, TargetInv, FreshInv,
           NEW c \in Calls, CallEffect(c)
    PROVE  FreshInv'
<1> USE RequestTypes, NoModelAssumption DEF TypeOK, PhaseInv, TargetInv, FreshInv, IsRegistered, Moves, Frame
<1>1. CASE Begins(c)
  BY <1>1 DEF Begins, FirstPhase, Ops
<1>2. ASSUME NEW i \in DOMAIN registered, Finds(c, i)
      PROVE  FreshInv'
  BY <1>2 DEF Finds, Writers
<1>3. CASE pc[c] = "register" /\ Registers(c)
  BY <1>3 DEF Registers, NameTaken, Named
<1>4. ASSUME NEW i \in DOMAIN registered, pc[c] = "rename", Renames(c, i)
      PROVE  FreshInv'
  BY <1>4 DEF Renames
<1>5. ASSUME NEW i \in DOMAIN registered, pc[c] = "remove", Removes(c, i)
      PROVE  FreshInv'
  BY <1>5 DEF Removes
<1>6. CASE pc[c] = "purge" /\ Visits(c, "purging", VersionsOf(target[c]))
  BY <1>6 DEF Visits
<1>7. ASSUME NEW k \in DOMAIN versions, Purges(c, k)
      PROVE  FreshInv'
  BY <1>7 DEF Purges
<1>8. CASE pc[c] = "allocate" /\ Allocates(c)
  BY <1>8 DEF Allocates
<1>9. CASE pc[c] = "insert" /\ Inserts(c)
  BY <1>9 DEF Inserts
<1>10. CASE pc[c] = "transition" /\ Transitions(c)
  BY <1>10 DEF Transitions
<1>11. CASE pc[c] = "archive" /\ Visits(c, "archiving", Peers(c))
  BY <1>11 DEF Visits
<1>12. ASSUME NEW k \in DOMAIN versions, Archives(c, k)
       PROVE  FreshInv'
  BY <1>12 DEF Archives
<1>13. CASE pc[c] = "redact" /\ Redacts(c)
  BY <1>13 DEF Redacts
<1>14. CASE pc[c] = "unalias" /\ Unaliases(c)
  BY <1>14 DEF Unaliases
<1>15. ASSUME NEW i \in DOMAIN registered, pc[c] = "alias", SetsAlias(c, i, request[c].version)
       PROVE  FreshInv'
  BY <1>15 DEF SetsAlias
<1>16. ASSUME NEW i \in DOMAIN registered, pc[c] = "unset", SetsAlias(c, i, 0)
       PROVE  FreshInv'
  BY <1>16 DEF SetsAlias
<1>17. ASSUME NEW i \in DOMAIN registered, pc[c] = "resolve", Resolves(c, i)
       PROVE  FreshInv'
  BY <1>17 DEF Resolves, Fail, Goto
<1>18. CASE Continues(c)
  BY <1>18 DEF Continues
<1>19. ASSUME NEW e \in Errors, FailsAsSpecified(c, e)
       PROVE  FreshInv'
  BY <1>19 DEF FailsAsSpecified, Fails
<1> QED
  BY <1>1, <1>2, <1>3, <1>4, <1>5, <1>6, <1>7, <1>8, <1>9, <1>10, <1>11,
     <1>12, <1>13, <1>14, <1>15, <1>16, <1>17, <1>18, <1>19 DEF CallEffect

LEMMA NumberStep ==
    ASSUME TypeOK, PhaseInv, TargetInv, FreshInv, NumberInv,
           NEW c \in Calls, CallEffect(c)
    PROVE  NumberInv'
<1> USE RequestTypes, ModelType
    DEF TypeOK, PhaseInv, TargetInv, NumberInv, IsRegistered, Moves, Frame
<1>1. CASE Begins(c)
  BY <1>1 DEF Begins, FirstPhase
<1>2. ASSUME NEW i \in DOMAIN registered, Finds(c, i)
      PROVE  NumberInv'
  BY <1>2 DEF Finds, PhaseAfterLookup, Writers
<1>3. CASE pc[c] = "register" /\ Registers(c)
  BY <1>3 DEF Registers, FreshInv
<1>4. ASSUME NEW i \in DOMAIN registered, pc[c] = "rename", Renames(c, i)
      PROVE  NumberInv'
  BY <1>4 DEF Renames
<1>5. ASSUME NEW i \in DOMAIN registered, pc[c] = "remove", Removes(c, i)
      PROVE  NumberInv'
  BY <1>5 DEF Removes
<1>6. CASE pc[c] = "purge" /\ Visits(c, "purging", VersionsOf(target[c]))
  BY <1>6 DEF Visits
<1>7. ASSUME NEW k \in DOMAIN versions, Purges(c, k)
      PROVE  NumberInv'
  BY <1>7 DEF Purges
<1>8. CASE pc[c] = "allocate" /\ Allocates(c)
  <2> DEFINE i == target[c]
             n == registered[i].version_counter + 1
  <2>1. /\ i \in DOMAIN registered /\ i \in Calls
        /\ n \in Nat /\ issued[i] \in Nat /\ n = issued[i] + 1
    BY <1>8 DEF Allocates
  <2>2. \A j \in Calls : /\ issued[j] \in Nat /\ issued'[j] \in Nat
                         /\ issued'[j] = IF j = i THEN n ELSE issued[j]
    BY <1>8, <2>1 DEF Allocates
  <2>3. \A k \in created : /\ k \in Calls \X Nat /\ k[2] <= issued[k[1]]
                           /\ k[2] <= issued'[k[1]] /\ k # <<i, n>>
    BY <2>1, <2>2
  <2>4. \A d \in Calls \ {c} : pc[d] = "insert" =>
           /\ number[d] \in Nat /\ number[d] <= issued[target[d]]
           /\ number[d] <= issued'[target[d]]
           /\ target[d] = i => number[d] # n
    <3> HIDE DEF PhaseInv, n
    <3>1. \A d \in Calls : pc[d] = "insert" =>
             target[d] \in Calls /\ number[d] \in Nat /\ number[d] <= issued[target[d]]
      OBVIOUS
    <3> QED
      BY <2>1, <2>2, <3>1
  <2>5. \A j \in DOMAIN registered' : issued'[j] = registered'[j].version_counter
    BY <1>8, <2>1, <2>2 DEF Allocates
  <2>6. /\ pc'[c] = "insert" /\ number'[c] = n
        /\ \A d \in Calls \ {c} : pc'[d] = pc[d] /\ number'[d] = number[d]
        /\ UNCHANGED <<target, created, versions>>
    BY <1>8 DEF Allocates
  <2> QED
    <3> HIDE DEF n
    <3>1. \A k \in created' : k[2] <= issued'[k[1]]
      BY <2>3, <2>6
    <3>2. ASSUME NEW d \in Calls, pc'[d] = "insert"
          PROVE  /\ number'[d] <= issued'[target'[d]]
                 /\ <<target'[d], number'[d]>> \notin created'
      BY <2>1, <2>2, <2>3, <2>4, <2>6, <3>2
    <3>3. ASSUME NEW d \in Calls, NEW e \in Calls, pc'[d] = "insert", pc'[e] = "insert",
                 target'[d] = target'[e], number'[d] = number'[e]
          PROVE  d = e
      BY <2>4, <2>6, <3>3
    <3> QED
      BY <2>5, <2>6, <3>1, <3>2, <3>3
<1>9. CASE pc[c] = "insert" /\ Inserts(c)
  BY <1>9 DEF Inserts
<1>10. CASE pc[c] = "transition" /\ Transitions(c)
  BY <1>10 DEF Transitions, StageBecomes
<1>11. CASE pc[c] = "archive" /\ Visits(c, "archiving", Peers(c))
  BY <1>11 DEF Visits
<1>12. ASSUME NEW k \in DOMAIN versions, Archives(c, k)
       PROVE  NumberInv'
  BY <1>12 DEF Archives, StageBecomes
<1>13. CASE pc[c] = "redact" /\ Redacts(c)
  BY <1>13 DEF Redacts, StageBecomes
<1>14. CASE pc[c] = "unalias" /\ Unaliases(c)
  BY <1>14 DEF Unaliases
<1>15. ASSUME NEW i \in DOMAIN registered, pc[c] = "alias", SetsAlias(c, i, request[c].version)
       PROVE  NumberInv'
  BY <1>15 DEF SetsAlias
<1>16. ASSUME NEW i \in DOMAIN registered, pc[c] = "unset", SetsAlias(c, i, 0)
       PROVE  NumberInv'
  BY <1>16 DEF SetsAlias
<1>17. ASSUME NEW i \in DOMAIN registered, pc[c] = "resolve", Resolves(c, i)
       PROVE  NumberInv'
  BY <1>17 DEF Resolves, Fail, Goto
<1>18. CASE Continues(c)
  BY <1>18 DEF Continues
<1>19. ASSUME NEW e \in Errors, FailsAsSpecified(c, e)
       PROVE  NumberInv'
  BY <1>19 DEF FailsAsSpecified, Fails
<1> QED
  BY <1>1, <1>2, <1>3, <1>4, <1>5, <1>6, <1>7, <1>8, <1>9, <1>10, <1>11,
     <1>12, <1>13, <1>14, <1>15, <1>16, <1>17, <1>18, <1>19 DEF CallEffect


LEMMA AllocatedStep ==
    ASSUME TypeOK, NumberInv, AllocatedVersionsAreFree,
           NEW c \in Calls, CallEffect(c)
    PROVE  AllocatedVersionsAreFree'
<1> USE DEF TypeOK, NumberInv, AllocatedVersionsAreFree, Moves, Frame
<1>1. CASE Begins(c)
  BY <1>1 DEF Begins
<1>2. ASSUME NEW i \in DOMAIN registered, Finds(c, i)
      PROVE  AllocatedVersionsAreFree'
  BY <1>2 DEF Finds
<1>3. CASE pc[c] = "register" /\ Registers(c)
  BY <1>3 DEF Registers
<1>4. ASSUME NEW i \in DOMAIN registered, pc[c] = "rename", Renames(c, i)
      PROVE  AllocatedVersionsAreFree'
  BY <1>4 DEF Renames
<1>5. ASSUME NEW i \in DOMAIN registered, pc[c] = "remove", Removes(c, i)
      PROVE  AllocatedVersionsAreFree'
  BY <1>5 DEF Removes
<1>6. CASE pc[c] = "purge" /\ Visits(c, "purging", VersionsOf(target[c]))
  BY <1>6 DEF Visits
<1>7. ASSUME NEW k \in DOMAIN versions, Purges(c, k)
      PROVE  AllocatedVersionsAreFree'
  BY <1>7 DEF Purges
<1>8. CASE pc[c] = "allocate" /\ Allocates(c)
  BY <1>8 DEF Allocates
<1>9. CASE pc[c] = "insert" /\ Inserts(c)
  BY <1>9 DEF Inserts
<1>10. CASE pc[c] = "transition" /\ Transitions(c)
  BY <1>10 DEF Transitions
<1>11. CASE pc[c] = "archive" /\ Visits(c, "archiving", Peers(c))
  BY <1>11 DEF Visits
<1>12. ASSUME NEW k \in DOMAIN versions, Archives(c, k)
       PROVE  AllocatedVersionsAreFree'
  BY <1>12 DEF Archives
<1>13. CASE pc[c] = "redact" /\ Redacts(c)
  BY <1>13 DEF Redacts
<1>14. CASE pc[c] = "unalias" /\ Unaliases(c)
  BY <1>14 DEF Unaliases
<1>15. ASSUME NEW i \in DOMAIN registered, pc[c] = "alias", SetsAlias(c, i, request[c].version)
       PROVE  AllocatedVersionsAreFree'
  BY <1>15 DEF SetsAlias
<1>16. ASSUME NEW i \in DOMAIN registered, pc[c] = "unset", SetsAlias(c, i, 0)
       PROVE  AllocatedVersionsAreFree'
  BY <1>16 DEF SetsAlias
<1>17. ASSUME NEW i \in DOMAIN registered, pc[c] = "resolve", Resolves(c, i)
       PROVE  AllocatedVersionsAreFree'
  BY <1>17 DEF Resolves, Fail, Goto
<1>18. CASE Continues(c)
  BY <1>18 DEF Continues
<1>19. ASSUME NEW e \in Errors, FailsAsSpecified(c, e)
       PROVE  AllocatedVersionsAreFree'
  BY <1>19 DEF FailsAsSpecified, Fails
<1> QED
  BY <1>1, <1>2, <1>3, <1>4, <1>5, <1>6, <1>7, <1>8, <1>9, <1>10, <1>11,
     <1>12, <1>13, <1>14, <1>15, <1>16, <1>17, <1>18, <1>19 DEF CallEffect

LEMMA RemovedStep ==
    ASSUME TypeOK, PhaseInv, TargetInv, FreshInv, RemovedInv,
           NEW c \in Calls, CallEffect(c)
    PROVE  RemovedInv'
<1> USE RequestTypes
    DEF TypeOK, PhaseInv, TargetInv, RemovedInv, IsRegistered, Running, Moves, Frame
<1>1. CASE Begins(c)
  <2>1. target[c] = NoModel /\ target[c] \notin Calls
    BY <1>1, NoModelAssumption DEF Begins
  <2>2. FirstPhase(request[c].op) \notin {"check", "alias"}
    BY DEF FirstPhase
  <2> QED
    BY <1>1, <2>1, <2>2 DEF Begins
<1>2. ASSUME NEW i \in DOMAIN registered, Finds(c, i)
      PROVE  RemovedInv'
  BY <1>2 DEF Finds, PhaseAfterLookup, Writers
<1>3. CASE pc[c] = "register" /\ Registers(c)
  BY <1>3 DEF Registers, FreshInv, Writers
<1>4. ASSUME NEW i \in DOMAIN registered, pc[c] = "rename", Renames(c, i)
      PROVE  RemovedInv'
  BY <1>4 DEF Renames, AliasersOf, UsersOf, Writers
<1>5. ASSUME NEW i \in DOMAIN registered, pc[c] = "remove", Removes(c, i)
      PROVE  RemovedInv'
  BY <1>5 DEF Removes, UsersOf, Writers
<1>6. CASE pc[c] = "purge" /\ Visits(c, "purging", VersionsOf(target[c]))
  BY <1>6 DEF Visits
<1>7. ASSUME NEW k \in DOMAIN versions, Purges(c, k)
      PROVE  RemovedInv'
  BY <1>7 DEF Purges
<1>8. CASE pc[c] = "allocate" /\ Allocates(c)
  BY <1>8 DEF Allocates
<1>9. CASE pc[c] = "insert" /\ Inserts(c)
  BY <1>9 DEF Inserts
<1>10. CASE pc[c] = "transition" /\ Transitions(c)
  BY <1>10 DEF Transitions
<1>11. CASE pc[c] = "archive" /\ Visits(c, "archiving", Peers(c))
  BY <1>11 DEF Visits
<1>12. ASSUME NEW k \in DOMAIN versions, Archives(c, k)
       PROVE  RemovedInv'
  BY <1>12 DEF Archives
<1>13. CASE pc[c] = "redact" /\ Redacts(c)
  BY <1>13 DEF Redacts, AliasersOf, UsersOf
<1>14. CASE pc[c] = "unalias" /\ Unaliases(c)
  BY <1>14 DEF Unaliases
<1>15. ASSUME NEW i \in DOMAIN registered, pc[c] = "alias", SetsAlias(c, i, request[c].version)
       PROVE  RemovedInv'
  BY <1>15 DEF SetsAlias, Writers
<1>16. ASSUME NEW i \in DOMAIN registered, pc[c] = "unset", SetsAlias(c, i, 0)
       PROVE  RemovedInv'
  BY <1>16 DEF SetsAlias
<1>17. ASSUME NEW i \in DOMAIN registered, pc[c] = "resolve", Resolves(c, i)
       PROVE  RemovedInv'
  BY <1>17 DEF Resolves, Fail, Goto, Writers
<1>18. CASE Continues(c)
  BY <1>18 DEF Continues
<1>19. ASSUME NEW e \in Errors, FailsAsSpecified(c, e)
       PROVE  RemovedInv'
  BY <1>19 DEF FailsAsSpecified, Fails
<1> QED
  BY <1>1, <1>2, <1>3, <1>4, <1>5, <1>6, <1>7, <1>8, <1>9, <1>10, <1>11,
     <1>12, <1>13, <1>14, <1>15, <1>16, <1>17, <1>18, <1>19 DEF CallEffect


LEMMA CheckedStep ==
    ASSUME TypeOK, PhaseInv, TargetInv, FreshInv, CheckedInv, PurgeInv,
           NEW c \in Calls, CallEffect(c)
    PROVE  CheckedInv'
<1> USE RequestTypes
    DEF TypeOK, PhaseInv, TargetInv, CheckedInv, IsRegistered, Running, Live, VersionOf,
        Moves, Frame
<1>1. CASE Begins(c)
  <2>1. target[c] = NoModel /\ target[c] \notin Calls
    BY <1>1, NoModelAssumption DEF Begins
  <2>2. FirstPhase(request[c].op) \notin {"check", "alias"}
    BY DEF FirstPhase
  <2> QED
    BY <1>1, <2>1, <2>2 DEF Begins
<1>2. ASSUME NEW i \in DOMAIN registered, Finds(c, i)
      PROVE  CheckedInv'
  BY <1>2 DEF Finds, PhaseAfterLookup, Writers
<1>3. CASE pc[c] = "register" /\ Registers(c)
  BY <1>3 DEF Registers, FreshInv
<1>4. ASSUME NEW i \in DOMAIN registered, pc[c] = "rename", Renames(c, i)
      PROVE  CheckedInv'
  BY <1>4 DEF Renames, AliasersOf, UsersOf
<1>5. ASSUME NEW i \in DOMAIN registered, pc[c] = "remove", Removes(c, i)
      PROVE  CheckedInv'
  BY <1>5 DEF Removes, UsersOf
<1>6. CASE pc[c] = "purge" /\ Visits(c, "purging", VersionsOf(target[c]))
  BY <1>6 DEF Visits
<1>7. ASSUME NEW k \in DOMAIN versions, Purges(c, k)
      PROVE  CheckedInv'
  BY <1>7 DEF Purges, PurgeInv, VersionsOf
<1>8. CASE pc[c] = "allocate" /\ Allocates(c)
  BY <1>8 DEF Allocates
<1>9. CASE pc[c] = "insert" /\ Inserts(c)
  BY <1>9 DEF Inserts
<1>10. CASE pc[c] = "transition" /\ Transitions(c)
  BY <1>10 DEF Transitions, StageBecomes, Deleted, Stages, ActiveStages
<1>11. CASE pc[c] = "archive" /\ Visits(c, "archiving", Peers(c))
  BY <1>11 DEF Visits
<1>12. ASSUME NEW k \in DOMAIN versions, Archives(c, k)
       PROVE  CheckedInv'
  BY <1>12 DEF Archives, StageBecomes, Deleted, Stages, ActiveStages
<1>13. CASE pc[c] = "redact" /\ Redacts(c)
  BY <1>13 DEF Redacts, StageBecomes, AliasersOf, UsersOf
<1>14. CASE pc[c] = "unalias" /\ Unaliases(c)
  BY <1>14 DEF Unaliases
<1>15. ASSUME NEW i \in DOMAIN registered, pc[c] = "alias", SetsAlias(c, i, request[c].version)
       PROVE  CheckedInv'
  BY <1>15 DEF SetsAlias
<1>16. ASSUME NEW i \in DOMAIN registered, pc[c] = "unset", SetsAlias(c, i, 0)
       PROVE  CheckedInv'
  BY <1>16 DEF SetsAlias
<1>17. ASSUME NEW i \in DOMAIN registered, pc[c] = "resolve", Resolves(c, i)
       PROVE  CheckedInv'
  BY <1>17 DEF Resolves, Fail, Goto
<1>18. CASE Continues(c)
  <2>1. ASSUME NEW d \in Calls, pc'[d] \in {"check", "alias"}, d \notin raced
        PROVE  /\ pc[d] \in {"check", "alias"}
               /\ pc'[d] = "alias" => pc[d] = "alias" \/ Live(VersionOf(d))
    <3> HIDE DEF PhaseInv, TargetInv, CheckedInv, Live
    <3>1. CASE pc[c] = "check" /\ Moves(c, "alias") /\ Live(VersionOf(c))
      BY <2>1, <3>1
    <3>2. CASE pc[c] # "check" /\ \E p : Moves(c, p) /\ p \notin {"check", "alias"}
      BY <2>1, <3>2
    <3> QED
      BY <1>18, <3>1, <3>2 DEF Continues
  <2>2. UNCHANGED <<registered, versions, request, target, raced>>
    BY <1>18 DEF Continues
  <2> QED
    BY <2>1, <2>2
<1>19. ASSUME NEW e \in Errors, FailsAsSpecified(c, e)
       PROVE  CheckedInv'
  BY <1>19 DEF FailsAsSpecified, Fails
<1> QED
  BY <1>1, <1>2, <1>3, <1>4, <1>5, <1>6, <1>7, <1>8, <1>9, <1>10, <1>11,
     <1>12, <1>13, <1>14, <1>15, <1>16, <1>17, <1>18, <1>19 DEF CallEffect


LEMMA RacedStep ==
    ASSUME TypeOK, PhaseInv, TargetInv, RacedInv,
           NEW c \in Calls, CallEffect(c)
    PROVE  RacedInv'
<1> USE RequestTypes DEF TypeOK, PhaseInv, TargetInv, RacedInv, Running, Moves, Frame
<1>1. CASE Begins(c)
  BY <1>1 DEF Begins
<1>2. ASSUME NEW i \in DOMAIN registered, Finds(c, i)
      PROVE  RacedInv'
  BY <1>2 DEF Finds
<1>3. CASE pc[c] = "register" /\ Registers(c)
  BY <1>3 DEF Registers
<1>4. ASSUME NEW i \in DOMAIN registered, pc[c] = "rename", Renames(c, i)
      PROVE  RacedInv'
  BY <1>4 DEF Renames, AliasersOf, UsersOf
<1>5. ASSUME NEW i \in DOMAIN registered, pc[c] = "remove", Removes(c, i)
      PROVE  RacedInv'
  BY <1>5 DEF Removes, UsersOf
<1>6. CASE pc[c] = "purge" /\ Visits(c, "purging", VersionsOf(target[c]))
  BY <1>6 DEF Visits
<1>7. ASSUME NEW k \in DOMAIN versions, Purges(c, k)
      PROVE  RacedInv'
  BY <1>7 DEF Purges
<1>8. CASE pc[c] = "allocate" /\ Allocates(c)
  BY <1>8 DEF Allocates
<1>9. CASE pc[c] = "insert" /\ Inserts(c)
  BY <1>9 DEF Inserts
<1>10. CASE pc[c] = "transition" /\ Transitions(c)
  BY <1>10 DEF Transitions
<1>11. CASE pc[c] = "archive" /\ Visits(c, "archiving", Peers(c))
  BY <1>11 DEF Visits
<1>12. ASSUME NEW k \in DOMAIN versions, Archives(c, k)
       PROVE  RacedInv'
  BY <1>12 DEF Archives
<1>13. CASE pc[c] = "redact" /\ Redacts(c)
  BY <1>13 DEF Redacts, AliasersOf, UsersOf
<1>14. CASE pc[c] = "unalias" /\ Unaliases(c)
  BY <1>14 DEF Unaliases
<1>15. ASSUME NEW i \in DOMAIN registered, pc[c] = "alias", SetsAlias(c, i, request[c].version)
       PROVE  RacedInv'
  BY <1>15 DEF SetsAlias
<1>16. ASSUME NEW i \in DOMAIN registered, pc[c] = "unset", SetsAlias(c, i, 0)
       PROVE  RacedInv'
  BY <1>16 DEF SetsAlias
<1>17. ASSUME NEW i \in DOMAIN registered, pc[c] = "resolve", Resolves(c, i)
       PROVE  RacedInv'
  BY <1>17 DEF Resolves, Fail, Goto
<1>18. CASE Continues(c)
  BY <1>18 DEF Continues
<1>19. ASSUME NEW e \in Errors, FailsAsSpecified(c, e)
       PROVE  RacedInv'
  BY <1>19 DEF FailsAsSpecified, Fails
<1> QED
  BY <1>1, <1>2, <1>3, <1>4, <1>5, <1>6, <1>7, <1>8, <1>9, <1>10, <1>11,
     <1>12, <1>13, <1>14, <1>15, <1>16, <1>17, <1>18, <1>19 DEF CallEffect


LEMMA PurgeStep ==
    ASSUME TypeOK, PhaseInv, TargetInv, FreshInv, RemovedInv, RacedInv, PurgeInv,
           NEW c \in Calls, CallEffect(c)
    PROVE  PurgeInv'
<1> USE RequestTypes
    DEF TypeOK, PhaseInv, TargetInv, RacedInv, PurgeInv, IsRegistered, VersionsOf, Moves,
        Frame
<1>1. CASE Begins(c)
  <2>1. FirstPhase(request[c].op) \notin {"purge", "purging"}
    BY DEF FirstPhase
  <2> QED
    BY <1>1, <2>1 DEF Begins
<1>2. ASSUME NEW i \in DOMAIN registered, Finds(c, i)
      PROVE  PurgeInv'
  BY <1>2 DEF Finds, PhaseAfterLookup, Writers
<1>3. CASE pc[c] = "register" /\ Registers(c)
  BY <1>3 DEF Registers, FreshInv
<1>4. ASSUME NEW i \in DOMAIN registered, pc[c] = "rename", Renames(c, i)
      PROVE  PurgeInv'
  BY <1>4 DEF Renames
<1>5. ASSUME NEW i \in DOMAIN registered, pc[c] = "remove", Removes(c, i)
      PROVE  PurgeInv'
  BY <1>5 DEF Removes
<1>6. CASE pc[c] = "purge" /\ Visits(c, "purging", VersionsOf(target[c]))
  BY <1>6 DEF Visits
<1>7. ASSUME NEW k \in DOMAIN versions, Purges(c, k)
      PROVE  PurgeInv'
  BY <1>7 DEF Purges
<1>8. CASE pc[c] = "allocate" /\ Allocates(c)
  BY <1>8 DEF Allocates
<1>9. CASE pc[c] = "insert" /\ Inserts(c)
  BY <1>9 DEF Inserts, RemovedInv, Writers, Running
<1>10. CASE pc[c] = "transition" /\ Transitions(c)
  BY <1>10 DEF Transitions, StageBecomes
<1>11. CASE pc[c] = "archive" /\ Visits(c, "archiving", Peers(c))
  BY <1>11 DEF Visits
<1>12. ASSUME NEW k \in DOMAIN versions, Archives(c, k)
       PROVE  PurgeInv'
  BY <1>12 DEF Archives, StageBecomes
<1>13. CASE pc[c] = "redact" /\ Redacts(c)
  BY <1>13 DEF Redacts, StageBecomes
<1>14. CASE pc[c] = "unalias" /\ Unaliases(c)
  BY <1>14 DEF Unaliases
<1>15. ASSUME NEW i \in DOMAIN registered, pc[c] = "alias", SetsAlias(c, i, request[c].version)
       PROVE  PurgeInv'
  BY <1>15 DEF SetsAlias
<1>16. ASSUME NEW i \in DOMAIN registered, pc[c] = "unset", SetsAlias(c, i, 0)
       PROVE  PurgeInv'
  BY <1>16 DEF SetsAlias
<1>17. ASSUME NEW i \in DOMAIN registered, pc[c] = "resolve", Resolves(c, i)
       PROVE  PurgeInv'
  BY <1>17 DEF Resolves, Fail, Goto
<1>18. CASE Continues(c)
  BY <1>18 DEF Continues
<1>19. ASSUME NEW e \in Errors, FailsAsSpecified(c, e)
       PROVE  PurgeInv'
  BY <1>19 DEF FailsAsSpecified, Fails
<1> QED
  BY <1>1, <1>2, <1>3, <1>4, <1>5, <1>6, <1>7, <1>8, <1>9, <1>10, <1>11,
     <1>12, <1>13, <1>14, <1>15, <1>16, <1>17, <1>18, <1>19 DEF CallEffect

(* What a call has resolved and what has been created or raced stays. *)
Resolved ==
    /\ \A c \in Calls : target[c] \in Calls => target'[c] = target[c]
    /\ \A c \in Calls : number[c] # 0 => number'[c] = number[c] /\ target'[c] = target[c]
    /\ created \subseteq created' /\ raced \subseteq raced'

LEMMA ResolvedStays ==
    ASSUME TypeOK, PhaseInv, TargetInv,
           NEW c \in Calls, CallEffect(c)
    PROVE  Resolved
<1> USE NoModelAssumption DEF TypeOK, PhaseInv, TargetInv, Resolved, Moves, Frame
<1>1. CASE Begins(c)
  BY <1>1 DEF Begins
<1>2. ASSUME NEW i \in DOMAIN registered, Finds(c, i)
      PROVE  Resolved
  BY <1>2 DEF Finds
<1>3. CASE pc[c] = "register" /\ Registers(c)
  BY <1>3 DEF Registers
<1>4. ASSUME NEW i \in DOMAIN registered, pc[c] = "rename", Renames(c, i)
      PROVE  Resolved
  BY <1>4 DEF Renames
<1>5. ASSUME NEW i \in DOMAIN registered, pc[c] = "remove", Removes(c, i)
      PROVE  Resolved
  BY <1>5 DEF Removes
<1>6. CASE pc[c] = "purge" /\ Visits(c, "purging", VersionsOf(target[c]))
  BY <1>6 DEF Visits
<1>7. ASSUME NEW k \in DOMAIN versions, Purges(c, k)
      PROVE  Resolved
  BY <1>7 DEF Purges
<1>8. CASE pc[c] = "allocate" /\ Allocates(c)
  BY <1>8 DEF Allocates
<1>9. CASE pc[c] = "insert" /\ Inserts(c)
  BY <1>9 DEF Inserts
<1>10. CASE pc[c] = "transition" /\ Transitions(c)
  BY <1>10 DEF Transitions
<1>11. CASE pc[c] = "archive" /\ Visits(c, "archiving", Peers(c))
  BY <1>11 DEF Visits
<1>12. ASSUME NEW k \in DOMAIN versions, Archives(c, k)
       PROVE  Resolved
  BY <1>12 DEF Archives
<1>13. CASE pc[c] = "redact" /\ Redacts(c)
  BY <1>13 DEF Redacts
<1>14. CASE pc[c] = "unalias" /\ Unaliases(c)
  BY <1>14 DEF Unaliases
<1>15. ASSUME NEW i \in DOMAIN registered, pc[c] = "alias", SetsAlias(c, i, request[c].version)
       PROVE  Resolved
  BY <1>15 DEF SetsAlias
<1>16. ASSUME NEW i \in DOMAIN registered, pc[c] = "unset", SetsAlias(c, i, 0)
       PROVE  Resolved
  BY <1>16 DEF SetsAlias
<1>17. ASSUME NEW i \in DOMAIN registered, pc[c] = "resolve", Resolves(c, i)
       PROVE  Resolved
  BY <1>17 DEF Resolves
<1>18. CASE Continues(c)
  BY <1>18 DEF Continues
<1>19. ASSUME NEW e \in Errors, FailsAsSpecified(c, e)
       PROVE  Resolved
  BY <1>19 DEF FailsAsSpecified, Fails
<1> QED
  BY <1>1, <1>2, <1>3, <1>4, <1>5, <1>6, <1>7, <1>8, <1>9, <1>10, <1>11,
     <1>12, <1>13, <1>14, <1>15, <1>16, <1>17, <1>18, <1>19 DEF CallEffect


LEMMA DeletedStays ==
    ASSUME TypeOK, PhaseInv, TargetInv, NumberInv,
           NEW c \in Calls, CallEffect(c)
    PROVE  \A x \in created : ~Live(x) => ~Live(x)'
<1> USE RequestTypes DEF TypeOK, TargetInv, NumberInv, Live, StageBecomes, Moves, Frame
<1>1. CASE Begins(c)
  BY <1>1 DEF Begins
<1>2. ASSUME NEW i \in DOMAIN registered, Finds(c, i)
      PROVE  \A x \in created : ~Live(x) => ~Live(x)'
  BY <1>2 DEF Finds
<1>3. CASE pc[c] = "register" /\ Registers(c)
  BY <1>3 DEF Registers
<1>4. ASSUME NEW i \in DOMAIN registered, pc[c] = "rename", Renames(c, i)
      PROVE  \A x \in created : ~Live(x) => ~Live(x)'
  BY <1>4 DEF Renames
<1>5. ASSUME NEW i \in DOMAIN registered, pc[c] = "remove", Removes(c, i)
      PROVE  \A x \in created : ~Live(x) => ~Live(x)'
  BY <1>5 DEF Removes
<1>6. CASE pc[c] = "purge" /\ Visits(c, "purging", VersionsOf(target[c]))
  BY <1>6 DEF Visits
<1>7. ASSUME NEW k \in DOMAIN versions, Purges(c, k)
      PROVE  \A x \in created : ~Live(x) => ~Live(x)'
  BY <1>7 DEF Purges
<1>8. CASE pc[c] = "allocate" /\ Allocates(c)
  BY <1>8 DEF Allocates
<1>9. CASE pc[c] = "insert" /\ Inserts(c)
  BY <1>9 DEF Inserts
<1>10. CASE pc[c] = "transition" /\ Transitions(c)
  BY <1>10 DEF Transitions
<1>11. CASE pc[c] = "archive" /\ Visits(c, "archiving", Peers(c))
  BY <1>11 DEF Visits
<1>12. ASSUME NEW k \in DOMAIN versions, Archives(c, k)
       PROVE  \A x \in created : ~Live(x) => ~Live(x)'
  BY <1>12 DEF Archives, Peers, VersionsOf, Stages, ActiveStages, Deleted
<1>13. CASE pc[c] = "redact" /\ Redacts(c)
  BY <1>13 DEF Redacts
<1>14. CASE pc[c] = "unalias" /\ Unaliases(c)
  BY <1>14 DEF Unaliases
<1>15. ASSUME NEW i \in DOMAIN registered, pc[c] = "alias", SetsAlias(c, i, request[c].version)
       PROVE  \A x \in created : ~Live(x) => ~Live(x)'
  BY <1>15 DEF SetsAlias
<1>16. ASSUME NEW i \in DOMAIN registered, pc[c] = "unset", SetsAlias(c, i, 0)
       PROVE  \A x \in created : ~Live(x) => ~Live(x)'
  BY <1>16 DEF SetsAlias
<1>17. ASSUME NEW i \in DOMAIN registered, pc[c] = "resolve", Resolves(c, i)
       PROVE  \A x \in created : ~Live(x) => ~Live(x)'
  BY <1>17 DEF Resolves
<1>18. CASE Continues(c)
  BY <1>18 DEF Continues
<1>19. ASSUME NEW e \in Errors, FailsAsSpecified(c, e)
       PROVE  \A x \in created : ~Live(x) => ~Live(x)'
  BY <1>19 DEF FailsAsSpecified, Fails
<1> QED
  BY <1>1, <1>2, <1>3, <1>4, <1>5, <1>6, <1>7, <1>8, <1>9, <1>10, <1>11,
     <1>12, <1>13, <1>14, <1>15, <1>16, <1>17, <1>18, <1>19 DEF CallEffect


-----------------------------------------------------------------------------
(* The deletion of i has not finished, or failed. *)
Deleting(i) ==
    \E c \in Calls : /\ request[c].op = "delete_model"
                     /\ target[c] = i
                     /\ \/ pc[c] \in {"purge", "purging"}
                        \/ error[c] = "persistence"

LEMMA OrphansKept ==
    ASSUME TypeOK, Resolved, request' = request, OrphansComeOnlyByRaces,
           DOMAIN versions' \subseteq DOMAIN versions,
           \A i \in DOMAIN registered :
              i \in DOMAIN registered' \/ Deleting(i)',
           \A i \in Calls \ DOMAIN registered :
              Deleting(i) =>
                 \/ Deleting(i)'
                 \/ \A k \in VersionsOf(i) :
                       \E d \in raced : <<target[d], number[d]>> = k
    PROVE  OrphansComeOnlyByRaces'
<1> SUFFICES ASSUME NEW k \in DOMAIN versions', ~IsRegistered(k[1])', ~Deleting(k[1])'
             PROVE  \E c \in raced' : <<target'[c], number'[c]>> = k
  BY DEF OrphansComeOnlyByRaces, Deleting
<1>1. k \in DOMAIN versions /\ k \in Calls \X (Nat \ {0}) /\ k = <<k[1], k[2]>> /\ k[2] # 0
  BY DEF TypeOK
<1>2. k[1] \notin DOMAIN registered
  BY <1>1 DEF IsRegistered
<1>3. \E d \in raced : <<target[d], number[d]>> = k
  BY <1>1, <1>2 DEF OrphansComeOnlyByRaces, IsRegistered, Deleting, VersionsOf
<1>4. PICK d \in raced : <<target[d], number[d]>> = k
  BY <1>3
<1>5. number[d] # 0 /\ d \in Calls
  BY <1>1, <1>4 DEF TypeOK
<1> QED
  BY <1>4, <1>5 DEF Resolved

(* A deletion of a model goes on until it has visited every version. *)
LEMMA DeletingStays ==
    ASSUME TypeOK, PhaseInv, TargetInv, RequestInv, PurgeInv,
           NEW c \in Calls, CallEffect(c), NEW i \in Calls, Deleting(i)
    PROVE  \/ Deleting(i)'
           \/ \A k \in VersionsOf(i) : \E d \in raced : <<target[d], number[d]>> = k
<1>0. Resolved /\ request' = request
  BY ResolvedStays, RequestStep
<1>1. PICK d \in Calls : /\ request[d].op = "delete_model"
                         /\ target[d] = i
                         /\ \/ pc[d] \in {"purge", "purging"}
                            \/ error[d] = "persistence"
  BY DEF Deleting
<1>2. target'[d] = i /\ request'[d].op = "delete_model"
  BY <1>0, <1>1 DEF Resolved
<1>3. CASE d # c
  <2>1. pc'[d] = pc[d] /\ error'[d] = error[d]
    BY <1>3 DEF TypeOK, CallEffect, Begins, Finds, Registers, Renames, Removes, Visits,
                Purges, Allocates, Inserts, Transitions, Archives, Redacts, Unaliases,
                SetsAlias, Resolves, Continues, FailsAsSpecified, Fails, Fail, Goto, Moves
  <2> QED
    BY <1>1, <1>2, <2>1 DEF Deleting
<1>4. CASE d = c
  <2>1. pc[c] \in {"purge", "purging"} \/ (pc[c] = "failed" /\ error[c] = "persistence")
    BY <1>1, <1>4 DEF PhaseInv
  <2>2. \/ pc'[c] \in {"purge", "purging"}
        \/ error'[c] = "persistence"
        \/ pc[c] = "purging" /\ visiting[c] = {}
    BY <2>1 DEF TypeOK, CallEffect, Begins, Finds, Registers, Renames, Removes, Visits,
                Purges, Allocates, Inserts, Transitions, Archives, Redacts, Unaliases,
                SetsAlias, Resolves, Continues, FailsAsSpecified, Fails, Fail, Goto, Moves,
                Frame, Running
  <2>3. CASE pc[c] = "purging" /\ visiting[c] = {}
    BY <1>1, <1>4, <2>3 DEF PurgeInv
  <2>4. CASE pc'[c] \in {"purge", "purging"} \/ error'[c] = "persistence"
    BY <1>2, <1>4, <2>4 DEF Deleting
  <2> QED
    BY <2>2, <2>3, <2>4
<1> QED
  BY <1>3, <1>4

LEMMA OrphansStep ==
    ASSUME TypeOK, PhaseInv, TargetInv, RequestInv, RemovedInv, RacedInv, PurgeInv,
           OrphansComeOnlyByRaces, NEW c \in Calls, CallEffect(c)
    PROVE  OrphansComeOnlyByRaces'
<1>0. Resolved /\ request' = request
  BY ResolvedStays, RequestStep
<1>1. \A i \in Calls : Deleting(i) =>
         \/ Deleting(i)'
         \/ \A k \in VersionsOf(i) : \E d \in raced : <<target[d], number[d]>> = k
  BY DeletingStays
<1>2. ASSUME NEW i \in DOMAIN registered, pc[c] = "remove", Removes(c, i)
      PROVE  OrphansComeOnlyByRaces'
  <2>1. \A j \in Calls : j = i => Deleting(j)'
    BY <1>0, <1>2 DEF Removes, Moves, TypeOK, PhaseInv, Deleting
  <2>2. /\ DOMAIN versions' \subseteq DOMAIN versions
        /\ \A j \in DOMAIN registered : j \in DOMAIN registered' \/ j = i
    BY <1>2 DEF Removes
  <2>3. \A j \in DOMAIN registered : j \in DOMAIN registered' \/ Deleting(j)'
    BY <2>1, <2>2 DEF TypeOK
  <2> QED
    BY <1>0, <1>1, <2>2, <2>3, OrphansKept
<1>3. CASE pc[c] = "insert" /\ Inserts(c)
  <2> DEFINE k == <<target[c], number[c]>>
  <2>1. DOMAIN versions' = DOMAIN versions \union {k} /\ UNCHANGED <<registered, raced>>
    BY <1>3 DEF Inserts
  <2>2. target[c] \in Calls /\ number[c] # 0
    BY <1>3 DEF TargetInv
  <2>3. IsRegistered(target[c]) \/ c \in raced
    BY <1>3, <2>2 DEF RemovedInv, PhaseInv, Writers, Running
  <2>4. \A i \in Calls : Deleting(i) => Deleting(i)'
    <3>1. UNCHANGED <<request, target, error>>
          /\ \A d \in Calls : d # c => pc'[d] = pc[d]
      BY <1>3 DEF Inserts, Moves, TypeOK
    <3>2. request[c].op # "delete_model"
      BY <1>3 DEF PhaseInv
    <3> QED
      BY <3>1, <3>2 DEF Deleting
  <2>5. ASSUME NEW x \in DOMAIN versions
        PROVE  \/ IsRegistered(x[1])'
               \/ Deleting(x[1])'
               \/ \E d \in raced' : <<target'[d], number'[d]>> = x
    <3>1. x[1] \in Calls /\ x[2] # 0 /\ x = <<x[1], x[2]>>
      BY DEF TypeOK
    <3>2. \A d \in raced : <<target[d], number[d]>> = x => number[d] # 0 /\ d \in Calls
      BY <3>1 DEF TypeOK
    <3> QED
      BY <1>0, <2>1, <2>4, <3>1, <3>2
         DEF OrphansComeOnlyByRaces, Deleting, IsRegistered, Resolved
  <2>6. k[1] = target[c] /\ <<target'[c], number'[c]>> = k
    BY <1>3 DEF Inserts
  <2> QED
    BY <2>1, <2>3, <2>5, <2>6 DEF OrphansComeOnlyByRaces, Deleting, IsRegistered
<1>4. CASE /\ DOMAIN versions' \subseteq DOMAIN versions
           /\ DOMAIN registered \subseteq DOMAIN registered'
  BY <1>0, <1>1, <1>4, OrphansKept
<1> QED
  BY <1>2, <1>3, <1>4
     DEF CallEffect, Begins, Finds, Registers, Renames, Visits, Purges, Allocates,
         Transitions, Archives, StageBecomes, Redacts, Unaliases, SetsAlias, Resolves,
         Continues, FailsAsSpecified, Fails, Frame

(* Stages have a cause: the cause of a stage stays. *)
Caused(k) ==
    \/ versions[k] \in {"None", Deleted}
    \/ Asked(k, versions[k])
    \/ /\ versions[k] = "Archived"
       /\ \E c \in Calls : /\ MayHaveMoved(c)
                           /\ request[c].archive
                           /\ target[c] = k[1] /\ VersionOf(c) # k
                           /\ Asked(k, request[c].stage)

(* Whatever has moved its version stays a cause: a transition goes on to   *)
(* its end or fails in one of the two ways, and the _id of a model that is *)
(* gone is not given to another one.                                       *)
MovesKept == \A c \in Calls : /\ MayHaveMoved(c) /\ target[c] \in Calls
                              => MayHaveMoved(c)'

LEMMA MovesStay ==
    ASSUME TypeOK, PhaseInv, TargetInv, FreshInv,
           NEW c \in Calls, CallEffect(c)
    PROVE  MovesKept
<1> USE NoModelAssumption 
       DEF TypeOK, PhaseInv, TargetInv, FreshInv, MovesKept, MayHaveMoved,
           IsRegistered, Moves, Frame
<1>1. CASE Begins(c)
  BY <1>1 DEF Begins
<1>2. ASSUME NEW i \in DOMAIN registered, Finds(c, i)
      PROVE  MovesKept
  BY <1>2 DEF Finds
<1>3. CASE pc[c] = "register" /\ Registers(c)
  BY <1>3 DEF Registers
<1>4. ASSUME NEW i \in DOMAIN registered, pc[c] = "rename", Renames(c, i)
      PROVE  MovesKept
  BY <1>4 DEF Renames
<1>5. ASSUME NEW i \in DOMAIN registered, pc[c] = "remove", Removes(c, i)
      PROVE  MovesKept
  BY <1>5 DEF Removes
<1>6. CASE pc[c] = "purge" /\ Visits(c, "purging", VersionsOf(target[c]))
  BY <1>6 DEF Visits
<1>7. ASSUME NEW k \in DOMAIN versions, Purges(c, k)
      PROVE  MovesKept
  BY <1>7 DEF Purges
<1>8. CASE pc[c] = "allocate" /\ Allocates(c)
  BY <1>8 DEF Allocates
<1>9. CASE pc[c] = "insert" /\ Inserts(c)
  BY <1>9 DEF Inserts
<1>10. CASE pc[c] = "transition" /\ Transitions(c)
  BY <1>10 DEF Transitions
<1>11. CASE pc[c] = "archive" /\ Visits(c, "archiving", Peers(c))
  BY <1>11 DEF Visits
<1>12. ASSUME NEW k \in DOMAIN versions, Archives(c, k)
       PROVE  MovesKept
  BY <1>12 DEF Archives
<1>13. CASE pc[c] = "redact" /\ Redacts(c)
  BY <1>13 DEF Redacts
<1>14. CASE pc[c] = "unalias" /\ Unaliases(c)
  BY <1>14 DEF Unaliases
<1>15. ASSUME NEW i \in DOMAIN registered, pc[c] = "alias", SetsAlias(c, i, request[c].version)
       PROVE  MovesKept
  BY <1>15 DEF SetsAlias
<1>16. ASSUME NEW i \in DOMAIN registered, pc[c] = "unset", SetsAlias(c, i, 0)
       PROVE  MovesKept
  BY <1>16 DEF SetsAlias
<1>17. ASSUME NEW i \in DOMAIN registered, pc[c] = "resolve", Resolves(c, i)
       PROVE  MovesKept
  <2>1. request[c].op # "transition"
    BY <1>17
  <2>2. request' = request /\ registered' = registered
    BY <1>17 DEF Resolves
  <2>3. \A d \in Calls \ {c} : /\ pc'[d] = pc[d] /\ error'[d] = error[d]
                               /\ target'[d] = target[d]
    BY <1>17 DEF Resolves, Fail, Goto
  <2> QED
    BY <2>1, <2>2, <2>3
<1>18. CASE Continues(c)
  BY <1>18 DEF Continues
<1>19. ASSUME NEW e \in Errors, FailsAsSpecified(c, e)
       PROVE  MovesKept
  <2>1. /\ Running(c) /\ pc'[c] = "failed" /\ error'[c] = e
        /\ \A d \in Calls \ {c} : pc'[d] = pc[d] /\ error'[d] = error[d]
        /\ request' = request /\ registered' = registered /\ target' = target
    BY <1>19 DEF FailsAsSpecified, Fails
  <2>2. error[c] = "none" /\ pc[c] # "done"
    BY <2>1 DEF Running
  <2>3. pc[c] \in {"archive", "archiving", "reply"} => e = "persistence"
    BY <1>19 DEF FailsAsSpecified
  <2>4. pc[c] = "touch" => \/ e = "persistence"
                           \/ e = "not_found" /\ ~IsRegistered(target[c])
    BY <1>19 DEF FailsAsSpecified
  <2>5. MayHaveMoved(c) => MayHaveMoved(c)'
    BY <2>1, <2>2, <2>3, <2>4
  <2>6. ASSUME NEW d \in Calls \ {c}, MayHaveMoved(d)
        PROVE  MayHaveMoved(d)'
    BY <2>1, <2>6
  <2> QED
    BY <2>5, <2>6
<1> QED
  BY <1>1, <1>2, <1>3, <1>4, <1>5, <1>6, <1>7, <1>8, <1>9, <1>10, <1>11,
     <1>12, <1>13, <1>14, <1>15, <1>16, <1>17, <1>18, <1>19 DEF CallEffect

LEMMA AskedStays ==
    ASSUME Resolved, MovesKept, request' = request,
           NEW k \in Calls \X Nat, NEW s, Asked(k, s)
    PROVE  Asked(k, s)'
BY DEF Asked, MovesKept, Resolved, VersionOf

LEMMA CauseStays ==
    ASSUME Resolved, MovesKept, request' = request, NEW k \in Calls \X Nat, Caused(k),
           versions'[k] = versions[k]
    PROVE  Caused(k)'
<1>1. CASE versions[k] \in {"None", Deleted}
  BY <1>1 DEF Caused
<1>2. CASE Asked(k, versions[k])
  BY <1>2, AskedStays DEF Caused
<1>3. CASE /\ versions[k] = "Archived"
           /\ \E c \in Calls : /\ MayHaveMoved(c)
                               /\ request[c].archive
                               /\ target[c] = k[1] /\ VersionOf(c) # k
                               /\ Asked(k, request[c].stage)
  <2>1. PICK c \in Calls : /\ MayHaveMoved(c)
                           /\ request[c].archive
                           /\ target[c] = k[1] /\ VersionOf(c) # k
                           /\ Asked(k, request[c].stage)
    BY <1>3
  <2>2. target'[c] = target[c] /\ MayHaveMoved(c)'
    BY <2>1 DEF Resolved, MovesKept
  <2>3. Asked(k, request[c].stage)'
    BY <2>1, AskedStays
  <2> QED
    BY <1>3, <2>1, <2>2, <2>3 DEF Caused, VersionOf
<1> QED
  BY <1>1, <1>2, <1>3 DEF Caused

LEMMA StagesStep ==
    ASSUME TypeOK, PhaseInv, TargetInv, RequestInv, FreshInv, StagesHaveACause,
           NEW c \in Calls, CallEffect(c)
    PROVE  StagesHaveACause'
<1>0. Resolved /\ MovesKept /\ request' = request
  BY ResolvedStays, MovesStay, RequestStep
<1>1. \A k \in DOMAIN versions : k \in Calls \X Nat /\ Caused(k)
  BY DEF TypeOK, StagesHaveACause, Caused
<1> SUFFICES ASSUME NEW k \in DOMAIN versions'
             PROVE  Caused(k)'
  BY DEF StagesHaveACause, Caused
<1>2. CASE k \in DOMAIN versions /\ versions'[k] = versions[k]
  BY <1>0, <1>1, <1>2, CauseStays
<1>3. CASE versions'[k] \in {"None", Deleted}
  BY <1>3 DEF Caused
<1>4. CASE pc[c] = "transition" /\ Transitions(c) /\ k = VersionOf(c)
  <2>1. versions'[k] = request[c].stage /\ k \in DOMAIN versions
    BY <1>4 DEF Transitions, StageBecomes
  <2>2. MayHaveMoved(c)' /\ VersionOf(c)' = k
    BY <1>0, <1>4 DEF MayHaveMoved, Transitions, Moves, PhaseInv, TypeOK, VersionOf
  <2>3. Asked(k, request[c].stage)'
    BY <1>0, <2>2 DEF Asked
  <2> QED
    BY <1>0, <2>1, <2>3 DEF Caused
<1>5. CASE Archives(c, k)
  <2>1. /\ versions'[k] = "Archived" /\ k \in DOMAIN versions
        /\ versions[k] = request[c].stage
        /\ target[c] = k[1] /\ k # VersionOf(c)
    BY <1>5 DEF Archives, StageBecomes, Peers, VersionsOf
  <2>2. /\ MayHaveMoved(c) /\ request[c].archive
        /\ request[c].stage \in ActiveStages
    BY <1>5 DEF Archives, PhaseInv, MayHaveMoved
  <2>3. Asked(k, request[c].stage)
    BY <1>1, <2>1, <2>2 DEF Caused, ActiveStages, Deleted
  <2>4. /\ Asked(k, request[c].stage)' /\ MayHaveMoved(c)'
        /\ UNCHANGED <<request, target>>
    BY <1>0, <1>1, <1>5, <2>1, <2>2, <2>3, AskedStays DEF Archives, MovesKept
  <2> QED
    BY <2>1, <2>2, <2>4 DEF Caused, VersionOf
<1> QED
  BY <1>2, <1>3, <1>4, <1>5
     DEF CallEffect, Begins, Finds, Registers, Renames, Removes, Visits, Purges,
         Allocates, Inserts, Transitions, Archives, StageBecomes, Redacts, Unaliases,
         SetsAlias, Resolves, Continues, FailsAsSpecified, Fails, Frame

-----------------------------------------------------------------------------
(***************************************************************************)
(* Aliases: what makes an alias or a reader's answer admissible.           *)
(***************************************************************************)

(* Alias a of model i may be set to n. *)
Admissible(i, a, n) ==
    \/ n = 0
    \/ /\ <<i, n>> \in created
       /\ Live(<<i, n>>) \/ HalfDeleted(<<i, n>>)
    \/ SetInARace(a, n)

(* Call c may be waiting for its version, or have missed it.               *)
Excused(c) ==
    \/ /\ <<target[c], number[c]>> \in created
       /\ Gone(<<target[c], number[c]>>)
          \/ (pc[c] = "read" /\ Live(<<target[c], number[c]>>))
    \/ SetInARace(request[c].alias, number[c])

LEMMA AliasInvParts ==
    AliasInv <=> /\ \A i \in DOMAIN registered, a \in Aliases :
                       Admissible(i, a, registered[i].aliases[a])
                 /\ \A c \in Calls :
                       pc[c] = "read" \/ error[c] = "version_not_found" => Excused(c)
BY DEF AliasInv, Admissible, Excused

LEMMA RaceStays ==
    ASSUME TypeOK, Resolved, request' = request
    PROVE  \A a \in Aliases, n \in Nat : SetInARace(a, n) => SetInARace(a, n)'
BY DEF SetInARace, Resolved, TypeOK

(* A deletion of a version is half done until it has written the model.    *)
LEMMA HalfDeletedStays ==
    ASSUME TypeOK, PhaseInv, TargetInv, RequestInv, NEW c \in Calls, CallEffect(c),
           NEW i \in Calls, NEW n \in Nat, HalfDeleted(<<i, n>>)
    PROVE  \/ HalfDeleted(<<i, n>>)'
           \/ pc[c] = "unalias" /\ Unaliases(c) /\ VersionOf(c) = <<i, n>>
           \/ ~IsRegistered(i)
<1>0. Resolved /\ request' = request
  BY ResolvedStays, RequestStep
<1>1. PICK d \in Calls : /\ request[d].op = "delete_version"
                         /\ target[d] = i /\ request[d].version = n
                         /\ pc[d] = "unalias" \/ error[d] = "persistence"
  BY DEF HalfDeleted, VersionOf
<1>2. target'[d] = i /\ request'[d] = request[d]
  BY <1>0, <1>1 DEF Resolved
<1>3. CASE pc'[d] = "unalias" \/ error'[d] = "persistence"
  BY <1>1, <1>2, <1>3 DEF HalfDeleted, VersionOf
<1>4. CASE ~(pc'[d] = "unalias" \/ error'[d] = "persistence")
  <2>1. d = c
    <3>1. ASSUME d # c
          PROVE  pc'[d] = pc[d] /\ error'[d] = error[d]
      BY <3>1
         DEF TypeOK, CallEffect, Begins, Finds, Registers, Renames, Removes, Visits,
             Purges, Allocates, Inserts, Transitions, Archives, Redacts, Unaliases,
             SetsAlias, Resolves, Continues, FailsAsSpecified, Fails, Fail, Goto, Moves
    <3> QED
      BY <1>1, <1>4, <3>1
  <2>2. pc[c] = "unalias" \/ (pc[c] = "failed" /\ error[c] = "persistence")
    BY <1>1, <2>1 DEF PhaseInv
  <2>3. \/ pc'[c] = "unalias" \/ error'[c] = "persistence"
        \/ pc[c] = "unalias" /\ Unaliases(c)
        \/ pc[c] = "unalias" /\ ~IsRegistered(target[c])
    BY <2>2 DEF TypeOK, CallEffect, Begins, Finds, Visits, Purges, Archives, Continues,
                FailsAsSpecified, Fails, Running
  <2> QED
    BY <1>1, <1>4, <2>1, <2>3 DEF VersionOf
<1> QED
  BY <1>3, <1>4

(* A version that stops being live was deleted, or its model was.          *)
LEMMA LiveUntilDeleted ==
    ASSUME TypeOK, PhaseInv, TargetInv, PurgeInv, NEW c \in Calls, CallEffect(c),
           NEW k \in DOMAIN versions, Live(k)
    PROVE  \/ Live(k)'
           \/ pc[c] = "redact" /\ Redacts(c) /\ k = VersionOf(c)
           \/ Purges(c, k) /\ ~IsRegistered(k[1]) /\ target[c] = k[1]
<1>1. ASSUME NEW x \in DOMAIN versions, Purges(c, x)
      PROVE  Live(k)' \/ (x = k /\ ~IsRegistered(k[1]) /\ target[c] = k[1])
  BY <1>1 DEF Purges, PurgeInv, VersionsOf, Live
<1>2. ASSUME NEW x \in DOMAIN versions, Archives(c, x)
      PROVE  Live(k)'
  BY <1>2 DEF Archives, StageBecomes, Live, Deleted
<1>3. CASE pc[c] = "transition" /\ Transitions(c)
  BY <1>3, RequestTypes DEF Transitions, StageBecomes, Live, Deleted, Stages, ActiveStages
<1>4. CASE pc[c] = "redact" /\ Redacts(c)
  BY <1>4 DEF Redacts, StageBecomes, Live
<1>5. CASE pc[c] = "insert" /\ Inserts(c)
  BY <1>5 DEF Inserts, Live
<1>6. CASE UNCHANGED versions
  BY <1>6 DEF Live
<1> QED
  BY <1>1, <1>2, <1>3, <1>4, <1>5, <1>6
     DEF CallEffect, Begins, Finds, Registers, Renames, Removes, Visits, Allocates,
         Unaliases, SetsAlias, Resolves, Continues, FailsAsSpecified, Fails, Frame

(* What was admissible stays so, unless its version is taken from under it.*)
LEMMA AdmissibleStays ==
    ASSUME TypeOK, PhaseInv, TargetInv, RequestInv, PurgeInv,
           NEW c \in Calls, CallEffect(c),
           NEW i \in DOMAIN registered, NEW a \in Aliases, NEW n \in Nat,
           Admissible(i, a, n)
    PROVE  \/ Admissible(i, a, n)'
           \/ pc[c] = "unalias" /\ Unaliases(c) /\ VersionOf(c) = <<i, n>>
<1>0. Resolved /\ request' = request /\ i \in Calls
  BY ResolvedStays, RequestStep DEF TypeOK
<1>1. CASE n = 0
  BY <1>1 DEF Admissible
<1>2. CASE SetInARace(a, n)
  BY <1>0, <1>2, RaceStays DEF Admissible
<1>3. CASE <<i, n>> \in created /\ Live(<<i, n>>)
  <2>1. <<i, n>> \in created' /\ <<i, n>> \in DOMAIN versions
    BY <1>0, <1>3 DEF Resolved, Live
  <2>2. \/ Live(<<i, n>>)'
        \/ pc[c] = "redact" /\ Redacts(c) /\ <<i, n>> = VersionOf(c)
    BY <1>3, <2>1, LiveUntilDeleted DEF IsRegistered
  <2>3. CASE pc[c] = "redact" /\ Redacts(c) /\ <<i, n>> = VersionOf(c)
    <3>1. /\ request'[c].op = "delete_version" /\ pc'[c] = "unalias"
          /\ target'[c] = i /\ request'[c].version = n
      BY <1>0, <2>3 DEF Redacts, Moves, PhaseInv, TypeOK, VersionOf
    <3>2. HalfDeleted(<<i, n>>)'
      BY <3>1 DEF HalfDeleted, VersionOf
    <3> QED
      BY <2>1, <3>2 DEF Admissible
  <2> QED
    BY <2>1, <2>2, <2>3 DEF Admissible
<1>4. CASE <<i, n>> \in created /\ HalfDeleted(<<i, n>>)
  <2>1. <<i, n>> \in created'
    BY <1>0, <1>4 DEF Resolved
  <2>2. \/ HalfDeleted(<<i, n>>)'
        \/ pc[c] = "unalias" /\ Unaliases(c) /\ VersionOf(c) = <<i, n>>
    BY <1>0, <1>4, HalfDeletedStays DEF IsRegistered
  <2> QED
    BY <2>1, <2>2 DEF Admissible
<1> QED
  BY <1>1, <1>2, <1>3, <1>4 DEF Admissible

LEMMA AliasesStep ==
    ASSUME TypeOK, PhaseInv, TargetInv, RequestInv, FreshInv, NumberInv, CheckedInv,
           PurgeInv, AliasInv, NEW c \in Calls, CallEffect(c)
    PROVE  \A i \in DOMAIN registered', a \in Aliases :
              Admissible(i, a, registered[i].aliases[a])'
<1> SUFFICES ASSUME NEW i \in DOMAIN registered', NEW a \in Aliases,
                    NEW n, n = registered'[i].aliases[a]
             PROVE  Admissible(i, a, n)'
  BY DEF Admissible
<1>0. \A m \in Nat :
         i \in DOMAIN registered /\ Admissible(i, a, m) =>
            \/ Admissible(i, a, m)'
            \/ pc[c] = "unalias" /\ Unaliases(c) /\ VersionOf(c) = <<i, m>>
  BY AdmissibleStays
<1>1. i \in DOMAIN registered => /\ registered[i].aliases[a] \in Nat
                                 /\ Admissible(i, a, registered[i].aliases[a])
  BY AliasInvParts, ModelType DEF TypeOK
<1>2. CASE n = 0
  BY <1>2 DEF Admissible
<1>3. CASE /\ i \in DOMAIN registered
           /\ n = registered[i].aliases[a]
           /\ pc[c] = "unalias" /\ Unaliases(c) => VersionOf(c) # <<i, n>>
  BY <1>0, <1>1, <1>3
<1>4. CASE pc[c] = "unalias" /\ Unaliases(c)
  <2>1. i \in DOMAIN registered
    BY <1>4 DEF Unaliases
  <2>2. CASE i = target[c] /\ registered[i].aliases[a] = request[c].version
    BY <1>2, <1>4, <2>1, <2>2 DEF Unaliases
  <2>3. CASE ~(i = target[c] /\ registered[i].aliases[a] = request[c].version)
    BY <1>3, <1>4, <2>1, <2>3 DEF Unaliases, VersionOf
  <2> QED
    BY <2>2, <2>3
<1>5. ASSUME NEW j \in DOMAIN registered, pc[c] = "alias",
             SetsAlias(c, j, request[c].version)
      PROVE  Admissible(i, a, n)'
  <2>1. i \in DOMAIN registered /\ j \in Calls
    BY <1>5 DEF SetsAlias, TypeOK
  <2>2. CASE ~(i = j /\ a = request[c].alias)
    BY <1>3, <1>5, <2>1, <2>2 DEF SetsAlias
  <2>3. CASE i = j /\ a = request[c].alias
    <3>1. n = request[c].version
      BY <1>5, <2>1, <2>3 DEF SetsAlias
    <3>2. UNCHANGED <<versions, created, raced, request>>
      BY <1>5 DEF SetsAlias, Moves
    <3>3. CASE c \in raced
      <4>1. request[c].op = "set_alias"
        BY <1>5 DEF PhaseInv
      <4> QED
        BY <2>3, <3>1, <3>2, <3>3, <4>1 DEF Admissible, SetInARace
    <3>4. CASE c \notin raced
      <4>1. /\ target[c] \in DOMAIN registered /\ Live(VersionOf(c))
            /\ registered[target[c]].name = registered[j].name
        BY <1>5, <3>4 DEF CheckedInv, SetsAlias, IsRegistered
      <4>2. target[c] = j
        BY <4>1 DEF FreshInv
      <4>3. <<i, n>> \in created /\ Live(<<i, n>>)
        BY <2>3, <3>1, <4>1, <4>2 DEF VersionOf, Live, NumberInv
      <4> QED
        BY <3>2, <4>3 DEF Admissible, Live
    <3> QED
      BY <3>3, <3>4
  <2> QED
    BY <2>2, <2>3
<1>6. ASSUME NEW j \in DOMAIN registered, pc[c] = "unset", SetsAlias(c, j, 0)
      PROVE  Admissible(i, a, n)'
  BY <1>2, <1>3, <1>6 DEF SetsAlias
<1>7. CASE pc[c] = "register" /\ Registers(c)
  BY <1>2, <1>3, <1>7 DEF Registers
<1>8. CASE /\ i \in DOMAIN registered /\ pc[c] # "unalias"
           /\ registered'[i].aliases = registered[i].aliases
  BY <1>0, <1>1, <1>8
<1>9. CASE pc[c] = "unalias" /\ UNCHANGED registered /\ ~IsRegistered(target[c])
  BY <1>0, <1>1, <1>9 DEF Unaliases, IsRegistered
<1>10. ASSUME NEW e \in Errors, FailsAsSpecified(c, e)
       PROVE  Admissible(i, a, n)'
  <2>1. pc'[c] = "failed" /\ UNCHANGED registered
    BY <1>10 DEF FailsAsSpecified, Fails, TypeOK
  <2>2. ~Unaliases(c)
    BY <2>1 DEF Unaliases, Moves, TypeOK
  <2> QED
    BY <1>3, <2>1, <2>2
<1> QED
  BY <1>4, <1>5, <1>6, <1>7, <1>8, <1>10
     DEF CallEffect, Begins, Finds, Renames, Removes, Visits, Purges, Allocates,
         Inserts, Transitions, Archives, Redacts, Resolves, Continues, Frame

LEMMA GoneStays ==
    ASSUME TypeOK, PhaseInv, TargetInv, RequestInv, NumberInv,
           NEW c \in Calls, CallEffect(c), NEW k \in created, Gone(k)
    PROVE  Gone(k)'
<1>1. Resolved /\ request' = request /\ ~Live(k)' /\ k[1] \in Calls
  BY ResolvedStays, RequestStep, DeletedStays DEF Gone, TypeOK
<1> QED
  BY <1>1 DEF Gone, Resolved

(* A version that c stops from being live is gone.                         *)
LEMMA DeletedIsGone ==
    ASSUME TypeOK, PhaseInv, TargetInv, RequestInv, NumberInv, PurgeInv,
           NEW c \in Calls, CallEffect(c),
           NEW k \in DOMAIN versions, Live(k)
    PROVE  Live(k)' \/ Gone(k)'
<1>0. Resolved /\ request' = request /\ k \in Calls \X Nat
  BY ResolvedStays, RequestStep DEF TypeOK
<1>1. CASE pc[c] = "redact" /\ Redacts(c) /\ k = VersionOf(c)
  <2>1. /\ target[c] = k[1] /\ target'[c] = k[1]
        /\ request'[c].op = "delete_version" /\ request'[c].version = k[2]
    BY <1>0, <1>1 DEF VersionOf, Resolved, PhaseInv
  <2> QED
    BY <2>1 DEF Gone
<1>2. CASE Purges(c, k) /\ target[c] = k[1]
  <2>1. /\ target'[c] = k[1] /\ request'[c].op = "delete_model"
    BY <1>0, <1>2 DEF Resolved, Purges, PhaseInv
  <2> QED
    BY <2>1 DEF Gone
<1> QED
  BY <1>1, <1>2, LiveUntilDeleted

LEMMA ReadersStep ==
    ASSUME TypeOK, PhaseInv, TargetInv, RequestInv, FreshInv, NumberInv, CheckedInv,
           PurgeInv, AliasInv, NEW c \in Calls, CallEffect(c)
    PROVE  \A d \in Calls :
              (pc[d] = "read" \/ error[d] = "version_not_found" => Excused(d))'
<1> SUFFICES ASSUME NEW d \in Calls, pc'[d] = "read" \/ error'[d] = "version_not_found"
             PROVE  Excused(d)'
  OBVIOUS
<1>0. Resolved /\ request' = request
  BY ResolvedStays, RequestStep
<1> DEFINE k == <<target[d], number[d]>>
<1>1. ASSUME pc[d] = "read" \/ error[d] = "version_not_found",
             pc[d] = "read" /\ pc'[d] # "read" => ~Live(k)
      PROVE  Excused(d)'
  <2>1. /\ Excused(d) /\ number[d] # 0 /\ number[d] \in Nat
        /\ request[d].alias \in Aliases
    BY <1>1, AliasInvParts, RequestTypes DEF TargetInv, TypeOK
  <2>2. target'[d] = target[d] /\ number'[d] = number[d]
    BY <1>0, <2>1 DEF Resolved
  <2>3. CASE SetInARace(request[d].alias, number[d])
    <3>1. \A a \in Aliases, n \in Nat : SetInARace(a, n) => SetInARace(a, n)'
      BY <1>0, RaceStays
    <3> QED
      BY <1>0, <2>1, <2>2, <2>3, <3>1 DEF Excused, SetInARace
  <2>4. CASE k \in created /\ Gone(k)
    <3>1. \A x \in created : Gone(x) => Gone(x)'
      BY GoneStays
    <3> QED
      BY <1>0, <2>2, <2>4, <3>1 DEF Excused, Resolved, Gone
  <2>5. CASE k \in created /\ Live(k) /\ pc[d] = "read" /\ pc'[d] = "read"
    <3>1. \A x \in DOMAIN versions : Live(x) => Live(x)' \/ Gone(x)'
      BY DeletedIsGone
    <3> QED
      BY <1>0, <2>2, <2>5, <3>1 DEF Excused, Resolved, Live, Gone
  <2> QED
    BY <1>1, <2>1, <2>3, <2>4, <2>5 DEF Excused, Gone
<1>2. ASSUME NEW i \in DOMAIN registered, d = c, pc[c] = "resolve", Resolves(c, i),
             pc'[c] = "read"
      PROVE  Excused(d)'
  <2>0. PICK n : n = registered[i].aliases[request[c].alias]
    OBVIOUS
  <2>1. /\ n # 0 /\ target'[c] = i /\ number'[c] = n
        /\ UNCHANGED <<registered, versions, request, created, raced>>
    BY <1>2, <2>0 DEF Resolves, Fail, Goto, Moves, TypeOK
  <2>2. Admissible(i, request[c].alias, n) /\ i \in Calls
    BY <2>0, AliasInvParts, RequestTypes DEF TypeOK
  <2>3. ASSUME HalfDeleted(<<i, n>>), ~Live(<<i, n>>)
        PROVE  Gone(<<i, n>>)
    BY <2>3 DEF HalfDeleted, Gone, VersionOf
  <2>4. \/ <<i, n>> \in created /\ (Live(<<i, n>>) \/ Gone(<<i, n>>))
        \/ SetInARace(request[c].alias, n)
    BY <2>1, <2>2, <2>3 DEF Admissible
  <2>5. Gone(<<i, n>>) => Gone(<<i, n>>)'
    BY <1>0, <2>1, <2>2 DEF Gone, Live, Resolved
  <2>6. UNCHANGED Live(<<i, n>>) /\ UNCHANGED SetInARace(request[c].alias, n)
    BY <2>1 DEF Live, SetInARace
  <2>7. \/ <<i, n>> \in created' /\ ((pc'[c] = "read" /\ Live(<<i, n>>)') \/ Gone(<<i, n>>)')
        \/ SetInARace(request[c].alias, n)'
    BY <1>2, <2>1, <2>4, <2>5, <2>6
  <2> QED
    BY <1>2, <2>1, <2>7 DEF Excused, Live, Gone, SetInARace
<1>3. CASE d # c
  <2>1. pc'[d] = pc[d] /\ error'[d] = error[d]
    BY <1>3 DEF TypeOK, CallEffect, Begins, Finds, Registers, Renames, Removes, Visits,
                Purges, Allocates, Inserts, Transitions, Archives, Redacts, Unaliases,
                SetsAlias, Resolves, Continues, FailsAsSpecified, Fails, Fail, Goto, Moves
  <2> QED
    BY <1>1, <2>1
<1>4. CASE d = c
  <2>1. error[c] = "version_not_found" => pc[c] = "failed"
    BY DEF PhaseInv
  <2>2. \/ \E i \in DOMAIN registered : pc[c] = "resolve" /\ Resolves(c, i) /\ pc'[c] = "read"
        \/ pc[c] = "read" /\ ~Live(k)
    <3>1. CASE pc'[c] = "read"
      <4>1. ~Begins(c)
        BY <3>1 DEF Begins, FirstPhase, Moves, TypeOK
      <4>2. \A i : ~Finds(c, i)
        BY <3>1 DEF Finds, PhaseAfterLookup, PhaseInv, Writers, Moves, TypeOK
      <4> QED
        BY <1>4, <3>1, <4>1, <4>2
           DEF TypeOK, CallEffect, Registers, Renames, Removes, Visits, Purges, Allocates,
               Inserts, Transitions, Archives, Redacts, Unaliases, SetsAlias, Continues,
               FailsAsSpecified, Fails, Moves
    <3>2. CASE error'[c] = "version_not_found"
      BY <1>4, <2>1, <3>2
         DEF TypeOK, CallEffect, Begins, Finds, Registers, Renames, Removes, Visits,
             Purges, Allocates, Inserts, Transitions, Archives, Redacts, Unaliases,
             SetsAlias, Resolves, Continues, FailsAsSpecified, Fails, Fail, Goto, Moves,
             Frame, Running
    <3> QED
      BY <1>4, <3>1, <3>2
  <2> QED
    BY <1>1, <1>2, <1>4, <2>2
<1> QED
  BY <1>3, <1>4

-----------------------------------------------------------------------------
(***************************************************************************)
(* The theorems.                                                           *)
(***************************************************************************)

LEMMA IInit == Init => IInv
<1> SUFFICES ASSUME Init PROVE IInv
  OBVIOUS
<1>1. TypeOK
  BY TypeInit
<1>2. RequestInv
  BY WorkloadsAssumption DEF Init, RequestInv
<1>3. DOMAIN registered = {} /\ DOMAIN versions = {}
  BY DEF Init
<1> QED
  BY <1>1, <1>2, <1>3, NoModelAssumption
     DEF Init, IInv, PhaseInv, TargetInv, FreshInv, NumberInv, RemovedInv, CheckedInv,
         RacedInv, PurgeInv, AliasInv, AllocatedVersionsAreFree, OrphansComeOnlyByRaces,
         StagesHaveACause, IsRegistered, Running

LEMMA IStep == IInv /\ [Next]_vars => IInv'
<1> SUFFICES ASSUME IInv, [Next]_vars PROVE IInv'
  OBVIOUS
<1>1. CASE UNCHANGED vars
  BY <1>1
     DEF vars, IInv, TypeOK, PhaseInv, RequestInv, TargetInv, FreshInv, NumberInv,
         RemovedInv, CheckedInv, RacedInv, PurgeInv, AliasInv, AllocatedVersionsAreFree,
         OrphansComeOnlyByRaces, StagesHaveACause, IsRegistered, Running, Live,
         VersionOf, VersionsOf, HalfDeleted, SetInARace, Gone, Asked, MayHaveMoved
<1>2. ASSUME NEW c \in Calls, Arrive(c) \/ CallStep(c) \/ Fault(c)
      PROVE  IInv'
  <2>1. CallEffect(c)
    BY <1>2, CallEffects DEF IInv
  <2>2. TypeOK' /\ PhaseInv' /\ RequestInv' /\ TargetInv' /\ FreshInv' /\ NumberInv'
    BY <2>1, TypeStep, PhaseStep, RequestStep, TargetStep, FreshStep, NumberStep DEF IInv
  <2>3. RemovedInv' /\ CheckedInv' /\ RacedInv' /\ PurgeInv'
    BY <2>1, RemovedStep, CheckedStep, RacedStep, PurgeStep DEF IInv
  <2>4. AllocatedVersionsAreFree' /\ OrphansComeOnlyByRaces' /\ StagesHaveACause'
    BY <2>1, AllocatedStep, OrphansStep, StagesStep DEF IInv
  <2>5. AliasInv'
    <3>1. /\ \A i \in DOMAIN registered', a \in Aliases :
                Admissible(i, a, registered[i].aliases[a])'
          /\ \A d \in Calls :
                (pc[d] = "read" \/ error[d] = "version_not_found" => Excused(d))'
      BY <2>1, AliasesStep, ReadersStep DEF IInv
    <3> QED
      BY <3>1 DEF AliasInv, Admissible, Excused
  <2> QED
    BY <2>2, <2>3, <2>4, <2>5 DEF IInv
<1> QED
  BY <1>1, <1>2 DEF Next, AllReturned

(* Every state of every behaviour satisfies the inductive invariant. *)
THEOREM Invariance == Spec => []IInv
<1> QED
  BY IInit, IStep, PTL DEF Spec

(* The variables of ModelRegistry have their types in every state. *)
THEOREM TypeCorrect == Spec => []TypeOK
<1>1. IInv => TypeOK
  BY DEF IInv
<1> QED
  BY <1>1, Invariance, PTL

(* create_model_version never finds its number taken.                      *)
THEOREM NumbersAreFree == Spec => []AllocatedVersionsAreFree
<1>1. IInv => AllocatedVersionsAreFree
  BY DEF IInv
<1> QED
  BY <1>1, Invariance, PTL

(* A version without a model has a deletion that did not end, or a         *)
(* create_model_version that raced with it, to explain it.                 *)
THEOREM OrphansExplained == Spec => []OrphansComeOnlyByRaces
<1>1. IInv => OrphansComeOnlyByRaces
  BY DEF IInv
<1> QED
  BY <1>1, Invariance, PTL

(* Every stage of a version was asked for by a transition that moved it or *)
(* may have, or left by one that archives the other versions of a stage.   *)
THEOREM StagesExplained == Spec => []StagesHaveACause
<1>1. IInv => StagesHaveACause
  BY DEF IInv
<1> QED
  BY <1>1, Invariance, PTL

(* An alias dangles, and a reader misses what it resolved, only by a race  *)
(* or a deletion.                                                          *)
THEOREM AliasesExplained == Spec => []AliasesDangleOnlyByRaces
<1>1. IInv => AliasesDangleOnlyByRaces
  <2> SUFFICES ASSUME IInv PROVE AliasesDangleOnlyByRaces
    OBVIOUS
  <2>1. AliasInv /\ PhaseInv
    BY DEF IInv
  <2>2. \A c \in Calls : error[c] = "version_not_found" => pc[c] # "read"
    BY <2>1 DEF PhaseInv
  <2> QED
    BY <2>1, <2>2 DEF AliasInv, AliasesDangleOnlyByRaces
<1> QED
  BY <1>1, Invariance, PTL

LEMMA LifecycleInit == Init => Lifecycle!Init
BY DEF Init, Lifecycle!Init

(* A move of one version to a stage is a step of the life cycle. *)
LEMMA LifecycleMove ==
    ASSUME NEW k \in DOMAIN versions, versions[k] # Deleted,
           NEW s \in Stages \union {Deleted},
           SetStage(k, s), UNCHANGED <<issued, created>>
    PROVE  Lifecycle!Next
BY DEF SetStage, Lifecycle!Move, Lifecycle!Next

LEMMA LifecycleStep ==
    IInv /\ [Next]_vars => [Lifecycle!Next]_(Lifecycle!lifecycleVars)
<1> SUFFICES ASSUME IInv, [Next]_vars
             PROVE  Lifecycle!Next \/ UNCHANGED <<issued, created, versions>>
  BY DEF Lifecycle!lifecycleVars
<1>0. TypeOK /\ PhaseInv /\ TargetInv /\ NumberInv
  BY DEF IInv
<1>1. ASSUME NEW c \in Calls, AllocateVersion(c)
      PROVE  Lifecycle!Next \/ UNCHANGED <<issued, created, versions>>
  <2>1. CASE Allocates(c)
    <3>1. /\ target[c] \in Calls
          /\ issued' = [issued EXCEPT ![target[c]] = @ + 1]
          /\ UNCHANGED <<created, versions>>
      BY <1>0, <2>1 DEF Allocates, TypeOK, NumberInv
    <3> QED
      BY <3>1 DEF Lifecycle!Issue, Lifecycle!Next
  <2>2. CASE Fails(c, "not_found")
    BY <2>2 DEF Fails
  <2> QED
    BY <1>0, <1>1, <2>1, <2>2, AllocateCases
<1>2. ASSUME NEW c \in Calls, InsertVersion(c)
      PROVE  Lifecycle!Next \/ UNCHANGED <<issued, created, versions>>
  <2> DEFINE k == <<target[c], number[c]>>
  <2>1. CASE k \in DOMAIN versions
    BY <1>2, <2>1 DEF InsertVersion
  <2>2. CASE k \notin DOMAIN versions
    <3>1. pc[c] = "insert"
      BY <1>2 DEF InsertVersion
    <3>2. /\ target[c] \in Calls /\ number[c] \in 1..issued[target[c]]
          /\ k \notin created
      BY <1>0, <3>1 DEF TypeOK, TargetInv, NumberInv
    <3>3. /\ versions' = [x \in DOMAIN versions \union {k} |->
                             IF x = k THEN "None" ELSE versions[x]]
          /\ created' = created \union {k}
          /\ UNCHANGED issued
      BY <1>2, <2>2 DEF InsertVersion
    <3>4. "None" \in Stages
      BY DEF Stages
    <3> QED
      BY <3>2, <3>3, <3>4 DEF Lifecycle!Store, Lifecycle!Next
  <2> QED
    BY <2>1, <2>2
<1>3. ASSUME NEW c \in Calls, NEW k \in DOMAIN versions, PurgeVersion(c, k)
      PROVE  Lifecycle!Next
  BY <1>3 DEF PurgeVersion, Lifecycle!Purge, Lifecycle!Next, history
<1>4. ASSUME NEW c \in Calls, NEW k \in DOMAIN versions, ArchiveVersion(c, k)
      PROVE  Lifecycle!Next
  <2>1. /\ SetStage(k, "Archived") /\ "Archived" \in Stages
        /\ UNCHANGED <<issued, created>>
    BY <1>4 DEF ArchiveVersion, Stages, history
  <2>2. versions[k] # Deleted
    BY <1>0, <1>4, RequestTypes DEF ArchiveVersion, Peers, Stages, ActiveStages, Deleted
  <2> QED
    BY <2>1, <2>2, LifecycleMove
<1>5. ASSUME NEW c \in Calls, TransitionStage(c) \/ SoftDelete(c)
      PROVE  Lifecycle!Next \/ UNCHANGED <<issued, created, versions>>
  <2>1. CASE Live(VersionOf(c))
    <3>1. VersionOf(c) \in DOMAIN versions /\ versions[VersionOf(c)] # Deleted
      BY <2>1 DEF Live
    <3>2. \/ SetStage(VersionOf(c), request[c].stage)
          \/ SetStage(VersionOf(c), Deleted)
      BY <1>5, <2>1 DEF TransitionStage, SoftDelete
    <3>3. UNCHANGED <<issued, created>> /\ request[c].stage \in Stages
      BY <1>0, <1>5, RequestTypes DEF TransitionStage, SoftDelete, history
    <3> QED
      BY <3>1, <3>2, <3>3, LifecycleMove
  <2>2. CASE ~Live(VersionOf(c))
    BY <1>5, <2>2 DEF TransitionStage, SoftDelete, history
  <2> QED
    BY <2>1, <2>2
<1>6. CASE /\ ~ \E c \in Calls : \/ AllocateVersion(c) \/ InsertVersion(c)
                                 \/ TransitionStage(c) \/ SoftDelete(c)
           /\ ~ \E c \in Calls, k \in DOMAIN versions :
                    PurgeVersion(c, k) \/ ArchiveVersion(c, k)
  <2> USE DEF documents, history, TargetGone
  <2>1. ASSUME NEW c \in Calls,
               \/ Arrive(c) \/ Lookup(c) \/ RegisterModel(c) \/ DiagnoseDuplicate(c)
               \/ RenameModel(c) \/ TouchVersions(c) \/ RemoveModel(c)
        PROVE  UNCHANGED <<issued, created, versions>>
    BY <2>1 DEF Arrive, Lookup, RegisterModel, DiagnoseDuplicate, RenameModel,
                TouchVersions, RemoveModel
  <2>2. ASSUME NEW c \in Calls,
               \/ PurgeStarts(c) \/ PurgeEnds(c) \/ ArchiveStarts(c) \/ ArchiveEnds(c)
               \/ TouchModel(c) \/ DeleteAliasesForVersion(c)
        PROVE  UNCHANGED <<issued, created, versions>>
    BY <2>2 DEF PurgeStarts, PurgeEnds, ArchiveStarts, ArchiveEnds, TouchModel,
                DeleteAliasesForVersion
  <2>3. ASSUME NEW c \in Calls,
               \/ CheckVersion(c) \/ WriteAlias(c) \/ ResolveAlias(c) \/ ReadVersion(c)
               \/ Return(c) \/ Fault(c)
        PROVE  UNCHANGED <<issued, created, versions>>
    BY <2>3 DEF CheckVersion, WriteAlias, ResolveAlias, ReadVersion, Return, Fault
  <2>4. CASE AllReturned \/ UNCHANGED vars
    BY <2>4 DEF AllReturned, vars
  <2> QED
    BY <1>6, <2>1, <2>2, <2>3, <2>4 DEF Next, CallStep
<1> QED
  BY <1>1, <1>2, <1>3, <1>4, <1>5, <1>6

(* The interleaved calls implement ModelLifecycle: consecutive numbers,    *)
(* each given out and used at most once, and no way out of the deleted     *)
(* stage.                                                                  *)
THEOREM Refinement == Spec => ImplementsLifecycle
<1> QED
  BY Invariance, LifecycleInit, LifecycleStep, PTL
     DEF Spec, ImplementsLifecycle, Lifecycle!Spec
=============================================================================
