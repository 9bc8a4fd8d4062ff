---------------------------- MODULE PatchRegistry ----------------------------
(***************************************************************************)
(* The registry of patches in modular-agent-core: the map of live patches, *)
(* the name index, the name and running flag kept in each patch object and *)
(* the parent tokens, under add_patch, rename_patch, remove_patch,         *)
(* start_patch, stop_patch and start_module called by several host tasks.  *)
(*                                                                         *)
(* patches, patch_names and patch_tokens have a short lock each, and no    *)
(* call holds two of them; a step is what a call does in one section.      *)
(* What a call does under the async lock of one patch is one step too: no  *)
(* other call can see the patch object before the lock is released.        *)
(***************************************************************************)
EXTENDS Integers, FiniteSets

CONSTANTS
    Callers,      \* host tasks
    Menu,         \* the operations each host uses
    Names,        \* patch names
    MaxPatches    \* bound: patches added in a behaviour

NoName == "no name"
NoId   == 0
Ids    == 1 .. MaxPatches       \* ids are handed out by a counter (new_id)

Operations == {"add", "rename", "remove", "start", "stop", "startModule"}

ASSUME RegistryAssumption ==
    /\ Menu \in [Callers -> SUBSET Operations]
    /\ NoName \notin Names
    /\ MaxPatches \in Nat
ASSUME FiniteCallers == IsFiniteSet(Callers)

VARIABLES
    nextId,     \* the next id
    patches,    \* ids in the patches map
    names,      \* the index patch_names: name -> id
    nameOf,     \* the name each patch object carries
    running,    \* the running flag of each patch object
    modules,    \* ids of patches whose modules are in the modules map
    tokens,     \* ids with an entry in patch_tokens
    announced,  \* PatchStarted events less PatchStopped events, per patch
    pc, id, name  \* the call each host makes: its step and its arguments

registry == <<patches, names, nameOf, running, modules, tokens, announced>>
vars == <<nextId, registry, pc, id, name>>

Steps == {"idle", "insert", "index", "recheck", "rollback", "setName",
          "teardown", "unmap", "unname", "untoken", "start", "started",
          "stop", "stopped", "newSlot"}

\* Steps that carry a patch id, and those that carry a name with it.
IdSteps   == Steps \ {"idle"}
NameSteps == {"index", "recheck", "rollback", "setName"}

TypeOK ==
    /\ nextId \in 1 .. MaxPatches + 1
    /\ patches \subseteq Ids
    /\ names \in [Names -> Ids \cup {NoId}]
    /\ nameOf \in [Ids -> Names \cup {NoName}]
    /\ running \in [Ids -> BOOLEAN]
    /\ modules \subseteq Ids
    /\ tokens \subseteq Ids
    /\ announced \in [Ids -> Int]
    /\ pc \in [Callers -> Steps]
    /\ id \in [Callers -> Ids \cup {NoId}]
    /\ name \in [Callers -> Names \cup {NoName}]
    /\ \A c \in Callers :
          /\ pc[c] \in IdSteps => id[c] \in Ids
          /\ pc[c] \in NameSteps => name[c] \in Names

Init ==
    /\ nextId = 1
    /\ patches = {}
    /\ names = [n \in Names |-> NoId]
    /\ nameOf = [i \in Ids |-> NoName]
    /\ running = [i \in Ids |-> FALSE]
    /\ modules = {}
    /\ tokens = {}
    /\ announced = [i \in Ids |-> 0]
    /\ pc = [c \in Callers |-> "idle"]
    /\ id = [c \in Callers |-> NoId]
    /\ name = [c \in Callers |-> NoName]

Goto(c, step) == pc' = [pc EXCEPT ![c] = step]

\* The call returns; its arguments are forgotten.
Finish(c) ==
    /\ pc' = [pc EXCEPT ![c] = "idle"]
    /\ id' = [id EXCEPT ![c] = NoId]
    /\ name' = [name EXCEPT ![c] = NoName]

\* The index without the names of patch i: retain(|_, v| v != id).
Without(i) == [n \in Names |-> IF names[n] = i THEN NoId ELSE names[n]]

-----------------------------------------------------------------------------
(* add_patch_raw: reserve the name, then insert the patch *)

\* A name that is taken fails the call before any module is created.
Reserve(c, n) ==
    /\ pc[c] = "idle" /\ "add" \in Menu[c] /\ nextId <= MaxPatches
    /\ n = NoName \/ (n \in Names /\ names[n] = NoId)
    /\ names' = IF n = NoName THEN names ELSE [names EXCEPT ![n] = nextId]
    /\ nameOf' = [nameOf EXCEPT ![nextId] = n]
    /\ nextId' = nextId + 1
    /\ id' = [id EXCEPT ![c] = nextId]
    /\ Goto(c, "insert")
    /\ UNCHANGED <<patches, running, modules, tokens, announced, name>>

Insert(c) ==
    /\ pc[c] = "insert"
    /\ modules' = modules \cup {id[c]}
    /\ patches' = patches \cup {id[c]}
    /\ Finish(c)
    /\ UNCHANGED <<nextId, names, nameOf, running, tokens, announced>>

-----------------------------------------------------------------------------
(* rename_patch, remove_patch, start_patch and stop_patch first look the     *)
(* patch up; from then on they keep its object, whatever happens to the map. *)

Lookup(c, i, op, step) ==
    /\ pc[c] = "idle" /\ op \in Menu[c] /\ i \in patches
    /\ id' = [id EXCEPT ![c] = i]
    /\ Goto(c, step)
    /\ UNCHANGED <<nextId, registry>>

CallRename(c, i, n) == Lookup(c, i, "rename", "index") /\ name' = [name EXCEPT ![c] = n]
CallRemove(c, i)    == Lookup(c, i, "remove", "teardown") /\ UNCHANGED name
CallStart(c, i)     == Lookup(c, i, "start", "start") /\ UNCHANGED name
CallStop(c, i)      == Lookup(c, i, "stop", "stop") /\ UNCHANGED name

-----------------------------------------------------------------------------
(* rename_patch *)

NameTaken(c) ==
    /\ pc[c] = "index" /\ names[name[c]] \notin {NoId, id[c]}
    /\ Finish(c)
    /\ UNCHANGED <<nextId, registry>>

Index(c) ==
    /\ pc[c] = "index" /\ names[name[c]] \in {NoId, id[c]}
    /\ names' = [Without(id[c]) EXCEPT ![name[c]] = id[c]]
    /\ Goto(c, "recheck")
    /\ UNCHANGED <<nextId, patches, nameOf, running, modules, tokens, announced,
                   id, name>>

\* Mutant: the patch is taken to be live still.
RecheckNothing(c) ==
    /\ pc[c] = "recheck"
    /\ Goto(c, "setName")
    /\ UNCHANGED <<nextId, registry, id, name>>

\* Is the patch live still, now that the name is reserved?
Recheck(c) ==
    /\ pc[c] = "recheck"
    /\ Goto(c, IF id[c] \in patches THEN "setName" ELSE "rollback")
    /\ UNCHANGED <<nextId, registry, id, name>>

\* Take the reservation back, if it is still this patch's.
Rollback(c) ==
    /\ pc[c] = "rollback"
    /\ names' = IF names[name[c]] = id[c]
                THEN [names EXCEPT ![name[c]] = NoId] ELSE names
    /\ Finish(c)
    /\ UNCHANGED <<nextId, patches, nameOf, running, modules, tokens, announced>>

SetName(c) ==
    /\ pc[c] = "setName"
    /\ nameOf' = [nameOf EXCEPT ![id[c]] = name[c]]
    /\ Finish(c)
    /\ UNCHANGED <<nextId, patches, names, running, modules, tokens, announced>>

-----------------------------------------------------------------------------
(* remove_patch *)

\* Under the patch lock: Patch::stop, then the modules leave the map.
Teardown(c) ==
    /\ pc[c] = "teardown"
    /\ running' = [running EXCEPT ![id[c]] = FALSE]
    /\ tokens' = tokens \ {id[c]}
    /\ modules' = modules \ {id[c]}
    /\ Goto(c, "unmap")
    /\ UNCHANGED <<nextId, patches, names, nameOf, announced, id, name>>

Unmap(c) ==
    /\ pc[c] = "unmap"
    /\ patches' = patches \ {id[c]}
    /\ Goto(c, "unname")
    /\ UNCHANGED <<nextId, names, nameOf, running, modules, tokens, announced,
                   id, name>>

Unname(c) ==
    /\ pc[c] = "unname"
    /\ names' = Without(id[c])
    /\ Goto(c, "untoken")
    /\ UNCHANGED <<nextId, patches, nameOf, running, modules, tokens, announced,
                   id, name>>

Untoken(c) ==
    /\ pc[c] = "untoken"
    /\ tokens' = tokens \ {id[c]}
    /\ Finish(c)
    /\ UNCHANGED <<nextId, patches, names, nameOf, running, modules, announced>>

-----------------------------------------------------------------------------
(* start_patch and stop_patch: the transition under the patch lock, the      *)
(* event after it.  start_module derives its token from the patch's.         *)

\* Mutant: a start that changes nothing is announced too.
StartAnnounced(c) ==
    /\ pc[c] = "start"
    /\ running' = [running EXCEPT ![id[c]] = TRUE]
    /\ tokens' = tokens \cup {id[c]}
    /\ Goto(c, "started")
    /\ UNCHANGED <<nextId, patches, names, nameOf, modules, announced, id, name>>

AlreadyRunning(c) ==
    /\ pc[c] = "start" /\ running[id[c]]
    /\ Finish(c)
    /\ UNCHANGED <<nextId, registry>>

Start(c) ==
    /\ pc[c] = "start" /\ ~running[id[c]]
    /\ running' = [running EXCEPT ![id[c]] = TRUE]
    /\ tokens' = tokens \cup {id[c]}
    /\ Goto(c, "started")
    /\ UNCHANGED <<nextId, patches, names, nameOf, modules, announced, id, name>>

EmitStarted(c) ==
    /\ pc[c] = "started"
    /\ announced' = [announced EXCEPT ![id[c]] = @ + 1]
    /\ Finish(c)
    /\ UNCHANGED <<nextId, patches, names, nameOf, running, modules, tokens>>

\* Mutant: the flag is cleared only by a stop that finds it set.
StopTokenOnly(c) ==
    /\ pc[c] = "stop"
    /\ tokens' = tokens \ {id[c]}
    /\ Finish(c)
    /\ UNCHANGED <<nextId, patches, names, nameOf, running, modules, announced>>

\* Patch::stop runs whether the patch runs or not.
Stop(c) ==
    /\ pc[c] = "stop"
    /\ running' = [running EXCEPT ![id[c]] = FALSE]
    /\ tokens' = tokens \ {id[c]}
    /\ IF running[id[c]] THEN Goto(c, "stopped") /\ UNCHANGED <<id, name>>
                         ELSE Finish(c)
    /\ UNCHANGED <<nextId, patches, names, nameOf, modules, announced>>

EmitStopped(c) ==
    /\ pc[c] = "stopped"
    /\ announced' = [announced EXCEPT ![id[c]] = @ - 1]
    /\ Finish(c)
    /\ UNCHANGED <<nextId, patches, names, nameOf, running, modules, tokens>>

\* start_module of a module of the patch: it is found in the modules map ...
CallStartModule(c, i) ==
    /\ pc[c] = "idle" /\ "startModule" \in Menu[c] /\ i \in modules
    /\ id' = [id EXCEPT ![c] = i]
    /\ Goto(c, "newSlot")
    /\ UNCHANGED <<nextId, registry, name>>

\* ... then patch_token gives the patch a token if it has none.
NewSlot(c) ==
    /\ pc[c] = "newSlot"
    /\ tokens' = tokens \cup {id[c]}
    /\ Finish(c)
    /\ UNCHANGED <<nextId, patches, names, nameOf, running, modules, announced>>

-----------------------------------------------------------------------------
Add(c) == (\E n \in Names \cup {NoName} : Reserve(c, n)) \/ Insert(c)

Rename(c) ==
    \/ \E i \in Ids, n \in Names : CallRename(c, i, n)
    \/ NameTaken(c) \/ Index(c) \/ Recheck(c) \/ Rollback(c) \/ SetName(c)

Remove(c) ==
    \/ \E i \in Ids : CallRemove(c, i)
    \/ Teardown(c) \/ Unmap(c) \/ Unname(c) \/ Untoken(c)

Run(c) ==
    \/ \E i \in Ids : CallStart(c, i) \/ CallStop(c, i) \/ CallStartModule(c, i)
    \/ AlreadyRunning(c) \/ Start(c) \/ EmitStarted(c)
    \/ Stop(c) \/ EmitStopped(c) \/ NewSlot(c)

Next == \E c \in Callers : Add(c) \/ Rename(c) \/ Remove(c) \/ Run(c)

Spec == Init /\ [][Next]_vars

-----------------------------------------------------------------------------
(* Properties *)

Quiet == \A c \in Callers : pc[c] = "idle"

\* No name stays reserved for a patch that is gone: the re-check of rename_patch
\* and the clean-up of remove_patch leave no entry that points at a dead id.
NoDeadNames ==
    Quiet => \A n \in Names : names[n] # NoId => names[n] \in patches

\* A patch is found under one name at most, and a patch that was named is found
\* under some name for as long as it is live, whoever renames it.
OneName ==
    \A i \in patches :
        /\ \A m, n \in Names : names[m] = i /\ names[n] = i => m = n
        /\ nameOf[i] # NoName => \E n \in Names : names[n] = i

\* A name leads to a live patch, and to a live patch leads one name at most.
NamesHold == NoDeadNames /\ OneName

\* Every transition of a live patch is announced once, and nothing else is.
TransitionsAnnounced ==
    Quiet => \A i \in patches : announced[i] = IF running[i] THEN 1 ELSE 0

\* A live patch that runs has the parent token that stop_patch fires to abort
\* its modules.
RunningIsCancellable == \A i \in patches : running[i] => i \in tokens

=============================================================================
