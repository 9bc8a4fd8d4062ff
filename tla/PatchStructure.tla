---------------------------- MODULE PatchStructure ----------------------------
(***************************************************************************)
(* The structure of patches in modular-agent-core: what the stored spec of *)
(* a patch lists and draws, beside the two maps the runtime works from,    *)
(* the module instances and the routes.                                    *)
(*                                                                         *)
(* The spec of a patch changes under its async lock, the maps under short  *)
(* locks of their own, and remove_module works on the maps before it waits *)
(* for the lock of the patch.  A step is what a call does between two      *)
(* points where another call that can see it may run.  How a module is     *)
(* stopped is the subject of ModuleLifecycle, what becomes of the name and *)
(* the token of a patch that of PatchRegistry.                             *)
(***************************************************************************)
EXTENDS Naturals, FiniteSets

CONSTANTS
    Callers,      \* host tasks
    Menu,         \* the operations each caller uses
    MaxPatches,   \* bound on the patches that are ever added
    MaxModules,   \* bound on the module ids that are ever handed out
    MaxBatch,     \* bound on the modules added at once
    Wires         \* the connections that are ever drawn, from one id to another

Patches == 1 .. MaxPatches
Ids     == 1 .. MaxModules
NoPatch == 0
NoId    == 0
Free    == "free"

Operations == {"addPatch", "removePatch", "addModule", "removeModule",
               "connect", "disconnect", "addBatch"}

ASSUME StructureAssumption ==
    /\ MaxPatches \in Nat /\ MaxModules \in Nat /\ MaxBatch \in Nat
    /\ Wires \subseteq Ids \X Ids
    /\ Menu \in [Callers -> SUBSET Operations]
    /\ Free \notin Callers

VARIABLES
    nextPatch, nextId,   \* the ids to be handed out next
    patches,             \* the patches in the map
    listed,              \* patch -> the modules of its spec
    drawn,               \* patch -> the connections of its spec
    lock,                \* patch -> who is in a long operation under its lock
    modules,             \* the ids that have an instance
    home,                \* id -> the patch it was made for
    routes,              \* the connections that values are routed along
    pc, patch, module,   \* a call: where it is, its patch, the module at hand
    todo, links,         \* the modules and connections it has still to visit
    made, laid,          \* what a batch has added so far
    known                \* history: the ids a host has been told of

idVars    == <<nextPatch, nextId>>
specVars  == <<patches, listed, drawn>>
mapVars   == <<modules, home, routes>>
batchVars == <<made, laid>>
callVars  == <<pc, patch, module, todo, links, batchVars>>
vars == <<idVars, specVars, lock, mapVars, callVars, known>>

Steps == {"idle", "create", "list", "connect", "disconnect", "cut", "drop", "unlist",
          "lockPatch", "teardown", "unmap", "lockBatch", "make", "undo"}

Types ==
    /\ nextPatch \in 1 .. MaxPatches + 1 /\ nextId \in 1 .. MaxModules + 1
    /\ patches \subseteq Patches
    /\ listed \in [Patches -> SUBSET Ids]
    /\ drawn \in [Patches -> SUBSET Wires]
    /\ lock \in [Patches -> Callers \cup {Free}]
    /\ modules \subseteq Ids
    /\ home \in [Ids -> Patches \cup {NoPatch}]
    /\ routes \subseteq Wires
    /\ pc \in [Callers -> Steps]
    /\ patch \in [Callers -> Patches \cup {NoPatch}]
    /\ module \in [Callers -> Ids \cup {NoId}]
    /\ todo \in [Callers -> SUBSET Ids]
    /\ links \in [Callers -> SUBSET Wires]
    /\ made \in [Callers -> SUBSET Ids]
    /\ laid \in [Callers -> SUBSET Wires]
    /\ known \subseteq Ids

\* A call in progress has a patch, and a module where it needs one.
Handles ==
    \A c \in Callers :
        /\ pc[c] # "idle" => patch[c] \in Patches
        /\ pc[c] \in {"list", "cut", "drop", "unlist"} => module[c] \in Ids

\* Who holds the lock of a patch is in a long operation on it.
Holders ==
    \A p \in Patches : lock[p] # Free =>
        /\ patch[lock[p]] = p
        /\ pc[lock[p]] \in {"teardown", "cut", "drop", "make", "undo"}

TypeOK == Types /\ Handles /\ Holders

Init ==
    /\ nextPatch = 1 /\ nextId = 1
    /\ patches = {}
    /\ listed = [p \in Patches |-> {}]
    /\ drawn = [p \in Patches |-> {}]
    /\ lock = [p \in Patches |-> Free]
    /\ modules = {}
    /\ home = [i \in Ids |-> NoPatch]
    /\ routes = {}
    /\ pc = [c \in Callers |-> "idle"]
    /\ patch = [c \in Callers |-> NoPatch]
    /\ module = [c \in Callers |-> NoId]
    /\ todo = [c \in Callers |-> {}]
    /\ links = [c \in Callers |-> {}]
    /\ made = [c \in Callers |-> {}]
    /\ laid = [c \in Callers |-> {}]
    /\ known = {}

-----------------------------------------------------------------------------
Ends(w) == {w[1], w[2]}

WiresIn(ids) == {w \in Wires : Ends(w) \subseteq ids}

\* The modules of a patch that a host can name.
Members(p) == {i \in known : home[i] = p}

Goto(c, step) == pc' = [pc EXCEPT ![c] = step]

Finish(c) ==
    /\ Goto(c, "idle")
    /\ patch' = [patch EXCEPT ![c] = NoPatch]
    /\ module' = [module EXCEPT ![c] = NoId]
    /\ todo' = [todo EXCEPT ![c] = {}]
    /\ links' = [links EXCEPT ![c] = {}]
    /\ made' = [made EXCEPT ![c] = {}]
    /\ laid' = [laid EXCEPT ![c] = {}]

\* The patch is looked up in the map; the call keeps its handle even if the
\* patch is removed later.
Find(c, p, op, step) ==
    /\ pc[c] = "idle" /\ op \in Menu[c] /\ p \in patches
    /\ patch' = [patch EXCEPT ![c] = p]
    /\ Goto(c, step)
    /\ UNCHANGED <<idVars, specVars, lock, mapVars, batchVars, known>>

Locked(c) == lock[patch[c]] = c

CanLock(c) == lock[patch[c]] = Free

\* The next n ids of the counter.
NewIds(n) == nextId .. nextId + n - 1

-----------------------------------------------------------------------------
(* add_patch.  A module whose definition this build does not know is listed *)
(* and has no instance.  The connections of the spec join its modules, each *)
(* drawn once.  Nobody can name the patch before it is in the map.          *)

AddPatch(c) ==
    /\ pc[c] = "idle" /\ "addPatch" \in Menu[c] /\ nextPatch \in Patches
    /\ \E n \in 0 .. MaxBatch :
           /\ NewIds(n) \subseteq Ids
           /\ \E defined \in SUBSET NewIds(n), ws \in SUBSET WiresIn(NewIds(n)) :
                  /\ listed' = [listed EXCEPT ![nextPatch] = NewIds(n)]
                  /\ drawn' = [drawn EXCEPT ![nextPatch] = ws]
                  /\ modules' = modules \cup defined
                  /\ routes' = routes \cup ws
           /\ home' = [i \in Ids |-> IF i \in NewIds(n) THEN nextPatch ELSE home[i]]
           /\ known' = known \cup NewIds(n)
           /\ nextId' = nextId + n
    /\ patches' = patches \cup {nextPatch}
    /\ nextPatch' = nextPatch + 1
    /\ UNCHANGED <<lock, callVars>>

-----------------------------------------------------------------------------
(* add_module.                                                              *)

CallAddModule(c, p) == Find(c, p, "addModule", "create") /\ UNCHANGED <<module, todo, links>>

\* add_module_internal: the instance is made and put into the map ...
Create(c) ==
    /\ pc[c] = "create" /\ nextId \in Ids
    /\ modules' = modules \cup {nextId}
    /\ home' = [home EXCEPT ![nextId] = patch[c]]
    /\ module' = [module EXCEPT ![c] = nextId]
    /\ nextId' = nextId + 1
    /\ Goto(c, "list")
    /\ UNCHANGED <<nextPatch, specVars, lock, routes, patch, todo, links, batchVars, known>>

\* ... unless its definition is unknown or its constructor fails.
CreateFails(c) ==
    /\ pc[c] = "create" /\ nextId \in Ids
    /\ nextId' = nextId + 1
    /\ Finish(c)
    /\ UNCHANGED <<nextPatch, specVars, lock, mapVars, known>>

List(c) ==
    /\ pc[c] = "list" /\ CanLock(c)
    /\ listed' = [listed EXCEPT ![patch[c]] = @ \cup {module[c]}]
    /\ known' = known \cup {module[c]}
    /\ Finish(c)
    /\ UNCHANGED <<idVars, patches, drawn, lock, mapVars>>

-----------------------------------------------------------------------------
(* add_connection and remove_connection.  The code asks only that the ends  *)
(* exist; that they are of one patch is the hosts' doing, and kept to here. *)

CallConnect(c, p, w) ==
    /\ Find(c, p, "connect", "connect")
    /\ w \in WiresIn(Members(p) \cap modules)
    /\ links' = [links EXCEPT ![c] = {w}]
    /\ UNCHANGED <<module, todo>>

\* A connection that is routed already is refused.
Connect(c) ==
    /\ pc[c] = "connect" /\ CanLock(c)
    /\ IF links[c] \subseteq routes
       THEN UNCHANGED <<routes, drawn>>
       ELSE /\ routes' = routes \cup links[c]
            /\ drawn' = [drawn EXCEPT ![patch[c]] = @ \cup links[c]]
    /\ Finish(c)
    /\ UNCHANGED <<idVars, patches, listed, lock, modules, home, known>>

CallDisconnect(c, p, w) ==
    /\ Find(c, p, "disconnect", "disconnect")
    /\ w \in WiresIn(Members(p))
    /\ links' = [links EXCEPT ![c] = {w}]
    /\ UNCHANGED <<module, todo>>

\* A connection the spec does not draw is not found.
Disconnect(c) ==
    /\ pc[c] = "disconnect" /\ CanLock(c)
    /\ drawn' = [drawn EXCEPT ![patch[c]] = @ \ links[c]]
    /\ routes' = routes \ (links[c] \cap drawn[patch[c]])
    /\ Finish(c)
    /\ UNCHANGED <<idVars, patches, listed, lock, modules, home, known>>

-----------------------------------------------------------------------------
(* remove_module, and the removal of one module by remove_patch: the        *)
(* instance is stopped, its routes are cut, and it leaves the map.          *)

\* A module without an instance only leaves the spec.
CallRemoveModule(c, p, m) ==
    /\ m \in Members(p)
    /\ Find(c, p, "removeModule", IF m \in modules THEN "cut" ELSE "unlist")
    /\ module' = [module EXCEPT ![c] = m]
    /\ UNCHANGED <<todo, links>>

\* stop() failed: remove_module reports it, remove_patch goes on.
StopFails(c) ==
    /\ pc[c] = "cut"
    /\ IF Locked(c)
       THEN Goto(c, "teardown") /\ UNCHANGED <<patch, module, todo, links, batchVars>>
       ELSE Finish(c)
    /\ UNCHANGED <<idVars, specVars, lock, mapVars, known>>

Cut(c) ==
    /\ pc[c] = "cut"
    /\ routes' = {w \in routes : module[c] \notin Ends(w)}
    /\ Goto(c, "drop")
    /\ UNCHANGED <<idVars, specVars, lock, modules, home, patch, module, todo, links,
                   batchVars, known>>

Drop(c) ==
    /\ pc[c] = "drop"
    /\ modules' = modules \ {module[c]}
    /\ Goto(c, IF Locked(c) THEN "teardown" ELSE "unlist")
    /\ UNCHANGED <<idVars, specVars, lock, home, routes, patch, module, todo, links,
                   batchVars, known>>

\* The spec still draws the connections of the module.
Unlist(c) ==
    /\ pc[c] = "unlist" /\ CanLock(c)
    /\ listed' = [listed EXCEPT ![patch[c]] = @ \ {module[c]}]
    /\ Finish(c)
    /\ UNCHANGED <<idVars, patches, drawn, lock, mapVars, known>>

-----------------------------------------------------------------------------
(* remove_patch.                                                            *)

CallRemovePatch(c, p) ==
    /\ Find(c, p, "removePatch", "lockPatch")
    /\ UNCHANGED <<module, todo, links>>

LockPatch(c) ==
    /\ pc[c] = "lockPatch" /\ CanLock(c)
    /\ lock' = [lock EXCEPT ![patch[c]] = c]
    /\ todo' = [todo EXCEPT ![c] = listed[patch[c]]]
    /\ Goto(c, "teardown")
    /\ UNCHANGED <<idVars, specVars, mapVars, patch, module, links, batchVars, known>>

Teardown(c, m) ==
    /\ pc[c] = "teardown" /\ m \in todo[c]
    /\ todo' = [todo EXCEPT ![c] = @ \ {m}]
    /\ module' = [module EXCEPT ![c] = m]
    /\ Goto(c, IF m \in modules THEN "cut" ELSE "teardown")
    /\ UNCHANGED <<idVars, specVars, lock, mapVars, patch, links, batchVars, known>>

\* The connections go with the modules, and the lock is released.
Untie(c) ==
    /\ pc[c] = "teardown" /\ todo[c] = {}
    /\ routes' = routes \ drawn[patch[c]]
    /\ lock' = [lock EXCEPT ![patch[c]] = Free]
    /\ Goto(c, "unmap")
    /\ UNCHANGED <<idVars, specVars, modules, home, patch, module, todo, links, batchVars,
                   known>>

Unmap(c) ==
    /\ pc[c] = "unmap"
    /\ patches' = patches \ {patch[c]}
    /\ Finish(c)
    /\ UNCHANGED <<idVars, listed, drawn, lock, mapVars, known>>

-----------------------------------------------------------------------------
(* add_modules_and_connections: n modules, and connections among them and   *)
(* to modules the patch has (the code asks nothing of the ends).            *)

CallBatch(c, p, n, ws) ==
    /\ pc[c] = "idle" /\ "addBatch" \in Menu[c] /\ p \in patches
    /\ NewIds(n) \subseteq Ids
    /\ ws \subseteq WiresIn(NewIds(n) \cup Members(p))
    /\ nextId' = nextId + n
    /\ patch' = [patch EXCEPT ![c] = p]
    /\ todo' = [todo EXCEPT ![c] = NewIds(n)]
    /\ links' = [links EXCEPT ![c] = ws]
    /\ Goto(c, "lockBatch")
    /\ UNCHANGED <<nextPatch, specVars, lock, mapVars, module, batchVars, known>>

LockBatch(c) ==
    /\ pc[c] = "lockBatch" /\ CanLock(c)
    /\ lock' = [lock EXCEPT ![patch[c]] = c]
    /\ Goto(c, "make")
    /\ UNCHANGED <<idVars, specVars, mapVars, patch, module, todo, links, batchVars, known>>

Make(c, m) ==
    /\ pc[c] = "make" /\ m \in todo[c]
    /\ modules' = modules \cup {m}
    /\ home' = [home EXCEPT ![m] = patch[c]]
    /\ listed' = [listed EXCEPT ![patch[c]] = @ \cup {m}]
    /\ made' = [made EXCEPT ![c] = @ \cup {m}]
    /\ todo' = [todo EXCEPT ![c] = @ \ {m}]
    /\ UNCHANGED <<idVars, patches, drawn, lock, routes, pc, patch, module, links, laid,
                   known>>

MakeFails(c) ==
    /\ pc[c] = "make" /\ todo[c] # {}
    /\ Goto(c, "undo")
    /\ UNCHANGED <<idVars, specVars, lock, mapVars, patch, module, todo, links, batchVars,
                   known>>

Lay(c, w) ==
    /\ pc[c] = "make" /\ todo[c] = {}
    /\ w \in links[c] \ laid[c] /\ w \notin routes
    /\ routes' = routes \cup {w}
    /\ drawn' = [drawn EXCEPT ![patch[c]] = @ \cup {w}]
    /\ laid' = [laid EXCEPT ![c] = @ \cup {w}]
    /\ UNCHANGED <<idVars, patches, listed, lock, modules, home, pc, patch, module, todo,
                   links, made, known>>

\* A connection is routed already, by another call or because the batch has it
\* twice.
LayFails(c) ==
    /\ pc[c] = "make" /\ todo[c] = {}
    /\ links[c] \cap routes # {}
    /\ Goto(c, "undo")
    /\ UNCHANGED <<idVars, specVars, lock, mapVars, patch, module, todo, links, batchVars,
                   known>>

BatchDone(c) ==
    /\ pc[c] = "make" /\ todo[c] = {} /\ laid[c] = links[c]
    /\ known' = known \cup made[c]
    /\ lock' = [lock EXCEPT ![patch[c]] = Free]
    /\ Finish(c)
    /\ UNCHANGED <<idVars, specVars, mapVars>>

\* The rollback of a batch takes connections out of the spec, routes out of the
\* one map and instances out of the other.
TakeBack(c, wires, ways, ids) ==
    /\ pc[c] = "undo"
    /\ drawn' = [drawn EXCEPT ![patch[c]] = @ \ wires]
    /\ routes' = routes \ ways
    /\ listed' = [listed EXCEPT ![patch[c]] = @ \ made[c]]
    /\ modules' = modules \ ids
    /\ lock' = [lock EXCEPT ![patch[c]] = Free]
    /\ Finish(c)
    /\ UNCHANGED <<idVars, patches, home, known>>

\* Mutants of Undo: the instances stay; the routes of all the connections
\* asked for are taken, those that were there before too.
UndoKeepsInstances(c) == TakeBack(c, laid[c], laid[c], {})
UndoTakesAllRoutes(c) == TakeBack(c, laid[c], links[c], made[c])

\* Exactly what the batch added: a connection that was there before it stays.
Undo(c) == TakeBack(c, laid[c], laid[c], made[c])

-----------------------------------------------------------------------------
Call(c) ==
    \/ AddPatch(c)
    \/ \E p \in patches :
           \/ CallAddModule(c, p)
           \/ CallRemovePatch(c, p)
           \/ \E w \in Wires : CallConnect(c, p, w) \/ CallDisconnect(c, p, w)
           \/ \E m \in Ids : CallRemoveModule(c, p, m)
           \/ \E n \in 1 .. MaxBatch, ws \in SUBSET Wires : CallBatch(c, p, n, ws)

Continue(c) ==
    \/ Create(c) \/ CreateFails(c) \/ List(c)
    \/ Connect(c) \/ Disconnect(c)
    \/ Cut(c) \/ StopFails(c) \/ Drop(c) \/ Unlist(c)
    \/ LockPatch(c) \/ Untie(c) \/ Unmap(c)
    \/ LockBatch(c) \/ MakeFails(c) \/ LayFails(c) \/ BatchDone(c) \/ Undo(c)
    \/ \E m \in todo[c] : Teardown(c, m) \/ Make(c, m)
    \/ \E w \in links[c] : Lay(c, w)

Next == \E c \in Callers : Call(c) \/ Continue(c)

Spec == Init /\ [][Next]_vars

-----------------------------------------------------------------------------
Quiet == \A c \in Callers : pc[c] = "idle"

BeingDropped(m) == \E c \in Callers : pc[c] = "drop" /\ module[c] = m

TornDown(p) == \E c \in Callers : pc[c] = "unmap" /\ patch[c] = p

\* What the spec of a patch draws is what the runtime routes: a connection drawn
\* between two instances is routed, whatever other patches, batches, rollbacks
\* and removals do to the shared map.  (A patch that is torn down stays in the
\* map a moment longer.)
DrawnIsRouted ==
    \A p \in patches : ~TornDown(p) =>
        \A w \in drawn[p] :
            (\A i \in Ends(w) : i \in modules /\ ~BeingDropped(i)) => w \in routes

\* The runtime routes nothing the editor does not show: a route that starts in
\* a live patch is drawn in its spec.
RoutedIsDrawn ==
    \A w \in routes : home[w[1]] \in patches => w \in drawn[home[w[1]]]

\* An id that was used up by a call that failed, half way through a batch or
\* in a constructor, is nowhere: no instance, no spec and no route has it.
FailuresLeaveNothing ==
    Quiet => \A i \in Ids \ known :
        /\ i \notin modules
        /\ \A w \in routes : i \notin Ends(w)
        /\ \A p \in Patches : i \notin listed[p] /\ \A w \in drawn[p] : i \notin Ends(w)

\* An instance of a live patch is listed by its spec, so that starting,
\* stopping and removing the patch reach it.
InstancesListed ==
    Quiet => \A m \in modules : home[m] \in patches => m \in listed[home[m]]

\* The specs draw what the runtime routes, no more and no less.
DrawnAsRouted == DrawnIsRouted /\ RoutedIsDrawn

\* Every instance is within reach of its patch, and none is left of a failure.
NothingOutOfReach == FailuresLeaveNothing /\ InstancesListed

=============================================================================
