--------------------------- MODULE ModuleLifecycle ---------------------------
(***************************************************************************)
(* The life of the modules of one patch in modular-agent-core: start_patch *)
(* and stop_patch, start_module and stop_module, the module loop each      *)
(* start spawns, the inbox and cancellation-token slots of the loop, and   *)
(* the messages (inputs, config edits, Stop) that reach it.                *)
(*                                                                         *)
(* Every host task that calls the API and every module loop runs on its    *)
(* own thread of the multi-threaded runtime.  A step of the specification  *)
(* is what one of them does inside one critical section, or between two    *)
(* points where another may run: an .await, or the release of one of the   *)
(* short locks on module_txs, module_tokens and patch_tokens.              *)
(*                                                                         *)
(* Cancellation tokens.  A parent token can only be fired through its      *)
(* patch_tokens entry (cancel_patch_token), so a token that has left the   *)
(* map never fires its children any more.  A module token is therefore     *)
(* "attached" (child of the parent in the map), "detached" (child of a     *)
(* parent that was replaced or removed before it fired) or "fired".        *)
(***************************************************************************)
EXTENDS Naturals, Sequences, FiniteSets

CONSTANTS
    Modules,     \* the modules of the patch, all in its stored spec
    Disabled,    \* those whose stored spec entry is disabled
    Channels,    \* channel names an ExternalInputModule is configured with
    Callers,     \* host tasks calling the API (and the router's task)
    Menu,        \* the operations each caller uses
    MaxGen,      \* bound: module-loop incarnations in a behaviour
    MaxQueue     \* bound: messages in an inbox before Stop

NoModule  == "no module"
NoChannel == "no channel"
Free     == 0                   \* nobody holds the lock
None     == 0                   \* no such entry in module_txs, module_tokens
Gens     == 1 .. MaxGen         \* MODULE_TOKEN_GENERATION values

Operations == {"startPatch", "stopPatch", "startModule", "stopModule",
               "setConfigs", "input"}

ASSUME LifecycleAssumption ==
    /\ Disabled \subseteq Modules
    /\ NoModule \notin Modules
    /\ NoChannel \notin Channels
    /\ Channels # {}
    /\ Menu \in [Callers -> SUBSET Operations]
    /\ Callers \cap Nat = {}
    /\ MaxGen \in Nat
    /\ MaxQueue \in Nat

ASSUME FiniteModules == IsFiniteSet(Modules) /\ IsFiniteSet(Callers)

VARIABLES
    \* One module: its status, its async lock, the channel an
    \* ExternalInputModule is configured with (NoChannel for every other
    \* module), and how often external_input_modules lists it under each.
    status, lock, channel, registered,
    \* The entries of module_txs and module_tokens: the generation they hold.
    inbox, tokenSlot,
    \* One module loop per generation.
    nextGen, owner, loop, started, queue, token, fresh,
    \* The patch: its token entry, its running flag and its async lock.
    patchToken, running, patchLock,
    \* One API call per caller: where it is, the modules a patch operation
    \* still has to visit, the module and the generation at hand, its argument.
    pc, todo, target, held, arg

moduleVars == <<status, lock, channel, registered>>
slotVars   == <<inbox, tokenSlot>>
loopVars   == <<nextGen, owner, loop, started, queue, token, fresh>>
patchVars  == <<patchToken, running, patchLock>>
callVars   == <<pc, todo, target, held, arg>>
vars == <<moduleVars, slotVars, loopVars, patchVars, callVars>>

TokenStates == {"none", "attached", "detached", "fired"}

LoopStates == {"none", "allocated", "starting", "polledStart", "inStart",
               "failed", "recv", "input", "polledInput", "processing",
               "renew", "renewSlot", "done"}

CallStates == {"idle", "lockForStart", "eachStart", "readStatus", "newToken",
               "install", "lockForStop", "eachStop", "takeInbox", "takeToken",
               "fireToken", "lockModule", "stopping",
               "sendConfig", "setDirect", "sendInput"}

Messages == [kind : {"input", "stop"}] \cup [kind : {"config"}, channel : Channels]
InputMsg == [kind |-> "input"]
StopMsg  == [kind |-> "stop"]
ConfigMsg(ch) == [kind |-> "config", channel |-> ch]

\* Where a call has a module and a generation at hand, and where it may hold
\* the patch lock.
ModuleStates == {"readStatus", "newToken", "install", "takeInbox", "takeToken",
                 "fireToken", "lockModule", "stopping"}
SendStates   == {"sendConfig", "setDirect", "sendInput"}
PatchStates  == ModuleStates \cup {"eachStart", "eachStop"}

ModulesOK ==
    /\ status \in [Modules -> {"Init", "Start", "Stop"}]
    /\ lock \in [Modules -> Callers \cup Gens \cup {Free}]
    /\ channel \in [Modules -> Channels \cup {NoChannel}]
    /\ registered \in [Modules -> [Channels -> Nat]]

SlotsOK ==
    /\ inbox \in [Modules -> Gens \cup {None}]
    /\ tokenSlot \in [Modules -> Gens \cup {None}]

LoopsOK ==
    /\ nextGen \in 1 .. MaxGen + 1
    /\ owner \in [Gens -> Modules \cup {NoModule}]
    /\ loop \in [Gens -> LoopStates]
    /\ started \in [Gens -> BOOLEAN]
    /\ queue \in [Gens -> Seq(Messages)]
    /\ token \in [Gens -> TokenStates]
    /\ fresh \in [Gens -> TokenStates]
    /\ \A g \in Gens : loop[g] # "none" => owner[g] \in Modules

PatchOK ==
    /\ patchToken \in {"none", "live", "fired"}
    /\ running \in BOOLEAN
    /\ patchLock \in Callers \cup {Free}

CallsOK ==
    /\ pc \in [Callers -> CallStates]
    /\ todo \in [Callers -> SUBSET Modules]
    /\ target \in [Callers -> Modules \cup {NoModule}]
    /\ held \in [Callers -> Gens \cup {None}]
    /\ arg \in [Callers -> Channels \cup {NoChannel}]
    /\ \A c \in Callers :
          /\ pc[c] \in ModuleStates \cup SendStates => target[c] \in Modules
          /\ pc[c] \in {"install", "fireToken", "sendConfig", "sendInput"} => held[c] \in Gens
          /\ pc[c] = "install" => loop[held[c]] # "none"
          /\ pc[c] \in {"sendConfig", "setDirect"} => arg[c] \in Channels
          /\ patchLock = c => pc[c] \in PatchStates

TypeOK == ModulesOK /\ SlotsOK /\ LoopsOK /\ PatchOK /\ CallsOK

Init ==
    /\ status = [m \in Modules |-> "Init"]
    /\ lock = [m \in Modules |-> Free]
    /\ channel \in [Modules -> Channels \cup {NoChannel}]
    /\ registered = [m \in Modules |-> [ch \in Channels |-> 0]]
    /\ inbox = [m \in Modules |-> None]
    /\ tokenSlot = [m \in Modules |-> None]
    /\ nextGen = 1
    /\ owner = [g \in Gens |-> NoModule]
    /\ loop = [g \in Gens |-> "none"]
    /\ started = [g \in Gens |-> TRUE]
    /\ queue = [g \in Gens |-> <<>>]
    /\ token = [g \in Gens |-> "none"]
    /\ fresh = [g \in Gens |-> "none"]
    /\ patchToken = "none"
    /\ running = FALSE
    /\ patchLock = Free
    /\ pc = [c \in Callers |-> "idle"]
    /\ todo = [c \in Callers |-> {}]
    /\ target = [c \in Callers |-> NoModule]
    /\ held = [c \in Callers |-> None]
    /\ arg = [c \in Callers |-> NoChannel]

-----------------------------------------------------------------------------
(* Helpers *)

External(m) == channel[m] # NoChannel

Fired(g) == token[g] = "fired"

\* The receiving end of the inbox is closed: the loop returned, or closed it
\* after a failed start.
InboxClosed(g) == loop[g] = "done" \/ ~started[g]

\* Some sender half is left: the one in module_txs or a clone of it that a
\* call in progress is about to send on.
HasSender(g) ==
    \/ inbox[owner[g]] = g
    \/ \E c \in Callers : held[c] = g /\ pc[c] \in {"sendConfig", "sendInput"}

\* A token derived from the parent token now in patch_tokens.
ChildOf(parent) == IF parent = "fired" THEN "fired" ELSE "attached"

\* Firing the parent in patch_tokens fires the tokens derived from it;
\* replacing or removing it cuts them off.
FireAttached(t)   == [g \in Gens |-> IF t[g] = "attached" THEN "fired" ELSE t[g]]
DetachAttached(t) == [g \in Gens |-> IF t[g] = "attached" THEN "detached" ELSE t[g]]

Push(q, g, msg) == IF InboxClosed(g) THEN q ELSE [q EXCEPT ![g] = Append(@, msg)]

\* ExternalInputModule registers itself under the channel it is configured
\* with, and leaves that channel's list.
Register(m)   == [registered EXCEPT ![m][channel[m]] = @ + 1]
Unregister(m) == [registered EXCEPT ![m][channel[m]] = 0]

\* Mutant: the registration moves whether the module is started or not.
ConfigureAlways(m, ch) ==
    /\ lock[m] = Free
    /\ channel' = IF External(m) THEN [channel EXCEPT ![m] = ch] ELSE channel
    /\ registered' = IF channel[m] # ch /\ External(m)
                     THEN [Unregister(m) EXCEPT ![m][ch] = @ + 1]
                     ELSE registered

\* set_configs on the module, whose lock is free: the new value is stored and
\* configs_changed moves the registration of a started ExternalInputModule.
Configure(m, ch) ==
    /\ lock[m] = Free
    /\ channel' = IF External(m) THEN [channel EXCEPT ![m] = ch] ELSE channel
    /\ registered' = IF channel[m] # ch /\ status[m] = "Start" /\ External(m)
                     THEN [Unregister(m) EXCEPT ![m][ch] = @ + 1]
                     ELSE registered

\* The caller returns from start_module or stop_module: to the loop over the
\* patch's modules when it is inside Patch::start or Patch::stop.
Return(c, each) ==
    /\ pc' = [pc EXCEPT ![c] = IF patchLock = c THEN each ELSE "idle"]
    /\ target' = [target EXCEPT ![c] = NoModule]
    /\ held' = [held EXCEPT ![c] = None]

\* Bound: a call that starts modules begins only when MaxGen leaves a
\* generation for every start that the calls in progress may still make.
GensLeft ==
    LET busy == {c \in Callers : pc[c] \in {"lockForStart", "eachStart",
                                            "readStatus", "newToken"}}
    IN  nextGen + Cardinality(Modules) * (Cardinality(busy) + 1) <= MaxGen + 1

-----------------------------------------------------------------------------
(* start_patch: Patch::start under the patch lock *)

CallStartPatch(c) ==
    /\ pc[c] = "idle" /\ "startPatch" \in Menu[c] /\ GensLeft
    /\ pc' = [pc EXCEPT ![c] = "lockForStart"]
    /\ UNCHANGED <<moduleVars, slotVars, loopVars, patchVars, todo, target, held, arg>>

PatchAlreadyRunning(c) ==
    /\ pc[c] = "lockForStart" /\ patchLock = Free /\ running
    /\ pc' = [pc EXCEPT ![c] = "idle"]
    /\ UNCHANGED <<moduleVars, slotVars, loopVars, patchVars, todo, target, held, arg>>

\* Mutant: a patch that runs is started again.
LockForStartAgain(c) ==
    /\ pc[c] = "lockForStart" /\ patchLock = Free
    /\ patchLock' = c
    /\ running' = TRUE
    /\ patchToken' = "live"
    /\ token' = DetachAttached(token)
    /\ fresh' = DetachAttached(fresh)
    /\ todo' = [todo EXCEPT ![c] = Modules \ Disabled]
    /\ pc' = [pc EXCEPT ![c] = "eachStart"]
    /\ UNCHANGED <<moduleVars, slotVars, nextGen, owner, loop, started, queue,
                   target, held, arg>>

LockForStart(c) ==
    /\ pc[c] = "lockForStart" /\ patchLock = Free /\ ~running
    /\ patchLock' = c
    /\ running' = TRUE
    /\ patchToken' = "live"                       \* reset_patch_token
    /\ token' = DetachAttached(token)
    /\ fresh' = DetachAttached(fresh)
    /\ todo' = [todo EXCEPT ![c] = Modules \ Disabled]
    /\ pc' = [pc EXCEPT ![c] = "eachStart"]
    /\ UNCHANGED <<moduleVars, slotVars, nextGen, owner, loop, started, queue,
                   target, held, arg>>

EachStart(c) ==
    /\ pc[c] = "eachStart"
    /\ \E m \in todo[c] :
          /\ target' = [target EXCEPT ![c] = m]
          /\ todo' = [todo EXCEPT ![c] = @ \ {m}]
    /\ pc' = [pc EXCEPT ![c] = "readStatus"]
    /\ UNCHANGED <<moduleVars, slotVars, loopVars, patchVars, held, arg>>

PatchStarted(c) ==
    /\ pc[c] = "eachStart" /\ todo[c] = {}
    /\ patchLock' = Free
    /\ pc' = [pc EXCEPT ![c] = "idle"]
    /\ UNCHANGED <<moduleVars, slotVars, loopVars, patchToken, running,
                   todo, target, held, arg>>

-----------------------------------------------------------------------------
(* start_module *)

CallStartModule(c, m) ==
    /\ pc[c] = "idle" /\ "startModule" \in Menu[c] /\ GensLeft
    /\ pc' = [pc EXCEPT ![c] = "readStatus"]
    /\ target' = [target EXCEPT ![c] = m]
    /\ UNCHANGED <<moduleVars, slotVars, loopVars, patchVars, todo, held, arg>>

\* The status is read under the module lock, which is released at once.
NotInit(c) ==
    LET m == target[c] IN
    /\ pc[c] = "readStatus" /\ lock[m] = Free /\ status[m] # "Init"
    /\ Return(c, "eachStart")
    /\ UNCHANGED <<moduleVars, slotVars, loopVars, patchVars, todo, arg>>

ReadInit(c) ==
    LET m == target[c] IN
    /\ pc[c] = "readStatus" /\ lock[m] = Free /\ status[m] = "Init"
    /\ pc' = [pc EXCEPT ![c] = "newToken"]
    /\ UNCHANGED <<moduleVars, slotVars, loopVars, patchVars, todo, target, held, arg>>

\* create_module_slot: a generation and a child of the patch token, which is
\* created when there is none ...
NewToken(c) ==
    LET parent == IF patchToken = "none" THEN "live" ELSE patchToken IN
    /\ pc[c] = "newToken" /\ nextGen <= MaxGen
    /\ patchToken' = parent
    /\ nextGen' = nextGen + 1
    /\ owner' = [owner EXCEPT ![nextGen] = target[c]]
    /\ token' = [token EXCEPT ![nextGen] = ChildOf(parent)]
    /\ loop' = [loop EXCEPT ![nextGen] = "allocated"]
    /\ held' = [held EXCEPT ![c] = nextGen]
    /\ pc' = [pc EXCEPT ![c] = "install"]
    /\ UNCHANGED <<moduleVars, slotVars, started, queue, fresh, running, patchLock,
                   todo, target, arg>>

\* Mutant: an inbox that is there already is kept.
InstallIfAbsent(c) ==
    LET m == target[c]
        g == held[c]
    IN
    /\ pc[c] = "install"
    /\ inbox' = IF inbox[m] = None THEN [inbox EXCEPT ![m] = g] ELSE inbox
    /\ tokenSlot' = [tokenSlot EXCEPT ![m] = g]
    /\ loop' = [loop EXCEPT ![g] = "starting"]
    /\ Return(c, "eachStart")
    /\ UNCHANGED <<moduleVars, nextGen, owner, started, queue, token, fresh,
                   patchVars, todo, arg>>

\* ... then both entries in one critical section; the loop is spawned.
Install(c) ==
    LET m == target[c]
        g == held[c]
    IN
    /\ pc[c] = "install"
    /\ inbox' = [inbox EXCEPT ![m] = g]
    /\ tokenSlot' = [tokenSlot EXCEPT ![m] = g]
    /\ loop' = [loop EXCEPT ![g] = "starting"]
    /\ Return(c, "eachStart")
    /\ UNCHANGED <<moduleVars, nextGen, owner, started, queue, token, fresh,
                   patchVars, todo, arg>>

-----------------------------------------------------------------------------
(* stop_patch: Patch::stop under the patch lock, whether it runs or not *)

CallStopPatch(c) ==
    /\ pc[c] = "idle" /\ "stopPatch" \in Menu[c]
    /\ pc' = [pc EXCEPT ![c] = "lockForStop"]
    /\ UNCHANGED <<moduleVars, slotVars, loopVars, patchVars, todo, target, held, arg>>

LockForStop(c) ==
    /\ pc[c] = "lockForStop" /\ patchLock = Free
    /\ patchLock' = c
    /\ patchToken' = IF patchToken = "live" THEN "fired" ELSE patchToken
    /\ token' = FireAttached(token)               \* cancel_patch_token
    /\ fresh' = FireAttached(fresh)
    /\ todo' = [todo EXCEPT ![c] = Modules]
    /\ pc' = [pc EXCEPT ![c] = "eachStop"]
    /\ UNCHANGED <<moduleVars, slotVars, nextGen, owner, loop, started, queue,
                   running, target, held, arg>>

EachStop(c) ==
    /\ pc[c] = "eachStop"
    /\ \E m \in todo[c] :
          /\ target' = [target EXCEPT ![c] = m]
          /\ todo' = [todo EXCEPT ![c] = @ \ {m}]
    /\ pc' = [pc EXCEPT ![c] = "takeInbox"]
    /\ UNCHANGED <<moduleVars, slotVars, loopVars, patchVars, held, arg>>

PatchStopped(c) ==
    /\ pc[c] = "eachStop" /\ todo[c] = {}
    /\ patchToken' = "none"                       \* remove_patch_token
    /\ token' = DetachAttached(token)
    /\ fresh' = DetachAttached(fresh)
    /\ running' = FALSE
    /\ patchLock' = Free
    /\ pc' = [pc EXCEPT ![c] = "idle"]
    /\ UNCHANGED <<moduleVars, slotVars, nextGen, owner, loop, started, queue,
                   todo, target, held, arg>>

-----------------------------------------------------------------------------
(* stop_module *)

CallStopModule(c, m) ==
    /\ pc[c] = "idle" /\ "stopModule" \in Menu[c]
    /\ pc' = [pc EXCEPT ![c] = "takeInbox"]
    /\ target' = [target EXCEPT ![c] = m]
    /\ UNCHANGED <<moduleVars, slotVars, loopVars, patchVars, todo, held, arg>>

\* Remove the sender, so that nothing new is sent, and send Stop.
TakeInbox(c) ==
    LET m == target[c] IN
    /\ pc[c] = "takeInbox"
    /\ queue' = IF inbox[m] = None THEN queue ELSE Push(queue, inbox[m], StopMsg)
    /\ inbox' = [inbox EXCEPT ![m] = None]
    /\ pc' = [pc EXCEPT ![c] = "takeToken"]
    /\ UNCHANGED <<moduleVars, tokenSlot, nextGen, owner, loop, started, token,
                   fresh, patchVars, todo, target, held, arg>>

\* Mutant: the token is removed and never fired.
TakeTokenUnfired(c) ==
    /\ pc[c] = "takeToken"
    /\ tokenSlot' = [tokenSlot EXCEPT ![target[c]] = None]
    /\ pc' = [pc EXCEPT ![c] = "lockModule"]
    /\ UNCHANGED <<moduleVars, inbox, loopVars, patchVars, todo, target, held, arg>>

\* Remove the token, so that the loop cannot renew it ...
TakeToken(c) ==
    LET g == tokenSlot[target[c]] IN
    /\ pc[c] = "takeToken"
    /\ tokenSlot' = [tokenSlot EXCEPT ![target[c]] = None]
    /\ held' = [held EXCEPT ![c] = g]
    /\ pc' = [pc EXCEPT ![c] = IF g = None THEN "lockModule" ELSE "fireToken"]
    /\ UNCHANGED <<moduleVars, inbox, loopVars, patchVars, todo, target, arg>>

\* ... and fire it.
FireToken(c) ==
    /\ pc[c] = "fireToken"
    /\ token' = [token EXCEPT ![held[c]] = "fired"]
    /\ held' = [held EXCEPT ![c] = None]
    /\ pc' = [pc EXCEPT ![c] = "lockModule"]
    /\ UNCHANGED <<moduleVars, slotVars, nextGen, owner, loop, started, queue,
                   fresh, patchVars, todo, target, arg>>

NothingToStop(c) ==
    LET m == target[c] IN
    /\ pc[c] = "lockModule" /\ lock[m] = Free /\ status[m] # "Start"
    /\ Return(c, "eachStop")
    /\ UNCHANGED <<moduleVars, slotVars, loopVars, patchVars, todo, arg>>

\* Module::stop sets Stop before the module's own stop() ...
BeginStop(c) ==
    LET m == target[c] IN
    /\ pc[c] = "lockModule" /\ lock[m] = Free /\ status[m] = "Start"
    /\ lock' = [lock EXCEPT ![m] = c]
    /\ status' = [status EXCEPT ![m] = "Stop"]
    /\ pc' = [pc EXCEPT ![c] = "stopping"]
    /\ UNCHANGED <<channel, registered, slotVars, loopVars, patchVars,
                   todo, target, held, arg>>

\* ... and Init after it; ExternalInputModule leaves its channel's list.
Stopped(c) ==
    LET m == target[c] IN
    /\ pc[c] = "stopping"
    /\ registered' = IF External(m) THEN Unregister(m) ELSE registered
    /\ status' = [status EXCEPT ![m] = "Init"]
    /\ lock' = [lock EXCEPT ![m] = Free]
    /\ Return(c, "eachStop")
    /\ UNCHANGED <<channel, slotVars, loopVars, patchVars, todo, arg>>

\* A stop() that fails leaves the status as it is.
StopFails(c) ==
    LET m == target[c] IN
    /\ pc[c] = "stopping" /\ ~External(m)
    /\ lock' = [lock EXCEPT ![m] = Free]
    /\ Return(c, "eachStop")
    /\ UNCHANGED <<status, channel, registered, slotVars, loopVars, patchVars, todo, arg>>

-----------------------------------------------------------------------------
(* set_module_configs and module_input: look the inbox up, then send on the  *)
(* clone, or write the config to a module that has none                      *)

CallSetConfigs(c, m, ch) ==
    /\ pc[c] = "idle" /\ "setConfigs" \in Menu[c]
    /\ pc' = [pc EXCEPT ![c] = IF inbox[m] = None THEN "setDirect" ELSE "sendConfig"]
    /\ target' = [target EXCEPT ![c] = m]
    /\ held' = [held EXCEPT ![c] = inbox[m]]
    /\ arg' = [arg EXCEPT ![c] = ch]
    /\ UNCHANGED <<moduleVars, slotVars, loopVars, patchVars, todo>>

\* ExternalInputModule declares no input port; without an inbox an input is
\* dropped.
CallInput(c, m) ==
    /\ pc[c] = "idle" /\ "input" \in Menu[c]
    /\ ~External(m) /\ inbox[m] # None
    /\ pc' = [pc EXCEPT ![c] = "sendInput"]
    /\ target' = [target EXCEPT ![c] = m]
    /\ held' = [held EXCEPT ![c] = inbox[m]]
    /\ UNCHANGED <<moduleVars, slotVars, loopVars, patchVars, todo, arg>>

EndSend(c) ==
    /\ pc' = [pc EXCEPT ![c] = "idle"]
    /\ target' = [target EXCEPT ![c] = NoModule]
    /\ held' = [held EXCEPT ![c] = None]
    /\ arg' = [arg EXCEPT ![c] = NoChannel]

\* Sending on a closed channel fails and changes nothing.
Send(c) ==
    LET g   == held[c]
        msg == IF pc[c] = "sendInput" THEN InputMsg ELSE ConfigMsg(arg[c])
    IN
    /\ pc[c] \in {"sendConfig", "sendInput"}
    /\ InboxClosed(g) \/ Len(queue[g]) < MaxQueue
    /\ queue' = Push(queue, g, msg)
    /\ EndSend(c)
    /\ UNCHANGED <<moduleVars, slotVars, nextGen, owner, loop, started, token,
                   fresh, patchVars, todo>>

SetDirect(c) ==
    /\ pc[c] = "setDirect"
    /\ Configure(target[c], arg[c])
    /\ EndSend(c)
    /\ UNCHANGED <<status, lock, slotVars, loopVars, patchVars, todo>>

-----------------------------------------------------------------------------
(* The module loop: select!{ biased; token.cancelled(), start() }            *)

LoopIs(g, state) == loop[g] = state
LoopTo(g, state) == loop' = [loop EXCEPT ![g] = state]

\* Each poll looks at the token first.  It may fire right after.
PollStart(g) ==
    /\ LoopIs(g, "starting") /\ ~Fired(g)
    /\ LoopTo(g, "polledStart")
    /\ UNCHANGED <<moduleVars, slotVars, nextGen, owner, started, queue, token, fresh,
                   patchVars, callVars>>

\* The loop returns; its slot stays behind.
StartCancelled(g) ==
    /\ LoopIs(g, "starting") /\ Fired(g)
    /\ LoopTo(g, "done")
    /\ queue' = [queue EXCEPT ![g] = <<>>]
    /\ UNCHANGED <<moduleVars, slotVars, nextGen, owner, started, token, fresh,
                   patchVars, callVars>>

\* The lock is taken by someone: start() waits and the next poll begins anew.
StartPending(g) ==
    /\ LoopIs(g, "polledStart") /\ lock[owner[g]] # Free
    /\ LoopTo(g, "starting")
    /\ UNCHANGED <<moduleVars, slotVars, nextGen, owner, started, queue, token, fresh,
                   patchVars, callVars>>

\* Module::start; the start() of ExternalInputModule has no await point.
StartExternal(g) ==
    LET m == owner[g] IN
    /\ LoopIs(g, "polledStart") /\ lock[m] = Free /\ External(m)
    /\ status' = [status EXCEPT ![m] = "Start"]
    /\ registered' = Register(m)
    /\ LoopTo(g, "recv")
    /\ UNCHANGED <<lock, channel, slotVars, nextGen, owner, started, queue, token, fresh,
                   patchVars, callVars>>

BeginStart(g) ==
    LET m == owner[g] IN
    /\ LoopIs(g, "polledStart") /\ lock[m] = Free /\ ~External(m)
    /\ lock' = [lock EXCEPT ![m] = g]
    /\ status' = [status EXCEPT ![m] = "Start"]
    /\ LoopTo(g, "inStart")
    /\ UNCHANGED <<channel, registered, slotVars, nextGen, owner, started, queue,
                   token, fresh, patchVars, callVars>>

StartSucceeds(g) ==
    /\ LoopIs(g, "inStart")
    /\ lock' = [lock EXCEPT ![owner[g]] = Free]
    /\ LoopTo(g, "recv")
    /\ UNCHANGED <<status, channel, registered, slotVars, nextGen, owner, started, queue,
                   token, fresh, patchVars, callVars>>

\* The token fires while start() awaits: its future is dropped, the status
\* stays Start.
StartDropped(g) ==
    /\ LoopIs(g, "inStart") /\ Fired(g)
    /\ lock' = [lock EXCEPT ![owner[g]] = Free]
    /\ LoopTo(g, "done")
    /\ queue' = [queue EXCEPT ![g] = <<>>]
    /\ UNCHANGED <<status, channel, registered, slotVars, nextGen, owner, started,
                   token, fresh, patchVars, callVars>>

StartFails(g) ==
    LET m == owner[g] IN
    /\ LoopIs(g, "inStart")
    /\ status' = [status EXCEPT ![m] = "Init"]
    /\ lock' = [lock EXCEPT ![m] = Free]
    /\ LoopTo(g, "failed")
    /\ UNCHANGED <<channel, registered, slotVars, nextGen, owner, started, queue,
                   token, fresh, patchVars, callVars>>

\* Mutant: the inbox of the failed start stays in module_txs.
ReleaseTokenOnly(g) ==
    LET m == owner[g] IN
    /\ LoopIs(g, "failed")
    /\ tokenSlot' = IF tokenSlot[m] = g THEN [tokenSlot EXCEPT ![m] = None] ELSE tokenSlot
    /\ started' = [started EXCEPT ![g] = FALSE]
    /\ LoopTo(g, "recv")
    /\ UNCHANGED <<moduleVars, inbox, nextGen, owner, queue, token, fresh, patchVars,
                   callVars>>

\* release_module_slot, only while the token slot is this generation's; then
\* the inbox is closed and what it holds is drained.
ReleaseSlot(g) ==
    LET m   == owner[g]
        own == tokenSlot[m] = g
    IN
    /\ LoopIs(g, "failed")
    /\ tokenSlot' = IF own THEN [tokenSlot EXCEPT ![m] = None] ELSE tokenSlot
    /\ inbox' = IF own THEN [inbox EXCEPT ![m] = None] ELSE inbox
    /\ started' = [started EXCEPT ![g] = FALSE]
    /\ LoopTo(g, "recv")
    /\ UNCHANGED <<moduleVars, nextGen, owner, queue, token, fresh, patchVars, callVars>>

-----------------------------------------------------------------------------
(* The module loop: rx.recv() and the message it yields                      *)

Receiving(g, kind) ==
    /\ LoopIs(g, "recv")
    /\ queue[g] # <<>>
    /\ Head(queue[g]).kind = kind

DropInput(g) ==
    /\ Receiving(g, "input") /\ ~started[g]
    /\ queue' = [queue EXCEPT ![g] = Tail(@)]
    /\ UNCHANGED <<moduleVars, slotVars, nextGen, owner, loop, started, token, fresh,
                   patchVars, callVars>>

RecvInput(g) ==
    /\ Receiving(g, "input") /\ started[g]
    /\ queue' = [queue EXCEPT ![g] = Tail(@)]
    /\ LoopTo(g, "input")
    /\ UNCHANGED <<moduleVars, slotVars, nextGen, owner, started, token, fresh,
                   patchVars, callVars>>

\* Config edits are applied under the lock and never raced with the token.
RecvConfig(g) ==
    /\ Receiving(g, "config")
    /\ Configure(owner[g], Head(queue[g]).channel)
    /\ queue' = [queue EXCEPT ![g] = Tail(@)]
    /\ UNCHANGED <<status, lock, slotVars, nextGen, owner, loop, started, token, fresh,
                   patchVars, callVars>>

RecvStop(g) ==
    /\ Receiving(g, "stop")
    /\ LoopTo(g, "done")
    /\ queue' = [queue EXCEPT ![g] = <<>>]
    /\ UNCHANGED <<moduleVars, slotVars, nextGen, owner, started, token, fresh,
                   patchVars, callVars>>

\* recv() yields None: the queue is empty, and closed or without a sender.
RecvNone(g) ==
    /\ LoopIs(g, "recv") /\ queue[g] = <<>>
    /\ ~started[g] \/ ~HasSender(g)
    /\ LoopTo(g, "done")
    /\ UNCHANGED <<moduleVars, slotVars, nextGen, owner, started, queue, token, fresh,
                   patchVars, callVars>>

-----------------------------------------------------------------------------
(* The module loop: select!{ biased; token.cancelled(), process() }          *)

PollInput(g) ==
    /\ LoopIs(g, "input") /\ ~Fired(g)
    /\ LoopTo(g, "polledInput")
    /\ UNCHANGED <<moduleVars, slotVars, nextGen, owner, started, queue, token, fresh,
                   patchVars, callVars>>

InputSkipped(g) ==
    /\ LoopIs(g, "input") /\ Fired(g)
    /\ LoopTo(g, "renew")
    /\ UNCHANGED <<moduleVars, slotVars, nextGen, owner, started, queue, token, fresh,
                   patchVars, callVars>>

InputPending(g) ==
    /\ LoopIs(g, "polledInput") /\ lock[owner[g]] # Free
    /\ LoopTo(g, "input")
    /\ UNCHANGED <<moduleVars, slotVars, nextGen, owner, started, queue, token, fresh,
                   patchVars, callVars>>

BeginProcess(g) ==
    /\ LoopIs(g, "polledInput") /\ lock[owner[g]] = Free
    /\ lock' = [lock EXCEPT ![owner[g]] = g]
    /\ LoopTo(g, "processing")
    /\ UNCHANGED <<status, channel, registered, slotVars, nextGen, owner, started, queue,
                   token, fresh, patchVars, callVars>>

EndProcess(g) ==
    /\ LoopIs(g, "processing")
    /\ lock' = [lock EXCEPT ![owner[g]] = Free]
    /\ LoopTo(g, "recv")
    /\ UNCHANGED <<status, channel, registered, slotVars, nextGen, owner, started, queue,
                   token, fresh, patchVars, callVars>>

\* Mutant: process() is not raced with the token.
ProcessNotDropped(g) == FALSE /\ UNCHANGED vars

\* The token fires while process() awaits: its future is dropped.
ProcessDropped(g) ==
    /\ LoopIs(g, "processing") /\ Fired(g)
    /\ lock' = [lock EXCEPT ![owner[g]] = Free]
    /\ LoopTo(g, "renew")
    /\ UNCHANGED <<status, channel, registered, slotVars, nextGen, owner, started, queue,
                   token, fresh, patchVars, callVars>>

\* renew_module_token: a child of the parent in patch_tokens, which is looked
\* up and never created ...
RenewLookup(g) ==
    /\ LoopIs(g, "renew")
    /\ IF patchToken = "none"
       THEN LoopTo(g, "recv") /\ UNCHANGED fresh
       ELSE /\ LoopTo(g, "renewSlot")
            /\ fresh' = [fresh EXCEPT ![g] = ChildOf(patchToken)]
    /\ UNCHANGED <<moduleVars, slotVars, nextGen, owner, started, queue, token,
                   patchVars, callVars>>

\* ... then installed only in a slot of the loop's own generation.
RenewInstall(g) ==
    /\ LoopIs(g, "renewSlot")
    /\ token' = IF tokenSlot[owner[g]] = g
                THEN [token EXCEPT ![g] = fresh[g]] ELSE token
    /\ fresh' = [fresh EXCEPT ![g] = "none"]
    /\ LoopTo(g, "recv")
    /\ UNCHANGED <<moduleVars, slotVars, nextGen, owner, started, queue,
                   patchVars, callVars>>

-----------------------------------------------------------------------------
(* Next and Spec *)

Call(c) ==
    \/ CallStartPatch(c)
    \/ CallStopPatch(c)
    \/ \E m \in Modules : CallStartModule(c, m)
    \/ \E m \in Modules : CallStopModule(c, m)
    \/ \E m \in Modules, ch \in Channels : CallSetConfigs(c, m, ch)
    \/ \E m \in Modules : CallInput(c, m)

PatchStep(c) ==
    \/ PatchAlreadyRunning(c)
    \/ LockForStart(c)
    \/ EachStart(c)
    \/ PatchStarted(c)
    \/ LockForStop(c)
    \/ EachStop(c)
    \/ PatchStopped(c)

ModuleStep(c) ==
    \/ NotInit(c)
    \/ ReadInit(c)
    \/ NewToken(c)
    \/ Install(c)
    \/ TakeInbox(c)
    \/ TakeToken(c)
    \/ FireToken(c)
    \/ NothingToStop(c)
    \/ BeginStop(c)
    \/ Stopped(c)
    \/ StopFails(c)

MessageStep(c) ==
    \/ Send(c)
    \/ SetDirect(c)

CallStep(c) == PatchStep(c) \/ ModuleStep(c) \/ MessageStep(c)

StartStep(g) ==
    \/ PollStart(g)
    \/ StartCancelled(g)
    \/ StartPending(g)
    \/ StartExternal(g)
    \/ BeginStart(g)
    \/ StartSucceeds(g)
    \/ StartDropped(g)
    \/ StartFails(g)
    \/ ReleaseSlot(g)

RecvStep(g) ==
    \/ DropInput(g)
    \/ RecvInput(g)
    \/ RecvConfig(g)
    \/ RecvStop(g)
    \/ RecvNone(g)

ProcessStep(g) ==
    \/ PollInput(g)
    \/ InputSkipped(g)
    \/ InputPending(g)
    \/ BeginProcess(g)
    \/ EndProcess(g)
    \/ ProcessDropped(g)
    \/ RenewLookup(g)
    \/ RenewInstall(g)

LoopStep(g) == StartStep(g) \/ RecvStep(g) \/ ProcessStep(g)

Next ==
    \/ \E c \in Callers : Call(c) \/ CallStep(c)
    \/ \E g \in Gens : LoopStep(g)

Spec == Init /\ [][Next]_vars

\* A thread that can go on does, tokio's locks are handed over in FIFO order
\* (strong fairness for whoever waits for one), and the stop() of a module
\* returns.  start() and process() may await for ever, and no host is obliged
\* to call.
LoopProgress(g) ==
    \/ PollStart(g) \/ StartCancelled(g) \/ StartPending(g)
    \/ StartDropped(g) \/ ReleaseSlot(g)
    \/ DropInput(g) \/ RecvInput(g) \/ RecvStop(g) \/ RecvNone(g)
    \/ PollInput(g) \/ InputSkipped(g) \/ InputPending(g)
    \/ ProcessDropped(g) \/ RenewLookup(g) \/ RenewInstall(g)

LoopLocks(g) ==
    StartExternal(g) \/ BeginStart(g) \/ RecvConfig(g) \/ BeginProcess(g)

CallProgress(c) ==
    \/ EachStart(c) \/ PatchStarted(c) \/ EachStop(c) \/ PatchStopped(c)
    \/ NewToken(c) \/ Install(c) \/ TakeInbox(c) \/ TakeToken(c)
    \/ FireToken(c) \/ Stopped(c) \/ StopFails(c)

CallLocks(c) ==
    \/ PatchAlreadyRunning(c) \/ LockForStart(c) \/ LockForStop(c)
    \/ NotInit(c) \/ ReadInit(c) \/ NothingToStop(c) \/ BeginStop(c)

FairSpec ==
    /\ Spec
    /\ \A g \in Gens : WF_vars(LoopProgress(g)) /\ SF_vars(LoopLocks(g))
    /\ \A c \in Callers : WF_vars(CallProgress(c)) /\ SF_vars(CallLocks(c))

-----------------------------------------------------------------------------
(* Properties *)

\* The inbox and the token of a module are never those of two incarnations:
\* what the comment on create_module_slot promises release_module_slot.
SlotsAgree ==
    \A m \in Modules :
        inbox[m] # None /\ tokenSlot[m] # None => inbox[m] = tokenSlot[m]

\* Whoever gets the module lock finds an ExternalInputModule listed under its
\* current channel and no other if it is started, and nowhere if it is not,
\* whatever config edits, restarts and drained messages came in between.
RegistrationMatches ==
    \A m \in Modules, ch \in Channels :
        External(m) /\ lock[m] = Free =>
            (registered[m][ch] > 0 <=> status[m] = "Start" /\ channel[m] = ch)

\* The token of the loop fired, or the stop that took it is about to fire it.
Cancelled(g) == Fired(g) \/ \E c \in Callers : pc[c] = "fireToken" /\ held[c] = g

\* A sender that leads nowhere, which makes set_module_configs fail, is left in
\* module_txs only by a loop that was cancelled.
DeadInboxWasCancelled ==
    \A m \in Modules :
        inbox[m] # None /\ InboxClosed(inbox[m]) => Cancelled(inbox[m])

Live(g) == loop[g] \notin {"none", "allocated", "done"} /\ ~Fired(g)

\* No host starts a module by itself.  Two start_module calls for a module that
\* has no loop yet both get through, and each spawns one.
StartedByPatch == \A c \in Callers : "startModule" \notin Menu[c]

\* As long as modules are started with their patch, no module has two loops
\* that have not been cancelled, however often it is stopped and started again.
OneLiveLoop ==
    \A g, h \in Gens : Live(g) /\ Live(h) /\ owner[g] = owner[h] => g = h

\* A loop goes on to process an input only while it owns the module's token
\* slot, or until the stop that took the slot fires its token: what is queued
\* when the module stops is skipped.  A loop whose token fired never runs under
\* a live token again: renew_module_token does not undo a stop.
OwnerProcesses ==
    [][\A g \in Gens :
          /\ loop[g] = "input" /\ loop'[g] = "polledInput" =>
                tokenSlot[owner[g]] = g \/ Cancelled(g)
          /\ Fired(g) => Fired(g)']_vars

\* A stop returns, however long a process() or start() in flight would take.
StopStates == {"lockForStop", "eachStop", "takeInbox", "takeToken",
               "fireToken", "lockModule", "stopping"}

StopReturns == \A c \in Callers : pc[c] \in StopStates ~> pc[c] = "idle"

\* Once a module is stopped its loops come to their end, unless it is started
\* again first.
StoppedLoopsEnd ==
    \A g \in Gens, m \in Modules :
        owner[g] = m /\ loop[g] \notin {"none", "allocated"} /\ inbox[m] = None
            ~> loop[g] = "done" \/ inbox[m] # None

\* A stop comes to its end, and so do the loops that it stops.
StopsEnd == StopReturns /\ StoppedLoopsEnd
=============================================================================
