----------------------------- MODULE McpServer -----------------------------
(***************************************************************************)
(* The built-in MCP server: sessions of coding agents that poll what the   *)
(* runtime reports and edit the patches a user has open, several at once.  *)
(* A tool call reads, decides and writes in calls of their own, so another *)
(* session's call may come in between.                                     *)
(*                                                                         *)
(* A call refused before it changes anything is no step.  Modules are as   *)
(* far here as their configs go: a plain one has those its definition      *)
(* declares, a numbered one a family sized by its "n" beside it            *)
(* (Definitions).  What the tools call of the runtime is one step here and *)
(* taken apart in PatchStructure, PatchRegistry and ModuleLifecycle.       *)
(***************************************************************************)
EXTENDS Naturals, FiniteSetsExt, SequencesExt, Functions, Retain

CONSTANTS Sessions,
          Declared, Global,     \* the config keys of every definition
          Names,                \* of patches
          Asked,                \* what configs a call asks for
          Menus,                \* which tools each session uses
          Filter,               \* the patch a session asks the errors of, 0 for all
          Limit,                \* records a session takes at a time
          RingCapacity, StreamCapacity,
          MaxPatches, MaxModules, MaxEvents, MaxFailures, MaxWrites

VARIABLES menu,
          patches,       \* their names, by id
          modules,       \* patch, definition and configs, by id; Gone where removed
          files,         \* the patch each file was saved from, by name
          call,          \* the tool call each session has under way
          lastAsked,        \* the value last asked for, by module and key
          undone,        \* the modules whose add_module failed, and said nothing of their being left
          failures, writes,
          stream, missed,                  \* the collector's broadcast receiver
          errors, outputs, seq, dropped,   \* the ring
          cursor, got,                     \* per session and buffer: since_seq, records
          emitted

mcpVars == <<menu, patches, modules, files, call, lastAsked, undone, failures, writes,
             stream, missed, errors, outputs, seq, dropped, cursor, got, emitted>>
toolVars == <<patches, modules, files, call, lastAsked, undone, failures, writes>>
ringVars == <<stream, missed, errors, outputs, seq, dropped, cursor, got, emitted>>

Idle == [step |-> "idle"]
Buffers == {"errors", "outputs"}

Ready(s, tool) == tool \in menu[s] /\ call[s] = Idle
Answer(s)      == call' = [call EXCEPT ![s] = Idle]
Next_(s, next) == call' = [call EXCEPT ![s] = next]

-----------------------------------------------------------------------------
(* Configs.                                                                 *)

Member(i) == <<"c1", "c2">>[i]
Generated(n) == {Member(i) : i \in 1 .. n}

\* A key is declared or generated, or global, and a session asks for no more
\* than the members named here; the buffers hold something.
ASSUME McpAssumption ==
    /\ RingCapacity \in Nat \ {0} /\ StreamCapacity \in Nat \ {0} /\ Limit \in Nat
    /\ "numbered" \in DOMAIN Declared /\ "n" \in Declared["numbered"]
    /\ \A d \in DOMAIN Declared : Declared[d] \cap Global[d] = {}
    /\ Generated(2) \cap Global["numbered"] = {}
    /\ \A a \in Asked : a \in [DOMAIN a -> Range(a)] /\ ("n" \in DOMAIN a => a["n"] \in 0 .. 2)

\* What configs_changed makes of the configs of a module.
Settle(def, configs) ==
    IF def # "numbered" THEN configs
    ELSE [k \in Declared[def] \cup Generated(configs["n"]) |->
            IF k \in DOMAIN configs THEN configs[k] ELSE 0]

\* validate_config_keys, against what the instance has.
Accepts(m, keys) == keys \subseteq DOMAIN m.configs /\ keys \cap Global[m.def] = {}

Gone     == [patch |-> 0, def |-> "", configs |-> <<>>]
Lives(m) == m \in DOMAIN modules /\ modules[m] # Gone

-----------------------------------------------------------------------------
(* The tools that edit modules.                                             *)

\* add_module: what the definition declares goes into the spec, the rest waits
\* for the instance to say what it has.
AddModule(s, p, def, asked) ==
    /\ Ready(s, "add") /\ p \in DOMAIN patches /\ Len(modules) < MaxModules
    /\ DOMAIN asked \cap Global[def] = {}
    /\ LET given    == [k \in Declared[def] |-> IF k \in DOMAIN asked THEN asked[k] ELSE 1]
           deferred == Restrict(asked, DOMAIN asked \ Declared[def])
           m        == Len(modules) + 1
       IN /\ modules' = Append(modules, [patch |-> p, def |-> def, configs |-> Settle(def, given)])
          /\ lastAsked' = [k \in {m} \X (DOMAIN asked \cap Declared[def]) |-> asked[k[2]]] @@ lastAsked
          /\ IF DOMAIN deferred = {} THEN Answer(s)
             ELSE Next_(s, [step |-> "constructed", module |-> m, asked |-> deferred])
    /\ UNCHANGED <<menu, patches, files, undone, failures, writes, ringVars>>

\* It reads the instance: a key that is not there takes it all back.
Constructed(s) ==
    /\ call[s].step = "constructed"
    /\ LET m  == call[s].module
           ok == Lives(m) /\ Accepts(modules[m], DOMAIN call[s].asked)
       IN Next_(s, IF ~ok THEN [step |-> "rollback", module |-> m]
                   ELSE [step |-> "write", module |-> m, asked |-> call[s].asked,
                         configs |-> Over(call[s].asked, modules[m].configs)])
    /\ UNCHANGED <<menu, patches, modules, files, lastAsked, undone, failures, writes, ringVars>>

Removed(m) == [modules EXCEPT ![m] = Gone]

\* Mutant: the error is returned with the module left in the patch.
NoRollback(s) ==
    /\ call[s].step = "rollback"
    /\ undone' = undone \cup {call[s].module}
    /\ Answer(s)
    /\ UNCHANGED <<menu, patches, modules, files, lastAsked, failures, writes, ringVars>>

Rollback(s) ==
    /\ call[s].step = "rollback" /\ Lives(call[s].module)
    /\ modules' = Removed(call[s].module)
    /\ undone' = undone \cup {call[s].module}
    /\ Answer(s)
    /\ UNCHANGED <<menu, patches, files, lastAsked, failures, writes, ringVars>>

\* remove_module may fail: somebody started the module and it does not stop, or
\* it is no longer there, nor in its patch.  The answer says that it remains.
RollbackFails(s) ==
    /\ call[s].step = "rollback"
    /\ Answer(s)
    /\ UNCHANGED <<menu, patches, modules, files, lastAsked, undone, failures, writes, ringVars>>

\* set_module_configs writes all it read with what was asked laid over it,
\* update_module_spec only what was asked.
ReadConfigs(s, m, asked, tool) ==
    /\ Ready(s, tool) /\ Lives(m) /\ writes < MaxWrites
    /\ Accepts(modules[m], DOMAIN asked)
    /\ writes' = writes + 1
    /\ Next_(s, [step |-> "write", module |-> m, asked |-> asked,
                 configs |-> IF tool = "set" THEN Over(asked, modules[m].configs) ELSE asked])
    /\ UNCHANGED <<menu, patches, modules, files, lastAsked, undone, failures, ringVars>>

\* The runtime merges what it is handed; a module that is gone is an error.
WriteConfigs(s) ==
    /\ call[s].step = "write"
    /\ LET m == call[s].module IN
       IF ~Lives(m) THEN UNCHANGED <<modules, lastAsked>>
       ELSE LET now == Settle(modules[m].def, Over(call[s].configs, modules[m].configs))
                all == [k \in {m} \X DOMAIN call[s].asked |-> call[s].asked[k[2]]] @@ lastAsked
            IN /\ modules' = [modules EXCEPT ![m].configs = now]
               /\ lastAsked' = Restrict(all, {k \in DOMAIN all : k[1] = m => k[2] \in DOMAIN now})
    /\ Answer(s)
    /\ UNCHANGED <<menu, patches, files, undone, failures, writes, ringVars>>

RemoveModule(s, m) ==
    /\ Ready(s, "remove") /\ Lives(m)
    /\ modules' = Removed(m)
    /\ lastAsked' = Restrict(lastAsked, {k \in DOMAIN lastAsked : k[1] # m})
    /\ UNCHANGED <<menu, patches, files, call, undone, failures, writes, ringVars>>

-----------------------------------------------------------------------------
(* The tools that name and save patches.                                    *)

Taken(name) == name \in Range(patches)

CreatePatch(s, name) ==
    /\ Ready(s, "create") /\ Len(patches) < MaxPatches /\ ~Taken(name)
    /\ patches' = Append(patches, name)
    /\ UNCHANGED <<menu, modules, files, call, lastAsked, undone, failures, writes, ringVars>>

\* save_patch under another name renames first.
SavePatch(s, p, name) ==
    /\ Ready(s, "save") /\ p \in DOMAIN patches
    /\ Next_(s, [step |-> IF name = patches[p] THEN "save" ELSE "rename",
                 patch |-> p, name |-> name, old |-> patches[p]])
    /\ UNCHANGED <<menu, patches, modules, files, lastAsked, undone, failures, writes, ringVars>>

RenamePatch(s) ==
    /\ call[s].step = "rename"
    /\ IF Taken(call[s].name) /\ patches[call[s].patch] # call[s].name
       THEN Answer(s) /\ UNCHANGED patches
       ELSE /\ patches' = [patches EXCEPT ![call[s].patch] = call[s].name]
            /\ Next_(s, [call[s] EXCEPT !.step = "save"])
    /\ UNCHANGED <<menu, modules, files, lastAsked, undone, failures, writes, ringVars>>

\* The disk may refuse; the new name stays all the same.
WriteFile(s) ==
    /\ call[s].step = "save"
    /\ files' = [n \in DOMAIN files \cup {call[s].name} |-> IF n = call[s].name THEN call[s].patch ELSE files[n]]
    /\ IF call[s].old # call[s].name THEN Next_(s, [call[s] EXCEPT !.step = "drop"]) ELSE Answer(s)
    /\ UNCHANGED <<menu, patches, modules, lastAsked, undone, failures, writes, ringVars>>

DiskFails(s) ==
    /\ call[s].step \in {"save", "drop"} /\ failures < MaxFailures
    /\ failures' = failures + 1
    /\ Answer(s)
    /\ UNCHANGED <<menu, patches, modules, files, lastAsked, undone, writes, ringVars>>

\* The file of the old name goes once the new one is there.
Dropped(f, name) == Restrict(f, DOMAIN f \ {name})

DropOld(s) ==
    /\ call[s].step = "drop"
    /\ files' = Dropped(files, call[s].old)
    /\ Answer(s)
    /\ UNCHANGED <<menu, patches, modules, lastAsked, undone, failures, writes, ringVars>>

-----------------------------------------------------------------------------
(* Runtime events.                                                          *)

\* The broadcast channel lets its slowest receiver miss the oldest.
Report(event) ==
    /\ emitted < MaxEvents /\ emitted' = emitted + 1
    /\ LET all == Append(stream, event) IN
       IF Len(all) > StreamCapacity THEN stream' = Tail(all) /\ missed' = missed + 1
       ELSE stream' = all /\ UNCHANGED missed
    /\ UNCHANGED <<menu, toolVars, errors, outputs, seq, dropped, cursor, got>>

CollectLag ==
    /\ missed > 0
    /\ dropped' = dropped + missed /\ missed' = 0
    /\ UNCHANGED <<menu, toolVars, stream, errors, outputs, seq, cursor, got, emitted>>

\* push_error, push_output: a full buffer loses its oldest record.
Pushed(buffer, record) ==
    Append(IF Len(buffer) >= RingCapacity THEN Tail(buffer) ELSE buffer, record)

\* The patch of an error is that of its module, unless that is gone, or busy
\* for longer than the collector waits.
Collect ==
    /\ stream # <<>> /\ missed = 0
    /\ LET e == Head(stream) IN
       /\ seq' = seq + 1
       /\ IF e.kind = "output"
          THEN outputs' = Pushed(outputs, [seq |-> seq', of |-> e.of]) /\ UNCHANGED errors
          ELSE /\ \E p \in {0} \cup (IF Lives(e.of) THEN {modules[e.of].patch} ELSE {}) :
                     errors' = Pushed(errors, [seq |-> seq', of |-> p])
               /\ UNCHANGED outputs
    /\ stream' = Tail(stream)
    /\ UNCHANGED <<menu, toolVars, missed, dropped, cursor, got, emitted>>

Buffer(b) == IF b = "errors" THEN errors ELSE outputs
Wants(s, b, r) == b = "errors" /\ Filter[s] # 0 => r.of = Filter[s]

\* get_module_errors, get_external_outputs: a page, the oldest first, and where
\* the next one goes on.
Page(s, b) ==
    LET new == Within(Buffer(b), {r \in Range(Buffer(b)) : r.seq > cursor[s][b] /\ Wants(s, b, r)})
    IN SubSeq(new, 1, Min({Limit, Len(new)}))

\* Mutant: the next page starts behind the latest record of all.
LatestAllocated(s, b) == seq

LatestSeq(s, b) == IF Page(s, b) = <<>> THEN cursor[s][b] ELSE Last(Page(s, b)).seq

Poll(s, b) ==
    /\ Ready(s, "poll")
    /\ got' = [got EXCEPT ![s][b] = got[s][b] \o [i \in DOMAIN Page(s, b) |-> Page(s, b)[i].seq]]
    /\ cursor' = [cursor EXCEPT ![s][b] = LatestSeq(s, b)]
    /\ UNCHANGED <<menu, toolVars, stream, missed, errors, outputs, seq, dropped, emitted>>

-----------------------------------------------------------------------------

\* A user has one patch open, saved, with one numbered module in it.
McpInit ==
    /\ menu \in Menus
    /\ \E name \in Names : patches = <<name>> /\ files = [n \in {name} |-> 1]
    /\ modules = <<[patch |-> 1, def |-> "numbered",
                    configs |-> Settle("numbered", [k \in Declared["numbered"] |-> 1])]>>
    /\ call = [s \in Sessions |-> Idle] /\ lastAsked = <<>> /\ undone = {}
    /\ failures = 0 /\ writes = 0
    /\ stream = <<>> /\ missed = 0 /\ errors = <<>> /\ outputs = <<>> /\ seq = 0 /\ dropped = 0
    /\ cursor = [s \in Sessions |-> [b \in Buffers |-> 0]]
    /\ got = [s \in Sessions |-> [b \in Buffers |-> <<>>]]
    /\ emitted = 0

McpNext ==
    \/ \E s \in Sessions :
          \/ \E p \in DOMAIN patches, d \in DOMAIN Declared, a \in Asked : AddModule(s, p, d, a)
          \/ Constructed(s) \/ Rollback(s) \/ RollbackFails(s) \/ WriteConfigs(s)
          \/ \E m \in DOMAIN modules : RemoveModule(s, m) \/ \E a \in Asked, t \in {"set", "update"} : ReadConfigs(s, m, a, t)
          \/ \E name \in Names : CreatePatch(s, name) \/ \E p \in DOMAIN patches : SavePatch(s, p, name)
          \/ RenamePatch(s) \/ WriteFile(s) \/ DiskFails(s) \/ DropOld(s)
          \/ \E b \in Buffers : Poll(s, b)
    \/ \E s \in Sessions : "report" \in menu[s] /\ (Report([kind |-> "output", of |-> 1]) \/ Report([kind |-> "error", of |-> 1]))
    \/ CollectLag \/ Collect

McpSpec == McpInit /\ [][McpNext]_mcpVars

-----------------------------------------------------------------------------
(* Properties.                                                              *)

\* Polling with the latest_seq of the page before gives every record once, in
\* order: none a session asks for lies behind its cursor unseen while the ring
\* still has it, and every event is counted, as a record, as dropped, or on its
\* way.
PagesAreWhole ==
    /\ \A s \in Sessions, b \in Buffers :
          LET had == got[s][b] IN
          /\ \A i, j \in DOMAIN had : i < j => had[i] < had[j]
          /\ \A r \in Range(Buffer(b)) :
                Wants(s, b, r) => (r.seq <= cursor[s][b] <=> r.seq \in Range(had))
    /\ emitted = seq + dropped + missed + Len(stream)

\* Whatever other sessions do to a module between the steps of a call, an
\* add_module that failed leaves none, unless its answer says that it remains,
\* and no module comes to have a config it neither declares nor generates, or
\* one that is global.
ModulesStayWhole ==
    /\ \A m \in undone : ~Lives(m)
    /\ \A m \in DOMAIN modules : Lives(m) =>
          LET mod == modules[m] IN
          /\ DOMAIN mod.configs = IF mod.def = "numbered" THEN Declared["numbered"] \cup Generated(mod.configs["n"])
                                                          ELSE Declared[mod.def]
          /\ DOMAIN mod.configs \cap Global[mod.def] = {}

\* A patch saved under another name moves: as long as the disk does not fail,
\* it has one file, of its name, when the call is over.  (One session saves.)
SavesMove ==
    failures = 0 =>
      \A p \in Range(files) :
         (\A s \in Sessions : call[s].step \in {"save", "drop"} => call[s].patch # p) =>
            {n \in DOMAIN files : files[n] = p} = {patches[p]}

\* A call that fails or is overtaken half way leaves modules and files whole,
\* or its answer says what it left.
CallsLeaveWhole == ModulesStayWhole /\ SavesMove

\* The doc of the tool (mcp_server.rs:1133) says that set_module_configs merges
\* into the current configs: what was asked for last of a key is what it has,
\* unless a smaller "n" took the key away.
EditsMerge ==
    \A k \in DOMAIN lastAsked : Lives(k[1]) => modules[k[1]].configs[k[2]] = lastAsked[k]
=============================================================================
