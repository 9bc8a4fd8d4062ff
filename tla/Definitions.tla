---------------------------- MODULE Definitions ----------------------------
(***************************************************************************)
(* A module's spec as it outlives the program: saved with a patch, loaded  *)
(* by a build whose definition of the module has changed or is missing,    *)
(* edited by hosts and wires in between.                                   *)
(*                                                                         *)
(* Keys are tuples: <<"name">>, <<"c", i>> of a numbered family, and       *)
(* <<"_", key>> for a key put aside.  The order of the configs, which only *)
(* shows in an editor, is left out, and so is what a host may store in the *)
(* extension fields.                                                       *)
(***************************************************************************)
EXTENDS Kinds

CONSTANTS Builds,      \* the definition each build has, None where it has none
          SpecEdits,   \* the configs a host sets
          Wirings,     \* the key and value a config wire carries
          Patches,     \* the ports an editor writes into the spec
          MaxLoads, MaxSpecEdits

VARIABLES build, spec,
          edited,      \* what was last set, of the keys every build since knew
          loads, specEdits

specVars == <<build, spec, edited, loads, specEdits>>

NoConfigs == [k \in {} |-> Unit]
Single(key, v) == [k \in {key} |-> v]

-----------------------------------------------------------------------------
(* Definitions.                                                             *)

\* The default of a config, by type, where none is given.
DefaultOf == [unit |-> Unit, boolean |-> Bool(FALSE), integer |-> Int_(0), number |-> Num(0),
              string |-> Str(""), text |-> Str(""), array |-> Arr(<<>>), object |-> Obj(EmptyObj)]

ConfigSpec(type, value) == [type |-> type, value |-> value]

\* insert_config_entry.
WithConfig(def, key, entry) ==
    [def EXCEPT !.configs = Some(Over(Single(key, entry), OrElse(@, NoConfigs)))]
WithDefault(def, key, type) == WithConfig(def, key, ConfigSpec(type, DefaultOf[type]))

\* ModuleDefinition::new; a numbered module sizes a family of configs by "n".
NewDefinition(numbered) == [inputs |-> None, outputs |-> None, configs |-> None, numbered |-> numbered]

Defaults(def) ==
    IF def.configs = None THEN None
    ELSE Some([k \in DOMAIN def.configs[1] |-> def.configs[1][k].value])

\* to_spec.
ToSpec(def) ==
    [inputs |-> def.inputs, outputs |-> def.outputs, configs |-> Defaults(def), specs |-> def.configs]

-----------------------------------------------------------------------------
(* Loading.                                                                 *)

Aside(key)    == <<"_", key>>
IsAside(key)  == key[1] = "_"

\* Configs the definition does not know are put aside, over what was there.
PutAside(configs, known) ==
    LET stale == {k \in DOMAIN configs : ~IsAside(k) /\ k \notin known}
    IN [k \in (DOMAIN configs \ stale) \cup {Aside(s) : s \in stale} |->
          IF IsAside(k) /\ k[2] \in stale THEN configs[k[2]] ELSE configs[k]]

\* reconcile_spec.
Reconcile(def, s) ==
    LET known    == IF def.configs = None THEN {} ELSE DOMAIN def.configs[1]
        defaults == OrElse(Defaults(def), NoConfigs)
    IN [inputs  |-> IF def.inputs = None THEN s.inputs ELSE def.inputs,
        outputs |-> IF def.outputs = None THEN s.outputs ELSE def.outputs,
        specs   |-> def.configs,
        configs |-> IF s.configs = None THEN Defaults(def)
                    ELSE Some(Over(PutAside(s.configs[1], known), defaults))]

\* update_numbered_spec: the family is read from the configs, or where a load
\* has just put it aside, and everything else but the static configs goes.
Text(v, default) == IF Kind(v) = "str" THEN v ELSE default
NumberedPlain(configs, key) ==
    IF key \in DOMAIN configs THEN Text(configs[key], Str("")) ELSE Str("")
NumberedConfig(configs, key) ==
    IF key \in DOMAIN configs THEN Text(configs[key], Str(""))
    ELSE IF Aside(key) \in DOMAIN configs THEN Text(configs[Aside(key)], Str(""))
    ELSE Str("")

MaxFamily == 64
Size(configs) == IF <<"n">> \in DOMAIN configs
                 THEN Max({1, Min({MaxFamily, OrElse(AsI64(configs[<<"n">>]), 2)})}) ELSE 2
Family(n) == {<<"c", ToString(i)>> : i \in 0 .. n - 1}

Renumber(def, s) ==
    LET configs == OrElse(s.configs, NoConfigs)
        n       == Size(configs)
        statics == [k \in DOMAIN def.configs[1] |->
                      IF k = <<"n">> THEN Int_(n)
                      ELSE IF k \in DOMAIN configs THEN configs[k] ELSE s.specs[1][k].value]
    IN [s EXCEPT !.configs = Some(Over(statics, [k \in Family(n) |-> NumberedConfig(configs, k)])),
                 !.specs   = Some(Over(def.configs[1], [k \in Family(n) |-> ConfigSpec("string", Str(""))])),
                 !.outputs = Some([i \in 1 .. n + 1 |-> IF i <= n THEN ToString(i - 1) ELSE "_"])]

\* configs_changed.
Changed(def, s) == IF def.numbered THEN Renumber(def, s) ELSE s

\* ModuleData::new strips what is still aside.
Strip(s) ==
    IF s.configs = None THEN s
    ELSE [s EXCEPT !.configs = Some([k \in {k \in DOMAIN @[1] : ~IsAside(k)} |-> @[1][k]])]

\* module_new; a build that lacks the definition keeps the spec as it is.
Loaded(def, s) == IF def = None THEN s ELSE Strip(Changed(def[1], Reconcile(def[1], s)))

-----------------------------------------------------------------------------
(* Editing.                                                                 *)

\* set_configs, and the configs of a spec patch: key by key.
Merge(s, new) == [s EXCEPT !.configs = Some(Over(new, OrElse(@, NoConfigs)))]

SetConfigs(def, s, new) == IF def = None THEN Merge(s, new) ELSE Changed(def[1], Merge(s, new))

\* set_config, of a wire: a module without configs has nothing to set.
SetOne(def, s, key, v) == IF s.configs = None THEN s ELSE SetConfigs(def, s, Single(key, v))

\* ModuleSpec::update with ports: replaced as given, configs_changed not called.
UpdatePorts(s, ports) == [s EXCEPT !.outputs = Some(ports)]

-----------------------------------------------------------------------------

\* Some build numbers the module's configs.
HasFamily == \E b \in DOMAIN Builds : Builds[b] # None /\ Builds[b][1].numbered

\* Where it does, values of the kind those have: a size in its bounds, texts.
Fitting(configs) ==
    HasFamily => \A k \in DOMAIN configs :
                     /\ k = <<"n">> => configs[k] \in {Int_(i) : i \in 1 .. MaxFamily}
                     /\ k \in Family(MaxFamily) => Kind(configs[k]) = "str"

\* No config is declared under a key that would be put aside, a numbered module
\* declares its size, and what is set there is of the kind its config has.
ASSUME DefinitionsAssumption ==
    /\ \A b \in DOMAIN Builds : Builds[b] # None =>
          LET def == Builds[b][1] IN
          /\ def.numbered \in BOOLEAN
          /\ def.numbered => def.configs # None /\ <<"n">> \in DOMAIN def.configs[1]
          /\ def.configs # None => /\ \A k \in DOMAIN def.configs[1] : ~IsAside(k)
                                  /\ Fitting(Defaults(def)[1])
    /\ \A new \in SpecEdits : Fitting(new)
    /\ \A w \in Wirings : Fitting(Single(w[1], w[2]))

Known(def, key, s) ==
    \/ def = None
    \/ def[1].configs # None /\ key \in DOMAIN def[1].configs[1]
    \/ def[1].numbered /\ key \in Family(Size(s.configs[1]))

Remember(new, def, s) ==
    LET all == Over(new, edited) IN edited' = [k \in {k \in DOMAIN all : Known(def, k, s)} |-> all[k]]

LoadSpec(b) ==
    /\ loads < MaxLoads
    /\ build' = b
    /\ spec' = Loaded(Builds[b], spec)
    /\ loads' = loads + 1
    /\ Remember(NoConfigs, Builds[b], spec')
    /\ UNCHANGED specEdits

EditSpec(new) ==
    /\ specEdits < MaxSpecEdits
    /\ specEdits' = specEdits + 1
    /\ spec' = SetConfigs(Builds[build], spec, new)
    /\ Remember(new, Builds[build], spec')
    /\ UNCHANGED <<build, loads>>

\* Only a live module is reached by wires.
WireConfig(key, v) ==
    /\ specEdits < MaxSpecEdits
    /\ Builds[build] # None
    /\ specEdits' = specEdits + 1
    /\ spec' = SetOne(Builds[build], spec, key, v)
    /\ Remember(IF spec.configs = None THEN NoConfigs ELSE Single(key, v), Builds[build], spec')
    /\ UNCHANGED <<build, loads>>

PatchSpec(ports) ==
    /\ specEdits < MaxSpecEdits
    /\ specEdits' = specEdits + 1
    /\ spec' = UpdatePorts(spec, ports)
    /\ UNCHANGED <<build, edited, loads>>

SpecInit ==
    /\ build \in {b \in DOMAIN Builds : Builds[b] # None}
    /\ spec = Loaded(Builds[build], ToSpec(Builds[build][1]))
    /\ edited = NoConfigs
    /\ loads = 0 /\ specEdits = 0

SpecNext ==
    \/ \E b \in DOMAIN Builds : LoadSpec(b)
    \/ \E new \in SpecEdits : EditSpec(new)
    \/ \E w \in Wirings : WireConfig(w[1], w[2])
    \/ \E p \in Patches : PatchSpec(p)

DefinitionsSpec == SpecInit /\ [][SpecNext]_specVars

-----------------------------------------------------------------------------

\* What was set last is what the module has, through reloads by builds with
\* other defaults, by builds that lack the module, and through edits of other
\* keys, a resize of the numbered family among them: nothing is reset.
EditsSurvive ==
    \A k \in DOMAIN edited :
        /\ spec.configs # None
        /\ k \in DOMAIN spec.configs[1]
        /\ spec.configs[1][k] = edited[k]
=============================================================================
