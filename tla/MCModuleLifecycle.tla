-------------------------- MODULE MCModuleLifecycle --------------------------
(* Instances of ModuleLifecycle for TLC. *)
EXTENDS ModuleLifecycle, TLC

CONSTANTS alice, bob, router, m1, m2, a, b

\* Two hosts that race: one edits the module and its configs, the other runs
\* the patch and the module.
TwoHosts == [c \in {alice, bob} |->
                IF c = alice THEN {"startModule", "stopModule", "setConfigs"}
                             ELSE {"startPatch", "stopPatch", "startModule"}]

\* One host that starts and stops the patch and stops its module, beside the
\* task of the router.
PatchHost == [c \in {alice, router} |->
                IF c = alice THEN {"startPatch", "stopPatch", "stopModule"}
                             ELSE {"setConfigs", "input"}]

\* A host that starts and stops the patch, with inputs and config edits sent
\* in between.
OneHost == [c \in {alice} |-> {"startPatch", "stopPatch", "setConfigs", "input"}]

\* The two channels are alike.
TwoChannels == Permutations({a, b})
=============================================================================
