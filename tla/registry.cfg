\* Three hosts race every operation on two patches and two names.
\* It may stop: when MaxPatches patches were added and removed no call is left.
CHECK_DEADLOCK FALSE
SPECIFICATION Spec
CONSTANTS
    alice = alice
    bob = bob
    carol = carol
    x = x
    y = y
    Callers = {alice, bob, carol}
    Menu <- ThreeHosts
    Names = {x, y}
    MaxPatches = 2
INVARIANTS
    NamesHold
    TransitionsAnnounced
    RunningIsCancellable
SYMMETRY Alike
