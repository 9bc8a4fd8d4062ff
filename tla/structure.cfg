\* Three hosts build and take apart two patches of three modules in all.
\* It may stop: when the ids are used up and the patches are gone no call is left.
SPECIFICATION Spec
CONSTANTS
    alice = alice
    bob = bob
    carol = carol
    Callers = {alice, bob, carol}
    Menu <- Builders
    MaxPatches = 2
    MaxModules = 3
    MaxBatch = 2
    Wires <- SomeWires
INVARIANTS
    DrawnAsRouted
    NothingOutOfReach
CHECK_DEADLOCK FALSE
