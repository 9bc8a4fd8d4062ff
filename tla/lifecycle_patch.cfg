\* A host starts and stops a patch and its module while the router's task
\* delivers inputs and config edits.
SPECIFICATION Spec
CONSTANTS
    alice = alice
    bob = bob
    router = router
    Modules = {m1}
    m1 = m1
    m2 = m2
    Disabled = {}
    Channels = {a, b}
    a = a
    b = b
    Callers = {alice, router}
    Menu <- PatchHost
    MaxGen = 2
    MaxQueue = 1
INVARIANT OneLiveLoop
PROPERTY OwnerProcesses
