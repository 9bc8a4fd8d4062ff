\* Two hosts race every operation on one ExternalInputModule.
SPECIFICATION Spec
CONSTANTS
    alice = alice
    bob = bob
    router = router
    Modules = {m1}
    m1 = m1
    m2 = m2
    Disabled = {}
    Channels = {a, b}
    a = a
    b = b
    Callers = {alice, bob}
    Menu <- TwoHosts
    MaxGen = 2
    MaxQueue = 1
INVARIANTS
    SlotsAgree
    RegistrationMatches
    DeadInboxWasCancelled
SYMMETRY TwoChannels
