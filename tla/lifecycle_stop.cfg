\* One host starts and stops a patch and sends it inputs and config edits.
SPECIFICATION FairSpec
CONSTANTS
    alice = alice
    bob = bob
    router = router
    Modules = {m1}
    m1 = m1
    m2 = m2
    Disabled = {}
    Channels = {a}
    a = a
    b = b
    Callers = {alice}
    Menu <- OneHost
    MaxGen = 2
    MaxQueue = 1
PROPERTY StopsEnd
