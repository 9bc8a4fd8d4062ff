\* Two callers in the flow that fans out to both.
SPECIFICATION ToolsAlone
CONSTANTS
    alice = alice
    bob = bob
    f = f
    g = g
    Tools = {t1}
    Names = {x}
    Flows = {f, g}
    Callers = {alice, bob}
    Reach <- FanOut
    MaxCalls = 2
    LoopFlows = {f1, f2}
    MaxTurns = 2
    MaxRetries = 1
    MaxEvents = 2
    MaxIterations = 1
    MaxTracked = 1
    MaxInputs = 2
    MaxRepeats = 1
PROPERTY GuardRemovesOwn
CHECK_DEADLOCK FALSE
