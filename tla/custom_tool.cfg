\* Two callers, one flow of both and one of alice alone; two modules that may
\* take the same name.  An agent of two flows.
SPECIFICATION BothSpec
CONSTANTS
    alice = alice
    bob = bob
    f = f
    g = g
    Tools = {t1, t2}
    Names = {x, y}
    Flows = {f, g}
    Callers = {alice, bob}
    Reach <- FanOut
    MaxCalls = 2
    LoopFlows = {f1, f2}
    MaxTurns = 2
    MaxRetries = 1
    MaxEvents = 2
    MaxIterations = 1
    MaxTracked = 1
    MaxInputs = 2
    MaxRepeats = 1
INVARIANTS
    NoLeftoverSender
    CallsReachTheirTool
    OneFinal
    CallsRunOnce
PROPERTY AbortEnds
SYMMETRY EitherFlow
\* The agent rests when its turns are spent.
CHECK_DEADLOCK FALSE
