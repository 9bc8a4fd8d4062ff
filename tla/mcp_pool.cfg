\* Up to four calls of either mode, at most two at a time; two callers of one
\* server and a host that shuts down.
SPECIFICATION ToolSpec
CONSTANTS
    MaxCalls = 4
    MaxLimit = 2
    Servers = {s1}
    Callers = {alice, bob}
    MaxEntries = 3
INVARIANT ServicesHeld
PROPERTIES
    KeepsPromise
    AbortReturns
    HealthyStays
    PoolProgress
\* The pool may stop: when MaxEntries services were started no caller can connect.
CHECK_DEADLOCK FALSE
