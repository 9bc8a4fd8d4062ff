\* Every part alone, at its own bounds.
SPECIFICATION RuntimeSpec
CONSTANTS
    Configs <- MCConfigs
    Edits <- MCEdits
    Inputs <- MCInputs
    Carried <- MCCarried
    Arrays <- MCArrays
    Setups <- MCJoins
    MaxFlows = 2
    MaxLost <- MCMaxLost
    RunConfigs <- MCRunConfigs
    MaxTimers = 3
    MaxArrivals = 3
    MaxStops = 1
    MaxEdits = 2
    MaxOut = 4
    Builds <- MCBuilds
    SpecEdits <- MCSpecEdits
    Wirings <- MCWirings
    Patches <- MCPatches
    MaxLoads = 3
    MaxSpecEdits = 3
    Modules <- MCModules
    ModuleKind <- MCModuleKind
    PatchOf <- MCPatchOf
    Writes <- MCWrites
    NameEdits <- MCNameEdits
    RouterSetups <- MCRouterSetups
    PruneAt = 1
    Sessions = {"s", "t"}
    Declared <- MCDeclared
    Global <- MCGlobal
    Names = {"A", "B", "C"}
    Asked <- MCAsked
    Menus <- MCMenus
    Filter <- MCFilter
    Limit = 1
    RingCapacity = 2
    StreamCapacity = 2
    MaxPatches = 2
    MaxModules = 2
    MaxEvents = 4
    MaxFailures = 1
    MaxWrites = 2
INVARIANTS
    RoutesByConfig
    ValuesAgree
    JoinsWhatBelongs
    CollectRestores
    TimersKeep
    EditsSurvive
    OneToken
    RoutedInOrder
    PagesAreWhole
    CallsLeaveWhole
PROPERTY QuietWhenStopped
\* Every part is bounded and ends.
CHECK_DEADLOCK FALSE
