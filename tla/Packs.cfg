SPECIFICATION PacksSpec
CONSTANTS
    Focus = {"praktor", "graph", "tools"}
    Configs <- MCConfigs
    HostTools = {"a", "b"}
    HostCaps <- MCHostCaps
    Contexts <- MCContexts
    PlanIds = {1, 2}
    MaxWorkflows = 2
    MaxTime = 1
    MaxRetries = 3
    MaxHostCalls = 1
    NodeChoices <- MCNodes
    EdgeChoices <- MCEdges
    StartNodes <- MCStarts
    InterruptSets <- MCInterrupts
    StepLimits <- MCLimits
    MaxGEdges = 2
    TNames <- MCNames
    THandlers <- MCHandlers
    TValidChars <- MCValidChars
    TRuntimeTools <- MCRuntimeTools
    MaxTools = 4
PROPERTIES PackSound  RegistrySound
CHECK_DEADLOCK FALSE
