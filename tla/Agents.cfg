SPECIFICATION AgentsSpec
CONSTANTS
    Focus = {"router", "workflow", "codex", "tables", "reader"}
    t1 = t1
    t2 = t2
    Tasks = {t1, t2}
    Endpoint <- MCEndpoint
    Requests <- MCRequests
    Ids = {"a"}
    Turns = {0, 2}
    Limits = {1, 2}
    PriceUnit = 5
    MaxResumes = 1
    MaxClock = 1
    MaxGen = 1
    Loops = {"loop", "planner", "review", "replan", "engineering", "each_step", "supervisor"}
    Agents = {"a", "b"}
    PlanAnswers <- MCPlans
    WorkAnswers <- MCWork
    Policy <- MCPolicy
    Rewritings <- MCRewritings
    ReplanLimits = {0, 1}
    HostMoves = {"approve_review", "reject_review", "reject_review_because", "request_replan", "append_feedback"}
    MaxGraphSteps <- MCGraphSteps
    MaxAgain = 1
    Handlers = {"reject"}
    MaxTurns = 2
    MaxDeltas = 1
    MaxText = 2
    MaxCalls = 2
    MaxAsks = 1
    Strings <- MCStrings
    Configs <- MCConfigs
    Bases <- MCBases
    Lists <- MCLists
    InitialSize = 1
    ListSize = 2
    MaxInserts = 5
    Files <- MCFiles
    Sources <- MCSources
    Defined <- MCDefined
    MaxRhs = 3
INVARIANTS WorkflowSound RunReturnsOwnTurn TablesSound ReaderFaithful
PROPERTY RouterSound
CHECK_DEADLOCK FALSE
