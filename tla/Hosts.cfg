SPECIFICATION FairHostsSpec
CONSTANTS
    Focus = {"exec", "memory", "lemon", "stategraph"}
    c1 = c1
    c2 = c2
    w1 = w1
    w2 = w2
    Clients = {c1, c2}
    Submitter = c1
    TerminalHook = TRUE
    Waiters = {w1, w2}
    Timeout <- MCTimeout
    Infinite = Infinite
    Deadline = 1
    MaxTime = 2
    MemIds <- MCIds
    MemValues <- MCValues
    MemRecords <- MCRecords
    MemQueries <- MCQueries
    Grammars <- MCGrammars
    MaxInput = 6
    MaxParses = 2
    NoValue = NoValue
    NoRoute = NoRoute
    Torn = Torn
    Node <- MCNode
    EntryNode = "plan"
    Version = {"v1", "v2"}
    FirstVersion = "v2"
    Edges <- MCEdges
    ThreadId <- MCThreadId
    AutoId <- MCAutoId
    Updates <- MCUpdates
    NodeOutcomes <- MCOutcomes
    RunOptions <- MCRunOptions
    SnapshotId = {"s1", "s2"}
    Newer <- MCNewer
    Channel <- MCChannel
    Reducer <- MCReducer
    ValueKind <- MCValueKind
    DefaultValue <- MCDefaultValue
    MaxCalls = 2
    MaxSaves = 2
    MaxRestarts = 1
INVARIANTS ExecutionSound DeadlineBeatsLateCancel MemorySound LemonSound
PROPERTIES WaitsReturn StateGraphSound
CHECK_DEADLOCK FALSE
