SPECIFICATION ThreadsSpec
CONSTANTS
    Focus = {"thread", "chain", "runnable", "mcp"}
    r1 = r1
    r2 = r2
    r3 = r3
    k1 = k1
    k2 = k2
    k3 = k3
    Runs = {r1, r2, r3}
    Ckpts = {k1, k2, k3}
    LegacyRun = r1
    LegacyCkpt = k1
    None = None
    MaxSegments = 3
    StepChoices <- MCSteps
    ToolHandlers <- MCTools
    MaxRuns = 2
    Trees <- MCTrees
    Inputs <- MCInputs
    Batches <- MCBatches
    MaxPast = 1
    Pages <- MCPages
    Answers <- MCAnswers
    Arguments <- MCArguments
    Normalized <- MCNormalized
    TooLong <- MCTooLong
    MaxTools = 2
    MaxPages = 2
    MaxHeaders = 6
    MaxId = 5
CONSTRAINT ThirdAfterSuccess
INVARIANTS HeadSound SurfacesAgree 
PROPERTIES ViewsSound HistoryKept ChainFaithful
SYMMETRY Fresh
CHECK_DEADLOCK FALSE
