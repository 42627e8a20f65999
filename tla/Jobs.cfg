SPECIFICATION JobsSpec
CONSTANTS
    Focus = {"job", "review", "record"}
    h1 = h1
    r1 = r1
    Clients = {c1}
    Sources = {s1}
    Attempts = {a1}
    Requests = {r1, r2}
    MaxRevisions = 4
    None = None
    Harnesses = {h1, h2}
    Ids = {i1}
    Deliveries = {}
    Kinds = {"job", "receipted"}
    MaxCalls = 2
    MaxFaults = 1
    MaxPolicies = 0
CONSTRAINTS TwoDisturbances OneDisturbance
ACTION_CONSTRAINTS CancelAtOnce TwoRevisions BindFirst ReviewLast
SYMMETRY Symmetry
INVARIANTS ExecutesOnce FenceHolds OutcomeHonest HistoryReadable EvidenceChain
CHECK_DEADLOCK FALSE
