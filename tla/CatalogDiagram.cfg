SPECIFICATION ToolCallsSpec
CONSTANTS
    Focus = {"catalog"}
    Owners = {o1, o2, o3}
    Calls = {c1, c2}
    LegacyKeyed = {c1, c2}
    LegacyRecords = {c2}
    NoAtomicCreate = {o3}
    SmallLimit = {o2}
    MaxTries = 2
    CatalogCalls <- MCCalls
    Documented <- MCDocumented
INVARIANT DocumentedCallsAdmitted
CHECK_DEADLOCK FALSE
