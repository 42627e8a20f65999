SPECIFICATION ToolCallsSpec
CONSTANTS
    Focus = {"journal", "catalog"}
    Owners = {o1, o2, o3}
    Calls = {c1, c2}
    LegacyKeyed = {c1, c2}
    LegacyRecords = {c2}
    NoAtomicCreate = {o3}
    SmallLimit = {o2}
    MaxTries = 2
    CatalogCalls <- MCCalls
    Documented <- MCDocumented
CONSTRAINT OneCallsAgain
INVARIANTS JournalSafe AdmittedIsServed
PROPERTY ImplementsEffectOnce
CHECK_DEADLOCK FALSE
