SPECIFICATION SessionsSpec
CONSTANTS
    Focus = {"session"}
    s1 = s1
    s2 = s2
    f1 = f1
    Steers = {}
    FollowUps = {f1}
    Patient = {}
    Bytes <- MCBytes
    MaxItems = 2
    MaxBytes = 2
    Runs = {r1, r2, r3, r4}
    LostReplies = FALSE
    MaxTransitions = 5
    MaxCrashes = 1
    MaxFollowUps = 1
    MaxFailures = 0
    IdBits = 2
INVARIANT OneLogicalInjection
CHECK_DEADLOCK FALSE
