SPECIFICATION SessionsSpec
CONSTANTS
    Focus = {"session"}
    s1 = s1
    s2 = s2
    f1 = f1
    Steers = {s1}
    FollowUps = {}
    Patient = {}
    Bytes <- MCBytes
    MaxItems = 2
    MaxBytes = 2
    Runs = {r1, r2}
    LostReplies = FALSE
    MaxTransitions = 5
    MaxCrashes = 0
    MaxFollowUps = 1
    MaxFailures = 1
    IdBits = 2
INVARIANT AppliedHasEvent
CHECK_DEADLOCK FALSE
