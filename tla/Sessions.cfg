SPECIFICATION SessionsSpec
CONSTANTS
    Focus = {"session", "inbox", "remote"}
    s1 = s1
    s2 = s2
    f1 = f1
    Steers = {s1, s2}
    FollowUps = {f1}
    Patient = {s2, f1}
    Bytes <- MCBytes
    MaxItems = 2
    MaxBytes = 2
    Runs = {r1, r2, r3}
    LostReplies = FALSE
    MaxTransitions = 5
    MaxCrashes = 1
    MaxFollowUps = 1
    MaxFailures = 1
    IdBits = 2
CONSTRAINTS OneTrouble TwoIfCrashed
ACTION_CONSTRAINT SmallMessages
INVARIANTS MessagesKept FollowUpsChain
PROPERTIES InboxSound RemoteSound
CHECK_DEADLOCK FALSE
