CONSTANTS
    u1 = u1
    u2 = u2
    r1 = r1
    r2 = r2
    r3 = r3
    Users <- MCUsers
    Requests <- MCRequests
    MaxAttempts = 2
    LockoutSeconds = 2
    MaxKeys = 1
    MaxTime = 4
SPECIFICATION FairSpec
INVARIANT TypeOK
INVARIANT OverspendBounded
INVARIANT LockMatchesBudget
INVARIANT StoreBounded
PROPERTY LockedDeadlineFixed
PROPERTY LockExpires
