CONSTANTS
    Logs = {x1, x2}
    FeedLimit = 2
    MaxEvents = 1
SPECIFICATION ReviewSpec
CHECK_DEADLOCK FALSE
INVARIANT FailedIsBack
