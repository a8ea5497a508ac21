CONSTANTS
    p1 = p1
    p2 = p2
    i1 = i1
    Nil = Nil
    NAttempts = 2
    Photos <- MCPhotos
    RequestIds <- MCRequestIds
    Choices <- MCChoices
    Bands = "three"
    MaxRestarts = 1
SPECIFICATION FairSpec
INVARIANT TypeOK
INVARIANT LogEarned
INVARIANT UsedOnce
INVARIANT AlertsHonest
PROPERTY HandlerEnds
PROPERTY ImplementsLedger
CHECK_DEADLOCK FALSE
