SPECIFICATION FairSpec
CONSTANTS
    Requests = {r1, r2}
    Me = me
    Boot = boot
    Socket = socket
    MaxTokens = 3
    MaxReloads = 1
PROPERTY
    SignedOutOnlyByRefresh
