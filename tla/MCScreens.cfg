CONSTANTS
    Staff = {"u1", "u2"}
    Assignments <- MCAssignments
    MaxRecords = 2
    MaxSignOuts = 2
    HistoryMax = 2
    FetchMax = 1
    HomeRowsMax = 1
    TableFilters = {"all", "flagged"}
    TableVerdicts = {"approved"}
    TablePage = 1
    MaxLogged = 2
    MaxFetches = 2
SPECIFICATION MCSpec
INVARIANT HomeSound
INVARIANT PagesExplained
