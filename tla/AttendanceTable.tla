--------------------------- MODULE AttendanceTable ---------------------------
(***************************************************************************)
(* Attendance Logs of the console, a page at a time (attendance-view.tsx,  *)
(* data-table.tsx): what the query cache holds of GET /attendance for each *)
(* filter and page, where its pager leads, and listAttendance of           *)
(* attendanceService.ts, which reads the rows and their total apart, while *)
(* phones check in and HR decides.  Of the rows only their number matters  *)
(* here, and the dates and the office are those the page opens with.       *)
(***************************************************************************)
EXTENDS Naturals, FiniteSets

CONSTANTS
    TableFilters,  \* verification statuses HR looks through
    TableVerdicts, \* what HR decides: "approved", "rejected"
    TablePage,     \* DEFAULT_PAGE_SIZE: 20 in the code
    MaxLogged,     \* bound on the logs
    MaxFetches     \* bound on the fetches under way

LogStatuses == {"flagged", "approved", "rejected"}

ASSUME TableAssumption ==
    /\ TableFilters \subseteq {"all"} \cup LogStatuses /\ "all" \in TableFilters
    /\ TableVerdicts \subseteq {"approved", "rejected"}
    /\ TablePage \in Nat \ {0} /\ MaxLogged \in Nat /\ MaxFetches \in Nat

TableKeys == TableFilters \X (1..(MaxLogged + 1)) \* queryKeys.attendance
NoTableAnswer == [rows |-> 0, total |-> 0, torn |-> FALSE, held |-> FALSE]
NoFetch == [on |-> FALSE, found |-> {}, counted |-> {}]
NewFetch == [on |-> TRUE, found |-> {}, counted |-> {}]

VARIABLES
    logged,     \* how many logs there are of each status
    tableView,  \* the key of what is looked at
    shownPages, \* each key's answer, if there is one
    fetches,    \* each key's fetch: what the two reads met, as far as they ran
    promised    \* ghost: the highest total on which a page was turned to

tableVars == <<logged, tableView, shownPages, fetches, promised>>

TableTypeOK ==
    /\ logged \in [LogStatuses -> 0..MaxLogged]
    /\ tableView \in TableKeys
    /\ shownPages \in [TableKeys -> [rows : 0..TablePage, total : 0..MaxLogged,
                                    torn : BOOLEAN, held : BOOLEAN]]
    /\ fetches \in [TableKeys -> [on : BOOLEAN, found : SUBSET (0..MaxLogged),
                                 counted : SUBSET (0..MaxLogged)]]
    /\ promised \in [TableKeys -> 0..MaxLogged]

LoggedAll == logged["flagged"] + logged["approved"] + logged["rejected"]
LoggedOf(f) == IF f = "all" THEN LoggedAll ELSE logged[f]

\* skip and limit: of n logs, those on page p.
RowsAt(n, p) ==
    LET skip == (p - 1) * TablePage
    IN  IF n <= skip THEN 0 ELSE IF n - skip < TablePage THEN n - skip ELSE TablePage

OpenedTable == <<"all", 1>>

TableInit ==
    /\ logged \in [LogStatuses -> 0..MaxLogged] /\ LoggedAll <= MaxLogged
    /\ "rejected" \notin TableVerdicts => logged["rejected"] = 0
    /\ tableView = OpenedTable
    /\ shownPages = [k \in TableKeys |-> NoTableAnswer]
    /\ fetches = [k \in TableKeys |-> IF k = OpenedTable THEN NewFetch ELSE NoFetch]
    /\ promised = [k \in TableKeys |-> 0]

\* A phone checks in.
LogKept(status) ==
    /\ LoggedAll < MaxLogged
    /\ logged' = [logged EXCEPT ![status] = @ + 1]
    /\ UNCHANGED <<tableView, shownPages, fetches, promised>>

\* HR decides at some console, perhaps what another has decided.
LogReviewed(from, to) ==
    /\ from # to /\ logged[from] > 0
    /\ logged' = [logged EXCEPT ![from] = @ - 1, ![to] = @ + 1]
    /\ UNCHANGED <<tableView, shownPages, fetches, promised>>

-----------------------------------------------------------------------------
\* The query: one fetch of a key at a time, and none that answers another.
FetchStarts(k) ==
    /\ ~fetches[k].on
    /\ Cardinality({j \in TableKeys : fetches[j].on}) < MaxFetches
    /\ fetches' = [fetches EXCEPT ![k] = NewFetch]

\* Another key is looked at: what is held of it is shown at once, and fetched
\* again if it is 15 s old; what is not held is fetched.
Look(k) ==
    /\ k # tableView /\ tableView' = k
    /\ \/ FetchStarts(k)
       \/ (shownPages[k].held \/ fetches[k].on) /\ UNCHANGED fetches

\* The window is focused, the network back, the page opened again.
Refetch == FetchStarts(tableView) /\ UNCHANGED <<logged, tableView, shownPages, promised>>

\* Mutation: the page stays.
SetTableFilterOnly(f) == Look(<<f, tableView[2]>>) /\ UNCHANGED <<logged, shownPages, promised>>

\* A filter is chosen, or all are reset.
SetTableFilter(f) == Look(<<f, 1>>) /\ UNCHANGED <<logged, shownPages, promised>>

\* The buttons below the table, which an empty table does not have.
TurnTablePage(p) ==
    /\ shownPages[tableView].rows > 0 /\ shownPages[tableView].total > TablePage
    /\ \/ p + 1 = tableView[2]
       \/ p = tableView[2] + 1 /\ tableView[2] * TablePage < shownPages[tableView].total
    /\ LET k == <<tableView[1], p>>
           total == shownPages[tableView].total
       IN  /\ Look(k)
           /\ promised' = [promised EXCEPT ![k] = IF @ < total THEN total ELSE @]
    /\ UNCHANGED <<logged, shownPages>>

\* find and countDocuments, side by side.
FindRuns(k) ==
    /\ fetches[k].on /\ fetches[k].found = {}
    /\ fetches' = [fetches EXCEPT ![k].found = {LoggedOf(k[1])}]
    /\ UNCHANGED <<logged, tableView, shownPages, promised>>

CountRuns(k) ==
    /\ fetches[k].on /\ fetches[k].counted = {}
    /\ fetches' = [fetches EXCEPT ![k].counted = {LoggedOf(k[1])}]
    /\ UNCHANGED <<logged, tableView, shownPages, promised>>

\* The answer, of a key that may no longer be looked at.
FetchAnswered(k) ==
    /\ \E n \in fetches[k].found, total \in fetches[k].counted :
          shownPages' = [shownPages EXCEPT ![k] =
                            [rows |-> RowsAt(n, k[2]), total |-> total,
                             torn |-> n # total, held |-> TRUE]]
    /\ fetches' = [fetches EXCEPT ![k] = NoFetch]
    /\ UNCHANGED <<logged, tableView, promised>>

\* A request fails: it is tried again, or given up and what is held kept.  (The
\* table then shows an error as it shows an empty range.)
FetchFailed(k) ==
    /\ fetches[k].on
    /\ fetches' \in {[fetches EXCEPT ![k] = NewFetch], [fetches EXCEPT ![k] = NoFetch]}
    /\ UNCHANGED <<logged, tableView, shownPages, promised>>

TableNext ==
    \/ \E status \in {"flagged", "approved"} : LogKept(status)
    \/ \E from \in LogStatuses, to \in TableVerdicts : LogReviewed(from, to)
    \/ \E f \in TableFilters : SetTableFilter(f)
    \/ \E p \in 1..MaxLogged : TurnTablePage(p)
    \/ Refetch
    \/ \E k \in TableKeys : FindRuns(k) \/ CountRuns(k) \/ FetchAnswered(k) \/ FetchFailed(k)

TableSpec == TableInit /\ [][TableNext]_tableVars

-----------------------------------------------------------------------------
\* A page past the end, which has no button back, has one explanation: logs
\* that had the status looked through when it was turned to have it no more.
\* Whatever else was cached or answered late, the pager leads to rows - unless
\* the rows and the total of one answer are of different instants.
PagesExplained ==
    \A k \in TableKeys :
        LET a == shownPages[k]
        IN  a.held /\ ~a.torn /\ a.rows = 0 /\ a.total > 0 =>
                k[1] # "all" /\ a.total < promised[k]
=============================================================================
