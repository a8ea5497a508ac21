---------------------------- MODULE ReportExport ----------------------------
(***************************************************************************)
(* The export of attendance (fetch-all-attendance.ts; Reports and          *)
(* Attendance Logs use it): GET /attendance (listAttendance of             *)
(* attendanceService.ts) page after page, while phones check in and HR     *)
(* reviews.  Entries are sorted by the phone's clock, newest first, so a   *)
(* new one need not be the first.                                          *)
(***************************************************************************)
EXTENDS Naturals, Sequences, SequencesExt

CONSTANTS
    PageSize,   \* MAX_SERVER_PAGE_SIZE
    MaxPages,   \* MAX_PAGES
    MaxEntries, \* bound on the entries
    MaxLate     \* places by which a check-in may come late

ASSUME ExportAssumption ==
    /\ PageSize \in Nat \ {0} /\ MaxPages \in Nat \ {0}
    /\ MaxEntries \in Nat /\ MaxLate \in Nat

Statuses == {"flagged", "approved"}
Filters == Statuses \cup {"all"}
Entry == [id : 1..MaxEntries, status : Statuses]
EntrySeqs == UNION {[1..n -> Entry] : n \in 0..MaxEntries}
NoExport == <<>>

VARIABLES
    recorded,  \* the entries, as they are sorted
    exporting, \* NoExport, or the loop of fetchAllAttendance
    download,  \* {} or {the rows of the last export}
    due,       \* ghost: what the export had to find when it began
    disturbed  \* ghost: "in", "out", "torn": what happened since to its rows

exportVars == <<recorded, exporting, download, due, disturbed>>

ExportTypeOK ==
    /\ recorded \in EntrySeqs
    /\ exporting = NoExport \/
       /\ exporting.filter \in Filters /\ exporting.page \in 1..MaxPages
       /\ exporting.rows \in Seq(1..MaxEntries)
       /\ exporting.answer \subseteq Seq(1..MaxEntries)
       /\ exporting.total \subseteq 0..MaxEntries
    /\ download \subseteq Seq(1..MaxEntries) /\ due \in Seq(1..MaxEntries)
    /\ disturbed \subseteq {"in", "out", "torn"}

Matches(e, f) == f = "all" \/ e.status = f

\* Of the first i entries, the ids of those that match.
Kept(entries, f) ==
    LET kept[i \in 0..Len(entries)] ==
            IF i = 0 THEN <<>>
            ELSE IF Matches(entries[i], f) THEN Append(kept[i - 1], entries[i].id)
            ELSE kept[i - 1]
    IN  kept
Matching(f) == Kept(recorded, f)[Len(recorded)]

\* Mutation: the page is counted from zero.
PageAtZeroBased(f, n) ==
    LET rows == Matching(f)
    IN  SubSeq(rows, n * PageSize + 1,
               IF (n + 1) * PageSize < Len(rows) THEN (n + 1) * PageSize ELSE Len(rows))

\* listAttendance's skip and limit.
PageAt(f, n) ==
    LET first == (n - 1) * PageSize + 1
        last  == n * PageSize
        rows  == Matching(f)
    IN  SubSeq(rows, first, IF last < Len(rows) THEN last ELSE Len(rows))

ExportInit ==
    /\ recorded \in {r \in EntrySeqs : \A i \in 1..Len(r) : r[i].id = Len(r) + 1 - i}
    /\ exporting = NoExport /\ download = {} /\ due = <<>> /\ disturbed = {}

\* Between the reads of one answer, which are not of one instant.
HalfRead ==
    exporting # NoExport /\ (exporting.answer = {}) # (exporting.total = {})

\* A check-in, up to MaxLate places from the top.
CheckedIn(status, late) ==
    /\ Len(recorded) < MaxEntries
    /\ late <= Len(recorded)
    /\ recorded' = InsertAt(recorded, late + 1, [id |-> Len(recorded) + 1, status |-> status])
    /\ disturbed' = IF exporting = NoExport \/ ~Matches([status |-> status], exporting.filter)
                      THEN disturbed
                      ELSE disturbed \cup {"in"} \cup (IF HalfRead THEN {"torn"} ELSE {})
    /\ UNCHANGED <<exporting, download, due>>

\* HR decides on a flagged entry.
Decided(i) ==
    /\ i <= Len(recorded)
    /\ recorded[i].status = "flagged"
    /\ recorded' = [recorded EXCEPT ![i].status = "approved"]
    /\ disturbed' = IF exporting = NoExport \/ exporting.filter = "all" THEN disturbed
                      ELSE disturbed \cup {IF exporting.filter = "flagged" THEN "out" ELSE "in"}
                                  \cup (IF HalfRead THEN {"torn"} ELSE {})
    /\ UNCHANGED <<exporting, download, due>>

-----------------------------------------------------------------------------
\* The export of what the filter matches.
ExportBegins(f) ==
    /\ exporting = NoExport
    /\ exporting' = [filter |-> f, page |-> 1, rows |-> <<>>, answer |-> {}, total |-> {}]
    /\ download' = {}
    /\ due' = Matching(f)
    /\ disturbed' = {}
    /\ UNCHANGED recorded

\* find and countDocuments, side by side.
PageFound ==
    /\ exporting # NoExport /\ exporting.answer = {}
    /\ exporting' = [exporting EXCEPT !.answer = {PageAt(exporting.filter, exporting.page)}]
    /\ UNCHANGED <<recorded, download, due, disturbed>>

RowsCounted ==
    /\ exporting # NoExport /\ exporting.total = {}
    /\ exporting' = [exporting EXCEPT !.total = {Len(Matching(exporting.filter))}]
    /\ UNCHANGED <<recorded, download, due, disturbed>>

\* A short page is the last, and so is the one that completes the total.
LastPage(rows, found, total) == Len(found) < PageSize \/ Len(rows) >= total

PageArrived ==
    /\ exporting # NoExport
    /\ \E found \in exporting.answer, total \in exporting.total :
          LET rows == exporting.rows \o found
          IN  IF LastPage(rows, found, total) \/ exporting.page = MaxPages
              THEN exporting' = NoExport /\ download' = {rows}
              ELSE /\ exporting' = [exporting EXCEPT !.rows = rows, !.page = @ + 1,
                                                    !.answer = {}, !.total = {}]
                   /\ UNCHANGED download
    /\ UNCHANGED <<recorded, due, disturbed>>

\* A request failed: "Export failed", and no file.
ExportFails ==
    /\ exporting # NoExport
    /\ exporting' = NoExport
    /\ UNCHANGED <<recorded, download, due, disturbed>>

EntryStep ==
    \/ \E status \in Statuses, late \in 0..MaxLate : CheckedIn(status, late)
    \/ \E i \in 1..MaxEntries : Decided(i)
ExportStep ==
    \/ \E f \in Filters : ExportBegins(f)
    \/ PageFound \/ RowsCounted \/ PageArrived \/ ExportFails

ExportNext == EntryStep \/ ExportStep

ExportSpec == ExportInit /\ [][ExportNext]_exportVars

-----------------------------------------------------------------------------
\* The export of a range that nobody touches meanwhile is that range, every
\* row once and in order.  Rows that come in push others onto a later page:
\* those are exported twice, but none that was there is missed, unless one
\* came in between the two reads of one page.  (A row that leaves the filter
\* pulls another over a page's edge, and that one is lost.)
NoRowLost ==
    \A rows \in download :
        Len(due) <= MaxPages * PageSize =>
            /\ disturbed = {} => rows = due
            /\ disturbed \subseteq {"in"} /\ Len(recorded) <= MaxPages * PageSize =>
                   ToSet(due) \subseteq ToSet(rows)
=============================================================================
