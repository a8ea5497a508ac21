------------------------------ MODULE ShiftWeek ------------------------------
(***************************************************************************)
(* The working days of a shift: utils/shiftDays.ts, and the Shift document *)
(* whose label is derived when it is saved (models/Shift.ts) and left as   *)
(* it is by an update (employeeService.ts).  Days are 0 (Sunday) to 6.     *)
(***************************************************************************)
EXTENDS Naturals, FiniteSets

CONSTANT TypedLabels \* labels HR types

\* The shapes of a label: "", "Every day", "Sun-Thu", "Sun, Wed, Fri"; a
\* single day is a list of one.
Days == 0..6
RangeLabel(a, b) == <<"range", a, b>>
ListLabel(D) == <<"list", D>>
WeekLabels ==
    {<<"every">>} \cup {RangeLabel(a, b) : a, b \in Days}
    \cup {ListLabel(D) : D \in (SUBSET Days) \ {{}}}

ASSUME WeekAssumption == TypedLabels \subseteq WeekLabels

\* Days from start, len of them, over the end of the week if need be.
Run(start, len) == {(start + i) % 7 : i \in 0..(len - 1)}

\* Mutation: a range that does not run over the end of the week.
ParseNoWrap(label) ==
    IF label[1] = "every" THEN Days
    ELSE IF label[1] = "list" THEN label[2]
    ELSE IF label[1] = "range" THEN {d \in Days : label[2] <= d /\ d <= label[3]}
    ELSE {}

\* parseWeekLabel: a range is walked from its first day until its last.
Parse(label) ==
    IF label[1] = "every" THEN Days
    ELSE IF label[1] = "list" THEN label[2]
    ELSE IF label[1] = "range" THEN Run(label[2], ((label[3] + 7 - label[2]) % 7) + 1)
    ELSE {}

\* deriveWeekLabel; findContiguousRun tries the seven rotations.
Derive(D) ==
    LET len == Cardinality(D)
        starts == {s \in Days : Run(s, len) = D}
        first == CHOOSE s \in starts : \A t \in starts : s <= t
    IN  IF D = {} THEN <<"none">>
        ELSE IF D = Days THEN <<"every">>
        ELSE IF starts = {} \/ len = 1 THEN ListLabel(D)
        ELSE RangeLabel(first, (first + len - 1) % 7)

VARIABLE shift \* {} without a Shift document, or {[days, label]}

WeekTypeOK ==
    \A s \in shift : s.days \subseteq Days /\ s.label \in WeekLabels \cup {<<"none">>}

WeekInit == shift = {}

\* createEmployee: Shift.create parses the label; its pre-save hook derives it.
CreateWeek(label) ==
    /\ shift = {}
    /\ shift' = {[days |-> Parse(label), label |-> Derive(Parse(label))]}

\* updateEmployee: an upsert of the days alone, or of the times alone; the
\* hook does not run.
UpdateWeek(label) ==
    shift' = IF shift = {} THEN {[days |-> Parse(label), label |-> <<"none">>]}
             ELSE {[s EXCEPT !.days = Parse(label)] : s \in shift}

UpdateTimes ==
    /\ shift = {}
    /\ shift' = {[days |-> {}, label |-> <<"none">>]}

WeekNext ==
    \/ \E label \in TypedLabels : CreateWeek(label) \/ UpdateWeek(label)
    \/ UpdateTimes

WeekSpec == WeekInit /\ [][WeekNext]_shift

-----------------------------------------------------------------------------
\* "The two functions round-trip": the label of a shift's days is read back
\* as those days, be they a run over the end of the week, one day or all.
DaysRoundTrip == \A s \in shift : Parse(Derive(s.days)) = s.days
=============================================================================
