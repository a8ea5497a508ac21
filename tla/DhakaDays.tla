------------------------------ MODULE DhakaDays ------------------------------
(***************************************************************************)
(* The dashboard's figures and the days they are about.  An instant is     *)
(* UTC; a day is Dhaka's, which begins six hours before UTC's (utils/tz.ts *)
(* of the backend, lib/tz.ts of the console).  dashboardService.ts counts  *)
(* today's figures with queries that run side by side and the trend with   *)
(* one aggregation; the console asks for the two apart and shows them in   *)
(* one tile.  On leave and the staff are counted from other collections.   *)
(***************************************************************************)
EXTENDS Integers, FiniteSets

CONSTANTS
    Workers,   \* employees who check in
    DayTicks,  \* instants of a day
    ZoneTicks, \* how many of them Dhaka is ahead of UTC
    TrendDays, \* days of the trend
    Cutoffs,   \* late_arrival_cutoff: last instant of the day that is in time
    MaxDays,   \* bound on the time followed, in days
    MaxArrivals \* bound on the check-ins

ASSUME DhakaAssumption ==
    /\ DayTicks \in Nat \ {0} /\ ZoneTicks \in 0..DayTicks
    /\ {TrendDays, MaxDays, MaxArrivals} \subseteq Nat \ {0}
    /\ Cutoffs \subseteq 0..(DayTicks - 1) /\ Cutoffs # {}

LastTick == MaxDays * DayTicks

VARIABLES
    nowUtc,
    arrivals, \* check-ins in the database: who, and at which instant
    cutoff,   \* the policy's
    count,    \* GET /dashboard/kpis under way: its range and the queries done
    kpis,     \* the console's cached figures
    trend     \* the console's cached trend

dayVars == <<nowUtc, arrivals, cutoff, count, kpis, trend>>

Arrivals == [who : Workers, at : 0..LastTick, id : 1..MaxArrivals]

\* Mutation: the server's own midnight.
DayStartNaive(key) == key * DayTicks

\* todayDhakaKey, toDhakaDateKey, and $dateToString with the zone.
DhakaDateKey(t) == (t + ZoneTicks) \div DayTicks

\* dhakaDayStartUtc, and dhakaDayEndUtc, whose instant is still of the day.
DayStart(key) == key * DayTicks - ZoneTicks
DayEnd(key) == DayStart(key) + DayTicks - 1

\* lastNDhakaDateKeys: the last days, including today.
LastKeys(t, n) == (DhakaDateKey(t) - n + 1)..DhakaDateKey(t)

Within(A, from, to) == {a \in A : from <= a.at /\ a.at <= to}
Whose(A) == {a.who : a \in A}

\* isLateArrival: later on the wall clock than the cutoff, on any day.
IsLate(a, c) == ((a.at + ZoneTicks) % DayTicks) > c

DayTypeOK ==
    /\ nowUtc \in 0..LastTick /\ arrivals \subseteq Arrivals /\ cutoff \in Cutoffs
    /\ DOMAIN count \subseteq {"from", "to", "cutoff", "before", "present", "late"}
    /\ DOMAIN kpis \subseteq {"day", "present", "late", "before", "after"}
    /\ DOMAIN trend \subseteq {"day", "bars", "of"}

NoFigures == [x \in {} |-> 0]

DayInit ==
    /\ nowUtc = DayTicks /\ arrivals = {} /\ cutoff \in Cutoffs
    /\ count = NoFigures /\ kpis = NoFigures /\ trend = NoFigures

Tick ==
    /\ nowUtc < LastTick
    /\ nowUtc' = nowUtc + 1
    /\ UNCHANGED <<arrivals, cutoff, count, kpis, trend>>

\* performCheckin stores the phone's instant; the entry may come in later.
Arrive(who, at) ==
    /\ Cardinality(arrivals) < MaxArrivals
    /\ arrivals' = arrivals \cup {[who |-> who, at |-> at, id |-> Cardinality(arrivals) + 1]}
    /\ UNCHANGED <<nowUtc, cutoff, count, kpis, trend>>

\* updatePolicy.
UpdateCutoff(c) ==
    /\ cutoff' = c
    /\ UNCHANGED <<nowUtc, arrivals, count, kpis, trend>>

\* getDashboardKpis: today's range is taken once, then the policy read.  A
\* reload of the page is as its first load: one of each is followed.
CountBegins ==
    /\ count = NoFigures /\ kpis = NoFigures
    /\ count' = [from |-> DayStart(DhakaDateKey(nowUtc)), to |-> DayEnd(DhakaDateKey(nowUtc)),
                 cutoff |-> cutoff, before |-> arrivals]
    /\ UNCHANGED <<nowUtc, arrivals, cutoff, kpis, trend>>

CountBegun == "from" \in DOMAIN count
With(f, name, value) ==
    [x \in DOMAIN f \cup {name} |-> IF x = name THEN value ELSE f[x]]

\* The queries of Promise.all, each when the database gets to it: distinct
\* employees, and the entries the late ones are taken from.
PresentRead ==
    /\ CountBegun /\ "present" \notin DOMAIN count
    /\ count' = With(count, "present", Whose(Within(arrivals, count.from, count.to)))
    /\ UNCHANGED <<nowUtc, arrivals, cutoff, kpis, trend>>

\* Mutation: the range is taken again.
PresentReadAgain ==
    /\ CountBegun /\ "present" \notin DOMAIN count
    /\ count' = With(count, "present",
            Whose(Within(arrivals, DayStart(DhakaDateKey(nowUtc)), DayEnd(DhakaDateKey(nowUtc)))))
    /\ UNCHANGED <<nowUtc, arrivals, cutoff, kpis, trend>>

LateRead ==
    /\ CountBegun /\ "late" \notin DOMAIN count
    /\ count' = With(count, "late",
            {a \in Within(arrivals, count.from, count.to) : IsLate(a, count.cutoff)})
    /\ UNCHANGED <<nowUtc, arrivals, cutoff, kpis, trend>>

\* The answer: present-now-tile.tsx and kpi-chips.tsx show the same figures.
KpisArrive ==
    /\ {"present", "late"} \subseteq DOMAIN count
    /\ kpis' = [day |-> DhakaDateKey(count.from), present |-> count.present,
                late |-> count.late, before |-> count.before, after |-> arrivals]
    /\ count' = NoFigures
    /\ UNCHANGED <<nowUtc, arrivals, cutoff, trend>>

\* getDashboardTrend: entries from the first day on, counted by their day's
\* key; a day without entries is a bar of none, a later day is left out.
TrendArrives ==
    LET keys == LastKeys(nowUtc, TrendDays)
        rows == {a \in arrivals : a.at >= DayStart(DhakaDateKey(nowUtc) - TrendDays + 1)}
    IN
    /\ trend = NoFigures
    /\ trend' = [day |-> DhakaDateKey(nowUtc), of |-> arrivals,
                 bars |-> [k \in keys |-> Cardinality({a \in rows : DhakaDateKey(a.at) = k})]]
    /\ UNCHANGED <<nowUtc, arrivals, cutoff, count, kpis>>

DayNext ==
    \/ Tick \/ CountBegins \/ PresentRead \/ LateRead \/ KpisArrive \/ TrendArrives
    \/ \E who \in Workers, at \in {nowUtc - 1, nowUtc} : Arrive(who, at)
    \/ \E c \in Cutoffs : UpdateCutoff(c)

DaySpec == DayInit /\ [][DayNext]_dayVars

-----------------------------------------------------------------------------
\* "A naive UTC-midnight boundary silently drops every evening shift": every
\* check-in between the first day's beginning and the last day's end is in
\* one bar, that of its own Dhaka day, and nothing else is in any.
TrendComplete ==
    trend # NoFigures =>
        \A k \in DOMAIN trend.bars :
            trend.bars[k] = Cardinality(Within(trend.of, DayStart(k), DayEnd(k)))

\* Today's figures are about one day, the day the request came in, though
\* midnight, check-ins or a new cutoff may fall between its queries: those
\* present include whoever had checked in when it began and nobody who had
\* not when it ended, and whoever came late was present that day.
KpisOfOneDay ==
    kpis # NoFigures =>
        LET Day(A) == {a \in A : DhakaDateKey(a.at) = kpis.day}
        IN  /\ Whose(Day(kpis.before)) \subseteq kpis.present
            /\ kpis.present \subseteq Whose(Day(kpis.after))
            /\ kpis.late \subseteq Day(kpis.after)

\* The tile shows the headcount over the trend: read on the same day, the
\* headcount is no less than the trend's when it was read earlier.
HeadcountMeetsTrend ==
    /\ kpis # NoFigures /\ trend # NoFigures
    /\ kpis.day = trend.day /\ trend.of \subseteq kpis.before
    => /\ trend.bars[trend.day] > 0 => kpis.present # {}
       /\ trend.of = kpis.after => Cardinality(kpis.present) <= trend.bars[trend.day]

DaysCounted == TrendComplete /\ KpisOfOneDay /\ HeadcountMeetsTrend
=============================================================================
