------------------------------ MODULE Telemetry ------------------------------
(***************************************************************************)
(* The phone's heartbeats while it is in the foreground:                   *)
(* lib/backgroundTelemetry.js, started and stopped by App.jsx and          *)
(* ProfileScreen.  One timer variable names the last timer set; heartbeats *)
(* await a position and a request, so several may be under way.  The       *)
(* lengths of the intervals, and their backing off, are left out.          *)
(***************************************************************************)
EXTENDS Naturals

CONSTANTS
    MaxStarts, \* bound on startTelemetry calls, and so on the listeners
    MaxBeats   \* bound on the heartbeats under way

ASSUME TelemetryAssumption == MaxStarts \in Nat /\ MaxBeats \in Nat

VARIABLES
    started,   \* config # null
    armed,     \* timers that will fire
    named,     \* timerId names one of them
    beating,   \* heartbeats under way
    listeners, \* appStateChange listeners: added by every start, never removed
    onDuty,    \* inside the shift and signed in
    lapsed     \* ghost: since the start or the last beat, one found neither

telemetryVars == <<started, armed, named, beating, listeners, onDuty, lapsed>>

TelemetryTypeOK ==
    /\ started \in BOOLEAN /\ armed \in Nat /\ named \in BOOLEAN
    /\ beating \in 0..MaxBeats /\ listeners \in 0..MaxStarts
    /\ onDuty \in BOOLEAN /\ lapsed \in BOOLEAN

TelemetryInit ==
    /\ started = FALSE /\ armed = 0 /\ named = FALSE /\ beating = 0
    /\ listeners = 0 /\ onDuty = FALSE /\ lapsed = FALSE

\* clearTimeout(timerId), and what it leaves.
Cleared == IF named THEN armed - 1 ELSE armed

\* Mutation: the timer set before is not cleared.
ScheduleUncleared ==
    /\ armed' = IF started' THEN armed + 1 ELSE armed
    /\ named' = IF started' THEN TRUE ELSE named

\* schedule().
Schedule ==
    /\ armed' = IF started' THEN Cleared + 1 ELSE armed
    /\ named' = IF started' THEN TRUE ELSE named

StartTelemetry ==
    /\ listeners < MaxStarts
    /\ started' = TRUE
    /\ Schedule
    /\ listeners' = listeners + 1
    /\ lapsed' = FALSE
    /\ UNCHANGED <<beating, onDuty>>

StopTelemetry ==
    /\ started' = FALSE
    /\ armed' = Cleared /\ named' = FALSE
    /\ UNCHANGED <<beating, listeners, onDuty, lapsed>>

\* n calls of sendHeartbeat, up to the first await.  Off duty they return,
\* and schedule nothing.
SendHeartbeats(n) ==
    \/ /\ started /\ onDuty
       /\ beating + n <= MaxBeats
       /\ beating' = beating + n /\ lapsed' = FALSE
    \/ started /\ ~onDuty /\ lapsed' = TRUE /\ UNCHANGED beating
    \/ ~started /\ UNCHANGED <<beating, lapsed>>

\* The oldest timer fires, which is the one timerId names if it is the only one.
TimerFires ==
    /\ armed > 0
    /\ armed' = armed - 1
    /\ named' = (named /\ armed > 1)
    /\ SendHeartbeats(1)
    /\ UNCHANGED <<started, listeners, onDuty>>

\* The app comes to the foreground: every listener sends at once.
Foreground ==
    /\ started /\ listeners > 0
    /\ armed' = Cleared /\ named' = FALSE
    /\ SendHeartbeats(listeners)
    /\ UNCHANGED <<started, listeners, onDuty>>

\* Mutation: nothing is scheduled after a failure.
BeatEndsOnce ==
    /\ beating > 0
    /\ beating' = beating - 1
    /\ UNCHANGED <<started, listeners, onDuty, lapsed>>
    /\ Schedule \/ UNCHANGED <<armed, named>>

\* A heartbeat has been sent or has failed; either way the next is scheduled.
BeatEnds ==
    /\ beating > 0
    /\ beating' = beating - 1
    /\ UNCHANGED <<started, listeners, onDuty, lapsed>>
    /\ Schedule

DutyChanges ==
    /\ onDuty' = ~onDuty
    /\ UNCHANGED <<started, armed, named, beating, listeners, lapsed>>

TelemetryNext ==
    \/ StartTelemetry \/ StopTelemetry
    \/ TimerFires \/ Foreground \/ BeatEnds \/ DutyChanges

TelemetrySpec == TelemetryInit /\ [][TelemetryNext]_telemetryVars

-----------------------------------------------------------------------------
\* However many listeners have piled up and heartbeats overlap, one timer at
\* most is set, and none once telemetry was stopped.
OneTimer == armed <= 1 /\ (~started => armed = 0)

\* Heartbeats do not die out while telemetry is on, whatever fails and
\* however often it is restarted - except once one fell off duty.
BeatsGoOn == (started /\ ~lapsed) => armed + beating > 0

HeartbeatChain == OneTimer /\ BeatsGoOn
=============================================================================
