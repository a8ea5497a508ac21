------------------------------ MODULE Perimeter ------------------------------
(***************************************************************************)
(* The backend's perimeter: the blocklist guard, the global rate limiter   *)
(* and the limiter of the route (rateLimiter.ts), and the escalation of    *)
(* repeated rejections to a blocklist entry (incidentBlocklist.ts,         *)
(* incidentService.ts).  Counters live in Redis, the blocklist in MongoDB; *)
(* either may be out of reach between any two awaits, and then requests    *)
(* pass.  Windows and entries lapse at any time: their lengths, and the    *)
(* longer block of a key over its points, are left out.                    *)
(***************************************************************************)
EXTENDS Naturals, FiniteSets

CONSTANTS
    Ips,           \* client addresses
    Routes,        \* limited routes whose limiter escalates (the two logins)
    Points,        \* requests a limiter admits in a window
    PerimeterSlots, \* requests being handled
    MaxRejections  \* bound on the rejections of a key

ASSUME PerimeterAssumption ==
    /\ IsFiniteSet(PerimeterSlots) /\ "global" \notin Routes
    /\ Points \in Nat \ {0} /\ MaxRejections \in Nat

Limiters == Routes \cup {"global"}
LimiterKeys == Ips \X Limiters
EscalationThreshold == 2
NoVisit == <<>>

VARIABLES
    used,        \* points used, by address and limiter
    strikes,     \* the escalation counters
    visits,      \* <<address, route, limiter it is at, next step>>
    recordings,  \* recordIncident calls nobody awaits: <<address, count>>
    blocklist,   \* IncidentBlocklist: escalation_count, 0 without an entry
    redisUp, mongoUp,
    rejections   \* ghost: requests each key was truly rejected for

perimeterVars == <<used, strikes, visits, recordings, blocklist, redisUp, mongoUp, rejections>>

PerimeterTypeOK ==
    /\ used \in [LimiterKeys -> 0..Points]
    /\ strikes \in [LimiterKeys -> Nat]
    /\ visits \in [PerimeterSlots ->
                     (Ips \X Routes \X Limiters \X {"consume", "strike"}) \cup {NoVisit}]
    /\ recordings \subseteq Ips \X Nat
    /\ blocklist \in [Ips -> Nat]
    /\ redisUp \in BOOLEAN /\ mongoUp \in BOOLEAN
    /\ rejections \in [LimiterKeys -> 0..MaxRejections]

PerimeterInit ==
    /\ used = [k \in LimiterKeys |-> 0]
    /\ strikes = [k \in LimiterKeys |-> 0]
    /\ visits = [s \in PerimeterSlots |-> NoVisit]
    /\ recordings = {}
    /\ blocklist = [ip \in Ips |-> 0]
    /\ redisUp = TRUE /\ mongoUp = TRUE
    /\ rejections = [k \in LimiterKeys |-> 0]

KeyOf(s) == <<visits[s][1], visits[s][3]>>
AtStep(s, step) == visits[s] # NoVisit /\ visits[s][4] = step

\* incidentBlocklistGuard: a blocked address gets no further, unless the
\* blocklist cannot be read.
PassGuard(s, ip, route) ==
    /\ visits[s] = NoVisit
    /\ blocklist[ip] = 0 \/ ~mongoUp
    /\ visits' = [visits EXCEPT ![s] = <<ip, route, "global", "consume">>]
    /\ UNCHANGED <<used, strikes, recordings, blocklist, redisUp, mongoUp, rejections>>

\* next(): from the global limiter to that of the route, and then to it.
Passed(s) ==
    visits' = [visits EXCEPT ![s] =
        IF visits[s][3] = "global" THEN <<visits[s][1], visits[s][2], visits[s][2], "consume">>
        ELSE NoVisit]

\* onBlocked is given for the routes, not for the global limiter.
TurnedAway(s) ==
    visits' = [visits EXCEPT ![s] = IF visits[s][3] = "global" THEN NoVisit
                                    ELSE [@ EXCEPT ![4] = "strike"]]

\* Mutation: every failure to consume counts as a rejection.
ConsumeAnyRejection(s) ==
    LET k == KeyOf(s)
    IN
    /\ AtStep(s, "consume")
    /\ \/ /\ redisUp /\ used[k] < Points
          /\ used' = [used EXCEPT ![k] = @ + 1]
          /\ Passed(s)
          /\ UNCHANGED rejections
       \/ /\ redisUp /\ used[k] = Points
          /\ rejections[k] < MaxRejections
          /\ rejections' = [rejections EXCEPT ![k] = @ + 1]
          /\ TurnedAway(s)
          /\ UNCHANGED used
       \/ ~redisUp /\ TurnedAway(s) /\ UNCHANGED <<used, rejections>>
    /\ UNCHANGED <<strikes, recordings, blocklist, redisUp, mongoUp>>

\* limiter.consume: a point, a rejection, or an error of Redis, on which the
\* request passes.
Consume(s) ==
    LET k == KeyOf(s)
    IN
    /\ AtStep(s, "consume")
    /\ \/ /\ redisUp /\ used[k] < Points
          /\ used' = [used EXCEPT ![k] = @ + 1]
          /\ Passed(s)
          /\ UNCHANGED rejections
       \/ /\ redisUp /\ used[k] = Points
          /\ rejections[k] < MaxRejections
          /\ rejections' = [rejections EXCEPT ![k] = @ + 1]
          /\ TurnedAway(s)
          /\ UNCHANGED used
       \/ ~redisUp /\ Passed(s) /\ UNCHANGED <<used, rejections>>
    /\ UNCHANGED <<strikes, recordings, blocklist, redisUp, mongoUp>>

\* incrementBlockCount, then escalateToIncident from the second on; an error
\* of Redis ends the request.
Strike(s) ==
    LET k == KeyOf(s)
        count == strikes[k] + 1
    IN
    /\ AtStep(s, "strike")
    /\ visits' = [visits EXCEPT ![s] = NoVisit]
    /\ \/ /\ redisUp
          /\ strikes' = [strikes EXCEPT ![k] = count]
          /\ recordings' = IF count < EscalationThreshold THEN recordings
                           ELSE recordings \cup {<<k[1], count>>}
       \/ ~redisUp /\ UNCHANGED <<strikes, recordings>>
    /\ UNCHANGED <<used, blocklist, redisUp, mongoUp, rejections>>

\* recordIncident: one upsert, whose failure is only logged.
RecordIncident(r) ==
    /\ r \in recordings
    /\ recordings' = recordings \ {r}
    /\ blocklist' = IF mongoUp THEN [blocklist EXCEPT ![r[1]] = r[2]] ELSE blocklist
    /\ UNCHANGED <<used, strikes, visits, redisUp, mongoUp, rejections>>

\* Windows, the hour of the escalation counter and the day of an entry end.
Lapse ==
    /\ \/ \E k \in LimiterKeys :
            \/ used' = [used EXCEPT ![k] = 0] /\ UNCHANGED <<strikes, blocklist>>
            \/ strikes' = [strikes EXCEPT ![k] = 0] /\ UNCHANGED <<used, blocklist>>
       \/ \E ip \in Ips : blocklist' = [blocklist EXCEPT ![ip] = 0] /\ UNCHANGED <<used, strikes>>
    /\ UNCHANGED <<visits, recordings, redisUp, mongoUp, rejections>>

Outage ==
    /\ \/ redisUp' = ~redisUp /\ UNCHANGED mongoUp
       \/ mongoUp' = ~mongoUp /\ UNCHANGED redisUp
    /\ UNCHANGED <<used, strikes, visits, recordings, blocklist, rejections>>

\* The backend restarts; what nobody awaited is lost.
PerimeterCrash ==
    /\ visits' = [s \in PerimeterSlots |-> NoVisit]
    /\ recordings' = {}
    /\ UNCHANGED <<used, strikes, blocklist, redisUp, mongoUp, rejections>>

PerimeterNext ==
    \/ \E s \in PerimeterSlots :
          \/ Consume(s) \/ Strike(s)
          \/ \E ip \in Ips, route \in Routes : PassGuard(s, ip, route)
    \/ \E r \in recordings : RecordIncident(r)
    \/ Lapse \/ Outage \/ PerimeterCrash

PerimeterSpec == PerimeterInit /\ [][PerimeterNext]_perimeterVars

-----------------------------------------------------------------------------
\* "A brief Redis outage" must not "lock out real users for 24h": whoever is
\* blocked was rejected by the limiter of one route as often as the entry
\* says, twice at least - whatever fails between the rejection, the count
\* and the entry, and in whatever order the entries are written.
OutageNeverBlocks ==
    \A ip \in Ips :
        blocklist[ip] > 0 =>
            \E route \in Routes :
                /\ rejections[<<ip, route>>] >= blocklist[ip]
                /\ blocklist[ip] >= EscalationThreshold
=============================================================================
